SPECIFICATION FairSpec
CONSTANTS
  l1 = l1  l2 = l2  r1 = r1  c1 = c1  c2 = c2  k1 = k1  None = None
  Lanes = {l1}
  Resources = {r1}
  Controllers = {c1}
  Commands = {k1}
  Declared <- OneLane
  MaxRun = 2
  MaxCorrections = 1
  KillOnClose = FALSE
  Relaunch = FALSE
  Overlap = FALSE
INVARIANT TypeOK
PROPERTIES SupervisionEnds ShutdownSettles
CHECK_DEADLOCK FALSE
