SPECIFICATION Spec
CONSTANTS
  l1 = l1  l2 = l2  r1 = r1  c1 = c1  c2 = c2  k1 = k1  None = None
  Lanes = {l1, l2}
  Resources = {r1}
  Controllers = {c1, c2}
  Commands = {k1}
  Declared <- SharedResource
  MaxRun = 2
  MaxCorrections = 0
  KillOnClose = TRUE
  Relaunch = FALSE
  Overlap = FALSE
SYMMETRY LaneSymmetry
INVARIANTS StatusOfCurrentRun SupervisedLeasesHeld ExclusiveUse OneWorkerPerLane
PROPERTIES RetiredIsFinal ReleasesWhenGone
CHECK_DEADLOCK FALSE
