SPECIFICATION InboxSpec
CONSTANTS
  Assignments = {a1, a2}
  MaxRun = 3
INVARIANTS
  OwnAssignments
CHECK_DEADLOCK FALSE
