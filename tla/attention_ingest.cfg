SPECIFICATION IngestSpec
CONSTANTS
  Records <- MCRecords
  Id <- MCId
  MaxCells = 4
  MaxFaults = 2
  Chunk = 3
  MaxCarry = 2
INVARIANTS
  OnceInTimeline
  NoSilentLoss
PROPERTIES
  TakenUp
CHECK_DEADLOCK FALSE
