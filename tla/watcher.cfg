SPECIFICATION Spec
CONSTANTS
  Sources = {1}
  MaxWrites = 2
  MaxFiles = 2
  MaxStarts = 2
  Limit = 2
  Patient = TRUE
  Readable = TRUE
INVARIANTS
  OneService
  
  
PROPERTIES
  MaturesAlone
CHECK_DEADLOCK FALSE
