SPECIFICATION Spec
CONSTANTS
  Pids = {1, 2, 3}
  Root = 1
  MaxBirths = 4
PROPERTIES
  
  ProvenMeansGone
