SPECIFICATION Spec
CONSTANTS
  b1 = b1
  b2 = b2
  l1 = l1
  Boots = {b1, b2}
  Lanes = {l1}
  LaneOf <- OneLane
  MaxEpochs = 2
  Overlapping = FALSE
INVARIANTS
  
  PublishedHasTree
  QueueOfMarkedEpoch
PROPERTIES
  Reconciled
