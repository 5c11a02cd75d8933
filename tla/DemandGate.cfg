SPECIFICATION FairSpec
CONSTANTS
  Kind = "fifo"
  Capacity = 1
  Faults = 1
  OwnTasks = TRUE
  MaxSent = 4
INVARIANTS
  RetainedBounded
  OneFate
PROPERTIES
  StreamInOrder
  StreamFlows
  CloseReachesListener
