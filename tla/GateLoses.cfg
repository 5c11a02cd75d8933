SPECIFICATION Spec
CONSTANTS
  Kind = "fifo"
  Capacity = 1
  Faults = 0
  OwnTasks = FALSE
  MaxSent = 3
INVARIANT NothingLost
