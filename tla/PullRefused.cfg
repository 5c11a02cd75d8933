SPECIFICATION Spec
CONSTANTS
  Capacity = 1
  Deliverers = {d1}
  FaultSites <- OnlySecondLook
  SessionFirst = {}
  MaxSent = 2
INVARIANT RefusedOnlyWhileWaiting
