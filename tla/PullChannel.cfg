SPECIFICATION ReplySpec
CONSTANTS
  Capacity = 2
  Deliverers = {d1, d2}
  FaultSites <- AllButSecondLook
  SessionFirst = {"ring"}
  MaxSent = 5
INVARIANTS
  TeeFreedExactlyOnce
  TeeNotUsedAfterFree
  NoLostWakeup
PROPERTIES
  ImplementsContract
  RecvServed
  RecvDisconnects
  CloseReturns
