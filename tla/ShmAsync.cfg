SPECIFICATION FairSpec
CONSTANTS
  MaxRequests = 3
  Faults = 1
INVARIANTS
  ProviderHeld
  RequestsAccounted
PROPERTY
  ProviderReclaimed
CHECK_DEADLOCK FALSE
