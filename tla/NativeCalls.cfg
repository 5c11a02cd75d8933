SPECIFICATION MCSpec
CONSTANTS
  Wires <- MCWires
  i1 = i1
  i2 = i2
  t1 = t1
  t2 = t2
  Isolates <- MCIsolates
  Threads <- MCThreads
  UnstableApi = TRUE
  Texts <- MCTexts
  BufferCaps <- MCBufferCaps
  Peers <- MCPeers
  MaxCalls = 2
  MaxRecords = 1
SYMMETRY MCSymmetry
INVARIANTS
  SurfacesAgree
  ReleasedByItsOwner
  NothingLeaked
  OneSink
  DetailIsOwn
  ZidsAreAll
CHECK_DEADLOCK FALSE
