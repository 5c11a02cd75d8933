SPECIFICATION FairSpec
CONSTANT MaxValues = 3
INVARIANTS
  OnlyUndecodableOrphaned
  CompleteBeforeDone
PROPERTIES
  SettledStays
  StreamEnds
  ReleasedAtEnd
CHECK_DEADLOCK FALSE
