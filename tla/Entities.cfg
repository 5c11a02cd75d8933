SPECIFICATION FairSpec
CONSTANTS
  e1 = e1
  e2 = e2
  Entities <- MCEntities
  FormsOf <- MCFormsOf
  MaxPosts = 1
INVARIANTS
  FreedOnceAfterUse
  NothingLeftBehind
  EndedForGood
  OnlyDetectionLoses
PROPERTIES
  BackgroundStreamsEnd
  ClosedIsReclaimed
CHECK_DEADLOCK FALSE
