SPECIFICATION FairSpec
CONSTANTS
  Boards <- AllBoards
  TableSize = 2
  Timely = TRUE
INVARIANT
  TypeOK
  NothingLeftBehind
  SupportedSucceed
  SuccessMeansInterrupt
PROPERTY
  TestsEnd
CHECK_DEADLOCK FALSE
