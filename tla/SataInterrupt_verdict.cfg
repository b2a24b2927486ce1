SPECIFICATION Spec
CONSTANTS
  Boards <- LegacyBoard
  TableSize = 2
  Timely = TRUE
INVARIANT
  SuccessMeansInterrupt
CHECK_DEADLOCK FALSE
