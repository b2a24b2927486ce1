CONSTANTS
  Names = {"a", "b", "r", "v", "h"}
  LockedNames = {"a"}
  Requests <- MCRequests
  Data <- MCData
  Length <- MCLength
  NoData = "no data"
  Garbled = "garbled"
  HeaderSize = 1
  Capacity = 8
  Beyond = 1
  HwErrSize = 2
  MaxVariableSize = 4
  ReclaimAtEndOfDxe = FALSE
  VolatileCapacity = 5
  Clients <- Faults
  MaxBoots = 1
SPECIFICATION Spec
ACTION_CONSTRAINT Completes
CHECK_DEADLOCK FALSE
INVARIANTS CacheInSync AddedUnique VisibleIsWhole ErasedBeforeWritten AppendFits
PROPERTIES OnlyDeletionRemoves SpacePromised LockedUnchanged ImplementsVariableMap
