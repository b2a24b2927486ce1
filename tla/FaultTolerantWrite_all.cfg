CONSTANTS
  a = a
  b = b
  Targets = {"nv"}
  Values = {a, b}
  Platforms <- AllPlatforms
SPECIFICATION FairSpec
CHECK_DEADLOCK FALSE
INVARIANTS TypeOK SettledWhenIdle QueueInOrder
PROPERTIES ErasedBeforeWritten AllocateServed ImplementsFtwAtomic BootEnds
