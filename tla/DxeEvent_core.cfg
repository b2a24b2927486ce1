SPECIFICATION Spec
CONSTANTS
  h1 = h1
  h2 = h2
  g = g
  Handle <- MCHandle
  CheckTimerEvent = CheckTimerEvent
  IdleLoopEvent = IdleLoopEvent
  Group = {g}
  NoGroup = NoGroup
  IdleLoopGroup = IdleLoopGroup
  ExitBootGroup = ExitBootGroup
  VirtualMapGroup = VirtualMapGroup
  NoEvent = NoEvent
  CreateRequests <- CoreRequests
  Delays = {0, 1}
  TimerPeriod = 1
  WaitList <- MCWaitList
  RaiseTargets <- MCRaise
  Ops = {"Create", "Signal", "SetTimer", "Close", "RaiseTpl"}
  SharedOps = {}
  DisciplinedClose = TRUE
  ReadsOnce = TRUE
  MaxCalls = 3
  MaxTime = 2
  MaxNesting = 2
SYMMETRY Symmetry
INVARIANTS
  QueueConsistent
  TimerListSorted
  DispatchNests
  LevelRestored
  TimerLockNotReentered
  NoUseAfterFree
  SignalLatched
PROPERTY
  ImplementsEventDispatch
CHECK_DEADLOCK FALSE
