SPECIFICATION Spec
CONSTANTS
  h1 = h1
  h2 = h2
  g = g
  Handle <- MCHandle
  CheckTimerEvent = CheckTimerEvent
  IdleLoopEvent = IdleLoopEvent
  Group = {g}
  NoGroup = NoGroup
  IdleLoopGroup = IdleLoopGroup
  ExitBootGroup = ExitBootGroup
  VirtualMapGroup = VirtualMapGroup
  NoEvent = NoEvent
  CreateRequests <- CloseRequests
  Delays = {1}
  TimerPeriod = 1
  WaitList <- MCWaitList
  RaiseTargets <- MCRaise
  Ops = {"Create", "SetTimer", "Close"}
  SharedOps = {}
  DisciplinedClose = FALSE
  ReadsOnce = TRUE
  MaxCalls = 3
  MaxTime = 1
  MaxNesting = 1
INVARIANT
  ClosedTimerNotPending
CHECK_DEADLOCK FALSE
