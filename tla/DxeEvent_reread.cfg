SPECIFICATION Spec
CONSTANTS
  h1 = h1
  h2 = h2
  g = g
  Handle <- MCHandle
  CheckTimerEvent = CheckTimerEvent
  IdleLoopEvent = IdleLoopEvent
  Group = {g}
  NoGroup = NoGroup
  IdleLoopGroup = IdleLoopGroup
  ExitBootGroup = ExitBootGroup
  VirtualMapGroup = VirtualMapGroup
  NoEvent = NoEvent
  CreateRequests <- PolledRequests
  Delays = {1}
  TimerPeriod = 1
  WaitList <- MCWaitList
  RaiseTargets <- LiveRaise
  Ops = {"Create", "SetTimer", "RaiseTpl"}
  SharedOps = {}
  DisciplinedClose = TRUE
  ReadsOnce = FALSE
  MaxCalls = 3
  MaxTime = 3
  MaxNesting = 1
INVARIANT
  DispatchMayRaise
CHECK_DEADLOCK FALSE
