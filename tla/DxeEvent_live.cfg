SPECIFICATION FairSpec
CONSTANTS
  h1 = h1
  h2 = h2
  g = g
  Handle <- MCHandle
  CheckTimerEvent = CheckTimerEvent
  IdleLoopEvent = IdleLoopEvent
  Group = {g}
  NoGroup = NoGroup
  IdleLoopGroup = IdleLoopGroup
  ExitBootGroup = ExitBootGroup
  VirtualMapGroup = VirtualMapGroup
  NoEvent = NoEvent
  CreateRequests <- LiveRequests
  Delays = {0, 1}
  TimerPeriod = 1
  WaitList <- MCWaitList
  RaiseTargets <- LiveRaise
  Ops = {"Create", "Signal", "SetTimer", "RaiseTpl", "Check", "Wait"}
  SharedOps = {"Signal"}
  DisciplinedClose = TRUE
  ReadsOnce = TRUE
  MaxCalls = 2
  MaxTime = 1
  MaxNesting = 1
PROPERTY
  QueuedIsDispatched
  DueTimerFires
  WaitReturns
CHECK_DEADLOCK FALSE
