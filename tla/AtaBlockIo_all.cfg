\* Two devices, five requests, one command that fails, one allocation that
\* fails, and one reset.
CONSTANTS
  d1 = d1
  d2 = d2
  long = long
  short = short
  third = third
  other = other
  block = block
  Devices = {d1, d2}
  Requests <- MCRequests
  Device <- MCDevice
  Parts <- MCParts
  Blocking = {block}
  RetryTimes = 2
  MaxErrors = 1
  MaxFaults = 1
  MaxResets = 1
SPECIFICATION Spec
INVARIANTS TypeOK SubtasksAccounted TokensTrue ResetFindsNothing
PROPERTIES QueueServedInOrder GivenBackIsLeft AcceptedIsSignalled CallsReturn
