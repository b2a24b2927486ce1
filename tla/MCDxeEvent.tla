----------------------------- MODULE MCDxeEvent -----------------------------
(***************************************************************************)
(* Instances of DxeEvent for TLC: two pool blocks for events, one group.   *)
(***************************************************************************)
EXTENDS DxeEvent, TLC

CONSTANTS h1, h2, g

MCHandle == {h1, h2}

TimerRequest  == [type |-> {"TIMER", "SIGNAL"}, tpl |-> TPL_CALLBACK, group |-> NoGroup]
GroupTimerRequest == [type |-> {"TIMER", "SIGNAL"}, tpl |-> TPL_CALLBACK, group |-> g]

WaitRequest   == [type |-> {"WAIT"}, tpl |-> TPL_NOTIFY, group |-> NoGroup]
PlainTimerRequest == [type |-> {"TIMER"}, tpl |-> TPL_APPLICATION, group |-> NoGroup]
ExitBootRequest   == [type |-> {"SIGNAL", "EXIT_BOOT"}, tpl |-> TPL_NOTIFY, group |-> NoGroup]
InvalidTplRequest == [type |-> {"SIGNAL"}, tpl |-> TPL_APPLICATION, group |-> NoGroup]

CoreRequests  == {TimerRequest, ExitBootRequest, InvalidTplRequest}
CloseRequests == {GroupTimerRequest}
PolledRequests == {PlainTimerRequest}
LiveRequests  == {GroupTimerRequest, WaitRequest, PlainTimerRequest}

MCWaitList == <<h1, h2>>
MCRaise    == {TPL_NOTIFY, TPL_HIGH_LEVEL}
LiveRaise  == {TPL_NOTIFY}

\* The handles are interchangeable where nobody waits for them.
Symmetry == Permutations(MCHandle)
=============================================================================
