------------------------------ MODULE DxeEvent ------------------------------
(***************************************************************************)
(* The event, timer and task-priority services of the DXE core             *)
(* (MdeModulePkg/Core/Dxe/Event), with the 8254 timer interrupt handler    *)
(* that drives them.                                                       *)
(*                                                                         *)
(* There is one processor.  What runs is a stack of procedure activations  *)
(* (frames), the running one first; an interrupt pushes its handler on top *)
(* of whatever runs, and CoreRestoreTpl dispatches notification functions  *)
(* in the middle of the calls that lower the priority.  One action is one  *)
(* stretch of code between two points where an interrupt can be taken; the *)
(* sections under gEventQueueLock and mEfiSystemTimeLock run with          *)
(* interrupts disabled and are one action each.                            *)
(*                                                                         *)
(* Operators whose names start with Mutant are faulty variants of the      *)
(* definition that follows them.  No specification uses them: they are     *)
(* there to see that a property notices the fault.                         *)
(***************************************************************************)
EXTENDS LinkedLists, FiniteSets

CONSTANTS
  Handle,           \* pool blocks an IEVENT can be allocated in
  CheckTimerEvent,  \* mEfiCheckTimerEvent
  IdleLoopEvent,    \* gIdleLoopEvent
  Group,            \* event group GUIDs a caller may use
  NoGroup,          \* the zero GUID: an event created without a group
  IdleLoopGroup,    \* gIdleLoopEventGuid
  ExitBootGroup,    \* gEfiEventExitBootServicesGuid
  VirtualMapGroup,  \* gEfiEventVirtualAddressChangeGuid
  NoEvent,          \* a frame that works on no event
  CreateRequests,   \* the (Type, NotifyTpl, EventGroup) callers ask for
  Delays,           \* the TriggerTime arguments of SetTimer
  TimerPeriod,      \* gTimer->GetTimerPeriod: the duration of one tick
  WaitList,         \* the UserEvents array passed to WaitForEvent
  RaiseTargets,     \* the levels tasks raise themselves to
  Ops,              \* the services the tasks use
  SharedOps,        \* those a notification applies to events of others
  DisciplinedClose, \* TRUE: events are closed the way MayClose says
  ReadsOnce,        \* TRUE: the compiler keeps gEventPending, which is not
                    \* volatile, in a register from the test of CoreRestoreTpl's
                    \* loop to HighBitSet64; FALSE: it is read a second time
  MaxCalls,         \* bound: service calls made by tasks, creations aside
  MaxTime,          \* bound: mEfiSystemTime stops advancing here
  MaxNesting        \* bound: interrupt handlers on the stack at a time

Event == Handle \cup {CheckTimerEvent, IdleLoopEvent}

(***************************************************************************)
(* Task priority levels.  mEfiTimerLock and CoreCheckTimers are one below  *)
(* the level that disables interrupts.                                     *)
(***************************************************************************)
TPL_APPLICATION == 4
TPL_CALLBACK    == 8
TPL_NOTIFY      == 16
TPL_HIGH_LEVEL  == 31
TPL_TIMER       == TPL_HIGH_LEVEL - 1

NotifyTpls == {TPL_CALLBACK, TPL_NOTIFY, TPL_TIMER}
Tpls       == NotifyTpls \cup {TPL_APPLICATION, TPL_HIGH_LEVEL}
NoTpl      == 0   \* NotifyTpl of an event without notification function

\* HighBitSet64 (0) is -1, as a gEfiCurrentTpl above all levels.
NoBit == TPL_HIGH_LEVEL + 1

\* The entries of gEventQueue some NotifyTpl can select.
QueueLevels == NotifyTpls \cup {NoTpl}

(***************************************************************************)
(* mEventTable: the valid event types, as sets of flags.                   *)
(***************************************************************************)
mEventTable ==
  { {"TIMER", "SIGNAL"}, {"TIMER"}, {"WAIT"}, {"SIGNAL"},
    {"SIGNAL", "EXIT_BOOT"}, {"SIGNAL", "VIRTUAL_MAP"}, {}, {"TIMER", "WAIT"} }

Groups == Group \cup {NoGroup, IdleLoopGroup, ExitBootGroup, VirtualMapGroup}

ASSUME ConstantsAssumption ==
  /\ CheckTimerEvent # IdleLoopEvent
  /\ {CheckTimerEvent, IdleLoopEvent} \cap Handle = {}
  /\ NoEvent \notin Event
  /\ NoGroup \notin Group \cup {IdleLoopGroup, ExitBootGroup, VirtualMapGroup}
  /\ CreateRequests \subseteq
       [type : mEventTable, tpl : Tpls, group : Groups]
  /\ Delays \subseteq Nat
  /\ TimerPeriod \in Nat \ {0}
  /\ WaitList \in Seq(Handle)
  /\ RaiseTargets \subseteq Tpls \ {TPL_TIMER}
  /\ DisciplinedClose \in BOOLEAN /\ ReadsOnce \in BOOLEAN
  /\ MaxCalls \in Nat /\ MaxTime \in Nat /\ MaxNesting \in Nat

VARIABLES
  tpl,         \* gEfiCurrentTpl
  interrupts,  \* the processor takes interrupts
  pending,     \* gEventPending, as the set of its bits
  queue,       \* gEventQueue, the notifications queued at each level
  signalList,  \* gEventSignalQueue
  timerList,   \* mEfiTimerList
  timerOwner,  \* mEfiTimerLock.OwnerTpl while it is acquired, or NoTpl
  now,         \* mEfiSystemTime
  event,       \* the IEVENT structures
  stack,       \* the activations, the running one first
  calls        \* service calls made so far, creations aside (at most MaxCalls)

vars == <<tpl, interrupts, pending, queue, signalList, timerList, timerOwner,
          now, event, stack, calls>>

(***************************************************************************)
(* The IEVENT structure.                                                   *)
(***************************************************************************)
NewEvent(type, ntpl, group) ==
  [alive |-> TRUE, type |-> type, ntpl |-> ntpl, group |-> group,
   count |-> 0, trigger |-> 0, period |-> 0]

FreeBlock == [NewEvent({}, NoTpl, NoGroup) EXCEPT !.alive = FALSE]

Is(e, flag) == flag \in event[e].type
ExFlag(e)   == event[e].group # NoGroup

(***************************************************************************)
(* Activations.  pc is where the activation continues when it is on top;   *)
(* ev the event it works on; level the task priority level it returns at:  *)
(* the NewTpl of RestoreTpl, for everything else the level it was called   *)
(* at.  arg is the level a task raised itself to (or NoTpl), the highest   *)
(* pending level read (RestoreTpl), the time read (CheckTimers), the delay *)
(* (SetTimer) or a list position (NotifyList, WaitForEvent).               *)
(***************************************************************************)
Frame(proc, pc, ev, level) ==
  [proc |-> proc, pc |-> pc, ev |-> ev, level |-> level, arg |-> 0, mode |-> "none"]

\* The release of a lock forgets the OwnerTpl the acquire stored.
MutantRestoreTo(t) == Frame("RestoreTpl", "while", NoEvent, TPL_APPLICATION)

Task(e)       == Frame("Task", "run", e, tpl)
RestoreTo(t)  == Frame("RestoreTpl", "while", NoEvent, t)
DispatchAt(p) == Frame("Dispatch", "lock", NoEvent, p)
CheckTimers   == Frame("CheckTimers", "lock", CheckTimerEvent, tpl)
Signal(e)     == Frame("Signal", "start", e, tpl)
NotifyList(e) == [Frame("NotifyList", "walk", e, TPL_HIGH_LEVEL) EXCEPT !.arg = 1]
Check(e)      == Frame("CheckEvent", "start", e, tpl)
Close(e)      == Frame("Close", "start", e, tpl)
Wait          == [Frame("Wait", "check", NoEvent, tpl) EXCEPT !.arg = 1]
Isr           == Frame("Isr", "iret", NoEvent, tpl)

SetTimer(e, mode, delay) ==
  [Frame("SetTimer", "remove", e, tpl) EXCEPT !.mode = mode, !.arg = delay]

Top          == Head(stack)
Callers      == Tail(stack)
At(proc, pc) == stack # <<>> /\ Top.proc = proc /\ Top.pc = pc
Continue(pc) == <<[Top EXCEPT !.pc = pc]>> \o Callers
Call(f, pc)  == <<f, [Top EXCEPT !.pc = pc]>> \o Callers

\* Number of interrupt handlers that have not returned.
Nesting == Cardinality({i \in 1..Len(stack) : stack[i].proc = "Isr"})

Init ==
  /\ tpl = TPL_APPLICATION
  /\ interrupts = TRUE
  /\ pending = {}
  /\ queue = [t \in QueueLevels |-> <<>>]
  /\ signalList = <<IdleLoopEvent, CheckTimerEvent>>
  /\ timerList = <<>>
  /\ timerOwner = NoTpl
  /\ now = 0
  /\ event = [e \in Event |->
       IF e = CheckTimerEvent THEN NewEvent({"SIGNAL"}, TPL_TIMER, NoGroup)
       ELSE IF e = IdleLoopEvent
            THEN NewEvent({"SIGNAL"}, TPL_NOTIFY, IdleLoopGroup)
            ELSE FreeBlock]
  /\ stack = <<Frame("Task", "run", NoEvent, TPL_APPLICATION)>>
  /\ calls = 0

-----------------------------------------------------------------------------
(***************************************************************************)
(* Building blocks.                                                        *)
(***************************************************************************)
\* CoreAcquireEventLock ... CoreReleaseEventLock: the section runs at
\* TPL_HIGH_LEVEL with interrupts disabled; the release restores the level
\* the acquire found, on top of the activations `after`.
EventLockSection(after) ==
  /\ tpl' = TPL_HIGH_LEVEL
  /\ interrupts' = FALSE
  /\ stack' = <<RestoreTo(tpl)>> \o after

\* gEventPending is not updated.
MutantNotifyEventNoBit(e) ==
  /\ queue' = [queue EXCEPT ![event[e].ntpl] = InsertTailList(Unlink(@, e), e)]
  /\ UNCHANGED pending

\* The notification goes in front of those that wait already.
MutantNotifyEventHead(e) ==
  LET t == event[e].ntpl
  IN  /\ queue' = [queue EXCEPT ![t] = InsertHeadList(Unlink(@, e), e)]
      /\ pending' = pending \cup {t}

\* CoreNotifyEvent, under gEventQueueLock.
NotifyEvent(e) ==
  LET t == event[e].ntpl
  IN  /\ queue' = [queue EXCEPT ![t] = InsertTailList(Unlink(@, e), e)]
      /\ pending' = pending \cup {t}

\* The timer goes to the tail, whatever its trigger time.
MutantInsertEventTimer(list, e) == InsertTailList(list, e)

\* CoreInsertEventTimer: before the first timer with a later trigger time.
InsertEventTimer(list, e) ==
  LET later == {i \in 1..Len(list) : event[list[i]].trigger > event[e].trigger}
      at    == IF later = {} THEN Len(list) + 1
               ELSE CHOOSE i \in later : \A j \in later : i <= j
  IN  InsertBefore(list, at, e)

Expired(time) == timerList # <<>> /\ event[Head(timerList)].trigger <= time

-----------------------------------------------------------------------------
(***************************************************************************)
(* Tpl.c: CoreRestoreTpl.                                                  *)
(***************************************************************************)
\* (-1 << t) & gEventPending.
MutantUnmasked(t) == {p \in pending : p >= t}

\* The pending levels above t: (-2 << t) & gEventPending.
Unmasked(t) == {p \in pending : p > t}

HighBitSet64(bits) ==
  IF bits = {} THEN NoBit ELSE CHOOSE p \in bits : \A q \in bits : q <= p

\* The loop of CoreRestoreTpl reads gEventPending and finds a level above the
\* target.  Below TPL_HIGH_LEVEL an interrupt can come before the next step,
\* whose own restore may dispatch that level and clear its bit.
RestoreTplTest ==
  /\ At("RestoreTpl", "while")
  /\ Unmasked(Top.level) # {}
  /\ stack' = <<[Top EXCEPT !.pc = "dispatch", !.arg = HighBitSet64(pending)]>> \o Callers
  /\ UNCHANGED <<tpl, interrupts, pending, queue, signalList, timerList, timerOwner,
                 now, event, calls>>

\* The highest pending level, as it was read or as it is when it is read
\* again, becomes the current one and is dispatched.
RestoreTplDispatch ==
  /\ At("RestoreTpl", "dispatch")
  /\ LET p == IF ReadsOnce THEN Top.arg ELSE HighBitSet64(pending)
     IN  /\ tpl' = p
         /\ interrupts' = (interrupts \/ p < TPL_HIGH_LEVEL)
         /\ stack' = <<DispatchAt(p), [Top EXCEPT !.pc = "while", !.arg = 0]>> \o Callers
  /\ UNCHANGED <<pending, queue, signalList, timerList, timerOwner, now, event, calls>>

\* The loop finds nothing more to dispatch.
RestoreTplLoopEnd ==
  /\ At("RestoreTpl", "while")
  /\ Unmasked(Top.level) = {}
  /\ stack' = Continue("set")
  /\ UNCHANGED <<tpl, interrupts, pending, queue, signalList, timerList, timerOwner,
                 now, event, calls>>

\* The new level is set and interrupts are enabled below TPL_HIGH_LEVEL.
RestoreTplSet ==
  /\ At("RestoreTpl", "set")
  /\ tpl' = Top.level
  /\ interrupts' = (interrupts \/ Top.level < TPL_HIGH_LEVEL)
  /\ stack' = Callers
  /\ UNCHANGED <<pending, queue, signalList, timerList, timerOwner, now, event, calls>>

(***************************************************************************)
(* Event.c: CoreDispatchEventNotifies.                                     *)
(***************************************************************************)
\* "ASSERT (OldTpl <= NewTpl)" of CoreRaiseTpl (Tpl.c:68), when the event lock
\* is acquired or an interrupt is taken: the machine stops where it fails.
MayRaise == tpl <= TPL_HIGH_LEVEL

\* The signal state is not cleared.
MutantDispatchTake ==
  /\ At("Dispatch", "lock") /\ MayRaise
  /\ LET p == Top.level
     IN  /\ queue[p] # <<>>
         /\ queue' = [queue EXCEPT ![p] = Tail(@)]
         /\ EventLockSection(<<[Top EXCEPT !.pc = "notify", !.ev = Head(queue[p])]>> \o Callers)
  /\ UNCHANGED <<pending, event, signalList, timerList, timerOwner, now, calls>>

\* Unlink the first notification of the level; the signal state is cleared
\* only for NOTIFY_SIGNAL events.
DispatchTake ==
  /\ At("Dispatch", "lock") /\ MayRaise
  /\ LET p == Top.level  e == Head(queue[p])
     IN  /\ queue[p] # <<>>
         /\ queue' = [queue EXCEPT ![p] = Tail(@)]
         /\ event' = [event EXCEPT ![e].count = IF Is(e, "SIGNAL") THEN 0 ELSE @]
         /\ EventLockSection(<<[Top EXCEPT !.pc = "notify", !.ev = e]>> \o Callers)
  /\ UNCHANGED <<pending, signalList, timerList, timerOwner, now, calls>>

\* Call the notification function, then look at the queue again.
DispatchNotify ==
  /\ At("Dispatch", "notify")
  /\ stack' = <<IF Top.ev = CheckTimerEvent THEN CheckTimers ELSE Task(Top.ev),
                [Top EXCEPT !.pc = "lock", !.ev = NoEvent]>> \o Callers
  /\ UNCHANGED <<tpl, interrupts, pending, queue, signalList, timerList, timerOwner,
                 now, event, calls>>

\* All pending bits are cleared.
MutantDispatchDone ==
  /\ At("Dispatch", "lock") /\ MayRaise
  /\ queue[Top.level] = <<>>
  /\ pending' = {}
  /\ EventLockSection(Callers)
  /\ UNCHANGED <<queue, signalList, timerList, timerOwner, now, event, calls>>

\* The queue of the level is empty: its pending bit is cleared.
DispatchDone ==
  /\ At("Dispatch", "lock") /\ MayRaise
  /\ queue[Top.level] = <<>>
  /\ pending' = pending \ {Top.level}
  /\ EventLockSection(Callers)
  /\ UNCHANGED <<queue, signalList, timerList, timerOwner, now, event, calls>>

(***************************************************************************)
(* Event.c: CoreSignalEvent and CoreNotifySignalList.                      *)
(***************************************************************************)
SignalEvent ==
  /\ At("Signal", "start")
  /\ LET e == Top.ev
     IN  IF event[e].count # 0
         THEN /\ EventLockSection(Callers)
              /\ UNCHANGED <<event, queue, pending>>
         ELSE /\ event' = [event EXCEPT ![e].count = 1]
              /\ IF Is(e, "SIGNAL") /\ ~ExFlag(e)
                 THEN NotifyEvent(e)
                 ELSE UNCHANGED <<queue, pending>>
              /\ EventLockSection(IF Is(e, "SIGNAL") /\ ExFlag(e)
                                  THEN Continue("group") ELSE Callers)
  /\ UNCHANGED <<signalList, timerList, timerOwner, now, calls>>

\* CoreNotifySignalList takes the lock again and walks gEventSignalQueue.
SignalGroup ==
  /\ At("Signal", "group")
  /\ tpl' = TPL_HIGH_LEVEL
  /\ interrupts' = FALSE
  /\ stack' = <<NotifyList(Top.ev), RestoreTo(tpl)>> \o Continue("end")
  /\ UNCHANGED <<pending, queue, signalList, timerList, timerOwner, now, event, calls>>

\* One entry of the walk: a member of the group is queued, whether or not it
\* is signalled, and its own signal state is left alone.
NotifyListEntry ==
  /\ At("NotifyList", "walk")
  /\ Top.arg <= Len(signalList)
  /\ LET e == signalList[Top.arg]
     IN  IF event[e].group = event[Top.ev].group
         THEN NotifyEvent(e)
         ELSE UNCHANGED <<queue, pending>>
  /\ stack' = <<[Top EXCEPT !.arg = @ + 1]>> \o Callers
  /\ UNCHANGED <<tpl, interrupts, signalList, timerList, timerOwner, now, event, calls>>

NotifyListEnd ==
  /\ At("NotifyList", "walk")
  /\ Top.arg > Len(signalList)
  /\ stack' = Callers
  /\ UNCHANGED <<tpl, interrupts, pending, queue, signalList, timerList, timerOwner,
                 now, event, calls>>

\* The lock is acquired once more, only to be released.
SignalEnd ==
  /\ At("Signal", "end")
  /\ EventLockSection(Callers)
  /\ UNCHANGED <<pending, queue, signalList, timerList, timerOwner, now, event, calls>>

(***************************************************************************)
(* Event.c: CoreCheckEvent and CoreWaitForEvent.                           *)
(***************************************************************************)
\* CheckEvent returns to its caller; WaitForEvent looks at the status.
Answer(pc) ==
  IF Callers # <<>> /\ Head(Callers).proc = "Wait"
  THEN <<[Head(Callers) EXCEPT !.pc = pc]>> \o Tail(Callers)
  ELSE Callers

\* EVT_NOTIFY_SIGNAL events cannot be checked.  An unsignalled NOTIFY_WAIT
\* event gets its notification queued, which the release of the lock runs.
\* (The unlocked test and its repetition under the lock are one step: what
\* an interrupt does between them it can do before the first.)
CheckEventQueue ==
  /\ At("CheckEvent", "start")
  /\ LET e == Top.ev
     IN  IF Is(e, "SIGNAL")
         THEN /\ stack' = Answer("return")
              /\ UNCHANGED <<tpl, interrupts, queue, pending>>
         ELSE IF event[e].count = 0 /\ Is(e, "WAIT")
              THEN NotifyEvent(e) /\ EventLockSection(Continue("test"))
              ELSE /\ stack' = Continue("test")
                   /\ UNCHANGED <<tpl, interrupts, queue, pending>>
  /\ UNCHANGED <<signalList, timerList, timerOwner, now, event, calls>>

\* A signalled event is cleared under the lock and reported.
CheckEventClear ==
  /\ At("CheckEvent", "test")
  /\ LET e == Top.ev
     IN  IF event[e].count # 0
         THEN /\ event' = [event EXCEPT ![e].count = 0]
              /\ EventLockSection(Answer("return"))
         ELSE /\ stack' = Answer("next")
              /\ UNCHANGED <<tpl, interrupts, event>>
  /\ UNCHANGED <<pending, queue, signalList, timerList, timerOwner, now, calls>>

WaitForEventCheck ==
  /\ At("Wait", "check")
  /\ stack' = Call(Check(WaitList[Top.arg]), "check")
  /\ UNCHANGED <<tpl, interrupts, pending, queue, signalList, timerList, timerOwner,
                 now, event, calls>>

\* The index is not reset: only the last event is checked from then on.
MutantWaitForEventNext ==
  /\ At("Wait", "next")
  /\ stack' = IF Top.arg < Len(WaitList)
              THEN <<[Top EXCEPT !.pc = "check", !.arg = @ + 1]>> \o Callers
              ELSE Call(Signal(IdleLoopEvent), "check")
  /\ UNCHANGED <<tpl, interrupts, pending, queue, signalList, timerList, timerOwner,
                 now, event, calls>>

\* EFI_NOT_READY: the next event, or the idle loop event and then all again.
WaitForEventNext ==
  /\ At("Wait", "next")
  /\ stack' = IF Top.arg < Len(WaitList)
              THEN <<[Top EXCEPT !.pc = "check", !.arg = @ + 1]>> \o Callers
              ELSE <<Signal(IdleLoopEvent), [Top EXCEPT !.pc = "check", !.arg = 1]>>
                     \o Callers
  /\ UNCHANGED <<tpl, interrupts, pending, queue, signalList, timerList, timerOwner,
                 now, event, calls>>

WaitForEventReturn ==
  /\ At("Wait", "return")
  /\ stack' = Callers
  /\ UNCHANGED <<tpl, interrupts, pending, queue, signalList, timerList, timerOwner,
                 now, event, calls>>

(***************************************************************************)
(* Event.c: CoreCloseEvent.                                                *)
(***************************************************************************)
\* A timer is not cancelled.
MutantCloseEventCancel ==
  /\ At("Close", "start")
  /\ stack' = Continue("unlink")
  /\ UNCHANGED <<tpl, interrupts, pending, queue, signalList, timerList, timerOwner,
                 now, event, calls>>

CloseEventCancel ==
  /\ At("Close", "start")
  /\ stack' = IF Is(Top.ev, "TIMER")
              THEN Call(SetTimer(Top.ev, "cancel", 0), "unlink")
              ELSE Continue("unlink")
  /\ UNCHANGED <<tpl, interrupts, pending, queue, signalList, timerList, timerOwner,
                 now, event, calls>>

\* The event leaves the notification queue (whose pending bit stays as it
\* is) and the list of NOTIFY_SIGNAL events.
CloseEventUnlink ==
  /\ At("Close", "unlink")
  /\ LET e == Top.ev
     IN  /\ queue' = [t \in QueueLevels |-> Unlink(queue[t], e)]
         /\ signalList' = Unlink(signalList, e)
  /\ EventLockSection(Continue("free"))
  /\ UNCHANGED <<pending, timerList, timerOwner, now, event, calls>>

CloseEventFree ==
  /\ At("Close", "free")
  /\ event' = [event EXCEPT ![Top.ev].alive = FALSE]
  /\ stack' = Callers
  /\ UNCHANGED <<tpl, interrupts, pending, queue, signalList, timerList, timerOwner,
                 now, calls>>

(***************************************************************************)
(* Timer.c: CoreSetTimer.                                                  *)
(***************************************************************************)
\* The lock is initialised with TPL_NOTIFY.
MutantTimerLockTpl == TPL_NOTIFY

\* The level mEfiTimerLock is initialised with.
TimerLockTpl == TPL_TIMER

\* The timer lock is acquired and the timer, if it is queued, removed.
SetTimerRemove ==
  /\ At("SetTimer", "remove")
  /\ LET e == Top.ev
     IN  IF ~Is(e, "TIMER")
         THEN stack' = Callers /\ UNCHANGED <<tpl, timerOwner, timerList, event>>
         ELSE /\ timerOwner' = tpl
              /\ tpl' = TimerLockTpl
              /\ timerList' = Unlink(timerList, e)
              /\ event' = [event EXCEPT ![e].trigger = 0, ![e].period = 0]
              /\ stack' = Continue(IF Top.mode = "cancel" THEN "release" ELSE "time")
  /\ UNCHANGED <<interrupts, pending, queue, signalList, now, calls>>

\* A periodic timer with no period gets the period of the timer tick.
SetTimerTime ==
  /\ At("SetTimer", "time")
  /\ LET periodic == Top.mode = "periodic"
         delay    == IF periodic /\ Top.arg = 0 THEN TimerPeriod ELSE Top.arg
     IN  /\ event' = [event EXCEPT ![Top.ev].trigger = now + delay,
                                   ![Top.ev].period  = IF periodic THEN delay ELSE 0]
         /\ stack' = <<[Top EXCEPT !.pc = "insert", !.arg = delay]>> \o Callers
  /\ UNCHANGED <<tpl, interrupts, pending, queue, signalList, timerList, timerOwner,
                 now, calls>>

SetTimerInsert ==
  /\ At("SetTimer", "insert")
  /\ timerList' = InsertEventTimer(timerList, Top.ev)
  /\ stack' = IF Top.arg = 0 THEN Call(Signal(CheckTimerEvent), "release")
                             ELSE Continue("release")
  /\ UNCHANGED <<tpl, interrupts, pending, queue, signalList, timerOwner, now, event, calls>>

SetTimerRelease ==
  /\ At("SetTimer", "release")
  /\ timerOwner' = NoTpl
  /\ stack' = <<RestoreTo(timerOwner)>> \o Callers
  /\ UNCHANGED <<tpl, interrupts, pending, queue, signalList, timerList, now, event, calls>>

(***************************************************************************)
(* Timer.c: CoreCheckTimers, the notification of mEfiCheckTimerEvent.      *)
(***************************************************************************)
CheckTimersLock ==
  /\ At("CheckTimers", "lock")
  /\ timerOwner' = tpl
  /\ tpl' = TimerLockTpl
  /\ stack' = <<[Top EXCEPT !.pc = "loop", !.arg = now]>> \o Callers
  /\ UNCHANGED <<interrupts, pending, queue, signalList, timerList, now, event, calls>>

\* The first timer has expired: it is removed and signalled.
CheckTimersExpire ==
  /\ At("CheckTimers", "loop")
  /\ Expired(Top.arg)
  /\ LET e == Head(timerList)
     IN  /\ timerList' = Tail(timerList)
         /\ stack' = <<Signal(e), [Top EXCEPT !.pc = "period", !.ev = e]>> \o Callers
  /\ UNCHANGED <<tpl, interrupts, pending, queue, signalList, timerOwner, now, event, calls>>

\* A periodic timer is set to its next trigger time; one that is late starts
\* again from now, and the timers are to be checked once more.
CheckTimersPeriod ==
  /\ At("CheckTimers", "period")
  /\ LET e == Top.ev
         next == event[e].trigger + event[e].period
     IN  IF event[e].period = 0
         THEN stack' = Continue("loop") /\ UNCHANGED event
         ELSE IF next <= Top.arg
              THEN /\ event' = [event EXCEPT ![e].trigger = Top.arg]
                   /\ stack' = Call(Signal(CheckTimerEvent), "insert")
              ELSE /\ event' = [event EXCEPT ![e].trigger = next]
                   /\ stack' = Continue("insert")
  /\ UNCHANGED <<tpl, interrupts, pending, queue, signalList, timerList, timerOwner,
                 now, calls>>

CheckTimersInsert ==
  /\ At("CheckTimers", "insert")
  /\ timerList' = InsertEventTimer(timerList, Top.ev)
  /\ stack' = Continue("loop")
  /\ UNCHANGED <<tpl, interrupts, pending, queue, signalList, timerOwner, now, event, calls>>

CheckTimersDone ==
  /\ At("CheckTimers", "loop")
  /\ ~Expired(Top.arg)
  /\ timerOwner' = NoTpl
  /\ stack' = <<RestoreTo(timerOwner)>> \o Callers
  /\ UNCHANGED <<tpl, interrupts, pending, queue, signalList, timerList, now, event, calls>>

(***************************************************************************)
(* The timer interrupt: TimerInterruptHandler of the 8254 driver raises to *)
(* TPL_HIGH_LEVEL, calls CoreTimerTick and restores the interrupted level. *)
(* CoreTimerTick advances the time (up to MaxTime) and, when the first     *)
(* timer has expired, signals mEfiCheckTimerEvent.                         *)
(***************************************************************************)
TimerTick ==
  /\ interrupts /\ MayRaise
  /\ Nesting < MaxNesting
  /\ tpl' = TPL_HIGH_LEVEL
  /\ interrupts' = FALSE
  /\ now' = IF now + TimerPeriod <= MaxTime THEN now + TimerPeriod ELSE MaxTime
  /\ IF Expired(now') /\ event[CheckTimerEvent].count = 0
     THEN /\ event' = [event EXCEPT ![CheckTimerEvent].count = 1]
          /\ NotifyEvent(CheckTimerEvent)
     ELSE UNCHANGED <<event, queue, pending>>
  /\ stack' = <<RestoreTo(tpl), Isr>> \o stack
  /\ UNCHANGED <<signalList, timerList, timerOwner, calls>>

\* The processor's interrupt flag is restored by the return from interrupt.
IsrReturn ==
  /\ At("Isr", "iret")
  /\ interrupts' = TRUE
  /\ stack' = Callers
  /\ UNCHANGED <<tpl, pending, queue, signalList, timerList, timerOwner, now, event, calls>>

-----------------------------------------------------------------------------
(***************************************************************************)
(* Tasks: the program that runs at the bottom of the stack and the         *)
(* notification functions.  They call the services in any order, within    *)
(* the obligations of callers: handles are those of live events, and the   *)
(* services that take mEfiTimerLock or free memory are called at           *)
(* TPL_NOTIFY or below.  The notification of gIdleLoopEvent is             *)
(* CoreEmptyCallbackFunction.                                              *)
(***************************************************************************)
MayCall(op) ==
  /\ At("Task", "run")
  /\ Top.ev # IdleLoopEvent
  /\ op \in Ops
  /\ calls < MaxCalls
  /\ op # "Signal" => tpl <= TPL_NOTIFY

MayCallOn(op, e) ==
  /\ MayCall(op)
  /\ event[e].alive
  /\ Top.ev \in {NoEvent, e} \/ op \in SharedOps

\* An activation that still reads the structure of its event.
Reads(f) ==
  \/ f.proc \in {"CheckEvent", "NotifyList", "Close"}
  \/ f.proc = "Signal" /\ f.pc # "end"
  \/ f.proc = "SetTimer" /\ f.pc # "release"
  \/ f.proc = "Dispatch" /\ f.pc = "notify"
  \/ f.proc = "CheckTimers" /\ f.pc \in {"period", "insert"}

InUse(e) ==
  \E i \in 1..Len(stack) :
    \/ stack[i].ev = e /\ Reads(stack[i])
    \/ stack[i].proc = "Wait" /\ Linked(WaitList, e)

\* What callers of CloseEvent have to see to for the event services to be
\* safe: the event's notification cannot interrupt the call, and the code
\* the caller interrupted is not itself in a call on the event.
MayClose(e) == DisciplinedClose => tpl >= event[e].ntpl /\ ~InUse(e)

CoreState == <<tpl, interrupts, pending, queue, signalList, timerList, timerOwner, now, event>>

Invoke(f) ==
  /\ calls' = calls + 1
  /\ stack' = <<f>> \o stack
  /\ UNCHANGED CoreState

CallSignal(e) == MayCallOn("Signal", e) /\ Invoke(Signal(e))

CallSetTimer(e, mode, delay) ==
  MayCallOn("SetTimer", e) /\ Invoke(SetTimer(e, mode, delay))

CallCheck(e) == MayCallOn("Check", e) /\ Invoke(Check(e))

CallClose(e) == MayCallOn("Close", e) /\ MayClose(e) /\ Invoke(Close(e))

\* WaitForEvent is EFI_UNSUPPORTED above TPL_APPLICATION.
CallWait ==
  /\ MayCall("Wait")
  /\ tpl = TPL_APPLICATION
  /\ WaitList # <<>>
  /\ \A i \in 1..Len(WaitList) : event[WaitList[i]].alive
  /\ Invoke(Wait)

\* CoreRaiseTpl, and CoreRestoreTpl to the level it returned.
CallRaiseTpl(t) ==
  /\ MayCall("RaiseTpl")
  /\ Top.arg = NoTpl
  /\ t > tpl
  /\ tpl' = t
  /\ interrupts' = (interrupts /\ t < TPL_HIGH_LEVEL)
  /\ stack' = <<[Top EXCEPT !.arg = t]>> \o Callers
  /\ calls' = calls + 1
  /\ UNCHANGED <<pending, queue, signalList, timerList, timerOwner, now, event>>

CallRestoreTpl ==
  /\ At("Task", "run")
  /\ Top.arg # NoTpl
  /\ stack' = <<RestoreTo(Top.level), [Top EXCEPT !.arg = NoTpl]>> \o Callers
  /\ UNCHANGED <<tpl, interrupts, pending, queue, signalList, timerList, timerOwner,
                 now, event, calls>>

(***************************************************************************)
(* CoreCreateEventEx and CoreCreateEventInternal.  The event group of the  *)
(* pre-defined types is filled in, and the pre-defined groups turn the     *)
(* type into theirs.                                                       *)
(***************************************************************************)
CreatedType(r) ==
  CASE r.group = ExitBootGroup   -> {"SIGNAL", "EXIT_BOOT"}
    [] r.group = VirtualMapGroup -> {"SIGNAL", "VIRTUAL_MAP"}
    [] OTHER                     -> r.type

CreatedGroup(r) ==
  CASE r.group = NoGroup /\ "EXIT_BOOT"   \in r.type -> ExitBootGroup
    [] r.group = NoGroup /\ "VIRTUAL_MAP" \in r.type -> VirtualMapGroup
    [] OTHER                                         -> r.group

Notifies(type) == type \cap {"SIGNAL", "WAIT"} # {}

InvalidRequest(r) ==
  \/ Notifies(r.type) /\ r.tpl \notin {TPL_APPLICATION, TPL_CALLBACK, TPL_NOTIFY}
  \/ r.group # NoGroup /\ r.type \cap {"EXIT_BOOT", "VIRTUAL_MAP"} # {}
  \/ Notifies(CreatedType(r)) /\ r.tpl \in {TPL_APPLICATION, TPL_HIGH_LEVEL}

\* NOTIFY_SIGNAL events go to the head of gEventSignalQueue.  (Creations are
\* bounded by the blocks and the closes, not by MaxCalls.)
CallCreate(e, r) ==
  /\ MayCall("Create")
  /\ ~event[e].alive
  /\ ~InvalidRequest(r)
  /\ LET type == CreatedType(r)
         ntpl == IF Notifies(type) THEN r.tpl ELSE NoTpl
     IN  /\ event' = [event EXCEPT ![e] = NewEvent(type, ntpl, CreatedGroup(r))]
         /\ signalList' = IF "SIGNAL" \in type THEN InsertHeadList(signalList, e)
                                               ELSE signalList
  /\ EventLockSection(stack)
  /\ UNCHANGED <<pending, queue, timerList, timerOwner, now, calls>>

\* A notification function returns, at the level it was called at.
TaskReturn ==
  /\ At("Task", "run")
  /\ Top.ev # NoEvent
  /\ Top.arg = NoTpl
  /\ stack' = Callers
  /\ UNCHANGED <<tpl, interrupts, pending, queue, signalList, timerList, timerOwner,
                 now, event, calls>>

-----------------------------------------------------------------------------
RestoreTplStep == RestoreTplTest \/ RestoreTplDispatch \/ RestoreTplLoopEnd \/ RestoreTplSet
DispatchStep   == DispatchTake \/ DispatchNotify \/ DispatchDone
SignalStep     == SignalEvent \/ SignalGroup \/ NotifyListEntry \/ NotifyListEnd \/ SignalEnd
CheckStep      == CheckEventQueue \/ CheckEventClear
WaitStep       == WaitForEventCheck \/ WaitForEventNext \/ WaitForEventReturn
CloseStep      == CloseEventCancel \/ CloseEventUnlink \/ CloseEventFree
SetTimerStep   == SetTimerRemove \/ SetTimerTime \/ SetTimerInsert \/ SetTimerRelease
CheckTimersStep ==
  CheckTimersLock \/ CheckTimersExpire \/ CheckTimersPeriod \/ CheckTimersInsert
  \/ CheckTimersDone

\* The services and the interrupt handler, whatever the tasks are.
ServiceStep ==
  \/ RestoreTplStep \/ DispatchStep \/ SignalStep \/ CheckStep \/ WaitStep
  \/ CloseStep \/ SetTimerStep \/ CheckTimersStep \/ IsrReturn

TaskStep ==
  \/ \E e \in Handle :
       \/ CallSignal(e) \/ CallCheck(e) \/ CallClose(e)
       \/ CallSetTimer(e, "cancel", 0)
       \/ \E mode \in {"periodic", "relative"}, d \in Delays : CallSetTimer(e, mode, d)
       \/ \E r \in CreateRequests : CallCreate(e, r)
  \/ CallWait
  \/ \E t \in RaiseTargets : CallRaiseTpl(t)
  \/ CallRestoreTpl
  \/ TaskReturn

Next == ServiceStep \/ TaskStep \/ TimerTick

Spec == Init /\ [][Next]_vars

-----------------------------------------------------------------------------
(***************************************************************************)
(* Properties.                                                             *)
(***************************************************************************)
EventRecord ==
  [alive : BOOLEAN, type : mEventTable, ntpl : NotifyTpls \cup {NoTpl},
   group : Groups, count : {0, 1}, trigger : Nat, period : Nat]

Procs == {"Task", "RestoreTpl", "Dispatch", "CheckTimers", "Signal", "NotifyList",
          "CheckEvent", "Wait", "Close", "SetTimer", "Isr"}

Pcs == {"run", "while", "dispatch", "set", "lock", "notify", "loop", "period", "insert", "start",
        "group", "end", "walk", "test", "check", "next", "return", "unlink", "free",
        "remove", "time", "release", "iret"}

FrameRecord ==
  [proc : Procs, pc : Pcs, ev : Event \cup {NoEvent}, level : Tpls, arg : Nat,
   mode : {"none", "cancel", "periodic", "relative"}]

\* What the procedures keep in their activations.
FrameOK(f) ==
  /\ f.proc = "Task"       => f.arg \in Tpls \cup {NoTpl}
  /\ f.proc = "RestoreTpl" /\ f.pc = "dispatch" => f.arg \in NotifyTpls
  /\ f.proc = "Dispatch"   => f.level \in NotifyTpls /\ (f.pc = "notify" => f.ev \in Event)
  /\ f.proc = "NotifyList" => f.arg > 0
  /\ f.proc = "Wait"       => f.arg \in 1..Len(WaitList)
  /\ f.proc \in {"CheckTimers", "Signal", "NotifyList", "CheckEvent", "Close", "SetTimer"}
       => f.ev \in Event

Activation == {f \in FrameRecord : FrameOK(f)}

\* Type invariant of the event services' data and of the activations.
TypeOK ==
  /\ tpl \in Tpls
  /\ interrupts \in BOOLEAN
  /\ pending \subseteq QueueLevels
  /\ queue \in [QueueLevels -> Seq(Event)]
  /\ signalList \in Seq(Event)
  /\ timerList \in Seq(Event)
  /\ timerOwner \in Tpls \cup {NoTpl}
  /\ now \in Nat
  /\ event \in [Event -> EventRecord]
  /\ stack \in Seq(Activation)
  /\ calls \in Nat

\* The queues and gEventPending agree: a level with queued notifications is
\* pending (or CoreRestoreTpl would never look at it), and an event is queued
\* at most once on a level (CoreNotifyEvent unlinks it first), whatever
\* interrupts, nested dispatches and closes do between two sections under
\* gEventQueueLock.
QueueConsistent ==
  \A t \in QueueLevels :
    /\ queue[t] # <<>> => t \in pending
    /\ NoDuplicates(queue[t])

\* mEfiTimerList is in ascending order of trigger times, without duplicates
\* (CoreInsertEventTimer, and no trigger time changes while it is linked);
\* CoreTimerTick relies on it when it looks at the first timer only.
TimerListSorted ==
  /\ NoDuplicates(timerList)
  /\ \A i, j \in 1..Len(timerList) :
       i < j => event[timerList[i]].trigger <= event[timerList[j]].trigger

\* "High level is implemented by disabling processor interrupts" (Tpl.c:52):
\* interrupts are off at TPL_HIGH_LEVEL, where the event lock is held, and on
\* everywhere else, whatever interrupt handlers and nested dispatches do.
\* (Of a build that reads gEventPending once; see DispatchMayRaise.)
HighLevelMasksInterrupts == interrupts <=> tpl < TPL_HIGH_LEVEL

\* A notification interrupts only code of lower priority: the levels being
\* dispatched strictly increase up the stack, and the current level is never
\* below the level of the innermost dispatch, although ticks dispatch between
\* the test of CoreRestoreTpl's loop and the setting of the level.  It holds of
\* a build that reads gEventPending once there (ReadsOnce).  In one that reads
\* it again a tick between the reads may have dispatched what the test saw, and
\* the next level below, or none, is taken (DispatchMayRaise).
DispatchNests ==
  LET dispatch == {i \in 1..Len(stack) : stack[i].proc = "Dispatch"}
  IN  /\ \A i, j \in dispatch : i < j => stack[i].level > stack[j].level
      /\ \A i \in dispatch : tpl >= stack[i].level

\* Every service returns at the level it was called at, also when it was
\* interrupted or dispatched notifications: a program runs at the level it
\* was started at, and a notification at the level it is dispatched at,
\* unless they raised it themselves.
LevelRestored ==
  At("Task", "run") =>
    /\ tpl = IF Top.arg = NoTpl THEN Top.level ELSE Top.arg
    /\ Top.ev # NoEvent => stack[2].proc = "Dispatch" /\ stack[2].level = Top.level

\* The assertions of CoreAcquireLock and CoreRaiseTpl (Library.c:71,
\* Tpl.c:68): mEfiTimerLock is never acquired while it is held, nor from a
\* level above its own, although its sections can be interrupted.
TimerLockNotReentered ==
  At("CheckTimers", "lock") \/ (At("SetTimer", "remove") /\ Is(Top.ev, "TIMER")) =>
    timerOwner = NoTpl /\ tpl <= TPL_TIMER

\* The memory CoreCloseEvent frees is on no list any more, and no activation
\* goes on to read an event structure that was freed while it was interrupted
\* or while a lock it released dispatched notifications.
NoUseAfterFree ==
  /\ \A e \in Handle : ~event[e].alive =>
       /\ ~Linked(timerList, e)
       /\ ~Linked(signalList, e)
       /\ \A t \in QueueLevels : ~Linked(queue[t], e)
  /\ \A i \in 1..Len(stack) : Reads(stack[i]) => event[stack[i].ev].alive

\* No signal is lost: while SignalCount is set, CoreSignalEvent does nothing,
\* so a signalled NOTIFY_SIGNAL event is queued, or is about to be by the walk
\* of its group (which starts after the lock was released), or is closed.
SignalLatched ==
  \A e \in Event :
    event[e].alive /\ Is(e, "SIGNAL") /\ event[e].count = 1 =>
      \/ Linked(queue[event[e].ntpl], e)
      \/ \E i \in 1..Len(stack) :
           /\ stack[i].ev = e
           /\ \/ stack[i].proc = "Signal" /\ stack[i].pc = "group"
              \/ stack[i].proc = "NotifyList" /\ stack[i].arg <= PositionOf(signalList, e)
              \/ stack[i].proc = "Close" /\ stack[i].pc = "free"

\* "ASSERT (OldTpl <= NewTpl)" (Tpl.c:68): when the dispatcher that CoreRestoreTpl
\* called acquires the event lock, the current level is one to raise from, and
\* not the -1 that HighBitSet64 makes of no bits.
DispatchMayRaise == At("Dispatch", "lock") => MayRaise

\* "If it's a timer event, make sure it's not pending" (Event.c:738): once
\* CoreCloseEvent has cancelled the timer, it is not on mEfiTimerList when
\* the event is unlinked and freed.
ClosedTimerNotPending ==
  At("Close", "unlink") \/ At("Close", "free") => ~Linked(timerList, Top.ev)

-----------------------------------------------------------------------------
(***************************************************************************)
(* Fairness.  The processor goes on executing, a task that raised its      *)
(* level restores it and notifications return; the timer interrupts again  *)
(* and again, and a request that comes while interrupts are disabled stays *)
(* latched in the interrupt controller until they are enabled (strong      *)
(* fairness), but the timer is not so fast that the code a handler         *)
(* interrupted never gets to run (strong fairness, for each number of      *)
(* handlers on the stack).  Tasks need not call anything.                  *)
(***************************************************************************)
Execute == ServiceStep \/ CallRestoreTpl \/ TaskReturn

Fairness ==
  /\ WF_vars(Execute)
  /\ SF_vars(TimerTick)
  /\ \A n \in 0..(MaxNesting - 1) : SF_vars(Nesting = n /\ Execute)

FairSpec == Spec /\ Fairness

Queued(e) == \E t \in QueueLevels : Linked(queue[t], e)

\* A queued notification is eventually dispatched (or withdrawn by a close),
\* also when an interrupt queued it between the last test of CoreRestoreTpl's
\* loop and the setting of the new level, which leaves it pending above that
\* level ("If the new priority unmasks events at a higher priority, they are
\* dispatched", Tpl.c:90).
QueuedIsDispatched == \A e \in Event : Queued(e) ~> ~Queued(e)

Due(e) == Linked(timerList, e) /\ event[e].trigger <= now

\* A timer that is due eventually leaves mEfiTimerList or is set to a later
\* time, also when the time it was set to passed before it was inserted.
DueTimerFires == \A e \in Handle : Due(e) ~> ~Due(e)

\* A program that waits for an armed timer without notification function gets
\* out of CoreWaitForEvent.
WaitingFor(e) ==
  /\ \E i \in 1..Len(stack) : stack[i].proc = "Wait"
  /\ Linked(WaitList, e)
  /\ event[e].type = {"TIMER"}
  /\ Linked(timerList, e)
  /\ event[e].trigger <= MaxTime

WaitReturns ==
  \A e \in Handle : WaitingFor(e) ~> \A i \in 1..Len(stack) : stack[i].proc # "Wait"

-----------------------------------------------------------------------------
\* The levels being dispatched (by one activation each: DispatchNests).
DispatchLevels ==
  {stack[i].level : i \in {j \in 1..Len(stack) : stack[j].proc = "Dispatch"}}

\* The event services implement priority dispatching, in builds that read
\* gEventPending once (ReadsOnce): in the others a dispatch may be nested in one
\* of its own level.
Abstract == INSTANCE EventDispatch WITH Level <- QueueLevels, waiting <- queue, levels <- DispatchLevels

ImplementsEventDispatch == Abstract!Spec
=============================================================================
