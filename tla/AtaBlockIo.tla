----------------------------- MODULE AtaBlockIo -----------------------------
(***************************************************************************)
(* Non-blocking block I/O on ATA devices: the ATA bus driver, which cuts a *)
(* request into subtasks, one per command, and counts them out, and the    *)
(* ATA pass-through driver below it, which keeps the commands of all the   *)
(* devices of a controller in one list and works on its head from a        *)
(* periodic timer.                                                         *)
(*                                                                         *)
(* A caller is inside a service at TPL_CALLBACK, so there is one at a      *)
(* time; the timer's routine and the callbacks of the subtasks run at      *)
(* TPL_NOTIFY, between any two steps of the caller, each to its end: what  *)
(* the caller does under TPL_NOTIFY, a callback, and a tick of the timer   *)
(* are one step each.  A callback that was signalled runs before the       *)
(* caller goes on, in the order of the signals.                            *)
(*                                                                         *)
(* Operators whose names start with Mutant are faulty variants of the      *)
(* definitions after them, used only to show that the properties can fail. *)
(***************************************************************************)
EXTENDS Integers, Sequences, FiniteSets

CONSTANTS
  Devices,     \* the devices of one controller
  Requests,    \* the calls of ReadBlocksEx, WriteBlocksEx, ReadBlocks...
  Device,      \* the device of a request
  Parts,       \* the commands it takes, of MaxTransferBlockNumber blocks each
  Blocking,    \* the requests without a token that has an event
  RetryTimes,  \* how often the timer looks at a command before it times out
  MaxErrors,   \* bound: commands that fail or time out
  MaxFaults,   \* bound: allocations that fail
  MaxResets    \* bound: calls of AtaBlockIoResetEx

ASSUME AtaAssumption ==
  /\ Device \in [Requests -> Devices] /\ Parts \in [Requests -> Nat \ {0}]
  /\ Blocking \subseteq Requests /\ RetryTimes \in Nat \ {0}
  /\ MaxErrors \in Nat /\ MaxFaults \in Nat /\ MaxResets \in Nat

VARIABLES
  AtaTaskList,          \* per device: the requests that wait
  AtaSubTaskList,       \* per device: the subtasks, <<request, part>>
  Abort,                \* per device: a reset waits for its subtasks
  NonBlockingTaskList,  \* of the controller: the commands
  signalled,            \* the subtasks whose callback is queued
  EventCount,           \* per request: the subtasks not yet counted out
  IsError,              \* per request: its allocations failed on the way
  allocated,            \* the requests whose EventCount and IsError exist
  Token,                \* per request: status, and how often signalled
  caller,               \* where the caller is in a service
  returned,             \* per request: what the call returned
  moved,                \* the parts whose blocks the device has transferred
  errors, faults, resets

lists   == <<AtaTaskList, AtaSubTaskList, Abort>>
shared  == <<EventCount, IsError, allocated>>
below   == <<NonBlockingTaskList, signalled, moved, errors>>
vars    == <<lists, shared, below, Token, caller, returned, faults, resets>>

Subs(r, n) == {<<r, i>> : i \in 1..n}

\* A command as AtaPassThruPassThru queues it.
Task(sub) == [sub |-> sub, RetryTimes |-> RetryTimes]

Statuses == {"none", "success", "device error", "no resources", "aborted"}

Idle == [pc |-> "idle"]
At(pc, r, k) == [pc |-> pc, req |-> r, part |-> k]

Init ==
  /\ AtaTaskList = [d \in Devices |-> <<>>]
  /\ AtaSubTaskList = [d \in Devices |-> {}]
  /\ Abort = [d \in Devices |-> FALSE]
  /\ NonBlockingTaskList = <<>> /\ signalled = <<>>
  /\ EventCount = [r \in Requests |-> 0]
  /\ IsError = [r \in Requests |-> FALSE]
  /\ allocated = {}
  /\ Token = [r \in Requests |-> [status |-> "none", signals |-> 0]]
  /\ caller = Idle /\ returned = [r \in Requests |-> "no"]
  /\ moved = {} /\ errors = 0 /\ faults = 0 /\ resets = 0

(***************************************************************************)
(* The timer of the pass-through driver.  The first n commands of the list *)
(* turn out to be finished; then the list is empty, or the command at its  *)
(* head, which is started if it was not, is not ready, or it fails, which  *)
(* destroys the whole list.                                                *)
(***************************************************************************)
Rest(n) == SubSeq(NonBlockingTaskList, n + 1, Len(NonBlockingTaskList))

Ended(tasks, failed) ==
  [i \in DOMAIN tasks |-> [sub |-> tasks[i].sub, failed |-> failed]]

AsyncNonBlockingTransferRoutine ==
  \E n \in 0..Len(NonBlockingTaskList) :
    LET done == SubSeq(NonBlockingTaskList, 1, n)
        rest == Rest(n)
    IN  /\ moved' = moved \cup {done[i].sub : i \in 1..n}
        /\ \/ /\ rest = <<>>
              /\ NonBlockingTaskList' = <<>>
              /\ signalled' = signalled \o Ended(done, FALSE)
              /\ UNCHANGED errors
           \/ /\ rest # <<>> /\ rest[1].RetryTimes > 1
              /\ NonBlockingTaskList' = [rest EXCEPT ![1].RetryTimes = @ - 1]
              /\ signalled' = signalled \o Ended(done, FALSE)
              /\ UNCHANGED errors
           \/ /\ rest # <<>> /\ errors < MaxErrors
              /\ errors' = errors + 1
              /\ NonBlockingTaskList' = <<>>
              /\ signalled' = signalled \o Ended(done, FALSE) \o Ended(rest, TRUE)

\* The blocking caller that pushes the list to its end holds TPL_NOTIFY.
AtNotify == caller.pc = "push"

Timer ==
  /\ ~AtNotify /\ signalled = <<>>
  /\ AsyncNonBlockingTransferRoutine
  /\ UNCHANGED <<lists, shared, Token, caller, returned, faults, resets>>

(***************************************************************************)
(* The callback of a subtask: counts it out and, at the last one, signals  *)
(* the token of the request and starts the next request of the device.     *)
(***************************************************************************)
Fault == faults < MaxFaults /\ faults' = faults + 1

NextTask(d) == Head(AtaTaskList[d])

\* AccessAtaDevice for the request q that waited: n of its parts are under way
\* when an allocation fails, or all of them.  It finds no subtask of the device
\* (OneRequest, CountedOut), so it does not queue q again.  The callback signals
\* the token of a request that could not be started.
StartQueued(d, subs, counts, tokens, live) ==
  LET q == NextTask(d)
  IN  /\ AtaTaskList' = [AtaTaskList EXCEPT ![d] = Tail(@)]
      /\ \E n \in 0..Parts[q] :
           LET whole == n = Parts[q]
           IN  /\ IF whole THEN UNCHANGED faults ELSE Fault
               /\ AtaSubTaskList' = [subs EXCEPT ![d] = @ \cup Subs(q, n)]
               /\ NonBlockingTaskList' =
                    NonBlockingTaskList \o [i \in 1..n |-> Task(<<q, i>>)]
               /\ EventCount' = [counts EXCEPT ![q] = n]
               /\ IsError' = [IsError EXCEPT ![q] = ~whole]
               /\ allocated' = IF n = 0 THEN live ELSE live \cup {q}
               /\ Token' =
                    IF whole THEN [tokens EXCEPT ![q].status = "success"]
                    ELSE [tokens EXCEPT ![q] = [status |-> "no resources", signals |-> @.signals + 1]]

MutantFreed(sub) ==
  IF IsError[sub[1]] THEN AtaSubTaskList
  ELSE [AtaSubTaskList EXCEPT ![Device[sub[1]]] = @ \ {sub}]

Freed(sub) == [AtaSubTaskList EXCEPT ![Device[sub[1]]] = @ \ {sub}]

MutantStatus(r, failed) ==
  IF Abort[Device[r]] THEN "aborted"
  ELSE IF failed THEN "device error" ELSE Token[r].status

\* What the callback leaves in the token, when it is signalled, and when the
\* callback starts the next request.
Status(r, failed) ==
  IF Abort[Device[r]] THEN "aborted"
  ELSE IF ~IsError[r] /\ failed THEN "device error" ELSE Token[r].status

MutantSignals(r) == EventCount[r] = 1

Signals(r) == EventCount[r] = 1 /\ ~IsError[r]

MutantStartsNext(r) ==
  EventCount[r] = 1 /\ ~IsError[r] /\ AtaTaskList[Device[r]] # <<>>

StartsNext(r) == EventCount[r] = 1 /\ AtaTaskList[Device[r]] # <<>>

AtaNonBlockingCallBack ==
  /\ ~AtNotify /\ signalled # <<>>
  /\ LET sub    == Head(signalled).sub
         r      == sub[1]
         d      == Device[r]
         counts == [EventCount EXCEPT ![r] = @ - 1]
         tokens == [Token EXCEPT ![r] = [status  |-> Status(r, Head(signalled).failed),
                                         signals |-> @.signals + IF Signals(r) THEN 1 ELSE 0]]
         live   == IF EventCount[r] = 1 THEN allocated \ {r} ELSE allocated
     IN  IF StartsNext(r) THEN StartQueued(d, Freed(sub), counts, tokens, live)
         ELSE /\ AtaSubTaskList' = Freed(sub) /\ EventCount' = counts
              /\ Token' = tokens /\ allocated' = live
              /\ UNCHANGED <<AtaTaskList, NonBlockingTaskList, IsError, faults>>
  /\ signalled' = Tail(signalled)
  /\ UNCHANGED <<Abort, caller, returned, moved, errors, resets>>

(***************************************************************************)
(* The caller of a non-blocking request.                                   *)
(***************************************************************************)
Return(r, result) ==
  /\ caller' = Idle
  /\ returned' = [returned EXCEPT ![r] = result]

Calls(r) == caller = Idle /\ signalled = <<>> /\ returned[r] = "no"

Step(pc) == caller.pc = pc /\ signalled = <<>>

Busy(d) == AtaSubTaskList[d] # {}

\* The device is at work: the request waits in AtaTaskList.
Queue(r) ==
  /\ Calls(r) /\ r \notin Blocking /\ Busy(Device[r])
  /\ \/ /\ Fault /\ Return(r, "error")
        /\ UNCHANGED AtaTaskList
     \/ /\ AtaTaskList' = [AtaTaskList EXCEPT ![Device[r]] = Append(@, r)]
        /\ Return(r, "success")
        /\ UNCHANGED faults
  /\ UNCHANGED <<AtaSubTaskList, Abort, shared, below, Token, resets>>

\* The device is free: the objects that the subtasks share are allocated, in one
\* step with the look at the list, since nobody else knows of the request yet.
Begin(r) ==
  /\ Calls(r) /\ r \notin Blocking /\ ~Busy(Device[r])
  /\ Token' = [Token EXCEPT ![r].status = "success"]
  /\ \/ /\ Fault /\ Return(r, "error")
        /\ UNCHANGED shared
     \/ /\ EventCount' = [EventCount EXCEPT ![r] = Parts[r]]
        /\ IsError' = [IsError EXCEPT ![r] = FALSE]
        /\ allocated' = allocated \cup {r}
        /\ caller' = At("subtask", r, 1)
        /\ UNCHANGED <<returned, faults>>
  /\ UNCHANGED <<lists, below, resets>>

InsertSubTask ==
  /\ Step("subtask")
  /\ LET r == caller.req
         k == caller.part
     IN  \/ /\ Fault
            /\ caller' = At("exit", r, k)
            /\ UNCHANGED AtaSubTaskList
         \/ /\ AtaSubTaskList' = [AtaSubTaskList EXCEPT ![Device[r]] = @ \cup {<<r, k>>}]
            /\ caller' = At("transfer", r, k)
            /\ UNCHANGED faults
  /\ UNCHANGED <<AtaTaskList, Abort, shared, below, Token, returned, resets>>

\* CreateEvent, and TransferAtaDevice down to AtaPassThruPassThru.
TransferSubTask ==
  /\ Step("transfer")
  /\ LET r == caller.req
         k == caller.part
     IN  \/ /\ Fault
            /\ caller' = At("exit", r, k)
            /\ UNCHANGED <<NonBlockingTaskList, returned>>
         \/ /\ NonBlockingTaskList' = Append(NonBlockingTaskList, Task(<<r, k>>))
            /\ IF k < Parts[r]
               THEN caller' = At("subtask", r, k + 1) /\ UNCHANGED returned
               ELSE Return(r, "success")
            /\ UNCHANGED faults
  /\ UNCHANGED <<lists, shared, signalled, moved, errors, Token, resets>>

MutantUnbegun(r, k) == Parts[r] - k
MutantUnbegunMore(r, k) == Parts[r] - (k - 2)

\* The parts of a request that were not handed down when part k failed.
Unbegun(r, k) == Parts[r] - (k - 1)

\* An allocation failed: the parts that were not begun are counted out, and the
\* subtask of this one, if there is one, is freed.
Exit ==
  /\ Step("exit")
  /\ LET r    == caller.req
         k    == caller.part
         left == EventCount[r] - Unbegun(r, k)
     IN  /\ Token' = [Token EXCEPT ![r].status = "no resources"]
         /\ EventCount' = [EventCount EXCEPT ![r] = left]
         /\ IsError' = [IsError EXCEPT ![r] = TRUE]
         /\ allocated' = IF left = 0 THEN allocated \ {r} ELSE allocated
         /\ AtaSubTaskList' = Freed(<<r, k>>)
         /\ Return(r, "error")
  /\ UNCHANGED <<AtaTaskList, Abort, below, faults, resets>>

(***************************************************************************)
(* The caller of a blocking request: waits for the device, and for each    *)
(* command pushes the list of the controller to its end.                   *)
(***************************************************************************)
CallBlocking(r) ==
  /\ Calls(r) /\ r \in Blocking
  /\ caller' = At("wait", r, 1)
  /\ UNCHANGED <<lists, shared, below, Token, returned, faults, resets>>

Wait ==
  /\ Step("wait")
  /\ LET d == Device[caller.req]
     IN  AtaTaskList[d] = <<>> /\ AtaSubTaskList[d] = {}
  /\ caller' = [caller EXCEPT !.pc = "push"]
  /\ UNCHANGED <<lists, shared, below, Token, returned, faults, resets>>

Push ==
  /\ caller.pc = "push" /\ NonBlockingTaskList # <<>>
  /\ AsyncNonBlockingTransferRoutine
  /\ UNCHANGED <<lists, shared, Token, caller, returned, faults, resets>>

Pushed ==
  /\ caller.pc = "push" /\ NonBlockingTaskList = <<>>
  /\ caller' = [caller EXCEPT !.pc = "command"]
  /\ UNCHANGED <<lists, shared, below, Token, returned, faults, resets>>

Command ==
  /\ Step("command")
  /\ LET r == caller.req
         k == caller.part
     IN  \/ /\ errors < MaxErrors /\ errors' = errors + 1
            /\ Return(r, "error")
            /\ UNCHANGED moved
         \/ /\ moved' = moved \cup {<<r, k>>}
            /\ IF k < Parts[r]
               THEN caller' = At("push", r, k + 1) /\ UNCHANGED returned
               ELSE Return(r, "success")
            /\ UNCHANGED errors
  /\ UNCHANGED <<lists, shared, NonBlockingTaskList, signalled, Token, faults, resets>>

(***************************************************************************)
(* Reset: AtaTerminateNonBlockingTask, then ResetAtaDevice.                *)
(***************************************************************************)
MutantAborted(token) == [token EXCEPT !.status = "aborted"]

Aborted(token) == [status |-> "aborted", signals |-> token.signals + 1]

Terminate(d) ==
  /\ caller = Idle /\ signalled = <<>>
  /\ resets < MaxResets /\ resets' = resets + 1
  /\ Abort' = [Abort EXCEPT ![d] = TRUE]
  /\ Token' = [r \in Requests |->
                 IF \E i \in DOMAIN AtaTaskList[d] : AtaTaskList[d][i] = r
                 THEN Aborted(Token[r])
                 ELSE Token[r]]
  /\ AtaTaskList' = [AtaTaskList EXCEPT ![d] = <<>>]
  /\ caller' = [pc |-> "drain", dev |-> d]
  /\ UNCHANGED <<AtaSubTaskList, shared, below, returned, faults>>

MutantDrained ==
  /\ Step("drain") /\ AtaTaskList[caller.dev] = <<>>
  /\ caller' = [caller EXCEPT !.pc = "clear"]
  /\ UNCHANGED <<lists, shared, below, Token, returned, faults, resets>>

Drained ==
  /\ Step("drain") /\ AtaSubTaskList[caller.dev] = {}
  /\ caller' = [caller EXCEPT !.pc = "clear"]
  /\ UNCHANGED <<lists, shared, below, Token, returned, faults, resets>>

Clear ==
  /\ Step("clear")
  /\ Abort' = [Abort EXCEPT ![caller.dev] = FALSE]
  /\ caller' = Idle
  /\ UNCHANGED <<AtaTaskList, AtaSubTaskList, shared, below, Token, returned, faults, resets>>

(***************************************************************************)
(* The specification.  The timer is periodic, a callback that was          *)
(* signalled is dispatched, and a caller inside a service goes on; nothing *)
(* makes a caller call.                                                    *)
(***************************************************************************)
Goes == \/ InsertSubTask \/ TransferSubTask \/ Exit
        \/ Wait \/ Push \/ Pushed \/ Command
        \/ Drained \/ Clear

Next ==
  \/ Timer \/ AtaNonBlockingCallBack \/ Goes
  \/ \E r \in Requests : Queue(r) \/ Begin(r) \/ CallBlocking(r)
  \/ \E d \in Devices : Terminate(d)

Fairness ==
  /\ WF_vars(Timer) /\ WF_vars(AtaNonBlockingCallBack) /\ WF_vars(Goes)

Spec == Init /\ [][Next]_vars /\ Fairness

(***************************************************************************)
(* Properties.                                                             *)
(***************************************************************************)
\* Every variable has its type, and the bounds hold.
TypeOK ==
  /\ AtaTaskList \in [Devices -> Seq(Requests)]
  /\ AtaSubTaskList \in [Devices -> SUBSET (Requests \X Nat)]
  /\ Abort \in [Devices -> BOOLEAN]
  /\ NonBlockingTaskList \in Seq([sub : Requests \X Nat, RetryTimes : 1..RetryTimes])
  /\ signalled \in Seq([sub : Requests \X Nat, failed : BOOLEAN])
  /\ EventCount \in [Requests -> Nat] /\ IsError \in [Requests -> BOOLEAN]
  /\ allocated \in SUBSET Requests
  /\ Token \in [Requests -> [status : Statuses, signals : Nat]]
  /\ \/ caller = Idle
     \/ \E pc \in {"subtask", "transfer", "exit"} : \E r \in Requests \ Blocking :
          \E k \in 1..Parts[r] : caller = At(pc, r, k)
     \/ \E pc \in {"wait", "push", "command"} : \E r \in Blocking :
          \E k \in 1..Parts[r] : caller = At(pc, r, k)
     \/ \E pc \in {"drain", "clear"}, d \in Devices : caller = [pc |-> pc, dev |-> d]
  /\ returned \in [Requests -> {"no", "success", "error"}]
  /\ moved \in SUBSET (Requests \X Nat)
  /\ errors \in 0..MaxErrors /\ faults \in 0..MaxFaults /\ resets \in 0..MaxResets

Outstanding(r) == {sub \in AtaSubTaskList[Device[r]] : sub[1] = r}

\* The parts of a request that its caller has not begun yet.
ToCome(r) ==
  IF caller.pc \in {"subtask", "transfer", "exit"} /\ caller.req = r
  THEN Parts[r] - caller.part + IF <<r, caller.part>> \in AtaSubTaskList[Device[r]] THEN 0 ELSE 1
  ELSE 0

\* The counter that the subtasks of a request share exists as long as one of
\* them is outstanding or to come, and counts these: it reaches zero with the
\* last one, whether the callbacks or the failure of an allocation end it, and
\* nobody counts down a counter that was freed.
CountedOut ==
  \A r \in Requests :
    /\ r \in allocated <=> Outstanding(r) # {} \/ ToCome(r) > 0
    /\ r \in allocated => EventCount[r] = Cardinality(Outstanding(r)) + ToCome(r)

\* Every subtask of a device has exactly one command in the list or one queued
\* callback, unless its caller has yet to hand it down; and no command or
\* callback is left of a subtask that was freed.
Entries == [i \in DOMAIN NonBlockingTaskList |-> NonBlockingTaskList[i].sub]
Queued  == [i \in DOMAIN signalled |-> signalled[i].sub]

EachHasOneCommand ==
  LET all  == Entries \o Queued
      held == IF caller.pc \in {"transfer", "exit"} THEN {<<caller.req, caller.part>>} ELSE {}
  IN  /\ \A i, j \in DOMAIN all : all[i] = all[j] => i = j
      /\ {all[i] : i \in DOMAIN all} = (UNION {AtaSubTaskList[d] : d \in Devices}) \ held

\* One request at a time has subtasks on a device: the callback of its last one
\* finds the list empty, so that the request it starts is not queued again, and
\* the command block of the device, which all requests fill in, is not shared.
OneRequest ==
  \A d \in Devices : \A s, t \in AtaSubTaskList[d] : s[1] = t[1]

\* The books of the two drivers and the callers between them agree: the counters
\* that the subtasks share, the subtasks and the commands, whatever step of the
\* caller, the timer or a callback comes next.
SubtasksAccounted == CountedOut /\ EachHasOneCommand /\ OneRequest

\* A token is signalled at most once; that of a request whose call returned an
\* error, and which the caller may have freed, never; and a request is reported
\* done only when the device has transferred all of it, each of its parts.
TokensTrue ==
  \A r \in Requests :
    /\ Token[r].signals <= 1
    /\ returned[r] = "error" => Token[r].signals = 0
    /\ \/ Token[r].signals = 1 /\ Token[r].status = "success"
       \/ r \in Blocking /\ returned[r] = "success"
       => Subs(r, Parts[r]) \subseteq moved

\* When a reset goes on to reset the device, nothing of it is left in any list,
\* and each request it accepted has had its token signalled.
ResetFindsNothing ==
  caller.pc = "clear" =>
    LET d == caller.dev
    IN  /\ AtaTaskList[d] = <<>> /\ AtaSubTaskList[d] = {}
        /\ \A i \in DOMAIN NonBlockingTaskList : Device[NonBlockingTaskList[i].sub[1]] # d
        /\ \A r \in Requests \ Blocking :
             Device[r] = d /\ returned[r] = "success" => Token[r].signals = 1

\* A device whose requests wait for a callback that will not come: no request
\* is under way whose last subtask would start the next.
Stalled(d) == AtaTaskList[d] # <<>> /\ \A r \in allocated : Device[r] # d

\* Requests of a device begin in the order they were accepted: none begins while
\* another waits, except the one that waits longest (or on a stalled device); and
\* the queue loses the callback that would start the next one only in the step
\* that fails to start the request at its head, or that gives up a request begun
\* on a device that had stalled.
QueueServedInOrder ==
  [][/\ \A r \in Requests : r \notin allocated /\ r \in allocated' =>
          LET d == Device[r]
          IN  AtaTaskList[d] = <<>> \/ Head(AtaTaskList[d]) = r \/ Stalled(d)
     /\ \A d \in Devices : ~Stalled(d) /\ Stalled(d)' =>
          faults' > faults \/ caller.pc = "exit"]_vars

GivenBack(r) == returned[r] = "error" \/ Token[r].signals > 0

\* A token that was given back, signalled or with an error, is not written again,
\* except by the callbacks that a reset waits for.
GivenBackIsLeft ==
  [][\A r \in Requests : GivenBack(r) /\ ~Abort[Device[r]] => Token'[r] = Token[r]]_vars

\* A request that was accepted is signalled in the end, unless its device stalls.
AcceptedIsSignalled ==
  \A r \in Requests \ Blocking :
    returned[r] = "success" ~> Token[r].signals = 1 \/ Stalled(Device[r])

\* Every call returns, the blocking ones and a reset included, unless a device
\* stalls: nobody waits for a command that nobody works on.
CallsReturn ==
  caller # Idle ~> caller = Idle \/ \E d \in Devices : Stalled(d)
=============================================================================
