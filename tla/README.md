# A verification project for the ShellTool firmware tree

The repository is an EDK II (UDK2014.SP1) tree to which a set of UEFI shell
tools for SATA controllers and processors has been added
(`ShellPkg/Application/Lexyu_*`, `ShellPkg/Library/Lexyu_SataTestLib*`). The
tools run on the boot services of the DXE core; everything in the tree that is
event driven (the tools' timers and interrupts, the disk drivers, the shell's
waits) rests on the event, timer and task-priority services of
`MdeModulePkg/Core/Dxe/Event`. This project models those services, the tools
in which events and interrupts matter, the drivers on which the firmware's
non-volatile data depend when power is lost (the variable driver and the fault
tolerant write driver below it), and the non-blocking block I/O of the ATA
drivers through which the tools reach their disks. It model-checks them with
TLC, and proves the central invariants of the event services (and that they
implement their abstract specification), the interrupt tests, the variable store
and the ATA requests with TLAPS for every instance.

## 1. Inventory

| Component | State it keeps | Operations | How it interacts | Hard behaviour |
|---|---|---|---|---|
| Event services (`Core/Dxe/Event/Event.c`) | `IEVENT` structures, `gEventQueue` (a FIFO per level), `gEventPending`, `gEventSignalQueue` | CreateEvent(Ex), SignalEvent, CheckEvent, WaitForEvent, CloseEvent; internal queueing and dispatch | every release of the event lock may run notification functions, which may call any service | interrupts and notifications between two critical sections of one call; use of events after they are closed; lost signals |
| Timer services (`Timer.c`) | `mEfiTimerList` (sorted), `mEfiSystemTime`, `mEfiTimerLock` | SetTimer, CoreTimerTick, CoreCheckTimers | the tick signals `mEfiCheckTimerEvent`, whose notification signals expired timers | the tick interrupts half-done list operations; late periodic timers; lock re-entry |
| Task priority levels (`Tpl.c`, `Library/Library.c`) | `gEfiCurrentTpl`, the processor's interrupt flag, lock owners | RaiseTPL, RestoreTPL, acquire/release of locks | RestoreTPL dispatches what it unmasks | nested dispatch, nested interrupts, the gap between test and assignment |
| 8254 timer driver (`PcAtChipsetPkg/8254TimerDxe`) | tick period | interrupt handler | raises to TPL_HIGH_LEVEL, ticks, restores | handlers nest because the restore enables interrupts before `iret` |
| Efievent tool | an 8-bit counter | create, arm, count, close | event services | the counter never reaches its bound |
| SataInterrupt tool | `HasEnterInterrupt`, `gPciIo`, `mPort`, registered vectors, AHCI/PCI/8259/IO-APIC registers | five tests, interrupt handlers | Block I/O, CPU interrupt registration | stale flag between tests, late interrupts, handler that spins, failure paths that use what was not opened |
| CPU interrupt registration (`UefiCpuPkg`) | a handler per vector | register, unregister, call | interrupt handlers of the tools | registering twice; interrupts without a handler are never acknowledged |
| SataReadwritecompare, SataReadwrite | two buffers | write, read, compare every block | Block I/O | loop bounds, ignored failures |
| SataPMTest | port registers | partial/slumber/DevSleep sequences | AHCI registers | polling without end |
| SataFattest | file handles | fixed sequence of file calls | simple file system | handles used after failed opens |
| Cpuid01/02/12, CpuRwmsr, Cpupatch | register tables | read/print, per processor | MP services | table sizes, application processors |
| other SATA tools, SATA test libraries | none | register and BIOS accesses | AHCI, legacy BIOS | none beyond polling |
| Fault tolerant write driver (`FaultTolerantWriteDxe`) | in flash: the work space (working block header, queue of write headers and records) and the spare block; in memory: `FtwLastWriteHeader`, `FtwLastWriteRecord` | Allocate, Write, Restart, Abort, GetLastWrite; at boot InitFtwProtocol | firmware volume block protocol below, variable driver above | power lost between any two flash writes, also during the recovery; the work space is reclaimed through the same spare block the data go through; errors half-way |
| Variable driver (`Universal/Variable/RuntimeDxe`) | the records of the non-volatile store, each with a state byte; its copy in memory, the offset of the last record, two totals; the volatile store | SetVariable, GetVariable, GetNextVariableName, QueryVariableInfo; reclaim; at boot the two initializations, end of DXE, ready to boot, exit boot services | flash through the firmware volume protocol; a reclaim writes the whole store through the fault tolerant write driver | power lost between the seven writes of an update; records in transition left behind; accounting of room; errors half-way |
| ATA bus driver, ATA/ATAPI pass-through driver (`Bus/Ata/AtaBusDxe`, `AtaAtapiPassThru`) | per device the requests that wait and the subtasks under way, a counter per request; per controller the list of commands | ReadBlocksEx and the like, blocking or not; ResetEx; the timer's routine; the callbacks of the subtasks | callers at TPL_CALLBACK, timer and callbacks at TPL_NOTIFY; all devices of a controller share one list | a counter two sides count down; failures with parts under way; reset and blocking calls that spin until callbacks have run |
| Rest of the DXE core | handles, memory map, images | protocol database, loader, dispatcher | all drivers | reference counting of open protocols |
| Everything else (network, USB, setup, platform, Python, StdLib, build tools) | - | - | third party | not considered |

What makes each component correct, as far as it is modelled, is in section 4;
`PROJECT.json` lists the hazards of the code line by line with the properties
that would notice them.

## 2. Plan

1. `LinkedLists`, `DxeEvent`: the event, timer and priority services with the
   timer interrupt; `EventDispatch`: their abstract specification;
   `DxeEventProofs`, `DxeEventSafety`: the proofs. *Done.*
2. `SataInterrupt`: the interrupt tests; `SataInterruptProofs`: the proofs.
   *Done* (bus 0).
3. `FtwAtomic`, `FaultTolerantWrite`: the fault tolerant write driver, power
   lost at every flash write, recovery on the next boot, refinement of an atomic
   write; `FaultTolerantWriteProofs`, `FtwAtomicProofs`: the proofs. *Done.*
4. `VariableMap`, `VariableStore`: the variable driver on top of a fault tolerant
   write that is atomic under losses of power (what 3 shows) and may fail half-way,
   refining a map that survives both; `VariableStoreProofs`, `VariableMapProofs`: its proofs. *Done.*
5. `AtaBlockIo`: the non-blocking requests of the ATA drivers, their timer,
   callbacks and resets. The order in which callbacks run is what
   `EventDispatch` promises. *Modelled and checked* (AHCI, DMA) and proved.
6. SataReadwritecompare, SataFattest, Cpuid12 and SataPMTest as small sequential
   modules with their loop bounds and widths.
7. Proofs still wanted: `ImplementsFtwAtomic` and `SettledWhenIdle` for callers that
   write the working block, and with the errors that section 4 shows to be
   harmless (those outside a reclaim); both are checked on the platforms of
   `FaultTolerantWrite_all`.

## 3. Modules and how they correspond to the code

| Module | What it is |
|---|---|
| `LinkedLists` | `LIST_ENTRY` lists of BaseLib as sequences of the structures linked on them |
| `DxeEvent` | the services, one action per stretch of code between two points where an interrupt can come |
| `EventDispatch` | the abstract specification: FIFO queues per level, strictly nested dispatch (the set of levels being dispatched grows at the top only), a dispatch ends when its queue is empty |
| `MCDxeEvent` | TLC instance: two pool blocks, one group |
| `DxeEventProofs` | TLAPS proofs about `DxeEvent`: types, queues, levels, locks, nesting |
| `DxeEventSafety` | TLAPS proofs for careful callers: lists, timers, freed events, signals; that `DxeEvent` implements `EventDispatch` |
| `SataInterrupt`, `MCSataInterrupt` | the SataInterrupt tool with disk, interrupt paths and handlers, and its instances |
| `SataInterruptProofs` | TLAPS proofs about `SataInterrupt` |
| `FaultTolerantWrite` | the fault tolerant write driver, a change of flash per action, with losses of power and device errors |
| `FtwAtomic` | its abstract specification: a write replaces its block at one moment or not at all |
| `FaultTolerantWriteProofs` | TLAPS proofs about `FaultTolerantWrite`: the queue of the work space and the writes into it |
| `FtwAtomicProofs` | TLAPS proof that `FaultTolerantWrite` implements `FtwAtomic` |
| `MCFaultTolerantWrite` | TLC instances: the platforms of the runs, the symmetry of contents |
| `VariableStore` | the variable driver: the records of the store, a flash write per action, losses of power, failing accesses, boots |
| `VariableMap` | its abstract specification: a map in which a call changes one variable at one moment |
| `MCVariableStore` | TLC instances: the requests, and the clients that fix how many calls, losses of power and errors there are |
| `VariableStoreProofs` | lemmas about sequences, sums and the reclaim; the TLAPS proofs about `VariableStore` |
| `VariableMapProofs` | TLAPS proof that `VariableStore` implements `VariableMap` |
| `AtaBlockIo`, `MCAtaBlockIo` | requests, subtasks and commands of the ATA drivers, and their instance |
| `AtaBlockIoProofs` | TLAPS proofs about `AtaBlockIo` |

### DxeEvent

There is one processor. `stack` is the stack of procedure activations, the
running one first; a frame holds the procedure, where it continues (`pc`), the
event it works on, the level it will return at and one more local. The other
variables are the globals of the C code: `tpl` = `gEfiCurrentTpl`,
`interrupts` = the processor's flag, `pending` = the set bits of
`gEventPending`, `queue` = `gEventQueue`, `signalList` = `gEventSignalQueue`,
`timerList` = `mEfiTimerList`, `timerOwner` = `mEfiTimerLock.OwnerTpl`,
`now` = `mEfiSystemTime`, `event` = the `IEVENT`s (with `alive` for allocated).

* **Critical sections.** A section under `gEventQueueLock` or
  `mEfiSystemTimeLock` runs at TPL_HIGH_LEVEL with interrupts disabled, so it is
  one action; its release is a `RestoreTPL` activation pushed on the stack
  (`EventLockSection`). Sections under `mEfiTimerLock` run one level lower *with
  interrupts enabled* and are split at each access the timer interrupt could
  come before: `SetTimerRemove/Time/Insert/Release`,
  `CheckTimersLock/Expire/Period/Insert/Done`.
* **RestoreTPL** is four actions: the test of the loop that finds a level
  (`RestoreTplTest`), the choice of the highest one and its dispatch
  (`RestoreTplDispatch`), the end of the loop, and the setting of the level. The
  interrupt can come before each. The loop names `gEventPending`, a plain `UINTN`,
  twice (`Tpl.c:120` and `121`), and it is the compiler who decides whether memory
  is read twice: in a build without optimization it is, an optimized one may keep
  it in a register. `ReadsOnce` is TRUE for the second kind: the level
  dispatched is the highest of the bits that the test read, which a tick may have
  dispatched and cleared since. When it is FALSE the bits are read again, and
  `HighBitSet64` may find none (`NoBit`, the -1 of the code). The assertion that
  then stops the machine is `MayRaise`. Between loop and setting of the level a
  notification queued by an interrupt stays pending until the next RestoreTPL, and
  `QueuedIsDispatched` shows that there is one.
* **Dispatch** takes the lock for every notification (`DispatchTake`), calls the
  function after releasing it (`DispatchNotify`), and clears the pending bit
  when the queue is empty (`DispatchDone`).
* **SignalEvent** of an event with a group releases the lock and walks
  `gEventSignalQueue` under the lock taken anew (`SignalGroup`,
  `NotifyListEntry`, `NotifyListEnd`, `SignalEnd`); the walk's steps are single
  actions, the interrupt cannot come in at TPL_HIGH_LEVEL.
* **Interrupt.** `TimerTick` is enabled whenever interrupts are: it pushes the
  handler, which has raised the level, ticked and is about to restore it, and
  `IsrReturn` is the `iret`. `MaxNesting` bounds the handlers on the stack.
* **Tasks.** The program at the bottom of the stack and the notification
  functions are arbitrary: they call any service of `Ops` on live handles, in
  any order, at the levels the services allow, on their own event, or on any event for the services in `SharedOps`,
  and return at the level they were called at. `MaxCalls` bounds their calls,
  creations aside. With `DisciplinedClose`, they close events only when the
  event's notification cannot interrupt the call and no interrupted activation
  is in the middle of a call on that event (`MayClose`): this is what callers
  must see to, no check in the code does it.

Operators named `Mutant...` are faulty variants of definitions of the model (a
forgotten bit, a wrong order, a missing unlink). No specification uses them;
replacing a definition by its mutant must break the property it is listed with
in `PROJECT.json`.

### SataInterrupt

Each test of the tool is a straight line of steps with a jump to `Exit`, so the
module keeps the program as sequences of step names in source order (`PicSteps`,
`ApicSteps`, `SmsiSteps`, `MmsiSteps`, `MsixSteps`, and `ExitSteps` for the code
after `Exit`) and one action per kind of step. `test`, `exiting` and `step` say
where the program is. A step is taken only while no handler runs; the disk and
the interrupt's way go on at any time.

* `board` is what the tool finds: the disk's port, the PCI capabilities, the
  paths that really lead to the processor, and whether the controller falls back to
  one message; and the tests the command's argument selects, one or all in the
  order of the source (`InOrder`). Every run over `AllBoards` starts in all of them.
* `portIE` stands for PxIE and GHC.IE, which AHCI_Set_Port and AHCI_Clear_Port
  always write together; `portIS` for the two bits of PxIS the handler waits for.
* `opened` is what is unmasked or enabled; messages replace the pin. A message or
  an I/O APIC interrupt is latched in `irr` when the condition arises (`Raise`);
  the 8259 is level triggered and asks while it lasts (`PicRequest`).
* A vector without handler is taken but never acknowledged (`Take`), as
  `CommonExceptionHandler` does for external interrupts; all local APIC vectors
  used have one priority class, so one in service keeps the others out.
* `Clear_Interrupt` is enabled when both bits are set: until then the handler
  spins, and the program with it.
* `HasEnterInterrupt`'s wait loop counts rounds, so `Poll` may give up at any
  time; `Timely` restricts this to when no interrupt is on its way.
* `taken` is a history variable for the properties only.

### FaultTolerantWrite

The driver is one sequential program; what interrupts it is the loss of power.
`todo` is what it still has to do, a sequence of steps: an action does the first
step, changes flash at most once, and where the code calls a procedure puts the
procedure's steps in front. The procedures are therefore operators named after
the functions (`FtwWrite`, `FtwWriteRecord`, `FtwReclaimWorkSpace`,
`FlushSpareBlockToTargetBlock`, `InitFtwProtocol`, ...) whose values are
sequences of steps; the order of flash accesses, on which everything depends,
can be read off them. `header`, `record` and `offset` stand for the pointers
`FtwLastWriteHeader`, `FtwLastWriteRecord` and FtwAllocate's local `Offset`;
`buffer` and `spareBuffer` for the copies in memory.

* **Flash.** An area (target, working block, spare block) is two flash blocks,
  erased and written one after the other, so an area can be found half done. A
  block holds data, or is erased, or holds the work space: the header, its bits
  `valid` and `invalid`, and a queue of cells as long as a header or a record.
  One write to a block and the setting of one bit are atomic.
* **Where the last write is.** `FtwGetLastWriteHeader` and
  `FtwGetLastWriteRecord` walk the queue as the C functions do, also over cells
  that hold something else than they expect (an erased header counts more
  writes than there is room for).
* **Overwriting.** A record written over another takes an unpredictable target
  (`"unknown"`), as flash that is not erased does.
* **Loss of power** (`PowerLoss`) is possible before and after every step, in the
  recovery too, and leaves only `flash`. **Errors** (`DeviceError`): a flash access or an
  allocation of a service fails without effect, and the service returns.
* **Refinement.** `Available(t)` is what would be found in block `t` if the power went
  now: the spare block if a record says it is complete and its target not,
  else the block itself, and `"damaged"` when it is torn. `ImplementsFtwAtomic`
  says that this changes from the old to the new contents in one step.

### VariableStore

`flash` is the sequence of records of the non-volatile store and `tail` what
follows them; a record has its name, attributes and value, its `state` (the
state byte) and `whole`, whether the body was written. Lengths are kept, because
records are found by walking from header to header and because room is what
updates run out of. `cache`, `last` and `totals` are `mNvVariableCache`,
`NonVolatileLastVariableOffset` and the two total sizes.

* **An update** is a `job` with a program counter, and each action is one access
  to flash with what the code computes from it: mark the old record as in
  transition, place the new header (or reclaim), write its state, its body, its
  added state, delete the record in transition and the old one. A deletion is two
  of these steps. What never comes to flash (refusals, repetitions, volatile
  variables) is one action each. `Clients` says which requests a behaviour may
  make and how many calls, losses of power and errors there are, and at which
  points accesses may fail.
* **Reclaim** (`ReclaimAll`, `ReclaimNew`, `Promoted`) keeps what is added and, of
  what is in transition, what has no added record of its name. Written to the end,
  or with the power lost, the store is replaced at one moment (`Reclaimed`), as
  `FtwAtomic` promises.
* **A reclaim that fails** (`FtwFails`) leaves what `FtwWrite` may leave on its error
  paths (`WriteFails`): the store as it was, written up to one of its blocks (`Torn`),
  or written. `ftw` is what the fault tolerant write driver makes of it later. Once
  the record was complete in the spare block, further writes are refused (`Refuses`,
  `Restarts`), and the next boot writes the spare block to the store, unless the
  record says that this is done (`Restarts`). Until then the driver goes on with
  what is in flash, half a store included, and the copy and the totals it makes of
  that; what it changes is undone by the restart. `NextBoot` is the store that the
  next boot finds.
* **Loss of power** leaves `flash`; `VariableServiceInitialize` and
  `VariableWriteServiceInitialize` find the end of the store, reclaim it if what
  follows is not erased, and build the copy and the totals again.
* **Refinement.** `Stored(n)` is what a reader would find of `n` after the next boot.
  `ImplementsVariableMap` says that a call changes it at one moment, that a
  success means it was changed, and that contents which were replaced or deleted
  do not come back. The map has a flag, `lasting`, which is false from a failed
  reclaim that the next boot restarts to that boot: in between a success promises
  nothing, and the map is what the restart will write.

### AtaBlockIo

A request is cut into `Parts` subtasks, one command each. `AtaTaskList` and
`AtaSubTaskList` are the lists of the bus driver, `NonBlockingTaskList` the
controller's list of the pass-through driver, `EventCount` and `IsError` the
objects that the subtasks of a request share (`allocated` while they exist),
`signalled` the queue of subtask events whose callbacks have not run.

* **Levels.** Callers are inside a service at TPL_CALLBACK, one at a time; the
  timer's routine and the callbacks run at TPL_NOTIFY. What a caller does under
  TPL_NOTIFY, a tick and a callback are therefore one action each, and a callback
  that was signalled comes before the caller goes on. `caller` says where the
  caller is.
* **Timer** (`AsyncNonBlockingTransferRoutine`): some commands at the head of the
  list turn out to be finished; then the next one is not ready, or it fails or
  times out, which destroys the whole list, whosever commands are in it.
* **Callback** (`AtaNonBlockingCallBack`): counts a subtask out, writes and
  signals the token of its request, and with the last one starts the request that
  waits longest, which may itself fail half-way (`StartQueued`).
* **Callers**: `Queue` or `Begin`, then `InsertSubTask` and `TransferSubTask` for
  each part, or `Exit` when an allocation fails; blocking calls `Wait` for the
  device and `Push` the list to its end before each command; a reset terminates
  what waits (`Terminate`), waits for what is under way (`Drained`) and clears
  `Abort`.

## 4. Runs

| Run | Checks | Shows |
|---|---|---|
| `DxeEvent_core` | `QueueConsistent`, `TimerListSorted`, `DispatchNests`, `LevelRestored`, `TimerLockNotReentered`, `NoUseAfterFree`, `SignalLatched`, `ImplementsEventDispatch` | in builds that read `gEventPending` once, the structural invariants hold and the services refine `EventDispatch` |
| `DxeEvent_live` | `QueuedIsDispatched`, `DueTimerFires`, `WaitReturns` | nothing queued or due is forgotten and a wait for an armed timer ends, under fairness |
| `DxeEvent_close` | `ClosedTimerNotPending` (violated) | finding 1 |
| `DxeEvent_reread` | `DispatchMayRaise` (violated) | finding 4 |
| `SataInterrupt_all` | `TypeOK`, `NothingLeftBehind`, `SupportedSucceed`, `SuccessMeansInterrupt`, `TestsEnd` | on all boards the tests of argument `a` find what works, up to the first path that does not, and end; with failures of every call the message tests leave the port quiet and report no false success |
| `SataInterrupt_verdict` | `SuccessMeansInterrupt` (violated) | finding 2 |
| `FaultTolerantWrite_all` | `TypeOK`, `SettledWhenIdle`, `QueueInOrder`, `ErasedBeforeWritten`, `AllocateServed`, `ImplementsFtwAtomic`, `BootEnds` | three platforms: single writes with a reclaim of the work space and two losses of power; writes into the working block itself; two writes under one header with losses of power and an error. Each write is atomic, every boot settles what was left and ends, none of its assertions fails |
| `FaultTolerantWrite_reclaim` | `SettledWhenIdle` (violated) | finding 3 |
| `VariableStore_single` | `CacheInSync`, `AddedUnique`, `VisibleIsWhole`, `ErasedBeforeWritten`, `AppendFits`, `OnlyDeletionRemoves`, `SpacePromised`, `LockedUnchanged`, `ImplementsVariableMap` | up to four calls, up to two losses of power, or a failing access, or both, two boots, reclaims that fail half-way included, where a call that finds two records of its name gets past the first (`Completes`): what the next boot finds is a map, and what is in memory agrees with flash |
| `VariableStore_deleted` | `DeletedIsGone` (violated) | finding 5 |
| `VariableStore_enumerate` | `EnumerationComplete` (violated) | finding 6 |
| `AtaBlockIo_all` | `TypeOK`, `SubtasksAccounted`, `TokensTrue`, `ResetFindsNothing`, `QueueServedInOrder`, `GivenBackIsLeft`, `AcceptedIsSignalled`, `CallsReturn` | counters, subtasks and commands agree in every interleaving of callers, timer and callbacks; tokens tell the truth, once; calls return |

The type invariants of `DxeEvent` and `VariableStore` and
`HighLevelMasksInterrupts` are not in the runs: they are proved for every
instance (section 5).

**Bounds.** Two pool blocks are the fewest with which one event can be queued in
front of another, timers can be ordered, and a block can be freed and reused
while another event is live; the two internal events (`mEfiCheckTimerEvent`,
`gIdleLoopEvent`) come on top. `MaxCalls = 3` allows arm-signal-close and
close-recreate-arm sequences (creations are not counted), `MaxTime = 2` with
delays 0 and 1 gives timers that are due at once, later, and never within the
bound, and periodic timers that are late; `MaxNesting = 2` allows an interrupt
inside an interrupt's restore. The liveness run has two calls, `MaxTime = 1` and
one handler: arm and wait, or arm and signal. Raised levels are a maskable one
and TPL_HIGH_LEVEL. The requests of the core run are a timer with notification at
TPL_CALLBACK, an exit-boot event (a member of a group, at TPL_NOTIFY) and an
invalid request. The handles are symmetric where no `WaitList` is used and no
liveness is checked. `CHECK_DEADLOCK FALSE`: when calls and time are used up and
the program is at its end, the instance really stops.

For the fault tolerant write driver, two flash blocks per area are the fewest
with which an area can be half erased; one block would hide finding 3. A queue
of four cells holds two single writes and is then reclaimed; the one of six on
the platform with two writes under a header holds two such groups (the caller has
private data, so that single writes do not come between and the header to
reclaim lies where `FtwAllocate` looks); the six cells of the platform that
writes the working block are more than its two calls fill. Two losses of power let the recovery itself be
interrupted. The contents are symmetric in the runs without a liveness property. Calls
are bounded, so the instances stop: `CHECK_DEADLOCK FALSE`.

For the variable store, headers are one unit long and bodies one or three, in a
store of eight: three or four records fill it, an update may or may not need a
reclaim, and a record may fit where another does not. One client updates two
variables (one of them locked) with records of one length, one a variable of the
operating system, one mixes two lengths, a hardware error record (two units are
kept for these) and a variable that is volatile or not. Each has three or four
calls and one loss of power or one failing access, and one restart besides; the
client of the operating system's variable has two losses, or one and a failing
access, and the one of two lengths four calls without either. The step that leads to
the states of finding 5 is left out by an action constraint (`Completes`), which
is the hypothesis of the theorems in `VariableMapProofs`; a behaviour of one call
after one interruption only meets it when that call then has no room. The run
that shows finding 5 has two losses and no constraint.
`CHECK_DEADLOCK FALSE`: the calls are bounded.

For the ATA drivers, one request of two commands and two of one on the same
device let a request wait for another and a third behind it; the second device
has a request and a blocking one, so that commands of both devices share the
list. One failing command, one failing allocation and one reset, each at any
place, are what one request can meet; `RetryTimes = 2` lets a command be looked
at again before it times out. The run reaches a stalled queue, a request given
back with an error while its parts are under way, a token of a device that had
no error marked with one, and a blocking command issued while the list is not
empty. Deadlock is checked: the timer always ticks.

**Fairness** (`FairSpec`). The processor executes (`WF` on `Execute`: the steps
of services, the restore of a raised level and the return of notification
functions); tasks need not call anything. The timer interrupts again and again
and a request that comes while interrupts are masked stays latched in the
interrupt controller (`SF` on `TimerTick`). The timer is not so fast that the
interrupted code never runs: `SF` on execution for each nesting depth, which is
what a tick of 10 ms against handlers of microseconds gives. In
`FaultTolerantWrite` the processor goes on (`WF` on `Driver`); calls, losses of
power and errors need not happen, and losses of power are finitely many. In
`AtaBlockIo` the timer is periodic (created and set by the driver's Start), a
signalled callback is dispatched (`QueuedIsDispatched`), and a caller inside a
service goes on (`WF` for each); nobody needs to call.

**SataInterrupt's bounds and fairness.** Ports 0 and 1 with two MSI-X entries are
the cases in which vectors of different tests coincide (MMSI on port 1 uses the
vector of APIC and SMSI) and in which the MSI-X table has an entry that is not
the port's. The program, the disk and the interrupt delivery each go on (`WF`);
`TestsEnd` is about boards on which nothing fails, because a handler entered for a
command that failed spins for ever in the code. `CHECK_DEADLOCK FALSE`: the program ends.

**Findings.**

1. `Event.c:738` promises that a closed timer is not pending. `CoreSetTimer`
   cancels it, releases the timer lock - which runs notifications - and only then
   the event lock is taken. A notification that re-arms its own timer in this gap
   leaves the freed event on `mEfiTimerList`.
2. The PIC and APIC tests leave `HasEnterInterrupt` set when they fail after their
   interrupt: the next test prints "Success" without one.
3. `FtwMisc.c:1201`: a boot reclaims a full work space before it asks whether it
   is valid. If power was lost while the working block was being replaced, its
   valid copy in the spare block is overwritten with half erased contents. It
   takes areas of more than one flash block.
4. `Tpl.c:121`: in a build that reads `gEventPending` again for `HighBitSet64`, a tick
   after the loop's test may dispatch the level that was tested and clear its bit.
   Then the level is -1 and the next raise trips the assertion of `Tpl.c:68`
   (`DxeEvent_reread`: a timer that is due while a program restores its level), or
   a lower level that is being dispatched is dispatched on top of itself. In the
   run's trace one level is pending; without assertions `gEventQueue[-1]` would be
   used.
5. `Variable.c:1773`: a deletion removes the record that was found and at most
   one in transition. Two updates interrupted by losses of power leave two in
   transition and none added; a deletion then returns success and the older
   contents are found again.
6. `Variable.c:877`: `GetNextVariableName` starts at the first record that is
   added. A variable left in transition by an update that failed is found by
   GetVariable but not listed when its record lies before that one.

Also seen: `Tpl.c:90` says that the notifications the new level unmasks are
dispatched, but one queued by an interrupt between the loop's last test and the
assignment of the level waits for the next RestoreTPL. `DxeEvent_live` shows that
there is one.

The passing run of `FaultTolerantWrite` stays within four limits, beyond which
other instances of it break the same properties (the parameters are those of a
platform in `MCFaultTolerantWrite`):

* Allocations that do not fit (`FaultTolerantWrite.c:118`): `FtwAllocate` computes
  the header's place, then reclaims the work space, which moves everything, and
  writes at the old place. The call succeeds and the next service finds no header.
  `AllocateServed` fails with `requests = {1, 2}`, `queue = 4` and four calls.
* Unfinished records (`FaultTolerantWrite.c:426`): one that is not the first of
  its header is not given up at boot, and the next write is recorded over it, in
  flash that is not erased. `ErasedBeforeWritten` allows this for a record of the
  same target, which changes no bit; with two targets it would be violated.
* Misplaced headers (`FtwMisc.c:1284`): a boot reclaims a work space that has
  something after its last record, such as a header that did not fit, through the
  spare block before it restarts the write whose data are there.
  `ImplementsFtwAtomic` fails with `requests = {1, 2}`, `queue = 4`, five
  calls and two losses of power.
* Errors in a reclaim (`UpdateWorkingBlock.c:158`): no service tests whether the
  work space is valid, and writes after a reclaim that failed are recorded where
  the next boot does not look. `ImplementsFtwAtomic` fails with `queue = 2`,
  three calls, one error and one loss of power; the platform with errors has room
  enough that no service reclaims.

Limits of the passing run of `VariableStore`, beyond which its properties fail:

* A call that is cut off behind its new record, by a loss of power or an error in
  one of its last two steps, leaves the old record in transition next to the
  added one. The next call about the variable marks that one too and removes the
  old one only at its end: when it is cut off in between, or finds no room, both
  are in transition (finding 5). Then a reclaim can bring the older contents
  back, also of a locked variable on the way to the operating system:
  `AddedUnique`, `LockedUnchanged` and `ImplementsVariableMap` fail. `Completes`
  excludes this step and no other.
* An error in the write of a state or a body leaves half a record without a loss
  of power, and the next update writes over it.
* A reclaim that fails after the store was written leaves the totals too small;
  with records of two lengths `AppendFits` then fails after five calls.

After a reclaim that failed half-way the properties about contents, `VisibleIsWhole`,
`OnlyDeletionRemoves`, `LockedUnchanged` and `ImplementsVariableMap`, speak of what
the next boot finds, and they hold of that. What happens until then they do not
forbid, because the code does it: variables are missing or have half of their
contents for a reader, and calls that return success are undone by the restart.
`CacheInSync` and `ErasedBeforeWritten` speak of the flash as it is.

And what `AtaBlockIo` shows of the ATA drivers, listed as hazards: the commands of all
devices are destroyed by one that fails (`AtaAtapiPassThru.c:419`), whatever the
comment there says of one task; a queue whose head cannot be started waits for
the next call (`AtaPassThruExecute.c:727`), on which the liveness properties are
conditional (`Stalled`); a reset that waits for what is left of a request whose
call returned an error has its token written again (line 677).

## 5. Proofs

`DxeEventProofs` proves, for every set of handles and groups, all requests, delays
and bounds (`ConstantsAssumption`), as theorems of `Spec` with `ReadsOnce` (a build
that reads `gEventPending` once in the loop of `CoreRestoreTpl`; of others they are
false, see finding 4):
`TypeCorrect` (`TypeOK`), `QueuesConsistent` (`QueueConsistent`),
`HighLevelMasks` (`HighLevelMasksInterrupts`), `LevelIsRestored`
(`LevelRestored`), `TimerLockIsFree` (`TimerLockNotReentered`) and
`DispatchesNest` (`DispatchNests`).

None of these is inductive by itself. That a service returns at the level it was
called at is a fact about the frames *below* the running one, so the invariant
`IndInv` speaks about the whole stack (`StackOK`): each activation runs at a
level determined by the activation above it (`LevelOK`: the level the upper one
will restore), levels never decrease up the stack, a dispatch sits directly on the
`RestoreTPL` that started it with a lower target, notifications sit on
dispatches, and the program is the bottom. `LockOK` adds that at most one
activation holds the timer lock and that the lock's owner level is that
activation's. With levels monotone, whoever wants the timer lock runs at
TPL_NOTIFY or is the check-timers notification at its own level, and the holder
below would force the level above it: that is why the lock is free.
`CheckTimerEventOK` (the internal event is queued at its own level only) links
queues and stack, `QueueConsistent` and `HighLevelMasksInterrupts` complete the
invariant. `InitInv`, `NextInv` (one lemma per action) and `Inductive` are the
three facts; `PushStack`, `PopStack`, `ReplaceTop`, `LockPush`, `LockPop` say
once what pushing, popping and replacing a frame preserve. `SmallestNat`
(every non-empty set of naturals has a least element) stands in for induction.

A `RestoreTPL` between its test and the dispatch keeps in its frame a level above its
target that it may enter (part of the invariant), whatever ticks have made of
`gEventPending` meanwhile: that is what reading once is needed for.

`DxeEventSafety` goes on from there, for the same builds and for callers that are careful (`Careful`):
where events are closed at all, a notification works on its own event only and an
event is closed only when no interrupted activation is in the middle of a call on it
(`MayClose`). The first passing run is such an instance; for other callers
`DxeEvent_close` shows a closed timer that is still pending. `FreedIsUnused`
(`NoUseAfterFree`), `TimersSorted` (`TimerListSorted`), `SignalsLatched`
(`SignalLatched`) and `ClosedTimersCancelled` (`ClosedTimerNotPending`) follow from
`SafeInv`. Between them stands the question which activation may touch which
event. `ListsOK` says that what is on a list is allocated, of the list's type and
at its own level; `FramesSafe` that what an activation works on is allocated, that a
timer it has taken off the list is on no list, and that an event about to be freed
is on none; `PairsOK` which activation may be above which: nothing interrupts the
walk of the signal list, nothing below a close uses the event that is closed, and
above it there is only `CoreCheckTimers` with its signal until the cancelling of
the timer is through; `CancelsOK`, `SignalsKnown` and `Latched` are the facts the
theorems are about while a close or a signal is under way. The timer list is sorted between any
two accesses although the trigger time of a timer is written before it is inserted,
because it is not linked then and only its owner inserts it.

`DxeEventSafety` also proves `ImplementsDispatch`: with the queues as they are and the
levels of the dispatches on the stack as the levels being dispatched, the initial
states map to initial states and every action to a step of `EventDispatch` or a
stutter. It needs the same callers: an event created in the block of a freed one
that is still queued would wait on two levels. The abstract specification keeps the
levels as a set, since the nesting makes the order of the stack theirs.

`SataInterruptProofs` proves, for every set of boards, each with a sequence of
tests in the order of the source, any failures, any port and every size of the MSI-X
table (`ToolAssumption`): `TypesKept` (`TypeOK`), `NothingLeft`
(`NothingLeftBehind`), `WorkingBoardsPass` (`SupportedSucceed`, where tests do not
give up on an interrupt that is on its way, `Timely`) and `SuccessIsHeard`
(`SuccessMeansInterrupt`, where besides either nothing fails or only tests with
messages run; `SataInterrupt_verdict` shows that it is false without this). These
are what the passing run assumes of its boards.

The invariant `IInv` has four parts. `CourseOK` says what the steps so far have done
to the port, the handlers, the path and the verdict, on every board; it needs only
the order of the steps, which `RunCourse` and `ExitCourse` give as positions
(`RegisterAt`, `OpenAt`, ...). `WaitsOwn` says that only the test that waits can be
interrupted, and by its own path: it holds as long as all tests have succeeded
(`Clean`) or where a test that gives up leaves nothing on its way (`Tame`).
`Undone` says that tests that succeeded have undone what they did and that the
interrupt a test waits for is the only one. `SupportedGoOn` then shows that a
supported test cannot give up: the port has asked, its path is open, its handler is
registered and no other interrupt is in service, so one is on its way
(`SupportedNotSilent`). A step of the program is described once by its place in the
course (`RunWrites`, `ExitWrites`, one case per action in `ProgramEffect`); each
conjunct is then kept by going on, by the last step of a test, by a jump to Exit and
by an early return, and by the disk, the processor and the handler. That a
controller which has fallen back to one message cannot call another test's handler
rests on the order of the tests (`ExpectedOwn`).

`VariableStoreProofs` proves, for every set of names, requests, contents, lengths
and sizes (`StoreAssumption`), as theorems of `Spec`: `Typed` (`TypeOK`),
`InSync` (`CacheInSync`), `Whole` (`VisibleIsWhole`), `Erased`
(`ErasedBeforeWritten`), `Fitting` (`AppendFits`), `NothingVanishes`
(`OnlyDeletionRemoves`) and `RoomTold` (`SpacePromised`), all under `CleanAppends`: the client's accesses do not
fail in the three writes that leave half a record nor in the write of a reclaimed
store, and there is room behind the store in its volume. With half a record several
of the properties do fail (section 4); reclaims that fail are left to TLC. Losses of
power stay possible everywhere.

`IndInv` is `StoreOK /\ JobOK /\ RestOK /\ CleanAppends`. `StoreOK` says that
flash is the copy in memory, followed while a record is being appended by what
the call has written of it (`Pending`), that the totals are the sums of the
copy, which keep to their limits, and that what is visible is whole. `JobOK` says
what the positions a call remembers still mean at every step (`Progress`), which
is what `OnlyDeletionRemoves` needs: when a record is dropped, a whole one of the
same name is behind it. The sums are recursive functions over sequences, and a
reclaim removes records: the lemmas show, without induction over an operator, that the
selected records of a store sum up to no more than the store and that the whole
store is walked by `Used` in the same total. For `RoomTold`, what a reclaim copies
beside the call's own record is among the records `QueryVariableInfo` counts
(`CopiedListed`, `CopiedCounted`), because that record is in transition by then
(`RoomInv`).

`VariableMapProofs` proves `OneAdded` (`AddedUnique`), `LockedStay`
(`LockedUnchanged`) and `IsMap` (`ImplementsVariableMap`) of the behaviours of
`Spec` that keep to `CleanAppends` and in which every step satisfies `Completes`:
a call that has found two records of its name and not yet removed the first is not
cut off and has room. Losses of power, failing accesses and calls without room are
otherwise unlimited. Without the hypothesis the three are false (section 4), and
the passing run has the same.

The invariant is `IndInv /\ MapInv`. Between calls a name has at most one record in
transition and behind it at most one that is added (`OldAndNew`). While a call is
at work on a name, `Updating` says which of the positions it remembers the visible
records of that name are, and in which states; for the other names nothing has
changed (`OthersOK`). A call that is cut off gives back `OldAndNew` (`CutOff`):
that is where `Completes` is needed. `FoundBest` says that a search
finds an added record, or the last in transition (`Best`), so that what a reader
finds (`Stored`) is the contents of `Best` (`StoredIs`), and `Less` which changes of
a store it survives: records may be moved and dropped as long as `Best` stays.
`NextEffect` then gives, for every action, what it does to the map (`Effect`: nothing,
the call's variable becomes its outcome, or the volatile ones are lost), with one
lemma for each step of a call, for a reclaim with and without a new record, and for
a restart. The three theorems read it off; for `IsMap`, each kind of effect is an
action of `VariableMap`.

`AtaBlockIoProofs` proves, for every set of devices and requests, every number of
commands of each, and any number of errors, failing allocations and resets
(`AtaAssumption`), as theorems of `Spec`: `TypesHold` (`TypeOK`),
`SubtasksStayAccounted` (`SubtasksAccounted`), `TokensStayTrue` (`TokensTrue`),
`ResetsFindNothing` (`ResetFindsNothing`), `GivenBackStays` (`GivenBackIsLeft`) and
`QueuesServed` (`QueueServedInOrder`). They do not use fairness.

That a counter reaches zero with the last callback needs to know that there is
one command for each subtask (`OneCommand`), which needs to know which subtask
the caller has just inserted and not yet handed down (`Held`), which needs to
know that the subtasks of the request being made are those before the caller's
part (`SubsOK`, `CallerOK`). The invariant `IndInv` joins these with what is said
of requests that wait (`QueueOK`: accepted, queued once, not begun), of tokens
(`TokenOK`: a request that was accepted is signalled, begun or waiting), of
the parts of a request (`WholeOK`: transferred, under way or to come) and of a
reset (`ResetOK`). `Once` states that two sequences hold each element of a set at
one place; the timer moves commands from one to the other (`MoveMarks`). The
callback, which may start the next request half-way, is described once (`Shape`)
and used for each conjunct. Invariant and actions meet in `NextStep`.

`FaultTolerantWriteProofs` proves, for every set of platforms (`FtwAssumption`), as
theorems of the behaviours of `Spec` in which `RoomForHeader` holds:
`TypesKept` (`TypeOK`), `OrderKept` (`QueueInOrder`), `AllocationsServed`
(`AllocateServed`), and `ErasedFirst` (`ErasedBeforeWritten`) where callers write one
block. Any number of losses of power and of failing flash accesses and memory
allocations may come at any step.

`RoomForHeader` says that the header FtwAllocate is about to write has its records'
room behind it. It excludes a header that stays at its old place after a reclaim
(section 4, the first limit of the run), and nothing else: without it `OrderKept`
and `AllocationsServed` are false. It cannot fail
where callers ask for one write at a time, as the variable driver does:
`RoomForOneWrite` proves it of `Spec` for all such platforms, and `OneWriteAtATime`
draws the conclusion without any condition. `ErasedFirst` needs the one block
because of the unfinished records of section 4: with two, a record is written
over that of the other.

The invariant is `IInv`. `Placed`, `Stored`, `Pointed` and `Requested` give the
types; in `Stored`, every work space there is in flash or memory, valid or not,
keeps its queue in order (`GoodQueues`, `InOrder`), since a loss of power may make any
of them the one that the next boot finds. `Planned` is about the steps a call has
still to do, a sequence that a caller of a function puts its callees' steps in
front of: `Linked` says which step may come behind which (`Follows`; blocks are
erased before they are written, a header is looked up before it is used), and
`Tracked` that a lookup of the last header is preceded by the check for a full
queue or by a reclaim. From the first follows that the block a `Write` writes was
erased by the steps before it (`Cleared`) and that the header a service uses is the
one the queue has now (`Looked`); from the second that there is room behind it,
because each of the nineteen steps of a reclaim hands on a queue with room, from
the buffer to the spare block, to the working block and into memory (`Room`).
The walk of `FtwGetLastWriteHeader` is a recursive function over the queue;
`HeaderBounds`, `HeadersSame` and `HeaderCompleted` say where it ends and which
writes it does not notice, by induction downwards from the last cell
(`DownwardInduction`). `HeaderWritten`, `RecordWritten`, `MarkInOrder` and
`KeptInOrder` are what each write and the reclaim do to a queue in order; one lemma
per action, as in `StepKeeps`, then keeps the invariant.

`FtwAtomicProofs` proves that the driver keeps its main promise, for all contents,
blocks, sizes of the work space, numbers of calls and losses of power:
`AtomicWrites` (`ImplementsFtwAtomic`: a write replaces its block at one moment or
not at all, and has done so when it returns success) and `Settled`
(`SettledWhenIdle`). The hypothesis on the platforms is `Steady`, and each part of it
excludes something that the code does not survive or that the proof leaves to TLC:

* no flash access or allocation fails (`faults = 0`). After an error in a reclaim
  the next writes are recorded where no boot looks (section 4), and after one
  half-way through the copy to the target FtwAbort gives up the only whole
  contents. `FaultTolerantWrite_all` checks the refinement on a platform with an
  error, without that service and with room enough that none reclaims;
* callers do not write the working block. Finding 3 is the loss of what they wrote
  there; such writes are checked with a queue that does not fill;
* callers write one block, or ask for one write at a time, because of the
  unfinished records of section 4: the next write is recorded over one, and where
  that is of another block, the bits of the two are mixed.

Like the others the two theorems are about behaviours with `RoomForHeader`: a
misplaced header makes the next boot reclaim a work space with a write
in it. `OneAtomicWriteAtATime` needs no such condition; its callers ask for one
write at a time, as the variable driver does, and may write any number of blocks.

The invariant is `AInv`, on top of `IInv` (`Recoverable` is the theorem that both
hold). `QueueInOrder` and the like speak of what is in flash; whether a write
survives depends on what is in flash *and* on what is left to do, so:

* `Shape` says that the steps to do are quiet ones (they touch neither a caller's
  block nor the state of the working block), or a write from its step k on
  (`WriteAt`), or a reclaim from its step k on (`MoveAt`), each followed by quiet
  ones only: a write and a reclaim never nest. `WriteAt(t, k)` and `MoveAt(k)` say
  what the flash and the buffers hold before step k, as a proof outline of the C
  functions would: in a write, the spare block's contents equal the buffer before
  its record is marked complete, and the target's equal those of the spare block
  before the mark that gives up the latter.
* `SpareKept`: contents that are in the spare block only are whole, and the driver is
  in the rest of that write, in the boot before its restart, or in the restart.
  `TargetsWhole`: all other blocks are whole in their own places. So nothing erases a
  spare block that counts.
* `Shelved`: a work space that is not valid is so in a reclaim or at a boot that has
  not looked at it yet, and has nothing open, nor has the copy in the spare block: a
  reclaim that loses power can be repeated from either.
* `Remains`, `Left`: what the boot gives up has gone before it looks at the erased
  cells, and no record of another block is written over.
* `Succeeds`: a write on its way to success is in its steps, or its block has the
  new contents. `Ordered` is about plans: lookups come before the steps that use
  them.

A loss of power leaves the flash and replaces the plan by that of the boot: the
alternatives of these parts that speak of the boot are what it may find
(`PowerLossStep`). For the refinement the block's contents that count are `Held(t)`,
the spare block's while the last record is complete there and not at its
destination. `Effects` sorts the steps: each leaves `Held` and the call alone
(`Passing`), is the one mark that puts the new contents in the place of the old
(`Putting`; `MarkSpareComplete`), starts a write (`Calling`) or ends one by a return
or a loss of power (`Closing`); `ShownIs` identifies `Held` with what `FtwAtomic` is shown. The
moment at which a write takes effect is thus the writing of its `SpareComplete` bit. `FtwAssumption` keeps the model's markers ("none", "damaged",
...) apart from blocks and contents.

Only model-checked: `ImplementsFtwAtomic` and `SettledWhenIdle` beyond `Steady`, and
all liveness (out of TLAPS's reach, as are ENABLED and fairness).

## 6. Not modelled

* The time before the CPU architectural protocol is installed (`gCpu == NULL`)
  and the SMM handshake in `CoreSetInterruptState`.
* Pool exhaustion in CreateEvent (it returns an error and changes nothing), the
  EVT_RUNTIME list of the runtime protocol, protocol-notify events.
* The contents of notification contexts, GUID comparison (a group is a value).
* The stale `ForwardLink`s `CoreCloseEvent` leaves: for disciplined callers
  nothing reads them before the block is freed.
* Levels other than the named ones: the code treats all below TPL_HIGH_LEVEL
  alike.
* SataInterrupt for controllers on a secondary bus: the search of the I/O APIC input
  over the device path and the south bridge's routing register; the values of
  vectors 0x72, 0x94, 0x95, ... are those of bus 0. Register reads that are only
  printed.
* SataInterrupt after a failure before `gPciIo` is opened: the code goes to `Exit`
  and reads registers through the null pointer; the model stops there. The early
  return of the PIC test when the CPU protocol is not found
  (`SataInterrupt.c:1543-1546`) is one of the failures of that step.
* In `CoreSetTimer` an interrupt between the acquire of the timer lock and the
  unlinking of the event (`Timer.c:268-274`): what it may do there it may do before
  the acquire, at the lower level.
* Efievent. It counts in a `UINT8` up to 10^12, so it never closes its event; what
  it asks of the event services before that, programs of `DxeEvent` do too.
* Of the fault tolerant write driver: the boot block update through the swap
  address range, the look-up of firmware volume blocks, the SMM variant, a block
  torn inside (a block is written or not, a bit is set or not), an error while
  the driver initializes (an assertion) and a failed erase of the spare block
  (the driver ignores it).
* Of the variable driver: the variables in the HOB store and their flushing to
  flash, the language variables that follow each other
  (`AutoUpdateLangVariable`), the checks of names and attributes that refuse a
  call before a store is touched, the lock and the calls of machine check
  handlers that break into a call, authenticated variables and the SMM variant,
  appending writes and the wrap-around of the free sizes in `ReclaimForOS` beyond
  `BelowThreshold`. Of a reclaim that fails: a store whose own header is left erased
  (the copy of `Variable.c:834` then runs with a length of erased bits), a record's
  header cut in the middle, and a restart that fails in its turn at the boot (an
  assertion of `InitFtwProtocol`).
* Of the ATA drivers: `AtaBlockIoReset` (`AtaBus.c:985`), which unlike `ResetEx` resets
  the device without waiting for what is under way, IDE mode, PIO and packet commands, trusted transfers, what
  two commands do to the shared command table, discovery, start and stop, calls
  refused before the device is touched, and the packet that
  `AtaPassThruExecute.c:141` copies without looking whether there was memory.
