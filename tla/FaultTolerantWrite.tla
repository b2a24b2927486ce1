------------------------- MODULE FaultTolerantWrite -------------------------
(***************************************************************************)
(* The fault tolerant write driver.  A block is updated by writing the new *)
(* contents to the spare block first and copying them to the target; the   *)
(* work space, a queue of write headers and records in the working block,  *)
(* says how far a write has come.  When the work space is full it is       *)
(* rewritten through the spare block, too.  After a loss of power at any   *)
(* moment InitFtwProtocol finds in flash what to finish or to give up.     *)
(*                                                                         *)
(* The driver is one sequential program.  todo holds the steps it still    *)
(* has to do; a step changes the flash at most once, and a procedure call  *)
(* puts the steps of the procedure in front.  Power is lost between steps: *)
(* everything but the flash is gone and the next boot begins.              *)
(*                                                                         *)
(* An area is as long as the spare block: two flash blocks, erased and     *)
(* written one after the other.  The work space is the second block of the *)
(* working block, in cells as long as a write header or a write record.    *)
(***************************************************************************)
EXTENDS Integers, Sequences

CONSTANTS
  Targets,     \* areas other than the working block and the spare block
  Values,      \* contents of a block
  Platforms    \* what the driver may find itself in (see Platform)

Areas == Targets \cup {"work", "spare"}

\* The cells of the work space; the areas that callers write, the services they
\* call, the numbers of writes they allocate and whether they have private
\* data; how many calls, losses of power and errors there are.
Platform ==
  [queue : Nat, writable : SUBSET (Targets \cup {"work"}),
   ops : SUBSET {"allocate", "write", "restart", "abort", "lastwrite"},
   requests : SUBSET (Nat \ {0}), private : SUBSET BOOLEAN,
   calls : Nat, crashes : Nat, faults : Nat]

ASSUME FtwAssumption ==
  /\ Targets \cap {"work", "spare", "none", "unknown"} = {} /\ "damaged" \notin Values
  /\ \A p \in Platforms : p \in Platform /\ p.queue >= 2

VARIABLES
  platform,     \* the member of Platforms of this behaviour
  flash,        \* contents of the two blocks of each area
  up,           \* InitFtwProtocol has finished, the services are there
  todo,         \* steps to do
  header,       \* FtwLastWriteHeader: its cell
  record,       \* FtwLastWriteRecord: its cell
  offset,       \* FtwAllocate's Offset: the cell to write the header to
  request,      \* the service called and its arguments
  status,       \* what it returned
  buffer,       \* the memory copy of an area (MyBuffer, TempBuffer, Buffer)
  spareBuffer,  \* the spare block's contents, to restore
  calls, crashes, faults

volatile == <<header, record, offset, buffer, spareBuffer>>
counters == <<platform, calls, crashes, faults>>
vars == <<flash, up, todo, request, status, volatile, counters>>

-----------------------------------------------------------------------------
(***************************************************************************)
(* The contents of a block.                                                *)
(***************************************************************************)
Erased  == [kind |-> "erased"]
Data(v) == [kind |-> "data", value |-> v]

QueueSize == platform.queue
Cells     == 1..QueueSize
EmptyCell == [kind |-> "erased"]
\* The bit HeaderAllocated is set in every header that is written.
WriteHeader(n) == [kind |-> "header", writes |-> n, writesAllocated |-> FALSE, complete |-> FALSE]
WriteRecord(t) == [kind |-> "record", target |-> t, spareComplete |-> FALSE, destComplete |-> FALSE]

\* A block with a work space: its header (signature, size, CRC) is there, the
\* bits WorkingBlockValid and WorkingBlockInvalid, and the queue.
EmptyQueue == [c \in Cells |-> EmptyCell]
WorkSpace(formatted, valid, invalid, queue) ==
  [kind |-> "space", formatted |-> formatted, valid |-> valid, invalid |-> invalid,
   queue |-> queue]

\* What is read in the place of the work space.
AsSpace(c) == IF c.kind = "space" THEN c ELSE WorkSpace(FALSE, FALSE, FALSE, EmptyQueue)

IsValidWorkSpace(c) == c.kind = "space" /\ c.formatted /\ c.valid /\ ~c.invalid

Space(area) == AsSpace(flash[area][2])
Queue(area) == Space(area).queue
Queued(c)   == Queue("work")[c]

-----------------------------------------------------------------------------
(***************************************************************************)
(* Finding the last header and the last record of a queue.                 *)
(***************************************************************************)
Allocated(q, h) == q[h].kind = "header"
Complete(q, h)  == Allocated(q, h) /\ q[h].complete
SpareDone(q, r) == q[r].kind = "record" /\ q[r].spareComplete
DestDone(q, r)  == q[r].kind = "record" /\ q[r].destComplete

\* FTW_WRITE_TOTAL_SIZE, in cells.
TotalSize(n) == 1 + n

\* The first header that is not complete; past the queue when all are.
FtwGetLastWriteHeader(q) ==
  LET last[h \in 1..(QueueSize + 1)] ==
        IF h \in Cells /\ Complete(q, h)
        THEN IF h + TotalSize(q[h].writes) <= QueueSize
             THEN last[h + TotalSize(q[h].writes)]
             ELSE QueueSize + 1
        ELSE h
  IN  last[1]

\* The record after the last one when all are complete.
MutantNextRecord(q, h) ==
  LET open == {r \in (h + 1)..QueueSize :
                 /\ Allocated(q, h) => r <= h + q[h].writes
                 /\ ~DestDone(q, r)}
  IN  IF open = {} THEN h + q[h].writes + 1
      ELSE CHOOSE r \in open : \A s \in open : r <= s

\* The first record not yet in the spare block.
MutantSpareRecord(q, h) ==
  LET open == {r \in (h + 1)..QueueSize :
                 /\ Allocated(q, h) => r <= h + q[h].writes
                 /\ ~SpareDone(q, r)}
  IN  IF open = {} THEN h + q[h].writes
      ELSE CHOOSE r \in open : \A s \in open : r <= s

\* The first record whose destination is not complete, or the last record.
\* An erased header counts more writes than there is room for.
FtwGetLastWriteRecord(q, h) ==
  LET open == {r \in (h + 1)..QueueSize :
                 /\ Allocated(q, h) => r <= h + q[h].writes
                 /\ ~DestDone(q, r)}
  IN  IF open = {} THEN h + q[h].writes
      ELSE CHOOSE r \in open : \A s \in open : r <= s

IsLastRecordOfWrites(q, h, r)  == Allocated(q, h) /\ r = h + q[h].writes
IsFirstRecordOfWrites(h, r) == r = h + 1

-----------------------------------------------------------------------------
(***************************************************************************)
(* The procedures as sequences of steps.                                   *)
(***************************************************************************)
Step(name)      == [do |-> name, area |-> "none", block |-> 0]
Mark(bit, area) == [do |-> bit, area |-> area, block |-> 2]
Blocks(name, area) == <<[do |-> name, area |-> area, block |-> 1],
                        [do |-> name, area |-> area, block |-> 2]>>

FlushSpareBlockToWorkingBlock ==
  <<Mark("WorkingBlockValid", "spare"), Step("LoadSpareAsWork"),
    Mark("WorkingBlockInvalid", "work")>>
    \o Blocks("Erase", "work") \o Blocks("Write", "work")
    \o <<Mark("WorkingBlockValid", "work")>>

FlushSpareBlockToTargetBlock(t) ==
  <<Step("LoadSpare")>> \o Blocks("Erase", t) \o Blocks("Write", t)

\* The spare block is not erased before it is restored.
MutantRestoreSpare == Blocks("Restore", "spare")

RestoreSpare == Blocks("Erase", "spare") \o Blocks("Restore", "spare")

FtwReclaimWorkSpace(clean) ==
  <<Step(clean)>> \o Blocks("Erase", "spare") \o Blocks("Write", "spare")
    \o <<Mark("WorkingBlockValid", "spare"), Mark("WorkingBlockInvalid", "work")>>
    \o FlushSpareBlockToWorkingBlock \o RestoreSpare

WorkSpaceRefresh == <<Step("ReclaimWhenFull"), Step("FindLastWrite")>>

FtwAllocate     == WorkSpaceRefresh \o <<Step("AllocateHeader")>>
FtwWrite        == WorkSpaceRefresh \o <<Step("NeedHeader"), Step("CheckRecord")>>
FtwRestart      == WorkSpaceRefresh \o <<Step("CheckRestart")>>
FtwAbort        == WorkSpaceRefresh \o <<Step("AbortWrites")>>
FtwGetLastWrite == WorkSpaceRefresh \o <<Step("LastWrite")>>

\* A write whose last record is complete is not recognized as done.
MutantInitFtwProtocol ==
  WorkSpaceRefresh
    \o <<Step("ChooseWorkSpace"), Step("AbortFirstRecord"), Step("CheckRemainder"),
         Step("RestartLastWrite"), Step("HookServices")>>

\* A write that was going on is left as it is.
MutantNoRestart ==
  WorkSpaceRefresh
    \o <<Step("ChooseWorkSpace"), Step("AbortFirstRecord"), Step("AbortLastRecord"),
         Step("CheckRemainder"), Step("HookServices")>>

InitFtwProtocol ==
  WorkSpaceRefresh
    \o <<Step("ChooseWorkSpace"), Step("AbortFirstRecord"), Step("AbortLastRecord"),
         Step("CheckRemainder"), Step("RestartLastWrite"), Step("HookServices")>>

NoRequest == [op |-> "none", target |-> "none", value |-> "none", writes |-> 0, private |-> FALSE]

Init ==
  \E v \in Values, formatted \in BOOLEAN :
    /\ platform \in Platforms
    /\ flash = [a \in Areas |->
                 IF a = "spare" THEN <<Erased, Erased>>
                 ELSE IF a = "work"
                 THEN <<Data(v), IF formatted THEN WorkSpace(TRUE, TRUE, FALSE, EmptyQueue)
                                 ELSE Erased>>
                 ELSE <<Data(v), Data(v)>>]
    /\ up = FALSE /\ todo = InitFtwProtocol
    /\ header = 1 /\ record = 2 /\ offset = 1
    /\ request = NoRequest /\ status = "none"
    /\ buffer = <<Erased, Erased>> /\ spareBuffer = <<Erased, Erased>>
    /\ calls = 0 /\ crashes = 0 /\ faults = 0

-----------------------------------------------------------------------------
(***************************************************************************)
(* Doing a step.                                                           *)
(***************************************************************************)
At(name) == todo # <<>> /\ Head(todo).do = name

GoOn          == todo' = Tail(todo) /\ UNCHANGED <<up, request, status>>
Insert(steps) == todo' = steps \o Tail(todo) /\ UNCHANGED <<up, request, status>>

\* A service returns.  While the driver initializes, an error is an assertion.
Return(s) ==
  /\ up
  /\ todo' = <<>>
  /\ status' = s
  /\ request' = NoRequest
  /\ UNCHANGED up

SetBlock(area, block, c) == flash' = [flash EXCEPT ![area][block] = c]
SetCell(area, c, cell) ==
  SetBlock(area, 2, [Space(area) EXCEPT !.queue = [Space(area).queue EXCEPT ![c] = cell]])

Erase ==
  /\ At("Erase")
  /\ SetBlock(Head(todo).area, Head(todo).block, Erased)
  /\ GoOn /\ UNCHANGED <<volatile, counters>>

Write ==
  /\ At("Write")
  /\ SetBlock(Head(todo).area, Head(todo).block, buffer[Head(todo).block])
  /\ GoOn /\ UNCHANGED <<volatile, counters>>

Restore ==
  /\ At("Restore")
  /\ SetBlock(Head(todo).area, Head(todo).block, spareBuffer[Head(todo).block])
  /\ GoOn /\ UNCHANGED <<volatile, counters>>

\* FtwUpdateFvState on the two bits of the working block header.
MarkValid ==
  /\ At("WorkingBlockValid")
  /\ SetBlock(Head(todo).area, 2, [Space(Head(todo).area) EXCEPT !.valid = TRUE])
  /\ GoOn /\ UNCHANGED <<volatile, counters>>

MarkInvalid ==
  /\ At("WorkingBlockInvalid")
  /\ SetBlock(Head(todo).area, 2, [Space(Head(todo).area) EXCEPT !.invalid = TRUE])
  /\ GoOn /\ UNCHANGED <<volatile, counters>>

\* FtwUpdateFvState on the bits of the last header and record.
SetBit(area, c, bit) ==
  SetCell(area, c, [Space(area).queue[c] EXCEPT ![bit] = TRUE])

MarkSpareComplete ==
  /\ At("spareComplete")
  /\ SetBit(Head(todo).area, record, "spareComplete")
  /\ GoOn /\ UNCHANGED <<volatile, counters>>

MarkDestComplete ==
  /\ At("destComplete")
  /\ SetBit("work", record, "destComplete")
  /\ GoOn /\ UNCHANGED <<volatile, counters>>

MarkComplete ==
  /\ At("complete")
  /\ SetBit("work", header, "complete")
  /\ GoOn /\ UNCHANGED <<volatile, counters>>

-----------------------------------------------------------------------------
(***************************************************************************)
(* The work space.                                                         *)
(***************************************************************************)
\* A queue without room for a header and a record.
Full(q) == FtwGetLastWriteHeader(q) + TotalSize(1) - 1 > QueueSize

\* A full queue is reclaimed, valid or not.
ReclaimWhenFull ==
  /\ At("ReclaimWhenFull")
  /\ IF Full(Queue("work")) THEN Insert(FtwReclaimWorkSpace("CleanUp")) ELSE GoOn
  /\ UNCHANGED <<flash, volatile, counters>>

\* The last header and record are looked up in what is read from flash.
FindLastWrite ==
  /\ At("FindLastWrite")
  /\ header' = FtwGetLastWriteHeader(Queue("work"))
  /\ record' = FtwGetLastWriteRecord(Queue("work"), header')
  /\ GoOn /\ UNCHANGED <<flash, offset, buffer, spareBuffer, counters>>

\* The new work space holds the header and the records that are not complete.
Preserved(q) ==
  LET h == FtwGetLastWriteHeader(q)
  IN  IF h \in Cells /\ Allocated(q, h)
      THEN [c \in Cells |-> IF c <= TotalSize(q[h].writes) /\ h + c - 1 \in Cells
                            THEN q[h + c - 1] ELSE EmptyCell]
      ELSE EmptyQueue

\* The first part of FtwReclaimWorkSpace, in memory.
CleanWorkSpace(formatted, queue) ==
  /\ buffer' = <<flash["work"][1], WorkSpace(formatted, FALSE, FALSE, queue)>>
  /\ spareBuffer' = flash["spare"]
  /\ header' = FtwGetLastWriteHeader(queue)
  /\ record' = FtwGetLastWriteRecord(queue, header')
  /\ GoOn
  /\ UNCHANGED <<flash, offset, counters>>

\* PreserveRecord is TRUE, or FALSE when there was no work space.
CleanUp == At("CleanUp") /\ CleanWorkSpace(Space("work").formatted, Preserved(Queue("work")))
CleanAll == At("CleanAll") /\ CleanWorkSpace(TRUE, EmptyQueue)

LoadSpare ==
  /\ At("LoadSpare")
  /\ buffer' = flash["spare"]
  /\ GoOn /\ UNCHANGED <<flash, header, record, offset, spareBuffer, counters>>

\* What goes to the working block has a new header with no bit set.
LoadSpareAsWork ==
  /\ At("LoadSpareAsWork")
  /\ buffer' = <<flash["spare"][1], WorkSpace(TRUE, FALSE, FALSE, Queue("spare"))>>
  /\ GoOn /\ UNCHANGED <<flash, header, record, offset, spareBuffer, counters>>

-----------------------------------------------------------------------------
(***************************************************************************)
(* The services.                                                           *)
(***************************************************************************)
Success ==
  /\ At("Success")
  /\ Return(IF request.op = "allocate" THEN "allocated" ELSE "success")
  /\ UNCHANGED <<flash, volatile, counters>>

\* Writes are allocated although those before are not complete.
MutantAllocateHeader ==
  /\ At("AllocateHeader")
  /\ IF TotalSize(request.writes) > QueueSize
     THEN Return("buffer_too_small") /\ UNCHANGED offset
     ELSE /\ offset' = header
          /\ Insert((IF header + TotalSize(request.writes) - 1 > QueueSize
                     THEN FtwReclaimWorkSpace("CleanUp") ELSE <<>>)
                    \o <<Step("WriteHeader"), Step("WritesAllocated")>>)
  /\ UNCHANGED <<flash, header, record, buffer, spareBuffer, counters>>

\* The header goes to the cell that was the last header's before the work
\* space was reclaimed.
AllocateHeader ==
  /\ At("AllocateHeader")
  /\ IF TotalSize(request.writes) > QueueSize
     THEN Return("buffer_too_small") /\ UNCHANGED offset
     ELSE IF Allocated(Queue("work"), header)
     THEN Return("access_denied") /\ UNCHANGED offset
     ELSE /\ offset' = header
          /\ Insert((IF header + TotalSize(request.writes) - 1 > QueueSize
                     THEN FtwReclaimWorkSpace("CleanUp") ELSE <<>>)
                    \o <<Step("WriteHeader"), Step("WritesAllocated")>>)
  /\ UNCHANGED <<flash, header, record, buffer, spareBuffer, counters>>

AllocateWriteHeader ==
  /\ At("WriteHeader")
  /\ SetCell("work", offset, WriteHeader(request.writes))
  /\ GoOn /\ UNCHANGED <<volatile, counters>>

MarkWritesAllocated ==
  /\ At("WritesAllocated")
  /\ SetBit("work", offset, "writesAllocated")
  /\ GoOn /\ UNCHANGED <<volatile, counters>>

\* FtwWrite allocates a header for one write when there is none, unless the
\* caller has private data.
NeedHeader ==
  /\ At("NeedHeader")
  /\ IF Allocated(Queue("work"), header) THEN GoOn
     ELSE IF request.private THEN Return("not_ready")
     ELSE Insert(FtwAllocate)
  /\ UNCHANGED <<flash, volatile, counters>>

\* The target is marked complete before it is written.
MutantFtwWriteRecord(t) ==
  <<Mark("destComplete", "work")>>
    \o (IF t = "work"
        THEN <<Mark("spareComplete", "spare")>> \o FlushSpareBlockToWorkingBlock
        ELSE FlushSpareBlockToTargetBlock(t))
    \o (IF IsLastRecordOfWrites(Queue("work"), header, record)
        THEN <<Mark("complete", "work")>> ELSE <<>>)

\* The spare block is copied to the target, and the record says so.
FtwWriteRecord(t) ==
  (IF t = "work"
   THEN <<Mark("spareComplete", "spare")>> \o FlushSpareBlockToWorkingBlock
   ELSE FlushSpareBlockToTargetBlock(t))
    \o <<Mark("destComplete", "work")>>
    \o (IF IsLastRecordOfWrites(Queue("work"), header, record)
        THEN <<Mark("complete", "work")>> ELSE <<>>)

WriteThroughSpare(t) ==
  <<Step("WriteRecord"), Step("LoadTarget")>>
    \o Blocks("Erase", "spare") \o Blocks("Write", "spare")
    \o <<Mark("spareComplete", "work")>>
    \o FtwWriteRecord(t) \o RestoreSpare \o <<Step("Success")>>

\* FtwWrite once there is a header.
CheckRecord ==
  /\ At("CheckRecord")
  /\ IF DestDone(Queue("work"), record) THEN Return("access_denied")
     ELSE IF SpareDone(Queue("work"), record) THEN Return("not_ready")
     ELSE Insert(WriteThroughSpare(request.target))
  /\ UNCHANGED <<flash, volatile, counters>>

\* Flash that is not erased takes an unpredictable value: of a record written
\* for another target before, the place that is read later may be any.
WriteRecordCell ==
  /\ At("WriteRecord")
  /\ \E t \in {request.target} \cup
             (IF Queued(record).kind = "record" /\ Queued(record).target # request.target
              THEN {"unknown"} ELSE {}) :
       SetCell("work", record, WriteRecord(t))
  /\ GoOn /\ UNCHANGED <<volatile, counters>>

\* The caller's data in the contents of the target; the spare block is kept.
\* In the working block callers write in front of the work space.
LoadTarget ==
  /\ At("LoadTarget")
  /\ buffer' = <<Data(request.value),
                 IF request.target = "work" THEN flash["work"][2] ELSE Data(request.value)>>
  /\ spareBuffer' = flash["spare"]
  /\ GoOn /\ UNCHANGED <<flash, header, record, offset, counters>>

CheckRestart ==
  /\ At("CheckRestart")
  /\ LET q == Queue("work")
     IN  IF DestDone(q, record) THEN Return("access_denied")
         ELSE IF ~SpareDone(q, record) \/ q[record].target = "unknown" THEN Return("aborted")
         ELSE Insert(FtwWriteRecord(q[record].target) \o Blocks("Erase", "spare"))
  /\ UNCHANGED <<flash, volatile, counters>>

AbortWrites ==
  /\ At("AbortWrites")
  /\ LET q == Queue("work")
     IN  IF Allocated(q, header) /\ ~Complete(q, header)
         THEN Insert(<<Mark("complete", "work")>>)
         ELSE IF request.op = "abort" THEN Return("not_found") ELSE GoOn
  /\ UNCHANGED <<flash, volatile, counters>>

\* Asking for the last write aborts one that cannot be restarted.
LastWrite ==
  /\ At("LastWrite")
  /\ LET q == Queue("work")
     IN  IF \/ DestDone(q, record) /\ IsLastRecordOfWrites(q, header, record)
            \/ /\ Allocated(q, header) /\ ~SpareDone(q, record)
               /\ IsFirstRecordOfWrites(header, record)
         THEN Insert(FtwAbort \o <<Step("NotFound")>>)
         ELSE Return(IF Allocated(q, header) THEN "success" ELSE "not_found")
  /\ UNCHANGED <<flash, volatile, counters>>

NotFound ==
  /\ At("NotFound")
  /\ Return("not_found")
  /\ UNCHANGED <<flash, volatile, counters>>

-----------------------------------------------------------------------------
(***************************************************************************)
(* InitFtwProtocol.                                                        *)
(***************************************************************************)
\* A working block that is not valid is replaced by the spare block if that
\* holds a valid work space; else the work space is made anew.
ChooseWorkSpace ==
  /\ At("ChooseWorkSpace")
  /\ IF IsValidWorkSpace(flash["work"][2]) THEN GoOn
     ELSE IF IsValidWorkSpace(flash["spare"][2])
     THEN Insert(FlushSpareBlockToWorkingBlock \o FtwAbort \o WorkSpaceRefresh)
     ELSE Insert(FtwReclaimWorkSpace("CleanAll"))
  /\ UNCHANGED <<flash, volatile, counters>>

AbortFirstRecord ==
  /\ At("AbortFirstRecord")
  /\ LET q == Queue("work")
     IN  IF /\ Allocated(q, header) /\ ~SpareDone(q, record)
            /\ IsFirstRecordOfWrites(header, record)
         THEN Insert(FtwAbort) ELSE GoOn
  /\ UNCHANGED <<flash, volatile, counters>>

AbortLastRecord ==
  /\ At("AbortLastRecord")
  /\ LET q == Queue("work")
     IN  IF /\ ~Complete(q, header) /\ DestDone(q, record)
            /\ IsLastRecordOfWrites(q, header, record)
         THEN Insert(FtwAbort) ELSE GoOn
  /\ UNCHANGED <<flash, volatile, counters>>

\* What follows the last header and its records must be erased.
CheckRemainder ==
  /\ At("CheckRemainder")
  /\ LET q     == Queue("work")
         start == IF Allocated(q, header) THEN header + TotalSize(q[header].writes) ELSE header
     IN  IF \E c \in start..QueueSize : q[c] # EmptyCell
         THEN Insert(FtwReclaimWorkSpace("CleanUp")) ELSE GoOn
  /\ UNCHANGED <<flash, volatile, counters>>

\* A record whose spare block is complete is restarted; the other writes of
\* its header are given up.
RestartLastWrite ==
  /\ At("RestartLastWrite")
  /\ LET q == Queue("work")
     IN  IF ~Complete(q, header) /\ SpareDone(q, record)
         THEN Insert((IF q[record].target = "unknown" THEN <<>> ELSE FtwRestart) \o FtwAbort)
         ELSE GoOn
  /\ UNCHANGED <<flash, volatile, counters>>

HookServices ==
  /\ At("HookServices")
  /\ up' = TRUE
  /\ todo' = <<>>
  /\ UNCHANGED <<flash, request, status, volatile, counters>>

-----------------------------------------------------------------------------
(***************************************************************************)
(* Callers, loss of power, errors.                                         *)
(***************************************************************************)
Call(op, steps, arguments) ==
  /\ up /\ todo = <<>>
  /\ op \in platform.ops /\ calls < platform.calls
  /\ calls' = calls + 1
  /\ todo' = steps
  /\ request' = [arguments EXCEPT !.op = op]
  /\ status' = "none"
  /\ UNCHANGED <<platform, flash, up, volatile, crashes, faults>>

CallAllocate ==
  \E n \in platform.requests :
    Call("allocate", FtwAllocate \o <<Step("Success")>>, [NoRequest EXCEPT !.writes = n])

CallWrite ==
  \E t \in platform.writable, v \in Values, p \in platform.private :
    Call("write", FtwWrite,
         [NoRequest EXCEPT !.target = t, !.value = v, !.private = p, !.writes = 1])

CallRestart   == Call("restart", FtwRestart \o <<Step("Success")>>, NoRequest)
CallAbort     == Call("abort", FtwAbort \o <<Step("Success")>>, NoRequest)
CallLastWrite == Call("lastwrite", FtwGetLastWrite, NoRequest)

\* Power is lost: the flash stays, the driver initializes again.
PowerLoss ==
  /\ crashes < platform.crashes
  /\ crashes' = crashes + 1
  /\ up' = FALSE /\ todo' = InitFtwProtocol
  /\ request' = NoRequest /\ status' = "none"
  /\ header' = 1 /\ record' = 2 /\ offset' = 1
  /\ buffer' = <<Erased, Erased>> /\ spareBuffer' = <<Erased, Erased>>
  /\ UNCHANGED <<platform, flash, calls, faults>>

FallibleSteps ==
  {"CleanUp", "LoadSpare", "LoadSpareAsWork", "LoadTarget", "Erase", "Write", "Restore",
   "WorkingBlockValid", "WorkingBlockInvalid", "spareComplete", "destComplete", "complete",
   "WriteHeader", "WritesAllocated", "WriteRecord"}

\* A flash operation of a service or an allocation of memory fails without
\* effect and the service returns.  The status of erasing the spare block is
\* ignored, and FtwGetLastWrite ignores that of FtwAbort.
DeviceError ==
  /\ up /\ todo # <<>> /\ Head(todo).do \in FallibleSteps
  /\ ~(At("Erase") /\ Head(todo).area = "spare")
  /\ ~(At("WorkingBlockValid") /\ Space(Head(todo).area).valid)
  /\ faults < platform.faults
  /\ faults' = faults + 1
  /\ Return(IF request.op = "lastwrite" /\ At("complete") THEN "not_found" ELSE "aborted")
  /\ UNCHANGED <<platform, flash, volatile, calls, crashes>>

FlashAccess ==
  \/ Erase \/ Write \/ Restore \/ MarkValid \/ MarkInvalid
  \/ MarkSpareComplete \/ MarkDestComplete \/ MarkComplete
  \/ AllocateWriteHeader \/ MarkWritesAllocated \/ WriteRecordCell

Driver ==
  \/ FlashAccess
  \/ ReclaimWhenFull \/ FindLastWrite \/ CleanUp \/ CleanAll \/ LoadSpare \/ LoadSpareAsWork
  \/ AllocateHeader \/ NeedHeader \/ CheckRecord \/ LoadTarget \/ CheckRestart
  \/ AbortWrites \/ LastWrite \/ NotFound \/ Success
  \/ ChooseWorkSpace \/ AbortFirstRecord \/ AbortLastRecord \/ CheckRemainder
  \/ RestartLastWrite \/ HookServices

Callers == CallAllocate \/ CallWrite \/ CallRestart \/ CallAbort \/ CallLastWrite

Next == Driver \/ Callers \/ PowerLoss \/ DeviceError

Spec == Init /\ [][Next]_vars

\* The processor goes on; nobody has to call or to cut the power.
FairSpec == Spec /\ WF_vars(Driver)
-----------------------------------------------------------------------------
(***************************************************************************)
(* What should hold.                                                       *)
(***************************************************************************)
Contents == {Erased} \cup {Data(v) : v \in Values}
CellValues ==
  [kind : {"erased"}]
    \cup [kind : {"header"}, writes : platform.requests \cup {1}, writesAllocated : BOOLEAN,
          complete : BOOLEAN]
    \cup [kind : {"record"}, target : platform.writable \cup {"unknown"}, spareComplete : BOOLEAN,
          destComplete : BOOLEAN]

IsContents(c) ==
  IF c.kind = "space"
  THEN /\ c.formatted \in BOOLEAN /\ c.valid \in BOOLEAN /\ c.invalid \in BOOLEAN
       /\ c.queue \in [Cells -> CellValues]
  ELSE c \in Contents

\* The types of the state; the cells that FtwLastWriteHeader, FtwLastWriteRecord
\* and Offset point to are in the work space while they are used, so no access
\* is out of its bounds.
TypeOK ==
  /\ DOMAIN flash = Areas /\ \A a \in Areas, b \in 1..2 : IsContents(flash[a][b])
  /\ \A b \in 1..2 : IsContents(buffer[b]) /\ IsContents(spareBuffer[b])
  /\ up \in BOOLEAN
  /\ header \in 1..(QueueSize - 1) /\ record \in (header + 1)..QueueSize
  /\ offset \in Cells
  /\ \A i \in DOMAIN todo : todo[i].area \in Areas \cup {"none"} /\ todo[i].block \in 0..2
  /\ platform \in Platforms
  /\ calls \in 0..platform.calls /\ crashes \in 0..platform.crashes
  /\ faults \in 0..platform.faults

\* The area in which InitFtwProtocol would find the work space: it reclaims
\* a full queue before it asks whether the work space is valid.
Current ==
  IF /\ ~Full(Queue("work")) /\ ~IsValidWorkSpace(flash["work"][2])
     /\ IsValidWorkSpace(flash["spare"][2])
  THEN "spare" ELSE "work"

\* The last record is in the spare block and not yet at its destination.
Pending(t) ==
  \E q \in {Queue(Current)} : \E h \in {FtwGetLastWriteHeader(q)} \cap Cells :
    /\ Allocated(q, h)
    /\ LET r == FtwGetLastWriteRecord(q, h)
       IN  SpareDone(q, r) /\ ~DestDone(q, r) /\ q[r].target = t

\* What a loss of power now would leave of a block: contents that are torn or
\* erased are "damaged".
Whole(c, d) == IF c = d /\ c.kind = "data" THEN c.value ELSE "damaged"
Available(t) ==
  LET area == IF Pending(t) THEN "spare" ELSE IF t = "work" THEN Current ELSE t
  IN  Whole(flash[area][1], flash[area][IF t = "work" THEN 1 ELSE 2])

\* A block that callers do not write is not looked at.
Promised(t) == IF t \in platform.writable THEN Available(t) ELSE CHOOSE v \in Values : TRUE

Atomic == INSTANCE FtwAtomic WITH
  Writable  <- Targets \cup {"work"},
  NoWrite   <- [target |-> "none", value |-> "none"],
  available <- [t \in Targets \cup {"work"} |-> Promised(t)],
  writing   <- [target |-> IF request.op = "write" THEN request.target ELSE "none",
                value  |-> IF request.op = "write" THEN request.value ELSE "none"],
  status    <- status

\* FtwWrite, with whatever losses of power, replaces the contents of its block
\* at one moment or not at all, and has done so when it returns success: at no
\* time, in the middle of a reclaim or of another recovery, are the original
\* and the new contents both gone.
ImplementsFtwAtomic == Atomic!Spec

\* The queue in the work space that the next boot would use is in order:
\* headers that are complete, then at most one that is not, whose records fit
\* and were written one after the other, then erased flash.
QueueInOrder ==
  IsValidWorkSpace(flash[Current][2]) =>
    LET q    == Queue(Current)
        h    == FtwGetLastWriteHeader(q)
        last == IF h \in Cells /\ Allocated(q, h) THEN h + q[h].writes ELSE h - 1
    IN  /\ last <= QueueSize
        /\ \A c \in (last + 1)..QueueSize : q[c] = EmptyCell
        /\ \A c, d \in (h + 1)..last : c < d /\ q[d] # EmptyCell => DestDone(q, c)

\* Between two services nothing is left to recover: the work space is valid in
\* the working block, and each block has its contents in its own place.
SettledWhenIdle ==
  up /\ todo = <<>> /\ faults = 0 =>
    /\ IsValidWorkSpace(flash["work"][2])
    /\ \A t \in platform.writable : ~Pending(t) /\ Available(t) # "damaged"

\* Contents, headers and records go to erased flash only, also after a loss of
\* power or an error left something half done: Write of the firmware volume
\* block protocol needs "all the bits of the specified range to write" in the
\* erased state (FirmwareVolumeBlock.h).  The bits that mark progress are
\* written over others on purpose, and when a write is tried again its record
\* is written over the same one.
ErasedBeforeWritten ==
  [][/\ (Write \/ Restore) => flash[Head(todo).area][Head(todo).block] = Erased
     /\ AllocateWriteHeader => Queued(offset) = EmptyCell
     /\ WriteRecordCell => Queued(record) \in {EmptyCell, WriteRecord(request.target)}]_vars

\* A successful FtwAllocate leaves the header of the writes where the following
\* services look for the last header, with its writes' records all to come.
AllocateServed ==
  [][status' = "allocated" /\ status # "allocated" =>
       LET q == Queue("work")
           h == FtwGetLastWriteHeader(q)
       IN  /\ h \in Cells /\ Allocated(q, h)
           /\ q[h].writes = request.writes /\ q[h].writesAllocated
           /\ \A c \in (h + 1)..(h + q[h].writes) : c \in Cells /\ q[c] = EmptyCell]_vars

\* Wherever the power was lost, InitFtwProtocol ends when it stays on: none of
\* its assertions stops it, such as the one that its restart succeeds.
BootEnds == ~up ~> up
=============================================================================
