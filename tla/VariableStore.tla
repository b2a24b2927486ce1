--------------------------- MODULE VariableStore ---------------------------
(***************************************************************************)
(* The UEFI variable driver.  A variable store is a sequence of records, a *)
(* header with a state byte and a body (name and data); a variable is      *)
(* replaced by marking its record as in transition, appending the new one  *)
(* in four writes, and marking the old one as deleted.  When there is no   *)
(* room the store is reclaimed: what is alive is copied together and       *)
(* written back by the fault tolerant write driver: at one moment when it  *)
(* succeeds or the power goes (see FtwAtomic), but a write that fails may  *)
(* leave half of the store, and be done once more by the next boot.        *)
(* Variables without the attribute NV live in a second store in memory.    *)
(* Reads use a copy of the non-volatile store in memory.                   *)
(*                                                                         *)
(* Calls hold a lock and one runs at a time; what interrupts it is the     *)
(* loss of power, after which the driver starts again on what is in flash. *)
(*                                                                         *)
(* Operators whose names start with Mutant are faulty variants of the      *)
(* definition that follows them; no specification uses them.               *)
(***************************************************************************)
EXTENDS Integers, Sequences, FiniteSets

CONSTANTS
  Names,            \* names (with their GUIDs) of variables
  LockedNames,      \* mLockedVariableList: read-only after the end of DXE
  Requests,         \* what callers may ask for: [name, attr, value]
  Data,             \* contents
  Length,           \* length of a body with these contents
  NoData,           \* the request has DataSize = 0
  Garbled,          \* name of a record written over another one
  HeaderSize,       \* sizeof (VARIABLE_HEADER)
  Capacity,         \* room for non-volatile records
  Beyond,           \* room of the firmware volume behind the store
  HwErrSize,        \* PcdHwErrStorageSize
  MaxVariableSize,  \* PcdMaxVariableSize, PcdMaxHardwareErrorVariableSize
  ReclaimAtEndOfDxe, \* PcdReclaimVariableSpaceAtEndOfDxe
  VolatileCapacity, \* room for records in memory
  Clients,          \* what surrounds the driver, and how much of it happens:
                    \* [requests, calls, losses, errors, faulty]
  MaxBoots          \* bound of an instance

\* Attributes of a variable: NV, BS, RT, HW (a hardware error record).
Attributes == SUBSET {"NV", "BS", "RT", "HW"}

\* The points of a call at which a flash access may fail.
Points == {"delete transition", "delete", "mark", "header", "state", "data", "added",
           "drop transition", "drop", "reclaim"}

ASSUME StoreAssumption ==
  /\ LockedNames \subseteq Names /\ Garbled \notin Names /\ NoData \notin Data
  /\ Requests \subseteq [name : Names, attr : Attributes, value : Data \cup {NoData}]
  /\ Length \in [Data -> Nat \ {0}]
  /\ HeaderSize \in Nat \ {0} /\ Capacity \in Nat /\ HwErrSize \in 0..Capacity /\ Beyond \in Nat
  /\ MaxVariableSize \in Nat /\ VolatileCapacity \in Nat /\ ReclaimAtEndOfDxe \in BOOLEAN
  /\ Clients \subseteq [requests : SUBSET Requests, calls : Nat, losses : Nat,
                        errors : Nat, faulty : SUBSET Points]
  /\ MaxBoots \in Nat

VARIABLES
  flash,    \* the records of the non-volatile store
  tail,     \* what follows them: "free", or "junk", the beginning of a header
  cache,    \* mNvVariableCache
  last,     \* NonVolatileLastVariableOffset, as the number of records before it
  totals,   \* CommonVariableTotalSize and HwErrVariableTotalSize
  ftw,      \* what the fault tolerant write driver makes of the next write, and
            \* the store in its spare block when the next boot will write it
  memory,   \* the records of the volatile store
  phase,    \* how far the boot has come
  job,      \* the call in progress: where it is, what it asks for, what it found
  status,   \* what the last call returned
  client,   \* the member of Clients of this behaviour
  calls, boots, losses, errors

store    == <<flash, tail, cache, last, totals, ftw>>
counters == <<calls, boots, losses, errors>>
vars     == <<store, memory, phase, job, status, client, counters>>

-----------------------------------------------------------------------------
(***************************************************************************)
(* Records.  A record is found by walking from header to header, so its    *)
(* length matters: a header whose state was not yet written has none but   *)
(* its own.                                                                *)
(***************************************************************************)
\* The states: "blank" 0xff, "header" 0x7f, "added" 0x3f, "transition" 0x3e
\* and "deleted" (0x3d, 0x3c).  whole: the body has been written.
States == {"blank", "header", "added", "transition", "deleted"}
Record == [name : Names \cup {Garbled}, attr : Attributes, value : Data,
           state : States, whole : BOOLEAN]

NewRecord(r) == [name |-> r.name, attr |-> r.attr, value |-> r.value,
                 state |-> "blank", whole |-> FALSE]
Added(r)     == [NewRecord(r) EXCEPT !.state = "added", !.whole = TRUE]

VarSize(r)     == HeaderSize + Length[r.value]
\* GetNextVariablePtr (Variable) - Variable
WalkSize(r)    == IF r.state = "blank" THEN HeaderSize ELSE VarSize(r)
IsHwErr(r)     == "HW" \in r.attr
IsDeletion(r)  == r.value = NoData \/ r.attr \cap {"BS", "RT"} = {}

\* The sum of a sequence of sizes.
SumOf(sizes) ==
  LET sum[i \in 0..Len(sizes)] == IF i = 0 THEN 0 ELSE sum[i - 1] + sizes[i]
  IN  sum[Len(sizes)]

Used(s) == SumOf([i \in DOMAIN s |-> WalkSize(s[i])])

\* What a boot counts: the sizes in the headers, whatever the states.
HwErrSum(s)  == SumOf([i \in DOMAIN s |-> IF IsHwErr(s[i]) THEN VarSize(s[i]) ELSE 0])

MutantCommonSum(s) ==
  SumOf([i \in DOMAIN s |-> IF IsHwErr(s[i]) \/ ~(s[i].state \in {"added", "transition"})
                            THEN 0 ELSE VarSize(s[i])])

CommonSum(s) == SumOf([i \in DOMAIN s |-> IF IsHwErr(s[i]) THEN 0 ELSE VarSize(s[i])])

-----------------------------------------------------------------------------
(***************************************************************************)
(* Finding a variable.                                                     *)
(***************************************************************************)
Visible(r) == r.state \in {"added", "transition"}

Least(S)    == CHOOSE i \in S : \A j \in S : i <= j
Greatest(S) == CHOOSE i \in S : \A j \in S : j <= i
GreatestOr0(S) == IF S = {} THEN 0 ELSE Greatest(S)

\* Among the records M the first that is added, with the last one before it
\* that is in transition; or else the last one in transition.
FindAmong(s, M) ==
  LET added      == {i \in M : s[i].state = "added"}
      transition == {i \in M : s[i].state = "transition"}
  IN  IF added # {}
      THEN [curr  |-> Least(added),
            inDel |-> GreatestOr0({i \in transition : i < Least(added)})]
      ELSE [curr |-> GreatestOr0(transition), inDel |-> 0]

Named(s, n) == {i \in DOMAIN s : s[i].name = n}

FindVariableEx(s, n) == FindAmong(s, Named(s, n))

\* The volatile store comes first.
FindVariable(n) ==
  LET inMemory == FindVariableEx(memory, n)
  IN  IF inMemory.curr # 0
      THEN [found |-> inMemory, volatile |-> TRUE]
      ELSE [found |-> FindVariableEx(cache, n), volatile |-> FALSE]

CurrPtr(t) == IF t.volatile THEN memory[t.found.curr] ELSE cache[t.found.curr]

AtRuntime     == phase = "runtime"
WriteReady    == phase # "early"
EndOfDxe      == phase \in {"late", "ready", "runtime"}

-----------------------------------------------------------------------------
(***************************************************************************)
(* The services that only read.                                            *)
(***************************************************************************)
Readable(s) == {i \in DOMAIN s : Visible(s[i]) /\ (AtRuntime => "RT" \in s[i].attr)}

\* GetVariable: the contents, or NoData for EFI_NOT_FOUND.
GetVariable(n) ==
  LET inMemory == FindAmong(memory, Named(memory, n) \cap Readable(memory)).curr
      inCache  == FindAmong(cache, Named(cache, n) \cap Readable(cache)).curr
  IN  IF inMemory # 0 THEN memory[inMemory].value
      ELSE IF inCache # 0 THEN cache[inCache].value ELSE NoData

\* GetNextVariableName lists a record unless it is in transition and there is
\* an added one of its name.
Listed(s) ==
  {i \in Readable(s) : s[i].state = "transition" =>
     s[FindAmong(s, Named(s, s[i].name) \cap Readable(s)).curr].state = "transition"}

\* The next record from record i on (and then from the second store on).
NextFrom(inMemory, i) ==
  LET here == {k \in Listed(IF inMemory THEN memory ELSE cache) : k >= i}
  IN  IF here # {} THEN (IF inMemory THEN memory ELSE cache)[Least(here)].name
      ELSE IF inMemory /\ Listed(cache) # {} THEN cache[Least(Listed(cache))].name
      ELSE Garbled

\* The name after n; NoData as n asks for the first, Garbled says there is none.
GetNextVariableName(n) ==
  LET among(s) == IF n = NoData THEN Readable(s) ELSE Named(s, n) \cap Readable(s)
      inMemory == FindAmong(memory, among(memory)).curr
      inCache  == FindAmong(cache, among(cache)).curr
      step     == IF n = NoData THEN 0 ELSE 1
  IN  IF inMemory # 0 THEN NextFrom(TRUE, inMemory + step)
      ELSE IF inCache # 0 THEN NextFrom(FALSE, inCache + step)
      ELSE Garbled

\* QueryVariableInfo's RemainingVariableStorageSize of non-volatile variables
\* (before the runtime: what is alive; then: everything).
RemainingVariableStorageSize(hwErr) ==
  LET counted(i) == IsHwErr(cache[i]) = hwErr /\ (AtRuntime \/ i \in Listed(cache))
      sizes == [i \in DOMAIN cache |-> IF counted(i) THEN WalkSize(cache[i]) ELSE 0]
  IN  (IF hwErr THEN HwErrSize ELSE Capacity - HwErrSize) - SumOf(sizes)

-----------------------------------------------------------------------------
(***************************************************************************)
(* Reclaim.  The records that are added are kept, except the one being     *)
(* updated; then of each name without one the first in transition, except  *)
(* the two of the update; then comes the new record.                       *)
(***************************************************************************)
Kept(s, curr) == {i \in DOMAIN s : s[i].state = "added" /\ i # curr}

InTransition(s, curr, inDel) ==
  {i \in DOMAIN s : s[i].state = "transition" /\ i \notin {curr, inDel}}

MutantPromoted(s, curr, inDel) == InTransition(s, curr, inDel)
MutantPromotedNone(s, curr, inDel) == {}

Promoted(s, curr, inDel) ==
  {i \in InTransition(s, curr, inDel) :
     /\ \A j \in Kept(s, curr) : s[j].name # s[i].name
     /\ \A j \in InTransition(s, curr, inDel) : j < i => s[j].name # s[i].name}

\* The order in which the records are copied.
CopyOrders(s, curr, inDel) ==
  LET kept     == Kept(s, curr)
      promoted == Promoted(s, curr, inDel)
  IN  {order \in [1..Cardinality(kept \cup promoted) -> kept \cup promoted] :
         /\ \A i \in kept \cup promoted : \E k \in DOMAIN order : order[k] = i
         /\ \A k, l \in DOMAIN order : k < l =>
              \/ order[k] \in kept /\ order[l] \in promoted
              \/ (order[k] \in kept <=> order[l] \in kept) /\ order[k] < order[l]}

Copied(s, order) == [k \in DOMAIN order |-> [s[order[k]] EXCEPT !.state = "added"]]

MutantQuotasHold(s) ==
  Used(s) < Capacity /\ HwErrSum(s) <= HwErrSize /\ CommonSum(s) < Capacity - HwErrSize

\* Room for the new record in the quotas of a non-volatile store.
QuotasHold(s) ==
  /\ Used(s) <= Capacity
  /\ HwErrSum(s) <= HwErrSize
  /\ CommonSum(s) <= Capacity - HwErrSize

(***************************************************************************)
(* FtwVariableSpace.  The driver refuses writes after one that failed when *)
(* its record was complete in the spare block: until the next boot, which  *)
(* writes the spare block to the store unless that is done.                *)
(***************************************************************************)
Ready       == [state |-> "ready", spare |-> <<>>]
Refuses     == [state |-> "refuses", spare |-> <<>>]
Restarts(s) == [state |-> "restarts", spare |-> s]

\* What the next boot finds in the store.
NextBoot == IF ftw.state = "restarts" THEN ftw.spare ELSE flash

\* The store s has been written.
Reclaimed(s) ==
  /\ ftw = Ready /\ UNCHANGED ftw
  /\ flash' = s /\ tail' = "free" /\ cache' = s
  /\ last' = Len(s)
  /\ totals' = [common |-> CommonSum(s), hwErr |-> HwErrSum(s)]

\* s written up to one of its blocks, which cuts a body in two or nothing.
\* (Where the first block, with the header of the store, stays erased, the copy
\* of the store to the cache has no end, and the next boot finds s.)
Torn(s) ==
  {SubSeq(s, 1, k) : k \in 0..(Len(s) - 1)} \cup
  {[SubSeq(s, 1, k) EXCEPT ![k].whole = FALSE] : k \in 1..Len(s)}

\* What a write of s leaves that fails: before the spare block is complete,
\* before or while the store is written, or after.
WriteFails(s) ==
  \/ UNCHANGED <<flash, tail, ftw>>
  \/ UNCHANGED <<flash, tail>> /\ ftw' = Restarts(s)
  \/ flash' \in Torn(s) /\ tail' = "free" /\ ftw' = Restarts(s)
  \/ flash' = s /\ tail' = "free" /\ ftw' \in {Restarts(s), Refuses, Ready}

\* The attributes behind the records s0 of before are those of erased flash.
ErasedBehind(s0) == tail' = "free" /\ Used(flash') <= Used(s0) /\ Used(s0) < Capacity

\* The write fails, or is refused.  The sizes of all records are added to one
\* total, by the attributes behind the last record of before: erased bits say
\* that it is a hardware error record.
FtwFails(s) ==
  /\ IF ftw = Ready
     THEN /\ "reclaim" \in client.faulty /\ errors < client.errors
          /\ errors' = errors + 1
          /\ WriteFails(s)
     ELSE UNCHANGED <<flash, tail, ftw, errors>>
  /\ cache' = flash'
  /\ last' = Len(flash')
  /\ \E total \in {"hwErr"} \cup IF ErasedBehind(flash) THEN {} ELSE {"common"} :
       totals' = [totals EXCEPT ![total] = @ + SumOf([i \in DOMAIN flash' |-> VarSize(flash'[i])])]

-----------------------------------------------------------------------------
\* A reclaim without a new record, with the outcome of FtwVariableSpace.
ReclaimAll ==
  \E order \in CopyOrders(flash, 0, 0) :
    \/ Reclaimed(Copied(flash, order)) /\ UNCHANGED errors
    \/ FtwFails(Copied(flash, order))

(***************************************************************************)
(* SetVariable and the beginning of UpdateVariable.                        *)
(***************************************************************************)
Idle == [pc |-> "idle"]

\* A caller; deleting a non-volatile variable by its attributes is left to
\* when the write service is there (ASSERT (Fvb != NULL)).
Calls(r) ==
  /\ job = Idle
  /\ calls < client.calls /\ calls' = calls + 1
  /\ r \in client.requests
  /\ WriteReady \/ r.attr # {} \/ FindVariableEx(cache, r.name).curr = 0
  /\ UNCHANGED <<phase, client, boots, losses, errors>>

MutantRefused(r, t) ==
  LET exists == t.found.curr # 0
  IN  \/ exists /\ r.attr \notin {{}, CurrPtr(t).attr}
      \/ "NV" \in r.attr /\ ~WriteReady
      \/ exists /\ AtRuntime /\ ~({"NV", "RT"} \subseteq CurrPtr(t).attr)
      \/ ~exists /\ IsDeletion(r)
      \/ ~exists /\ AtRuntime /\ ~({"NV", "RT"} \subseteq r.attr)

\* The checks that end in EFI_WRITE_PROTECTED, EFI_INVALID_PARAMETER,
\* EFI_NOT_AVAILABLE_YET or EFI_NOT_FOUND.
Refused(r, t) ==
  LET exists == t.found.curr # 0
  IN  \/ r.value # NoData /\ VarSize(r) > MaxVariableSize
      \/ EndOfDxe /\ r.name \in LockedNames
      \/ exists /\ r.attr \notin {{}, CurrPtr(t).attr}
      \/ "NV" \in r.attr /\ ~WriteReady
      \/ exists /\ AtRuntime /\ ~({"NV", "RT"} \subseteq CurrPtr(t).attr)
      \/ ~exists /\ IsDeletion(r)
      \/ ~exists /\ AtRuntime /\ ~({"NV", "RT"} \subseteq r.attr)

\* The variable has these contents already.
Repeated(r, t) ==
  t.found.curr # 0 /\ ~IsDeletion(r) /\ CurrPtr(t).value = r.value

RefuseSet(r) ==
  /\ Calls(r)
  /\ Refused(r, FindVariable(r.name))
  /\ status' = "refused"
  /\ UNCHANGED <<store, memory, job>>

RepeatSet(r) ==
  /\ Calls(r)
  /\ LET t == FindVariable(r.name) IN ~Refused(r, t) /\ Repeated(r, t)
  /\ status' = "success"
  /\ UNCHANGED <<store, memory, job>>

\* The store a call works on.
Volatile(r, t) == IF t.found.curr # 0 THEN t.volatile ELSE "NV" \notin r.attr

MutantStartPoint(r, found) ==
  IF IsDeletion(r) THEN "delete" ELSE IF found.curr # 0 THEN "mark" ELSE "place"

StartPoint(r, found) ==
  IF IsDeletion(r) THEN IF found.inDel # 0 THEN "delete transition" ELSE "delete"
  ELSE IF found.curr # 0 THEN "mark" ELSE "place"

StartSet(r) ==
  /\ Calls(r)
  /\ LET t == FindVariable(r.name)
     IN  /\ ~Refused(r, t) /\ ~Repeated(r, t) /\ ~Volatile(r, t)
         /\ job' = [pc |-> StartPoint(r, t.found), request |-> r,
                    curr |-> t.found.curr, inDel |-> t.found.inDel]
  /\ status' = "none"
  /\ UNCHANGED <<store, memory>>

-----------------------------------------------------------------------------
(***************************************************************************)
(* Volatile variables: memory only, so nothing comes between the steps.    *)
(***************************************************************************)
WithState(s, i, state) == IF i = 0 THEN s ELSE [s EXCEPT ![i].state = state]

DeleteVolatile(found) ==
  /\ memory' = WithState(WithState(memory, found.inDel, "deleted"), found.curr, "deleted")
  /\ status' = "success"

\* What is left when the new record cannot be written.
MarkedMemory(found) == WithState(memory, found.curr, "transition")

AppendVolatile(r, found) ==
  /\ Used(memory) + VarSize(r) <= VolatileCapacity
  /\ IF Used(memory) + VarSize(r) < VolatileCapacity
     THEN /\ memory' = WithState(WithState(Append(memory, Added(r)),
                                          found.inDel, "deleted"), found.curr, "deleted")
          /\ status' = "success"
     ELSE memory' = MarkedMemory(found) /\ status' = "error"

ReclaimVolatile(r, found) ==
  /\ Used(memory) + VarSize(r) > VolatileCapacity
  /\ \E order \in CopyOrders(MarkedMemory(found), found.curr, found.inDel) :
       LET new == Append(Copied(MarkedMemory(found), order), Added(r))
       IN  IF Used(new) <= VolatileCapacity
           THEN memory' = new /\ status' = "success"
           ELSE memory' = MarkedMemory(found) /\ status' = "no room"

SetVolatile(r) ==
  /\ Calls(r)
  /\ LET t == FindVariable(r.name)
     IN  /\ ~Refused(r, t) /\ ~Repeated(r, t) /\ Volatile(r, t)
         /\ IF IsDeletion(r) THEN DeleteVolatile(t.found)
            ELSE AppendVolatile(r, t.found) \/ ReclaimVolatile(r, t.found)
  /\ UNCHANGED <<store, job>>

-----------------------------------------------------------------------------
(***************************************************************************)
(* The steps of UpdateVariable on the non-volatile store.  A step writes   *)
(* flash once and then the cache.                                          *)
(***************************************************************************)
Request == job.request

Goto(pc)  == job' = [job EXCEPT !.pc = pc] /\ UNCHANGED status
Return(s) == job' = Idle /\ status' = s

Steps == UNCHANGED <<ftw, memory, phase, client, counters>>

MutantSetState(i, state) ==
  flash' = WithState(flash, i, state) /\ UNCHANGED <<tail, cache, last, totals>>

SetState(i, state) ==
  /\ flash' = WithState(flash, i, state)
  /\ cache' = WithState(cache, i, state)
  /\ UNCHANGED <<tail, last, totals>>

DeleteTransition ==
  /\ job.pc = "delete transition"
  /\ SetState(job.inDel, "deleted")
  /\ Goto("delete")
  /\ Steps

DeleteCurrent ==
  /\ job.pc = "delete"
  /\ SetState(job.curr, "deleted")
  /\ Return("success")
  /\ Steps

MarkCurrent ==
  /\ job.pc = "mark"
  /\ SetState(job.curr, "transition")
  /\ Goto("place")
  /\ Steps

\* The total sizes leave room for the record.
HasRoom(r) ==
  IF IsHwErr(r) THEN VarSize(r) + totals.hwErr <= HwErrSize
  ELSE VarSize(r) + totals.common <= Capacity - HwErrSize

NoRoomAtRuntime ==
  /\ job.pc = "place"
  /\ AtRuntime /\ ~HasRoom(Request)
  /\ Return("no room")
  /\ UNCHANGED store /\ Steps

ReclaimNew ==
  /\ job.pc = "place"
  /\ ~AtRuntime /\ ~HasRoom(Request)
  /\ \E order \in CopyOrders(flash, job.curr, job.inDel) :
       LET new == Append(Copied(flash, order), Added(Request))
       IN  \/ ~QuotasHold(new) /\ Return("no room")
              /\ cache' = flash /\ UNCHANGED <<flash, tail, last, totals, ftw, errors>>
           \/ QuotasHold(new) /\ Return("success")
              /\ Reclaimed(new) /\ UNCHANGED errors
           \/ QuotasHold(new) /\ Return("error")
              /\ FtwFails(new)
  /\ UNCHANGED <<memory, phase, client, calls, boots, losses>>

-----------------------------------------------------------------------------
\* UpdateVariableStore refuses a write up to the last byte of the volume.
Outside(size) == Used(SubSeq(cache, 1, last)) + size >= Capacity + Beyond

\* A write over what is not erased: nothing changes if it is the same,
\* otherwise the bits of both are lost.
Overwrite(old, new) ==
  IF [old EXCEPT !.state = "blank", !.whole = FALSE] = new THEN old
  ELSE [new EXCEPT !.name = Garbled]

\* Step 1: write the header.  A failed call may have left something there.
WriteHeader ==
  /\ job.pc = "place" /\ HasRoom(Request)
  /\ IF Outside(HeaderSize)
     THEN Return("error") /\ UNCHANGED store
     ELSE /\ flash' = IF last = Len(flash)
                      THEN Append(flash, IF tail = "free" THEN NewRecord(Request)
                                         ELSE [NewRecord(Request) EXCEPT !.name = Garbled])
                      ELSE [flash EXCEPT ![last + 1] = Overwrite(@, NewRecord(Request))]
          /\ tail' = "free"
          /\ Goto("state")
          /\ UNCHANGED <<cache, last, totals>>
  /\ Steps

MutantWriteHeaderState ==
  /\ job.pc = "state"
  /\ flash' = WithState(flash, last + 1, "added")
  /\ Goto("data")
  /\ UNCHANGED <<tail, cache, last, totals>> /\ Steps

\* Step 2: the header is valid.
WriteHeaderState ==
  /\ job.pc = "state"
  /\ flash' = WithState(flash, last + 1, "header")
  /\ Goto("data")
  /\ UNCHANGED <<tail, cache, last, totals>> /\ Steps

\* Step 3: write the body.
WriteData ==
  /\ job.pc = "data"
  /\ IF Outside(VarSize(Request))
     THEN Return("error") /\ UNCHANGED store
     ELSE /\ flash' = [flash EXCEPT ![last + 1].whole = TRUE]
          /\ Goto("added")
          /\ UNCHANGED <<tail, cache, last, totals>>
  /\ Steps

\* Step 4: the record is added; the offset, the totals and the cache follow.
WriteAdded ==
  /\ job.pc = "added"
  /\ flash' = WithState(flash, last + 1, "added")
  /\ cache' = Append(SubSeq(cache, 1, last), Added(Request))
  /\ last' = last + 1
  /\ totals' = IF IsHwErr(Request)
               THEN [totals EXCEPT !.hwErr = @ + VarSize(Request)]
               ELSE [totals EXCEPT !.common = @ + VarSize(Request)]
  /\ IF job.curr = 0 THEN Return("success")
     ELSE IF job.inDel # 0 THEN Goto("drop transition") ELSE Goto("drop")
  /\ UNCHANGED tail /\ Steps

DropTransition ==
  /\ job.pc = "drop transition"
  /\ SetState(job.inDel, "deleted")
  /\ Goto("drop")
  /\ Steps

DropCurrent ==
  /\ job.pc = "drop"
  /\ SetState(job.curr, "deleted")
  /\ Return("success")
  /\ Steps

UpdateStep ==
  \/ DeleteTransition \/ DeleteCurrent \/ MarkCurrent
  \/ NoRoomAtRuntime \/ ReclaimNew
  \/ WriteHeader \/ WriteHeaderState \/ WriteData \/ WriteAdded
  \/ DropTransition \/ DropCurrent

-----------------------------------------------------------------------------
(***************************************************************************)
(* The boot.                                                               *)
(***************************************************************************)
\* VariableCommonInitialize on what is in flash, or is written to it by the
\* driver's InitFtwProtocol.
Initialized ==
  /\ flash' = NextBoot
  /\ ftw' = Ready
  /\ cache' = flash'
  /\ last' = Len(flash')
  /\ totals' = [common |-> CommonSum(flash'), hwErr |-> HwErrSum(flash')]
  /\ memory' = <<>>
  /\ phase' = "early"
  /\ job' = Idle /\ status' = "none"

Reboot ==
  /\ job = Idle /\ boots < MaxBoots
  /\ tail' = IF ftw.state = "restarts" THEN "free" ELSE tail
  /\ Initialized
  /\ boots' = boots + 1
  /\ UNCHANGED <<client, calls, losses, errors>>

\* In the middle of a call; the header may be half written.
PowerLoss ==
  /\ job # Idle /\ losses < client.losses
  /\ \/ tail' = IF ftw.state = "restarts" THEN "free" ELSE tail
     \/ /\ ftw.state # "restarts" /\ tail' = "junk"
        /\ job.pc = "place" /\ HasRoom(Request) /\ last = Len(flash)
  /\ Initialized
  /\ losses' = losses + 1
  /\ UNCHANGED <<client, calls, boots, errors>>

MutantWriteServiceInitialize ==
  /\ phase = "early"
  /\ phase' = "dxe"
  /\ UNCHANGED <<store, memory, job, status, client, counters>>

\* VariableWriteServiceInitialize: what follows the last record is not free.
VariableWriteServiceInitialize ==
  /\ phase = "early"
  /\ IF tail = "junk" THEN ReclaimAll ELSE UNCHANGED <<store, errors>>
  /\ phase' = "dxe"
  /\ UNCHANGED <<memory, job, status, client, calls, boots, losses>>

\* ReclaimForOS; the differences are unsigned and wrap when negative.
BelowThreshold ==
  LET common == Capacity - HwErrSize - totals.common
      hwErr  == HwErrSize - totals.hwErr
  IN  \/ 0 <= common /\ common < MaxVariableSize
      \/ HwErrSize # 0 /\ 0 <= hwErr /\ hwErr < MaxVariableSize

ReclaimForOS == IF BelowThreshold THEN ReclaimAll ELSE UNCHANGED <<store, errors>>

OnEndOfDxe ==
  /\ phase = "dxe" /\ job = Idle
  /\ IF ReclaimAtEndOfDxe THEN ReclaimForOS ELSE UNCHANGED <<store, errors>>
  /\ phase' = "late"
  /\ UNCHANGED <<memory, job, status, client, calls, boots, losses>>

\* ReclaimForOS reclaims once in a boot.
OnReadyToBoot ==
  /\ phase \in {"dxe", "late"} /\ job = Idle
  /\ IF ReclaimAtEndOfDxe /\ phase = "late" THEN UNCHANGED <<store, errors>>
     ELSE ReclaimForOS
  /\ phase' = "ready"
  /\ UNCHANGED <<memory, job, status, client, calls, boots, losses>>

ExitBootServices ==
  /\ phase = "ready" /\ job = Idle
  /\ phase' = "runtime"
  /\ UNCHANGED <<store, memory, job, status, client, counters>>

-----------------------------------------------------------------------------
\* An access to flash fails; the call returns.
DeviceError ==
  /\ job # Idle /\ errors < client.errors
  /\ IF job.pc = "place" THEN "header" \in client.faulty /\ HasRoom(Request)
     ELSE job.pc \in client.faulty
  /\ Return("error")
  /\ errors' = errors + 1
  /\ UNCHANGED <<store, memory, phase, client, calls, boots, losses>>

Init ==
  /\ flash = <<>> /\ tail = "free" /\ cache = <<>> /\ last = 0
  /\ totals = [common |-> 0, hwErr |-> 0]
  /\ ftw = Ready
  /\ memory = <<>> /\ phase = "early" /\ job = Idle /\ status = "none"
  /\ client \in Clients
  /\ calls = 0 /\ boots = 0 /\ losses = 0 /\ errors = 0

SetVariable ==
  \E r \in Requests : RefuseSet(r) \/ RepeatSet(r) \/ SetVolatile(r) \/ StartSet(r)

Boot == VariableWriteServiceInitialize \/ OnEndOfDxe \/ OnReadyToBoot \/ ExitBootServices

Next == SetVariable \/ UpdateStep \/ Boot \/ DeviceError \/ PowerLoss \/ Reboot

Spec == Init /\ [][Next]_vars
-----------------------------------------------------------------------------
\* Every variable has a value of its type.
TypeOK ==
  /\ flash \in Seq(Record) /\ cache \in Seq(Record) /\ memory \in Seq(Record)
  /\ tail \in {"free", "junk"}
  /\ last \in 0..Len(cache)
  /\ totals \in [common : Nat, hwErr : Nat]
  /\ ftw \in [state : {"ready", "refuses", "restarts"}, spare : Seq(Record)]
  /\ phase \in {"early", "dxe", "late", "ready", "runtime"}
  /\ \/ job = Idle
     \/ job \in [pc : (Points \ {"header", "reclaim"}) \cup {"place"},
                request : client.requests,
                curr : 0..Len(flash), inDel : 0..Len(flash)]
  /\ status \in {"none", "success", "refused", "no room", "error"}
  /\ client \in Clients
  /\ calls \in 0..client.calls /\ boots \in 0..MaxBoots
  /\ losses \in 0..client.losses /\ errors \in 0..client.errors

\* What GetVariable reads is what is in flash: between calls the copy in
\* memory and the flash agree ("Keep the memory and the FLASH in sync as
\* updates occur"), and the next record goes behind the last one.
CacheInSync == job = Idle => cache = flash /\ last = Len(flash)

\* Calls cut off behind the new record leave two records of a name.  The next
\* call about it removes both, but marks the second before it removes the first:
\* cut off there, it lets older contents come back (DeletedIsGone).  The
\* properties about the contents are checked, and proved, of the behaviours in
\* which a call that has found two records gets past the first.
Doubled ==
  /\ job # Idle /\ job.inDel # 0
  /\ job.pc \in {"place", "state", "data", "added", "drop transition"}

Completes == Doubled /\ job' = Idle => status' = "success"

\* No name has two records that are added, whatever interrupted calls left and
\* a reclaim promoted: the second would never be found.
AddedUnique ==
  \A i, j \in DOMAIN flash :
    flash[i].state = "added" /\ flash[j].state = "added" /\ flash[i].name = flash[j].name
      => i = j

\* A variable that the next boot can find has been written completely: no cut in
\* the four writes of a record, and no store that a failed reclaim left half
\* written, is there to be read then.  (Until that boot the driver does read
\* what the failed reclaim left.)
VisibleIsWhole == \A i \in DOMAIN NextBoot : Visible(NextBoot[i]) => NextBoot[i].whole

\* The header of a new record is written to erased flash, as the firmware
\* volume protocol demands of its callers.
ErasedBeforeWritten ==
  job # Idle /\ job.pc = "place" /\ HasRoom(Request) => last = Len(flash) /\ tail = "free"

\* When the total sizes say that a record has room, it has room behind the
\* last one, whatever is left of interrupted calls, and the write is not
\* refused for ending at the last byte of the volume.  (After a reclaim that
\* fails when the store is written the totals may be too small.)
AppendFits ==
  "reclaim" \notin client.faulty /\ job # Idle /\ job.pc \in {"place", "data"} /\ HasRoom(Request) =>
    /\ Used(SubSeq(cache, 1, last)) + VarSize(Request) <= Capacity
    /\ ~Outside(VarSize(Request))

\* A variable that the next boot can find disappears only by a call that deletes
\* it: no update, reclaim, error or loss of power takes another one away, and
\* what a reclaim lost that failed in the middle, the next boot restores.  (The
\* properties about contents speak of the next boot: until then the driver may
\* read half a store, and the restart undoes the changes made in between.)
VisibleIn(s, n) == \E i \in DOMAIN s : s[i].name = n /\ Visible(s[i])

OnlyDeletionRemoves ==
  [][\A n \in Names : VisibleIn(NextBoot, n) /\ ~VisibleIn(NextBoot', n)
       => job # Idle /\ job.pc = "delete" /\ Request.name = n]_vars

\* A call fails for lack of room only if QueryVariableInfo says so, as long as
\* the store can be reclaimed.
SpacePromised ==
  [][status' = "no room" /\ job # Idle /\ ~AtRuntime =>
       RemainingVariableStorageSize(IsHwErr(Request)) < VarSize(Request)]_vars

\* What a reader finds after the next boot, or now of a volatile variable that
\* the restart of a reclaim does not bring back as a non-volatile one.
Stored(n) ==
  LET inMemory == FindVariableEx(memory, n).curr
      inFlash  == FindVariableEx(NextBoot, n).curr
      content(r) == [value |-> IF r.whole THEN r.value ELSE NoData, attr |-> r.attr]
  IN  IF inMemory # 0 /\ (ftw.state = "restarts" => inFlash = 0)
      THEN content(memory[inMemory])
      ELSE IF inFlash # 0 THEN content(NextBoot[inFlash]) ELSE Idle

\* Locked variables do not change between the end of DXE and the next boot,
\* neither by calls nor by the reclaim on the way to the operating system, where
\* it fails included: what that boot finds of them stays as it was.  (Where two
\* records of a name were left and the call about them is cut off, Completes,
\* older contents come back.)
LockedUnchanged ==
  [][EndOfDxe /\ EndOfDxe' => \A n \in LockedNames : Stored(n)' = Stored(n)]_vars

\* The driver is a map whose variables change at one moment: a loss of power or
\* an error in a call leaves the old variable or the new one, and a success
\* stays, unless a reclaim has failed that the next boot restarts (~lasting).
\* Deleted or replaced contents do not come back, but for the calls cut off that
\* Completes leaves out.
Map == INSTANCE VariableMap WITH
         map <- [n \in Names |-> Stored(n)],
         request <- IF job = Idle THEN Idle ELSE job.request,
         lasting <- ftw.state # "restarts",
         NoRequest <- Idle, Absent <- Idle

ImplementsVariableMap == Map!Spec

\* A deletion that returns success leaves no variable of that name.
DeletedIsGone ==
  [][job # Idle /\ job.pc = "delete" /\ status' = "success" => ~VisibleIn(flash', Request.name)]_vars

\* GetNextVariableName, asked again and again from the beginning, lists the
\* variables that GetVariable finds.
EnumerationComplete ==
  job = Idle =>
    LET listed[k \in 0..Cardinality(Names)] ==
          IF k = 0 THEN GetNextVariableName(NoData)
          ELSE IF listed[k - 1] = Garbled THEN Garbled
          ELSE GetNextVariableName(listed[k - 1])
    IN  {listed[k] : k \in DOMAIN listed} \ {Garbled}
          = {n \in Names : GetVariable(n) # NoData}
=============================================================================
