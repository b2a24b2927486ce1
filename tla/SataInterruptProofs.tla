------------------------ MODULE SataInterruptProofs ------------------------
(***************************************************************************)
(* Proofs about SataInterrupt, for every board, every choice of tests and  *)
(* every size of the MSI-X table.                                          *)
(***************************************************************************)
EXTENDS SataInterrupt, TLAPS

(***************************************************************************)
(* Where the steps are in the courses of the tests.  From the opening of   *)
(* the path on all courses are the same, but for the order of the last two *)
(* steps: openpath, read, wait, poll, compare, resetflag, unregister.      *)
(***************************************************************************)
Messages == {"SMSI", "MMSI"}

RegisterAt(m) == CASE m = "SMSI" -> 8 [] m = "MSIX" -> 7 [] OTHER -> 6
IntxAt(m)     == IF m = "PIC" THEN 8 ELSE 7
SetAt(m)      == CASE m = "PIC" -> 7 [] m \in Messages -> 9 [] OTHER -> 8
OpenAt(m)     == IF m \in Messages THEN 10 ELSE 9
WaitAt(m)     == {IF m = "PIC" THEN 4 ELSE 3, OpenAt(m) + 2}
CloseAt(m)    == IF m \in Messages THEN 18 ELSE 16
ClearAt       == 17
EndAt(m)      == IF m \in Messages THEN 18 ELSE 17

\* The same after Exit: 0 is for a step that is missing there.
ExitResetAt(m) == IF m \in {"PIC", "APIC"} THEN 0 ELSE 2
ExitCloseAt(m) == CASE m = "PIC" -> 0 [] m = "APIC" -> 2 [] m = "MSIX" -> 3 [] OTHER -> 4
ExitClearAt(m) == CASE m = "PIC" -> 2 [] m = "MSIX" -> 4 [] OTHER -> 3
ExitEndAt(m)   == CASE m = "PIC" -> 2 [] m = "APIC" -> 3 [] OTHER -> 4

InTest == Running /\ ~exiting
InExit == Running /\ exiting

\* The path is open, the second read has been issued and the loop on the
\* flag has not ended.
Waiting == InTest /\ step \in {OpenAt(Mode) + 2, OpenAt(Mode) + 3}

-----------------------------------------------------------------------------
(***************************************************************************)
(* The inductive invariant.                                                *)
(***************************************************************************)
\* A command is in progress, and has not completed, only while the test waits
\* for it; the interrupts
\* of the port are enabled from AHCI_Set_Port to AHCI_Clear_Port, also on the
\* way out; nothing has been reported by the port before the second read.
PortFits ==
  /\ disk # "idle" => InTest /\ step \in WaitAt(Mode) /\ "DHR" \notin portIS
  /\ portIE => Running /\ IF exiting THEN step <= ExitClearAt(Mode)
                                     ELSE step > SetAt(Mode) /\ step <= ClearAt
  /\ InTest /\ step > SetAt(Mode) /\ step <= ClearAt => portIE
  /\ InTest /\ step > SetAt(Mode) /\ step <= OpenAt(Mode) + 1 => portIS = {}
  /\ InTest /\ Mode \in {"PIC", "APIC"} /\ step > IntxAt(Mode) => ~intxOff

\* The handlers of the test are registered, and every handler is of a test
\* that has run.
HandlersFit ==
  /\ InTest /\ step > RegisterAt(Mode) /\ step <= OpenAt(Mode) + 6 =>
       Vectors(Mode) \subseteq registered
  /\ \A v \in registered : \E i \in 1..Len(Tests) : i <= test /\ v \in Vectors(Tests[i])

\* The path of the test is open, with its message.
PathFits ==
  /\ InTest /\ step > OpenAt(Mode) /\ step <= CloseAt(Mode) => Path(Mode) \in opened
  /\ InTest /\ step > OpenAt(Mode) /\ Mode \in Messages => message = MsiMessage(Mode)

\* What the tests have reported.
VerdictFits ==
  /\ \A i \in 1..Len(Tests) : i > test => verdict[i] = "none"
  /\ InTest => verdict[test] = IF step > OpenAt(Mode) + 4 THEN "success" ELSE "none"
  /\ InExit => verdict[test] = "failure"
  /\ Failing = {} => good

\* What the running test has done, on every board and whatever fails.
CourseOK == PortFits /\ HandlersFit /\ PathFits /\ VerdictFits

\* All tests have succeeded so far.
Clean == ~exiting /\ \A i \in 1..(test - 1) : verdict[i] = "success"

\* Nothing fails, or there are only tests with messages; and a test gives up
\* only when no interrupt is on its way.
Tame ==
  /\ Timely
  /\ Failing = {} \/ \A i \in 1..Len(Tests) : Tests[i] \notin {"PIC", "APIC"}

\* Only the path of the running test is open, or that of a PIC test which
\* does not lead to the processor.
PathOwn ==
  \A p \in opened :
    \/ p = "PIC" /\ p \notin board.routed
    \/ /\ Running /\ p = Path(Mode)
       /\ IF exiting THEN step <= ExitCloseAt(Mode)
                     ELSE step > OpenAt(Mode) /\ step <= CloseAt(Mode)

\* The flag is set by the handler of the running test, when the interrupt is
\* over.
FlagOwn ==
  HasEnterInterrupt =>
    /\ Running
    /\ IF exiting THEN step <= ExitResetAt(Mode)
                  ELSE step > OpenAt(Mode) + 1 /\ step <= OpenAt(Mode) + 5
    /\ taken \cap Vectors(Mode) # {}
    /\ portIS = {} /\ disk = "idle" /\ handler = NoVector /\ Latched = {}

\* Only the test that waits for an interrupt can be interrupted, and only by
\* what it has opened.
HandlerOwn ==
  /\ handler # NoVector =>
       /\ Waiting /\ portIS # {}
       /\ handler \in Vectors(Mode) \cap taken \cap inService
       /\ irr = {} \/ ~(inService \ {handler} \subseteq {114})
  /\ Latched # {} => Waiting /\ portIS # {} /\ irr \subseteq Sent
  /\ 114 \in inService => handler = 114

\* The loop on the flag ends with an interrupt, and the second read leads to
\* one.
SeenOwn ==
  /\ InTest /\ step > OpenAt(Mode) + 3 => portIS = {} /\ taken \cap Vectors(Mode) # {}
  /\ Waiting /\ disk = "idle" /\ ~HasEnterInterrupt /\ "disk" \notin Failing => portIS # {}

WaitsOwn == PathOwn /\ FlagOwn /\ HandlerOwn /\ SeenOwn

\* Tests that succeed undo what they have done ...
ClosedAgain ==
  /\ registered = IF InTest /\ step > RegisterAt(Mode) /\ step <= OpenAt(Mode) + 6
                  THEN Vectors(Mode) ELSE {}
  /\ opened \subseteq IF InTest /\ step > OpenAt(Mode) /\ step <= CloseAt(Mode)
                      THEN {Path(Mode)} ELSE {}

\* ... and the interrupt they wait for is the only one.
OneInterrupt ==
  /\ ~Waiting \/ portIS = {} => irr = {} /\ inService = {}
  /\ handler # NoVector => inService = {handler} /\ irr = {}
  /\ handler = NoVector => \A v \in inService : v \in Sent /\ v \notin registered
  /\ Waiting /\ portIS # {} /\ inService = {} => irr = Sent

Undone == ClosedAgain /\ OneInterrupt

\* As long as all paths work, nothing is refused and nothing fails.
SupportedGoOn ==
  Timely /\ Failing = {} =>
    /\ SupportedSucceed
    /\ InExit => \E j \in 1..test : ~Supported(Tests[j])

\* MSI is enabled with a message in its capability.
MessageSet == "MSI" \in opened => message # NoVector

\* The invariant but for the types.
Fits ==
  /\ CourseOK
  /\ Clean \/ Tame => WaitsOwn
  /\ Clean => Undone
  /\ SupportedGoOn

IInv == TypeOK /\ MessageSet /\ Fits

-----------------------------------------------------------------------------
(***************************************************************************)
(* The courses.                                                            *)
(***************************************************************************)
\* The order of the steps.
LEMMA Layout ==
  ASSUME NEW m \in Modes
  PROVE  /\ RegisterAt(m) \in 6..8 /\ RegisterAt(m) < OpenAt(m) /\ RegisterAt(m) < SetAt(m)
         /\ SetAt(m) \in 7..9 /\ SetAt(m) < OpenAt(m)
         /\ IntxAt(m) \in 7..8 /\ IntxAt(m) < OpenAt(m)
         /\ OpenAt(m) \in 9..10
         /\ WaitAt(m) = {IF m = "PIC" THEN 4 ELSE 3, OpenAt(m) + 2}
         /\ CloseAt(m) \in {OpenAt(m) + 7, OpenAt(m) + 8}
         /\ ClearAt \in {OpenAt(m) + 7, OpenAt(m) + 8} /\ ClearAt # CloseAt(m)
         /\ EndAt(m) = OpenAt(m) + 8
         /\ ExitEndAt(m) \in 2..4
         /\ ExitClearAt(m) \in 2..ExitEndAt(m)
         /\ ExitResetAt(m) \in 0..2 /\ ExitResetAt(m) < ExitEndAt(m)
         /\ ExitCloseAt(m) \in 0..ExitEndAt(m)
         /\ m \notin {"PIC", "APIC"} => ExitResetAt(m) = 2 /\ ExitCloseAt(m) > 2
BY DEF Modes, RegisterAt, SetAt, IntxAt, OpenAt, WaitAt, CloseAt, ClearAt, EndAt,
       ExitEndAt, ExitClearAt, ExitResetAt, ExitCloseAt, Messages

LEMMA Lengths ==
  ASSUME NEW m \in Modes
  PROVE  Len(RunSteps(m)) = EndAt(m) /\ Len(ExitSteps(m)) = ExitEndAt(m)
BY DEF Modes, EndAt, ExitEndAt, Messages, RunSteps, ExitSteps,
       PicSteps, ApicSteps, SmsiSteps, MmsiSteps, MsixSteps

\* Which steps a course has, and where.
RunStepAt(m, k, s) ==
  /\ s = "alloc" => k = 1
  /\ s = "open" => k \in {2, 4}
  /\ s = "read" <=> k + 1 \in WaitAt(m)
  /\ s = "wait" <=> k \in WaitAt(m)
  /\ s = "locate" => k = 5
  /\ s = "find" => k \in 6..8 /\ k < SetAt(m) /\ m \notin {"PIC", "APIC"}
  /\ s = "intxon" <=> k = IntxAt(m) /\ m \in {"PIC", "APIC"}
  /\ s = "intxoff" => k \in 6..8 /\ k < SetAt(m) /\ m \notin {"PIC", "APIC"}
  /\ s = "register" <=> k = RegisterAt(m)
  /\ s = "setport" <=> k = SetAt(m)
  /\ s = "openpath" <=> k = OpenAt(m)
  /\ s = "poll" <=> k = OpenAt(m) + 3
  /\ s = "compare" <=> k = OpenAt(m) + 4
  /\ s = "resetflag" <=> k = OpenAt(m) + 5
  /\ s = "unregister" <=> k = OpenAt(m) + 6
  /\ s = "closepath" <=> k = CloseAt(m)
  /\ s = "clearport" <=> k = ClearAt
  /\ s # "report"

LEMMA RunCourse ==
  ASSUME NEW m \in Modes, NEW k \in 1..EndAt(m)
  PROVE  RunStepAt(m, k, RunSteps(m)[k])
<1>1. CASE m = "PIC"
  <2>1. k \in 1..17
    BY <1>1 DEF EndAt, Messages
  <2>2. k \in {1, 2, 3, 4, 5, 6, 7, 8, 9, 10, 11, 12, 13, 14, 15, 16, 17}
    BY <2>1
  <2> QED
    BY <1>1, <2>2 DEF RunStepAt, RunSteps, PicSteps, RegisterAt, SetAt, IntxAt,
       OpenAt, WaitAt, CloseAt, ClearAt, Messages
<1>2. CASE m = "APIC"
  <2>1. k \in 1..17
    BY <1>2 DEF EndAt, Messages
  <2>2. k \in {1, 2, 3, 4, 5, 6, 7, 8, 9, 10, 11, 12, 13, 14, 15, 16, 17}
    BY <2>1
  <2> QED
    BY <1>2, <2>2 DEF RunStepAt, RunSteps, ApicSteps, RegisterAt, SetAt, IntxAt,
       OpenAt, WaitAt, CloseAt, ClearAt, Messages
<1>3. CASE m = "SMSI"
  <2>1. k \in 1..18
    BY <1>3 DEF EndAt, Messages
  <2>2. k \in {1, 2, 3, 4, 5, 6, 7, 8, 9, 10, 11, 12, 13, 14, 15, 16, 17, 18}
    BY <2>1
  <2> QED
    BY <1>3, <2>2 DEF RunStepAt, RunSteps, SmsiSteps, RegisterAt, SetAt, IntxAt,
       OpenAt, WaitAt, CloseAt, ClearAt, Messages
<1>4. CASE m = "MMSI"
  <2>1. k \in 1..18
    BY <1>4 DEF EndAt, Messages
  <2>2. k \in {1, 2, 3, 4, 5, 6, 7, 8, 9, 10, 11, 12, 13, 14, 15, 16, 17, 18}
    BY <2>1
  <2> QED
    BY <1>4, <2>2 DEF RunStepAt, RunSteps, MmsiSteps, RegisterAt, SetAt, IntxAt,
       OpenAt, WaitAt, CloseAt, ClearAt, Messages
<1>5. CASE m = "MSIX"
  <2>1. k \in 1..17
    BY <1>5 DEF EndAt, Messages
  <2>2. k \in {1, 2, 3, 4, 5, 6, 7, 8, 9, 10, 11, 12, 13, 14, 15, 16, 17}
    BY <2>1
  <2> QED
    BY <1>5, <2>2 DEF RunStepAt, RunSteps, MsixSteps, RegisterAt, SetAt, IntxAt,
       OpenAt, WaitAt, CloseAt, ClearAt, Messages
<1> QED
  BY <1>1, <1>2, <1>3, <1>4, <1>5 DEF Modes

ExitStepAt(m, k, s) ==
  /\ s = "report" => k = 1
  /\ s = "resetflag" <=> k = ExitResetAt(m)
  /\ s = "closepath" <=> k = ExitCloseAt(m)
  /\ s = "clearport" <=> k = ExitClearAt(m)
  /\ s \in {"report", "resetflag", "closepath", "clearport"}

LEMMA ExitCourse ==
  ASSUME NEW m \in Modes, NEW k \in 1..ExitEndAt(m)
  PROVE  ExitStepAt(m, k, ExitSteps(m)[k])
<1>1. k \in 1..4 /\ k <= ExitEndAt(m)
  BY Layout
<1>2. k \in {1, 2, 3, 4}
  BY <1>1
<1> QED
  BY <1>1, <1>2 DEF Modes, ExitStepAt, ExitSteps, ExitEndAt, ExitResetAt, ExitCloseAt,
     ExitClearAt

-----------------------------------------------------------------------------
(***************************************************************************)
(* Types and positions.                                                    *)
(***************************************************************************)
\* The test that runs.
LEMMA Here ==
  ASSUME TypeOK, Running
  PROVE  /\ Mode \in Modes /\ test \in 1..Len(Tests) /\ Len(Tests) \in Nat
         /\ board \in BoardRecord /\ Tests \in Seq(Modes)
         /\ step \in 1..Len(Course) /\ step \in Nat
         /\ Len(Course) = IF exiting THEN ExitEndAt(Mode) ELSE EndAt(Mode)
         /\ ~exiting => RunStepAt(Mode, step, Course[step])
         /\ exiting => ExitStepAt(Mode, step, Course[step])
<1>1. board \in BoardRecord /\ Tests \in Seq(Modes) /\ Len(Tests) \in Nat
  BY ToolAssumption DEF TypeOK, BoardRecord, Tests
<1>2. test \in 1..Len(Tests)
  BY <1>1 DEF TypeOK, Running
<1>3. Mode \in Modes
  BY <1>1, <1>2 DEF Mode
<1>4. step \in 1..Len(Course)
  BY DEF TypeOK
<1>5. Len(Course) = IF exiting THEN ExitEndAt(Mode) ELSE EndAt(Mode)
  BY <1>3, Lengths DEF Course
<1>6. EndAt(Mode) \in Nat /\ ExitEndAt(Mode) \in Nat
  BY <1>3, Layout
<1>7. step \in Nat
  BY <1>4, <1>5, <1>6
<1>8. ASSUME ~exiting PROVE RunStepAt(Mode, step, Course[step])
  BY <1>3, <1>4, <1>5, <1>8, RunCourse DEF Course
<1>9. ASSUME exiting PROVE ExitStepAt(Mode, step, Course[step])
  BY <1>3, <1>4, <1>5, <1>9, ExitCourse DEF Course
<1> QED
  BY <1>1, <1>2, <1>3, <1>4, <1>5, <1>7, <1>8, <1>9

\* The position of a step that is executed.
LEMMA Where ==
  ASSUME TypeOK, NEW s, At(s)
  PROVE  /\ Running /\ handler = NoVector /\ Course[step] = s
         /\ ~exiting => RunStepAt(Mode, step, s)
         /\ exiting => ExitStepAt(Mode, step, s)
BY Here DEF At

\* Going on leads to the next step of the course, or to the next test.
Advance ==
  /\ step < Len(Course) /\ step' = step + 1
  /\ UNCHANGED <<board, test, exiting, taken, good>>
  /\ Running' /\ Mode' = Mode /\ Course' = Course /\ Tests' = Tests

LEMMA GoesOn ==
  ASSUME TypeOK, Running, GoOn, UNCHANGED board
  PROVE  Advance \/ (step = Len(Course) /\ NextTest)
<1>1. CASE step = Len(Course)
  BY <1>1 DEF GoOn
<1>2. CASE step # Len(Course)
  <2>1. step \in 1..Len(Course) /\ Len(Course) \in Nat
    BY Here, Layout
  <2>2. step < Len(Course)
    BY <1>2, <2>1
  <2> QED
    BY <1>2, <2>2 DEF GoOn, Advance, Running, Mode, Course, Tests
<1> QED
  BY <1>1, <1>2

\* The vectors of the tests, and what the device sends.
LEMMA VectorsTyped ==
  ASSUME TypeOK
  PROVE  /\ \A m \in Modes : Vectors(m) \subseteq AllVectors
         /\ \A v \in AllVectors : v \in Nat /\ v # NoVector
         /\ \A m \in Messages : MsiMessage(m) \in AllVectors
         /\ MsixVector(board.port) \in Vectors("MSIX")
         /\ {114, 149} \subseteq AllVectors
<1>1. board \in BoardRecord /\ board.port < TableSize /\ TableSize \in Nat
  BY ToolAssumption DEF TypeOK
<1>2. board.port \in Nat
  BY <1>1 DEF BoardRecord
<1>3. \A m \in Modes : Vectors(m) \subseteq AllVectors
  BY DEF AllVectors
<1>4. {114, 149} \subseteq AllVectors
  <2>1. Vectors("PIC") = {114} /\ Vectors("APIC") = {149}
    BY DEF Vectors
  <2> QED
    BY <1>3, <2>1 DEF Modes
<1>5. 148 + board.port \in AllVectors /\ 148 \in AllVectors
  <2>1. Vectors("MMSI") = {148 + board.port}
    BY DEF Vectors
  <2> QED
    BY <1>3, <2>1 DEF Modes, AllVectors
<1>6. \A m \in Messages : MsiMessage(m) \in AllVectors
  BY <1>2, <1>4, <1>5 DEF Messages, MsiMessage
<1>7. MsixVector(board.port) \in Vectors("MSIX")
  BY <1>1, <1>2 DEF Vectors
<1>8. \A m \in Modes : \A v \in Vectors(m) : v \in Nat /\ v # 0
  BY <1>1, <1>2 DEF Modes, Vectors, MsixVector
<1>9. \A v \in AllVectors : v \in Nat /\ v # NoVector
  BY <1>8 DEF AllVectors, NoVector
<1> QED
  BY <1>3, <1>4, <1>6, <1>7, <1>9

LEMMA SentTyped ==
  ASSUME TypeOK, MessageSet
  PROVE  Sent \subseteq AllVectors
<1>1. "MSIX" \in Modes /\ MsixVector(board.port) \in AllVectors
  BY VectorsTyped DEF Modes
<1>2. message \in AllVectors \cup {NoVector} /\ 149 \in AllVectors
  BY VectorsTyped DEF TypeOK
<1> QED
  BY <1>1, <1>2 DEF Sent, MessageSet

-----------------------------------------------------------------------------
(***************************************************************************)
(* The type invariant.                                                     *)
(***************************************************************************)
ControlTyped ==
  /\ board \in Boards
  /\ test \in 1..(Len(Tests) + 1) /\ exiting \in BOOLEAN
  /\ Running => step \in 1..Len(Course)

Verdicts == {"none", "success", "failure", "error"}

DataTyped ==
  /\ verdict \in [1..Len(Tests) -> Verdicts]
  /\ gPciIo \in BOOLEAN /\ HasEnterInterrupt \in BOOLEAN
  /\ registered \subseteq AllVectors
  /\ opened \subseteq Paths
  /\ message \in AllVectors \cup {NoVector}
  /\ intxOff \in BOOLEAN /\ portIE \in BOOLEAN /\ good \in BOOLEAN
  /\ portIS \subseteq {"DP", "DHR"}
  /\ disk \in {"idle", "reading", "data"}
  /\ irr \cup inService \cup taken \subseteq AllVectors
  /\ handler \in AllVectors \cup {NoVector}

LEMMA TypeParts == TypeOK <=> ControlTyped /\ DataTyped
BY DEF TypeOK, ControlTyped, DataTyped, Verdicts

LEMMA FirstStep ==
  ASSUME NEW m \in Modes
  PROVE  1 \in 1..Len(RunSteps(m)) /\ 1 \in 1..Len(ExitSteps(m))
BY Lengths, Layout

LEMMA NextTestTyped ==
  ASSUME TypeOK, Running, UNCHANGED board, NextTest
  PROVE  ControlTyped'
<1>1. test \in 1..Len(Tests) /\ Len(Tests) \in Nat /\ Tests \in Seq(Modes)
  BY Here
<1>2. test' = test + 1 /\ exiting' = FALSE /\ step' = 1 /\ Tests' = Tests /\ board' \in Boards
  BY DEF NextTest, Tests, TypeOK
<1>3. ASSUME Running' PROVE 1 \in 1..Len(Course')
  <2>1. test + 1 \in 1..Len(Tests)
    BY <1>1, <1>2, <1>3 DEF Running
  <2>2. Tests[test + 1] \in Modes
    BY <1>1, <2>1
  <2>3. Course' = RunSteps(Tests[test + 1])
    BY <1>2 DEF Course, Mode
  <2> QED
    BY <2>2, <2>3, FirstStep
<1>4. test' \in 1..(Len(Tests') + 1) /\ exiting' \in BOOLEAN
  <2>1. PICK n : n = Len(Tests)
    OBVIOUS
  <2>2. Len(Tests') = n /\ n \in Nat /\ test \in 1..n
    BY <1>1, <1>2, <2>1
  <2>3. test + 1 \in 1..(n + 1)
    BY <2>2
  <2> QED
    BY <1>2, <2>2, <2>3
<1>5. Running' => step' \in 1..Len(Course')
  BY <1>2, <1>3
<1> QED
  BY <1>2, <1>4, <1>5 DEF ControlTyped

LEMMA GoOnTyped ==
  ASSUME TypeOK, Running, UNCHANGED board, GoOn \/ GotoExit \/ NextTest
  PROVE  ControlTyped' /\ taken' \in {taken, {}} /\ good' \in {good, TRUE}
<1>1. Mode \in Modes /\ step \in 1..Len(Course) /\ Len(Course) \in Nat
  BY Here, Layout
<1>2. CASE NextTest
  BY <1>2, NextTestTyped DEF NextTest
<1>3. CASE GotoExit
  <2>1. Course' = ExitSteps(Mode) /\ Tests' = Tests
    BY <1>3 DEF GotoExit, Course, Mode, Tests
  <2>2. 1 \in 1..Len(Course')
    BY <1>1, <2>1, FirstStep
  <2> QED
    BY <1>3, <2>1, <2>2 DEF GotoExit, ControlTyped, TypeOK
<1>4. CASE GoOn
  <2>1. CASE Advance
    BY <1>1, <2>1 DEF Advance, ControlTyped, TypeOK
  <2>2. CASE NextTest
    BY <2>2, NextTestTyped DEF NextTest
  <2> QED
    BY <1>4, <2>1, <2>2, GoesOn
<1> QED
  BY <1>2, <1>3, <1>4

\* The constant parts of the types.
LEMMA SameBoard ==
  ASSUME UNCHANGED board
  PROVE  AllVectors' = AllVectors /\ Tests' = Tests
BY DEF AllVectors, Vectors, Tests

LEMMA ReportTyped ==
  ASSUME TypeOK, Running, NEW v \in Verdicts, Report(v)
  PROVE  verdict' \in [1..Len(Tests) -> Verdicts]
BY Here DEF Report, TypeOK, Verdicts

\* What a step of the program may change, types only.
Moved    == Running /\ UNCHANGED board /\ (GoOn \/ GotoExit \/ NextTest)
Reported == UNCHANGED verdict \/ \E v \in Verdicts : Report(v)
Written  ==
  /\ UNCHANGED <<handler, irr, inService>>
  /\ HasEnterInterrupt' \in {HasEnterInterrupt, FALSE} /\ gPciIo' \in {gPciIo, TRUE}
  /\ registered' \in {registered, registered \cup Vectors(Mode), registered \ Vectors(Mode)}
  /\ opened' \in {opened, opened \cup {Path(Mode)}, opened \ {Path(Mode)}}
  /\ message' = message \/ (Mode \in Messages /\ message' = MsiMessage(Mode))
  /\ intxOff' \in {intxOff, TRUE, FALSE} /\ portIE' \in {portIE, TRUE, FALSE}
  /\ portIS' \in {portIS, {}} /\ disk' \in {disk, "reading"}

LEMMA ProgramWrites ==
  ASSUME TypeOK, Program
  PROVE  Moved /\ Reported /\ Written
<1> USE DEF Moved, Reported, Written, At, Machine, Flags, Registers
<1>1. {"success", "failure", "error"} \subseteq Verdicts
  BY DEF Verdicts
<1>2. CASE Alloc \/ Open \/ Locate
  BY <1>1, <1>2 DEF Alloc, Open, Locate, Fail
<1>3. CASE FindCapability \/ RegisterInterruptHandler
  BY <1>1, <1>3 DEF FindCapability, RegisterInterruptHandler, ReturnError
<1>4. CASE InterruptDisableBit \/ AHCI_Set_Port \/ ReadStart \/ ReadReturn
  BY <1>4 DEF InterruptDisableBit, AHCI_Set_Port, ReadStart, ReadReturn
<1>5. CASE OpenPath
  <2>1. Mode \in Modes
    BY <1>5, Here DEF OpenPath
  <2>2. Path(Mode) = "MSI" => Mode \in Messages
    BY <2>1 DEF Path, Modes, Messages
  <2> QED
    BY <1>5, <2>2 DEF OpenPath
<1>6. CASE Poll \/ Compare
  BY <1>1, <1>6 DEF Poll, Compare, Fail
<1>7. CASE ResetFlag \/ UnregisterInterruptHandler \/ ClosePath
  BY <1>7 DEF ResetFlag, UnregisterInterruptHandler, ClosePath
<1>8. CASE AHCI_Clear_Port \/ Ahci_Report_Error
  BY <1>8 DEF AHCI_Clear_Port, Ahci_Report_Error
<1> QED
  BY <1>2, <1>3, <1>4, <1>5, <1>6, <1>7, <1>8 DEF Program

LEMMA ProgramTyped ==
  ASSUME TypeOK, Program
  PROVE  TypeOK'
<1>1. Moved /\ Reported /\ Written
  BY ProgramWrites
<1>2. Mode \in Modes /\ AllVectors' = AllVectors /\ Tests' = Tests
  BY <1>1, Here, SameBoard DEF Moved
<1>3. ControlTyped' /\ taken' \in {taken, {}} /\ good' \in {good, TRUE}
  BY <1>1, GoOnTyped DEF Moved
<1>4. verdict' \in [1..Len(Tests') -> Verdicts]
  BY <1>1, <1>2, ReportTyped DEF Moved, Reported, TypeOK, Verdicts
<1>5. Vectors(Mode) \subseteq AllVectors /\ Path(Mode) \in Paths
      /\ (Mode \in Messages => MsiMessage(Mode) \in AllVectors)
  BY <1>2, VectorsTyped DEF Path, Modes, Paths
<1>6. DataTyped'
  <2>1. /\ registered' \subseteq AllVectors /\ opened' \subseteq Paths
        /\ message' \in AllVectors \cup {NoVector}
    BY <1>1, <1>5 DEF Written, TypeOK
  <2>2. /\ irr' \cup inService' \cup taken' \subseteq AllVectors
        /\ handler' \in AllVectors \cup {NoVector}
        /\ portIS' \subseteq {"DP", "DHR"} /\ disk' \in {"idle", "reading", "data"}
    BY <1>1, <1>3 DEF Written, TypeOK
  <2>3. /\ gPciIo' \in BOOLEAN /\ HasEnterInterrupt' \in BOOLEAN
        /\ intxOff' \in BOOLEAN /\ portIE' \in BOOLEAN /\ good' \in BOOLEAN
    BY <1>1, <1>3 DEF Written, TypeOK
  <2> QED
    BY <1>2, <1>4, <2>1, <2>2, <2>3 DEF DataTyped
<1> QED
  BY <1>3, <1>6, TypeParts, PTL

LEMMA ControlStays ==
  ASSUME TypeOK, UNCHANGED <<board, test, exiting, step>>
  PROVE  ControlTyped'
BY DEF ControlTyped, TypeOK, Running, Course, Mode, Tests

LEMMA HardwareTyped ==
  ASSUME TypeOK, MessageSet, Hardware \/ Clear_Interrupt
  PROVE  TypeOK'
<1>1. UNCHANGED <<board, test, exiting, step, verdict, gPciIo, registered, opened, message,
                  intxOff, portIE>>
  BY DEF Hardware, Clear_Interrupt, DiskData, DiskDone, DiskError, DiskSilent, DiskUnchanged,
         TakeLatched, TakePic, Take, control, tool, device
<1>2. ControlTyped' /\ AllVectors' = AllVectors /\ Tests' = Tests
  BY <1>1, ControlStays, SameBoard
<1>3. Sent \subseteq AllVectors /\ 114 \in AllVectors
  BY SentTyped, VectorsTyped
<1>4. /\ HasEnterInterrupt' \in BOOLEAN /\ good' \in BOOLEAN
      /\ portIS' \subseteq {"DP", "DHR"} /\ disk' \in {"idle", "reading", "data"}
  BY DEF TypeOK, Hardware, Clear_Interrupt, DiskData, DiskDone, DiskError, DiskSilent, Raise,
         DiskUnchanged, TakeLatched, TakePic, Take, device
<1>5. irr' \cup inService' \cup taken' \subseteq AllVectors
      /\ handler' \in AllVectors \cup {NoVector}
  <2> USE <1>3 DEF TypeOK
  <2>1. CASE DiskData \/ DiskDone \/ DiskError \/ DiskSilent
    BY <2>1 DEF DiskData, DiskDone, DiskError, DiskSilent, Raise, DiskUnchanged
  <2>2. ASSUME NEW v \in AllVectors, Take(v), irr' \subseteq irr
        PROVE  irr' \cup inService' \cup taken' \subseteq AllVectors
               /\ handler' \in AllVectors \cup {NoVector}
    BY <2>2 DEF Take
  <2>3. CASE TakeLatched
    BY <2>2, <2>3 DEF TakeLatched, Latched
  <2>4. CASE TakePic
    BY <2>2, <2>4 DEF TakePic
  <2>5. CASE Clear_Interrupt
    BY <2>5 DEF Clear_Interrupt
  <2> QED
    BY <2>1, <2>2, <2>3, <2>4, <2>5 DEF Hardware
<1>6. DataTyped'
  BY <1>1, <1>2, <1>4, <1>5 DEF DataTyped, TypeOK, Verdicts
<1> QED
  BY <1>2, <1>6, TypeParts, PTL

LEMMA MessageStays ==
  ASSUME TypeOK, MessageSet, Next
  PROVE  MessageSet'
<1>1. CASE Program
  <2>1. Written /\ Running
    BY <1>1, ProgramWrites DEF Moved
  <2>2. Mode \in Messages => MsiMessage(Mode) # NoVector
    BY VectorsTyped
  <2>3. CASE OpenPath
    BY <2>2, <2>3, Here DEF OpenPath, MessageSet, Path, Modes, Messages, At
  <2>4. CASE ~OpenPath
    <3>1. opened' \subseteq opened /\ message' = message
      BY <1>1, <2>4 DEF Program, Alloc, Open, Locate, FindCapability, RegisterInterruptHandler,
         InterruptDisableBit, AHCI_Set_Port, ReadStart, ReadReturn, Poll, Compare, ResetFlag,
         UnregisterInterruptHandler, ClosePath, AHCI_Clear_Port, Ahci_Report_Error,
         Machine, Flags, Registers
    <3> QED
      BY <3>1 DEF MessageSet
  <2> QED
    BY <2>3, <2>4
<1>2. CASE Hardware \/ Clear_Interrupt
  BY <1>2 DEF MessageSet, Hardware, Clear_Interrupt, DiskData, DiskDone, DiskError, DiskSilent,
     DiskUnchanged, TakeLatched, TakePic, Take, device
<1> QED
  BY <1>1, <1>2 DEF Next

LEMMA TypeInit == Init => TypeOK /\ MessageSet
<1> SUFFICES ASSUME Init PROVE TypeOK /\ MessageSet
  OBVIOUS
<1>1. board \in BoardRecord /\ Tests \in Seq(Modes) /\ Len(Tests) \in Nat
  BY ToolAssumption DEF Init, BoardRecord, Tests
<1>2. ASSUME Running PROVE 1 \in 1..Len(Course)
  <2>1. 1 \in 1..Len(Tests) /\ test = 1 /\ ~exiting
    BY <1>1, <1>2 DEF Running, Init
  <2>2. Mode \in Modes
    BY <1>1, <2>1 DEF Mode
  <2> QED
    BY <2>1, <2>2, FirstStep DEF Course
<1>3. ControlTyped
  <2>1. 1 \in 1..(Len(Tests) + 1)
    BY <1>1
  <2> QED
    BY <1>2, <2>1 DEF Init, ControlTyped
<1>4. DataTyped /\ MessageSet
  BY DEF Init, DataTyped, MessageSet, Verdicts
<1> QED
  BY <1>3, <1>4, TypeParts

LEMMA TypeNext == TypeOK /\ MessageSet /\ [Next]_vars => (TypeOK /\ MessageSet)'
<1> SUFFICES ASSUME TypeOK, MessageSet, [Next]_vars PROVE TypeOK' /\ MessageSet'
  OBVIOUS
<1>1. CASE Next
  BY <1>1, ProgramTyped, HardwareTyped, MessageStays DEF Next
<1>2. CASE UNCHANGED vars
  <2>1. ControlTyped'
    BY <1>2, ControlStays DEF vars, control
  <2>2. DataTyped' /\ MessageSet'
    BY <1>2, SameBoard DEF vars, control, tool, device, cpu, DataTyped, TypeOK, MessageSet,
       Verdicts
  <2> QED
    BY <2>1, <2>2, TypeParts, PTL
<1> QED
  BY <1>1, <1>2

\* The tool's globals, the registers and the verdicts have their types,
\* whatever the board, its failures and the interrupts do to the tests.
THEOREM TypesKept == Spec => []TypeOK
BY TypeInit, TypeNext, PTL DEF Spec

-----------------------------------------------------------------------------
(***************************************************************************)
(* Steps within a test.                                                    *)
(***************************************************************************)
\* The test goes on, and says nothing of the tests before it.
SameTest ==
  /\ UNCHANGED <<board, test, exiting>>
  /\ \A i \in 1..Len(Tests) : i # test => verdict'[i] = verdict[i]

LEMMA Earlier ==
  ASSUME TypeOK, NEW i \in 1..(test - 1)
  PROVE  i \in 1..Len(Tests) /\ i # test /\ test \in Nat
<1>1. Len(Tests) \in Nat
  BY ToolAssumption DEF TypeOK, BoardRecord, Tests
<1>2. test \in 1..(Len(Tests) + 1)
  BY DEF TypeOK
<1> QED
  BY <1>1, <1>2

LEMMA SameTestFacts ==
  ASSUME TypeOK, SameTest
  PROVE  /\ Tests' = Tests /\ Mode' = Mode /\ Failing' = Failing /\ Running' = Running
         /\ InTest' = InTest /\ InExit' = InExit
         /\ Vectors(Mode)' = Vectors(Mode)
         /\ \A i : Vectors(Tests[i])' = Vectors(Tests[i])
         /\ MsiMessage(Mode)' = MsiMessage(Mode)
         /\ Tame' = Tame /\ Clean' = Clean
<1>1. /\ Tests' = Tests /\ Mode' = Mode /\ Failing' = Failing /\ Running' = Running
      /\ InTest' = InTest /\ InExit' = InExit
  BY DEF SameTest, Tests, Mode, Failing, Running, InTest, InExit
<1>2. /\ Vectors(Mode)' = Vectors(Mode)
      /\ \A i : Vectors(Tests[i])' = Vectors(Tests[i])
      /\ MsiMessage(Mode)' = MsiMessage(Mode)
  BY DEF SameTest, Tests, Mode, Vectors, MsiMessage
<1>3. Tame' = Tame
  BY <1>1 DEF Tame
<1>4. Clean' = Clean
  <2>1. \A i \in 1..(test - 1) : verdict'[i] = verdict[i]
    BY Earlier DEF SameTest
  <2> QED
    BY <2>1 DEF Clean, SameTest
<1> QED
  BY <1>1, <1>2, <1>3, <1>4

LEMMA SupportedStays ==
  ASSUME TypeOK, SameTest, SupportedGoOn
  PROVE  SupportedGoOn'
<1>1. /\ Tests' = Tests /\ Failing' = Failing /\ InExit' = InExit /\ test' = test
      /\ \A i : Supported(Tests[i])' = Supported(Tests[i])
  BY SameTestFacts DEF SameTest, Supported, Tests
<1>2. \A i \in 1..(test - 1) : verdict'[i] = verdict[i]
  BY Earlier DEF SameTest
<1> QED
  BY <1>1, <1>2 DEF SupportedGoOn, SupportedSucceed

\* What the processor is sent, and what it can take.
LEMMA SameWay ==
  ASSUME UNCHANGED <<board, opened, intxOff, message>>
  PROVE  Sent' = Sent
BY DEF Sent, Routed

LEMMA SameLatched ==
  ASSUME UNCHANGED <<irr, inService>>
  PROVE  Latched' = Latched
BY DEF Latched

-----------------------------------------------------------------------------
(***************************************************************************)
(* What the steps of the program do, by their place in the course.         *)
(***************************************************************************)
Legacy == {"PIC", "APIC"}

Calm == handler = NoVector /\ UNCHANGED <<board, irr, inService, handler>>

\* Steps before Exit: to the handlers, the flag and the verdict,
ToolWrites ==
  /\ registered' = IF step = RegisterAt(Mode) THEN registered \cup Vectors(Mode)
                   ELSE IF step = OpenAt(Mode) + 6 THEN registered \ Vectors(Mode) ELSE registered
  /\ step = OpenAt(Mode) + 5 => ~HasEnterInterrupt'
  /\ step # OpenAt(Mode) + 5 => UNCHANGED HasEnterInterrupt
  /\ step = OpenAt(Mode) + 3 => HasEnterInterrupt
  /\ IF step = OpenAt(Mode) + 4 THEN Report("success") ELSE UNCHANGED verdict

\* to the way of the interrupt,
WayWrites ==
  /\ opened' = IF step = OpenAt(Mode) THEN opened \cup {Path(Mode)}
               ELSE IF step = CloseAt(Mode) THEN opened \ {Path(Mode)} ELSE opened
  /\ message' = IF step = OpenAt(Mode) /\ Mode \in Messages THEN MsiMessage(Mode) ELSE message
  /\ step = IntxAt(Mode) /\ Mode \in Legacy => ~intxOff'
  /\ step # IntxAt(Mode) /\ Mode \in Legacy => UNCHANGED intxOff
  /\ step >= SetAt(Mode) /\ Mode \notin Legacy => UNCHANGED intxOff

\* to the port and its disk.
PortWrites ==
  /\ step = SetAt(Mode) => portIE'
  /\ step = ClearAt => ~portIE'
  /\ step # SetAt(Mode) /\ step # ClearAt => UNCHANGED portIE
  /\ portIS' = IF step = SetAt(Mode) \/ step = ClearAt \/ step + 1 \in WaitAt(Mode)
               THEN {} ELSE portIS
  /\ disk' = IF step + 1 \in WaitAt(Mode) THEN "reading" ELSE disk
  /\ step \in WaitAt(Mode) => disk = "idle"

RunWrites == ToolWrites /\ WayWrites /\ PortWrites

\* Steps after Exit.
ExitWrites ==
  /\ opened' = IF step = ExitCloseAt(Mode) THEN opened \ {Path(Mode)} ELSE opened
  /\ step = ExitClearAt(Mode) => ~portIE'
  /\ step # ExitClearAt(Mode) => UNCHANGED portIE
  /\ portIS' \in {portIS, {}}
  /\ step = ExitResetAt(Mode) => ~HasEnterInterrupt'
  /\ step # ExitResetAt(Mode) => UNCHANGED HasEnterInterrupt
  /\ UNCHANGED <<registered, message, intxOff, disk, verdict>>

GoesOnWith == GoOn /\ Calm /\ (InTest => RunWrites) /\ (InExit => ExitWrites)

Still ==
  UNCHANGED <<opened, message, intxOff, portIE, portIS, disk, HasEnterInterrupt>>

\* A jump to Exit.
GivesUp ==
  /\ Fail /\ InTest /\ Calm /\ Still /\ UNCHANGED registered /\ step \notin WaitAt(Mode)
  /\ \/ step < RegisterAt(Mode) /\ step < SetAt(Mode) /\ Failing # {}
     \/ step = OpenAt(Mode) + 3 /\ ~HasEnterInterrupt /\ (Timely => ~OnItsWay)
     \/ step = OpenAt(Mode) + 4 /\ ~good

\* An early return.
Refused ==
  /\ ReturnError /\ InTest /\ Calm /\ Still /\ step \notin WaitAt(Mode)
  /\ \/ step < SetAt(Mode) /\ ~Supported(Mode) /\ UNCHANGED registered
     \/ /\ step = RegisterAt(Mode) /\ Last(Vectors(Mode)) \in registered
        /\ registered' = registered \cup Vectors(Mode)

LEMMA QuietWrites ==
  ASSUME Mode \in Modes, step \in Nat, SetAt(Mode) \in Nat, UNCHANGED verdict,
         UNCHANGED <<registered, opened, message, intxOff, portIE, portIS, disk,
                     HasEnterInterrupt>>,
         NEW s \in {"alloc", "open", "locate", "find", "wait", "poll"},
         RunStepAt(Mode, step, s), s = "wait" => disk = "idle", s = "poll" => HasEnterInterrupt
  PROVE  RunWrites
<1>1. /\ step # RegisterAt(Mode) /\ step # SetAt(Mode)
      /\ step # IntxAt(Mode) \/ Mode \notin Legacy
      /\ step # OpenAt(Mode) /\ step # CloseAt(Mode) /\ step # ClearAt
      /\ step + 1 \notin WaitAt(Mode) /\ step # OpenAt(Mode) + 4 /\ step # OpenAt(Mode) + 5
      /\ step # OpenAt(Mode) + 6
      /\ step \in WaitAt(Mode) => disk = "idle"
      /\ step = OpenAt(Mode) + 3 => HasEnterInterrupt
  BY DEF RunStepAt, Legacy
<1>2. ToolWrites
  BY <1>1 DEF ToolWrites
<1>3. WayWrites
  BY <1>1 DEF WayWrites
<1>4. PortWrites
  BY <1>1 DEF PortWrites
<1> QED
  BY <1>2, <1>3, <1>4 DEF RunWrites

LEMMA ProgramEffect ==
  ASSUME TypeOK, Program
  PROVE  GoesOnWith \/ GivesUp \/ Refused
<1> USE DEF Machine, Flags, Registers, Calm, Still, GoesOnWith, InTest, InExit
<1>1. Running /\ handler = NoVector
  BY DEF Program, Alloc, Open, Locate, FindCapability, RegisterInterruptHandler,
     InterruptDisableBit, AHCI_Set_Port, OpenPath, ReadStart, ReadReturn, Poll, Compare,
     ResetFlag, UnregisterInterruptHandler, ClosePath, AHCI_Clear_Port, Ahci_Report_Error, At
<1>2. Mode \in Modes /\ step \in Nat /\ step >= 1
  BY <1>1, Here, Layout
<1>3. RegisterAt(Mode) \in 6..8 /\ SetAt(Mode) \in 7..9 /\ SetAt(Mode) \in Nat
  BY <1>2, Layout
<1>4. Mode \in Legacy <=> Mode \in {"PIC", "APIC"}
  BY DEF Legacy
<1>5. CASE Alloc
  <2>1. ~exiting /\ RunStepAt(Mode, step, "alloc")
    BY <1>5, Where DEF Alloc, ExitStepAt
  <2>2. CASE GoOn /\ UNCHANGED verdict
    <3>1. RunWrites
      BY <1>2, <1>3, <1>5, <2>1, <2>2, QuietWrites DEF Alloc
    <3> QED
      BY <1>1, <1>5, <2>1, <2>2, <3>1 DEF Alloc
  <2>3. CASE Fail /\ Failing # {}
    BY <1>1, <1>2, <1>3, <1>5, <2>1, <2>3 DEF Alloc, RunStepAt, GivesUp
  <2> QED
    BY <1>5, <2>2, <2>3 DEF Alloc
<1>6. CASE Open
  <2>1. ~exiting /\ RunStepAt(Mode, step, "open")
    BY <1>6, Where DEF Open, ExitStepAt
  <2>2. CASE GoOn /\ UNCHANGED verdict
    <3>1. RunWrites
      BY <1>2, <1>3, <1>6, <2>1, <2>2, QuietWrites DEF Open
    <3> QED
      BY <1>1, <1>6, <2>1, <2>2, <3>1 DEF Open
  <2>3. CASE Fail /\ Failing # {}
    BY <1>1, <1>2, <1>3, <1>6, <2>1, <2>3 DEF Open, RunStepAt, GivesUp
  <2> QED
    BY <1>6, <2>2, <2>3 DEF Open
<1>7. CASE Locate
  <2>1. ~exiting /\ RunStepAt(Mode, step, "locate")
    BY <1>7, Where DEF Locate, ExitStepAt
  <2>2. CASE GoOn /\ UNCHANGED verdict
    <3>1. RunWrites
      BY <1>2, <1>3, <1>7, <2>1, <2>2, QuietWrites DEF Locate
    <3> QED
      BY <1>1, <1>7, <2>1, <2>2, <3>1 DEF Locate
  <2>3. CASE Fail /\ Failing # {}
    BY <1>1, <1>2, <1>3, <1>7, <2>1, <2>3 DEF Locate, RunStepAt, GivesUp
  <2> QED
    BY <1>7, <2>2, <2>3 DEF Locate
<1>8. CASE FindCapability
  <2>1. ~exiting /\ RunStepAt(Mode, step, "find")
    BY <1>8, Where DEF FindCapability, ExitStepAt
  <2>2. CASE GoOn /\ UNCHANGED verdict
    <3>1. RunWrites
      BY <1>2, <1>3, <1>8, <2>1, <2>2, QuietWrites DEF FindCapability
    <3> QED
      BY <1>1, <1>8, <2>1, <2>2, <3>1 DEF FindCapability
  <2>3. CASE Mode \notin board.capabilities /\ ReturnError
    BY <1>1, <1>2, <1>3, <1>8, <2>1, <2>3 DEF FindCapability, RunStepAt, Refused, Supported
  <2> QED
    BY <1>8, <2>2, <2>3 DEF FindCapability
<1>9. CASE RegisterInterruptHandler
  <2>1. ~exiting /\ RunStepAt(Mode, step, "register")
    BY <1>9, Where DEF RegisterInterruptHandler, ExitStepAt
  <2>2. CASE GoOn /\ UNCHANGED verdict
    <3>1. ToolWrites
      BY <1>2, <1>3, <1>9, <2>1, <2>2 DEF RegisterInterruptHandler, RunStepAt, ToolWrites
    <3>2. WayWrites
      BY <1>2, <1>3, <1>4, <1>9, <2>1, <2>2 DEF RegisterInterruptHandler, RunStepAt, WayWrites
    <3>3. PortWrites
      BY <1>2, <1>3, <1>9, <2>1, <2>2 DEF RegisterInterruptHandler, RunStepAt, PortWrites
    <3> QED
      BY <1>1, <1>9, <2>1, <2>2, <3>1, <3>2, <3>3 DEF RegisterInterruptHandler, RunWrites
  <2>3. CASE Last(Vectors(Mode)) \in registered /\ ReturnError
    BY <1>1, <1>2, <1>3, <1>9, <2>1, <2>3 DEF RegisterInterruptHandler, RunStepAt, Refused
  <2> QED
    BY <1>9, <2>2, <2>3 DEF RegisterInterruptHandler
<1>10. CASE InterruptDisableBit
  <2>1. CASE At("intxon")
    <3>1. ~exiting /\ RunStepAt(Mode, step, "intxon") /\ Course[step] = "intxon"
      BY <2>1, Where DEF ExitStepAt
    <3>2. ToolWrites
      BY <1>2, <1>3, <1>4, <1>10, <3>1 DEF InterruptDisableBit, RunStepAt, ToolWrites
    <3>3. WayWrites
      BY <1>2, <1>3, <1>4, <1>10, <3>1 DEF InterruptDisableBit, RunStepAt, WayWrites
    <3>4. PortWrites
      BY <1>2, <1>3, <1>4, <1>10, <3>1 DEF InterruptDisableBit, RunStepAt, PortWrites
    <3> QED
      BY <1>1, <1>10, <3>1, <3>2, <3>3, <3>4 DEF InterruptDisableBit, RunWrites
  <2>2. CASE At("intxoff")
    <3>1. ~exiting /\ RunStepAt(Mode, step, "intxoff")
      BY <2>2, Where DEF ExitStepAt
    <3>2. ToolWrites
      BY <1>2, <1>3, <1>4, <1>10, <3>1 DEF InterruptDisableBit, RunStepAt, ToolWrites
    <3>3. WayWrites
      BY <1>2, <1>3, <1>4, <1>10, <3>1 DEF InterruptDisableBit, RunStepAt, WayWrites
    <3>4. PortWrites
      BY <1>2, <1>3, <1>4, <1>10, <3>1 DEF InterruptDisableBit, RunStepAt, PortWrites
    <3> QED
      BY <1>1, <1>10, <3>1, <3>2, <3>3, <3>4 DEF InterruptDisableBit, RunWrites
  <2> QED
    BY <1>10, <2>1, <2>2 DEF InterruptDisableBit
<1>11. CASE AHCI_Set_Port
  <2>1. ~exiting /\ RunStepAt(Mode, step, "setport")
    BY <1>11, Where DEF AHCI_Set_Port, ExitStepAt
  <2>2. ToolWrites
    BY <1>2, <1>3, <1>11, <2>1 DEF AHCI_Set_Port, RunStepAt, ToolWrites
  <2>3. WayWrites
    BY <1>2, <1>3, <1>4, <1>11, <2>1 DEF AHCI_Set_Port, RunStepAt, WayWrites
  <2>4. PortWrites
    BY <1>2, <1>3, <1>11, <2>1 DEF AHCI_Set_Port, RunStepAt, PortWrites
  <2> QED
    BY <1>1, <1>11, <2>1, <2>2, <2>3, <2>4 DEF AHCI_Set_Port, RunWrites
<1>12. CASE OpenPath
  <2>1. ~exiting /\ RunStepAt(Mode, step, "openpath")
    BY <1>12, Where DEF OpenPath, ExitStepAt
  <2>2. Path(Mode) = "MSI" <=> Mode \in Messages
    BY <1>2 DEF Path, Modes, Messages
  <2>3. ToolWrites
    BY <1>2, <1>3, <1>12, <2>1, <2>2 DEF OpenPath, RunStepAt, ToolWrites
  <2>4. WayWrites
    BY <1>2, <1>3, <1>4, <1>12, <2>1, <2>2 DEF OpenPath, RunStepAt, WayWrites
  <2>5. PortWrites
    BY <1>2, <1>3, <1>12, <2>1, <2>2 DEF OpenPath, RunStepAt, PortWrites
  <2> QED
    BY <1>1, <1>12, <2>1, <2>3, <2>4, <2>5 DEF OpenPath, RunWrites
<1>13. CASE ReadStart
  <2>1. ~exiting /\ RunStepAt(Mode, step, "read")
    BY <1>13, Where DEF ReadStart, ExitStepAt
  <2>2. ToolWrites
    BY <1>2, <1>3, <1>13, <2>1 DEF ReadStart, RunStepAt, ToolWrites
  <2>3. WayWrites
    BY <1>2, <1>3, <1>4, <1>13, <2>1 DEF ReadStart, RunStepAt, WayWrites
  <2>4. PortWrites
    BY <1>2, <1>3, <1>13, <2>1 DEF ReadStart, RunStepAt, PortWrites
  <2> QED
    BY <1>1, <1>13, <2>1, <2>2, <2>3, <2>4 DEF ReadStart, RunWrites
<1>14. CASE ReadReturn
  <2>1. ~exiting /\ RunStepAt(Mode, step, "wait")
    BY <1>14, Where DEF ReadReturn, ExitStepAt
  <2>2. RunWrites
    BY <1>2, <1>3, <1>14, <2>1, QuietWrites DEF ReadReturn
  <2> QED
    BY <1>1, <1>14, <2>1, <2>2 DEF ReadReturn
<1>15. CASE Poll
  <2>1. ~exiting /\ RunStepAt(Mode, step, "poll")
    BY <1>15, Where DEF Poll, ExitStepAt
  <2>2. CASE HasEnterInterrupt /\ GoOn /\ UNCHANGED verdict
    <3>1. RunWrites
      BY <1>2, <1>3, <1>15, <2>1, <2>2, QuietWrites DEF Poll
    <3> QED
      BY <1>1, <1>15, <2>1, <2>2, <3>1 DEF Poll
  <2>3. CASE ~HasEnterInterrupt /\ (Timely => ~OnItsWay) /\ Fail
    BY <1>1, <1>2, <1>3, <1>15, <2>1, <2>3 DEF Poll, RunStepAt, GivesUp
  <2> QED
    BY <1>15, <2>2, <2>3 DEF Poll
<1>16. CASE Compare
  <2>1. ~exiting /\ RunStepAt(Mode, step, "compare")
    BY <1>16, Where DEF Compare, ExitStepAt
  <2>2. CASE GoOn /\ Report("success")
    <3>1. ToolWrites
      BY <1>2, <1>3, <1>16, <2>1, <2>2 DEF Compare, RunStepAt, ToolWrites
    <3>2. WayWrites
      BY <1>2, <1>3, <1>4, <1>16, <2>1, <2>2 DEF Compare, RunStepAt, WayWrites
    <3>3. PortWrites
      BY <1>2, <1>3, <1>16, <2>1, <2>2 DEF Compare, RunStepAt, PortWrites
    <3> QED
      BY <1>1, <1>16, <2>1, <2>2, <3>1, <3>2, <3>3 DEF Compare, RunWrites
  <2>3. CASE ~good /\ Fail
    BY <1>1, <1>2, <1>3, <1>16, <2>1, <2>3 DEF Compare, RunStepAt, GivesUp
  <2> QED
    BY <1>16, <2>2, <2>3 DEF Compare
<1>17. CASE ResetFlag
  <2>1. ASSUME ~exiting PROVE RunWrites
    <3>1. RunStepAt(Mode, step, "resetflag")
      BY <1>17, <2>1, Where DEF ResetFlag
    <3>2. ToolWrites
      BY <1>2, <1>3, <1>17, <3>1 DEF ResetFlag, RunStepAt, ToolWrites
    <3>3. WayWrites
      BY <1>2, <1>3, <1>4, <1>17, <3>1 DEF ResetFlag, RunStepAt, WayWrites
    <3>4. PortWrites
      BY <1>2, <1>3, <1>17, <3>1 DEF ResetFlag, RunStepAt, PortWrites
    <3> QED
      BY <3>2, <3>3, <3>4 DEF RunWrites
  <2>2. ASSUME exiting PROVE ExitWrites
    BY <1>1, <1>17, <2>2, Where DEF ResetFlag, ExitStepAt, ExitWrites
  <2> QED
    BY <1>1, <1>17, <2>1, <2>2 DEF ResetFlag
<1>18. CASE UnregisterInterruptHandler
  <2>1. ~exiting /\ RunStepAt(Mode, step, "unregister")
    BY <1>18, Where DEF UnregisterInterruptHandler, ExitStepAt
  <2>2. ToolWrites
    BY <1>2, <1>3, <1>18, <2>1 DEF UnregisterInterruptHandler, RunStepAt, ToolWrites
  <2>3. WayWrites
    BY <1>2, <1>3, <1>4, <1>18, <2>1 DEF UnregisterInterruptHandler, RunStepAt, WayWrites
  <2>4. PortWrites
    BY <1>2, <1>3, <1>18, <2>1 DEF UnregisterInterruptHandler, RunStepAt, PortWrites
  <2> QED
    BY <1>1, <1>18, <2>1, <2>2, <2>3, <2>4 DEF UnregisterInterruptHandler, RunWrites
<1>19. CASE ClosePath
  <2>1. ASSUME ~exiting PROVE RunWrites
    <3>1. RunStepAt(Mode, step, "closepath")
      BY <1>19, <2>1, Where DEF ClosePath
    <3>2. ToolWrites
      BY <1>2, <1>3, <1>19, <3>1 DEF ClosePath, RunStepAt, ToolWrites
    <3>3. WayWrites
      BY <1>2, <1>3, <1>4, <1>19, <3>1 DEF ClosePath, RunStepAt, WayWrites
    <3>4. PortWrites
      BY <1>2, <1>3, <1>19, <3>1 DEF ClosePath, RunStepAt, PortWrites
    <3> QED
      BY <3>2, <3>3, <3>4 DEF RunWrites
  <2>2. ASSUME exiting PROVE ExitWrites
    BY <1>1, <1>19, <2>2, Where DEF ClosePath, ExitStepAt, ExitWrites
  <2> QED
    BY <1>1, <1>19, <2>1, <2>2 DEF ClosePath
<1>20. CASE AHCI_Clear_Port
  <2>1. ASSUME ~exiting PROVE RunWrites
    <3>1. RunStepAt(Mode, step, "clearport")
      BY <1>20, <2>1, Where DEF AHCI_Clear_Port
    <3>2. ToolWrites
      BY <1>2, <1>3, <1>20, <3>1 DEF AHCI_Clear_Port, RunStepAt, ToolWrites
    <3>3. WayWrites
      BY <1>2, <1>3, <1>4, <1>20, <3>1 DEF AHCI_Clear_Port, RunStepAt, WayWrites
    <3>4. PortWrites
      BY <1>2, <1>3, <1>20, <3>1 DEF AHCI_Clear_Port, RunStepAt, PortWrites
    <3> QED
      BY <3>2, <3>3, <3>4 DEF RunWrites
  <2>2. ASSUME exiting PROVE ExitWrites
    BY <1>1, <1>20, <2>2, Where DEF AHCI_Clear_Port, ExitStepAt, ExitWrites
  <2> QED
    BY <1>1, <1>20, <2>1, <2>2 DEF AHCI_Clear_Port
<1>21. CASE Ahci_Report_Error
  <2>1. exiting /\ ExitStepAt(Mode, step, "report")
    BY <1>21, Where DEF Ahci_Report_Error, RunStepAt
  <2> QED
    BY <1>1, <1>21, <2>1 DEF Ahci_Report_Error, ExitStepAt, ExitWrites
<1> QED
  BY <1>5, <1>6, <1>7, <1>8, <1>9, <1>10, <1>11, <1>12, <1>13, <1>14, <1>15, <1>16, <1>17,
     <1>18, <1>19, <1>20, <1>21 DEF Program

-----------------------------------------------------------------------------
(***************************************************************************)
(* A step that goes on within its course keeps the invariant.              *)
(***************************************************************************)
StepOn == GoesOnWith /\ Advance

LEMMA StepOnTest ==
  ASSUME TypeOK, StepOn
  PROVE  /\ SameTest /\ Running /\ Mode \in Modes /\ (InTest \/ InExit)
         /\ step \in Nat /\ step >= 1 /\ step' = step + 1
         /\ step < IF exiting THEN ExitEndAt(Mode) ELSE EndAt(Mode)
         /\ taken' = taken /\ good' = good /\ handler = NoVector
         /\ UNCHANGED <<board, test, exiting, irr, inService, handler>>
<1>1. Running
  BY DEF StepOn, Advance, Running, Tests
<1>2. UNCHANGED verdict \/ Report("success")
  BY <1>1 DEF StepOn, GoesOnWith, InTest, InExit, RunWrites, ToolWrites, ExitWrites
<1>3. \A i \in 1..Len(Tests) : i # test => verdict'[i] = verdict[i]
  BY <1>2 DEF Report, TypeOK
<1> QED
  BY <1>1, <1>3, Here DEF StepOn, Advance, SameTest, GoesOnWith, Calm, InTest, InExit

LEMMA StepOnSame ==
  ASSUME TypeOK, StepOn
  PROVE  /\ Tests' = Tests /\ Mode' = Mode /\ Failing' = Failing /\ Running' = Running
         /\ InTest' = InTest /\ InExit' = InExit
         /\ Vectors(Mode)' = Vectors(Mode)
         /\ \A i : Vectors(Tests[i])' = Vectors(Tests[i])
         /\ MsiMessage(Mode)' = MsiMessage(Mode)
         /\ Tame' = Tame /\ Clean' = Clean
BY StepOnTest, SameTestFacts

LEMMA StepOnPort ==
  ASSUME TypeOK, CourseOK, StepOn
  PROVE  PortFits'
<1>1. /\ Running /\ Mode \in Modes /\ step \in Nat /\ step >= 1 /\ step' = step + 1
      /\ test' = test /\ exiting' = exiting
      /\ Mode' = Mode /\ Running' = Running /\ InTest' = InTest /\ InExit' = InExit
  BY StepOnTest, StepOnSame
<1>2. PICK o, sa, ia, w, xc : o = OpenAt(Mode) /\ sa = SetAt(Mode) /\ ia = IntxAt(Mode)
          /\ w = WaitAt(Mode) /\ xc = ExitClearAt(Mode)
  OBVIOUS
<1>3. /\ o \in 9..10 /\ sa \in 7..9 /\ ia \in 7..8 /\ sa < o /\ ia < o
      /\ ClearAt \in {o + 7, o + 8} /\ xc \in 2..4
      /\ w = {IF Mode = "PIC" THEN 4 ELSE 3, o + 2}
  BY <1>1, <1>2, Layout
<1>4. CASE InTest
  <2>1. PortWrites /\ WayWrites
    BY <1>4 DEF StepOn, GoesOnWith, RunWrites
  <2>2. disk' # "idle" => step' \in w /\ "DHR" \notin portIS'
    BY <1>1, <1>2, <1>3, <1>4, <2>1 DEF PortWrites, CourseOK, PortFits
  <2>3. portIE' <=> step' > sa /\ step' <= ClearAt
    BY <1>1, <1>2, <1>3, <1>4, <2>1 DEF PortWrites, CourseOK, PortFits, InTest
  <2>4. step' > sa /\ step' <= o + 1 => portIS' = {}
    BY <1>1, <1>2, <1>3, <1>4, <2>1 DEF PortWrites, CourseOK, PortFits
  <2>5. Mode \in {"PIC", "APIC"} /\ step' > ia => ~intxOff'
    BY <1>1, <1>2, <1>3, <1>4, <2>1 DEF WayWrites, CourseOK, PortFits, Legacy
  <2> QED
    BY <1>1, <1>2, <1>4, <2>2, <2>3, <2>4, <2>5 DEF PortFits, InTest
<1>5. CASE InExit
  <2>1. ExitWrites
    BY <1>5 DEF StepOn, GoesOnWith
  <2>2. disk' = "idle" /\ (portIE' => step' <= xc)
    BY <1>1, <1>2, <1>3, <1>5, <2>1 DEF ExitWrites, CourseOK, PortFits, InExit, InTest
  <2> QED
    BY <1>1, <1>2, <1>5, <2>2 DEF PortFits, InTest, InExit
<1> QED
  BY <1>4, <1>5, StepOnTest

LEMMA StepOnHandlers ==
  ASSUME TypeOK, CourseOK, StepOn
  PROVE  HandlersFit'
<1>1. /\ Running /\ Mode \in Modes /\ step \in Nat /\ step >= 1 /\ step' = step + 1
      /\ test' = test /\ Tests' = Tests
      /\ Mode' = Mode /\ InTest' = InTest /\ InExit' = InExit
      /\ Vectors(Mode)' = Vectors(Mode)
      /\ \A i : Vectors(Tests[i])' = Vectors(Tests[i])
  BY StepOnTest, StepOnSame
<1>2. PICK o, ra : o = OpenAt(Mode) /\ ra = RegisterAt(Mode)
  OBVIOUS
<1>3. o \in 9..10 /\ ra \in 6..8 /\ ra < o
  BY <1>1, <1>2, Layout
<1>4. CASE InTest
  <2>1. ToolWrites
    BY <1>4 DEF StepOn, GoesOnWith, RunWrites
  <2>2. step' > ra /\ step' <= o + 6 => Vectors(Mode) \subseteq registered'
    BY <1>1, <1>2, <1>3, <1>4, <2>1 DEF ToolWrites, CourseOK, HandlersFit
  <2>3. registered' \subseteq registered \cup Vectors(Mode)
    BY <2>1 DEF ToolWrites
  <2>4. \A v \in registered' : \E i \in 1..Len(Tests) : i <= test /\ v \in Vectors(Tests[i])
    BY <1>1, <2>3, Here DEF CourseOK, HandlersFit, Mode
  <2> QED
    BY <1>1, <1>2, <2>2, <2>4 DEF HandlersFit
<1>5. CASE InExit
  BY <1>1, <1>5 DEF StepOn, GoesOnWith, ExitWrites, CourseOK, HandlersFit, InTest, InExit
<1> QED
  BY <1>4, <1>5, StepOnTest

LEMMA StepOnPath ==
  ASSUME TypeOK, CourseOK, StepOn
  PROVE  PathFits'
<1>1. /\ Running /\ Mode \in Modes /\ step \in Nat /\ step >= 1 /\ step' = step + 1
      /\ Mode' = Mode /\ InTest' = InTest /\ InExit' = InExit
      /\ MsiMessage(Mode)' = MsiMessage(Mode)
  BY StepOnTest, StepOnSame
<1>2. PICK o, c : o = OpenAt(Mode) /\ c = CloseAt(Mode)
  OBVIOUS
<1>3. o \in 9..10 /\ c \in {o + 7, o + 8}
  BY <1>1, <1>2, Layout
<1>4. CASE InTest
  <2>1. WayWrites
    BY <1>4 DEF StepOn, GoesOnWith, RunWrites
  <2> QED
    BY <1>1, <1>2, <1>3, <1>4, <2>1 DEF WayWrites, CourseOK, PathFits
<1>5. CASE InExit
  BY <1>1, <1>5 DEF PathFits, InTest, InExit
<1> QED
  BY <1>4, <1>5, StepOnTest

LEMMA StepOnVerdict ==
  ASSUME TypeOK, CourseOK, StepOn
  PROVE  VerdictFits'
<1>1. /\ Running /\ Mode \in Modes /\ step \in Nat /\ step >= 1 /\ step' = step + 1
      /\ test' = test /\ good' = good /\ Tests' = Tests /\ Failing' = Failing
      /\ Mode' = Mode /\ InTest' = InTest /\ InExit' = InExit /\ SameTest
  BY StepOnTest, StepOnSame
<1>2. OpenAt(Mode) \in 9..10 /\ test \in 1..Len(Tests) /\ Len(Tests) \in Nat
  BY <1>1, Layout, Here
<1>3. \A i \in 1..Len(Tests) : i > test => verdict'[i] = "none"
  BY <1>1, <1>2 DEF SameTest, CourseOK, VerdictFits
<1>4. CASE InTest
  <2>1. ToolWrites
    BY <1>4 DEF StepOn, GoesOnWith, RunWrites
  <2>2. verdict'[test] = IF step' > OpenAt(Mode) + 4 THEN "success" ELSE "none"
    BY <1>1, <1>2, <1>4, <2>1 DEF ToolWrites, CourseOK, VerdictFits, Report, TypeOK
  <2> QED
    BY <1>1, <1>3, <1>4, <2>2 DEF CourseOK, VerdictFits, InTest, InExit
<1>5. CASE InExit
  BY <1>1, <1>3, <1>5 DEF StepOn, GoesOnWith, ExitWrites, CourseOK, VerdictFits, InTest, InExit
<1> QED
  BY <1>4, <1>5, StepOnTest

LEMMA StepOnPathOwn ==
  ASSUME TypeOK, PathOwn, StepOn
  PROVE  PathOwn'
<1>1. /\ Running /\ Mode \in Modes /\ step \in Nat /\ step >= 1 /\ step' = step + 1
      /\ test' = test /\ exiting' = exiting /\ board' = board
      /\ Mode' = Mode /\ Running' = Running
  BY StepOnTest, StepOnSame
<1>2. PICK o, c, xc : o = OpenAt(Mode) /\ c = CloseAt(Mode) /\ xc = ExitCloseAt(Mode)
  OBVIOUS
<1>3. o \in 9..10 /\ c \in {o + 7, o + 8} /\ xc \in Int
  BY <1>1, <1>2, Layout
<1>4. CASE InTest
  <2>1. WayWrites
    BY <1>4 DEF StepOn, GoesOnWith, RunWrites
  <2> QED
    BY <1>1, <1>2, <1>3, <1>4, <2>1 DEF WayWrites, PathOwn, InTest
<1>5. CASE InExit
  <2>1. ExitWrites
    BY <1>5 DEF StepOn, GoesOnWith
  <2> QED
    BY <1>1, <1>2, <1>3, <1>5, <2>1 DEF ExitWrites, PathOwn, InExit
<1> QED
  BY <1>4, <1>5, StepOnTest

\* What the processor takes does not change.
LEMMA StepOnLatched ==
  ASSUME TypeOK, StepOn
  PROVE  Latched' = Latched
BY StepOnTest DEF Latched

LEMMA StepOnFlag ==
  ASSUME TypeOK, CourseOK, FlagOwn, StepOn
  PROVE  FlagOwn'
<1>1. /\ Running /\ Mode \in Modes /\ step \in Nat /\ step >= 1 /\ step' = step + 1
      /\ test' = test /\ exiting' = exiting /\ handler' = handler /\ taken' = taken
      /\ Mode' = Mode /\ Running' = Running /\ Vectors(Mode)' = Vectors(Mode)
      /\ Latched' = Latched
  BY StepOnTest, StepOnSame, StepOnLatched
<1>2. PICK o, w, xr : o = OpenAt(Mode) /\ w = WaitAt(Mode) /\ xr = ExitResetAt(Mode)
  OBVIOUS
<1>3. o \in 9..10 /\ w = {IF Mode = "PIC" THEN 4 ELSE 3, o + 2} /\ xr \in Int
  BY <1>1, <1>2, Layout
<1> SUFFICES ASSUME HasEnterInterrupt' PROVE FlagOwn'
  BY DEF FlagOwn
<1>4. CASE InTest
  <2>1. ToolWrites /\ PortWrites
    BY <1>4 DEF StepOn, GoesOnWith, RunWrites
  <2>2. step # o + 5 /\ HasEnterInterrupt
    BY <1>2, <2>1 DEF ToolWrites
  <2>3. step > o + 1 /\ step <= o + 5
    BY <1>2, <1>4, <2>2 DEF FlagOwn, InTest
  <2>4. step' > o + 1 /\ step' <= o + 5 /\ step + 1 \notin w
    BY <1>1, <1>3, <2>2, <2>3
  <2>5. portIS' = {} /\ disk' = "idle"
    BY <1>2, <2>1, <2>2, <2>4 DEF PortWrites, FlagOwn
  <2> QED
    BY <1>1, <1>2, <1>4, <2>2, <2>4, <2>5 DEF FlagOwn, InTest
<1>5. CASE InExit
  <2>1. ExitWrites
    BY <1>5 DEF StepOn, GoesOnWith
  <2>2. step # xr /\ HasEnterInterrupt
    BY <1>2, <2>1 DEF ExitWrites
  <2>3. step <= xr
    BY <1>2, <1>5, <2>2 DEF FlagOwn, InExit
  <2> QED
    BY <1>1, <1>2, <1>3, <1>5, <2>1, <2>2, <2>3 DEF FlagOwn, ExitWrites, InExit
<1> QED
  BY <1>4, <1>5, StepOnTest

\* While a test waits, nothing changes what is sent.
LEMMA StepOnSent ==
  ASSUME TypeOK, StepOn, Waiting
  PROVE  Sent' = Sent
<1>1. InTest /\ step \in {OpenAt(Mode) + 2, OpenAt(Mode) + 3} /\ Mode \in Modes
  BY StepOnTest DEF Waiting
<1>2. WayWrites
  BY <1>1 DEF StepOn, GoesOnWith, RunWrites
<1>3. PICK o, c, ia, sa : o = OpenAt(Mode) /\ c = CloseAt(Mode) /\ ia = IntxAt(Mode) /\ sa = SetAt(Mode)
  OBVIOUS
<1>4. o \in 9..10 /\ c \in {o + 7, o + 8} /\ ia \in 7..8 /\ ia < o /\ sa \in 7..9 /\ sa < o
  BY <1>1, <1>3, Layout
<1>5. step # o /\ step # c /\ step # ia /\ step >= sa
  BY <1>1, <1>3, <1>4
<1>6. UNCHANGED <<opened, intxOff, message>>
  BY <1>2, <1>3, <1>5 DEF WayWrites
<1> QED
  BY <1>6, StepOnTest, SameWay

\* From a step that waits the test goes to one that waits, or has seen its
\* interrupt.
LEMMA StepOnWaiting ==
  ASSUME TypeOK, StepOn, FlagOwn
  PROVE  /\ Waiting' => Waiting \/ (disk' # "idle" /\ portIS' = {})
         /\ Waiting => Waiting' \/ (HasEnterInterrupt /\ portIS = {} /\ Latched = {})
         /\ Waiting => portIS' = portIS /\ registered' = registered
<1>1. /\ Mode \in Modes /\ step \in Nat /\ step' = step + 1
      /\ Mode' = Mode /\ InTest' = InTest /\ (InTest \/ InExit)
  BY StepOnTest, StepOnSame
<1>2. PICK o, w, ra, sa : o = OpenAt(Mode) /\ w = WaitAt(Mode) /\ ra = RegisterAt(Mode) /\ sa = SetAt(Mode)
  OBVIOUS
<1>3. /\ o \in 9..10 /\ w = {IF Mode = "PIC" THEN 4 ELSE 3, o + 2} /\ ra \in 6..8 /\ ra < o
      /\ sa \in 7..9 /\ sa < o /\ ClearAt \in {o + 7, o + 8}
  BY <1>1, <1>2, Layout
<1>4. ASSUME ~InTest PROVE ~Waiting /\ ~Waiting'
  BY <1>1, <1>4 DEF Waiting
<1>5. CASE InTest
  <2>1. ToolWrites /\ PortWrites
    BY <1>5 DEF StepOn, GoesOnWith, RunWrites
  <2>2. Waiting' => Waiting \/ step + 1 \in w
    BY <1>1, <1>2, <1>3, <1>5 DEF Waiting
  <2>3. step + 1 \in w => disk' # "idle" /\ portIS' = {}
    BY <1>2, <2>1 DEF PortWrites
  <2>4. Waiting => Waiting' \/ step = o + 3
    BY <1>1, <1>2, <1>3, <1>5 DEF Waiting
  <2>5. step = o + 3 => HasEnterInterrupt /\ portIS = {} /\ Latched = {}
    BY <1>2, <2>1 DEF ToolWrites, FlagOwn
  <2>6. Waiting => step # sa /\ step # ClearAt /\ step + 1 \notin w /\ step # ra /\ step # o + 6
    BY <1>1, <1>2, <1>3, <1>5 DEF Waiting
  <2>7. Waiting => portIS' = portIS /\ registered' = registered
    BY <1>2, <2>1, <2>6 DEF PortWrites, ToolWrites
  <2> QED
    BY <2>2, <2>3, <2>4, <2>5, <2>7
<1> QED
  BY <1>4, <1>5

LEMMA StepOnHandlerOwn ==
  ASSUME TypeOK, FlagOwn, HandlerOwn, StepOn
  PROVE  HandlerOwn'
<1>1. handler = NoVector /\ handler' = handler /\ irr' = irr /\ inService' = inService
      /\ Latched' = Latched
  BY StepOnTest, StepOnLatched
<1>2. ASSUME Latched # {} PROVE Waiting' /\ portIS' # {} /\ irr' \subseteq Sent'
  BY <1>1, <1>2, StepOnWaiting, StepOnSent DEF HandlerOwn
<1> QED
  BY <1>1, <1>2 DEF HandlerOwn

LEMMA StepOnSeen ==
  ASSUME TypeOK, FlagOwn, SeenOwn, StepOn
  PROVE  SeenOwn'
<1>1. /\ Mode \in Modes /\ step \in Nat /\ step' = step + 1 /\ taken' = taken
      /\ Mode' = Mode /\ InTest' = InTest /\ Vectors(Mode)' = Vectors(Mode) /\ Failing' = Failing
  BY StepOnTest, StepOnSame
<1>2. PICK o, w : o = OpenAt(Mode) /\ w = WaitAt(Mode)
  OBVIOUS
<1>3. o \in 9..10 /\ w = {IF Mode = "PIC" THEN 4 ELSE 3, o + 2}
  BY <1>1, <1>2, Layout
<1>4. ASSUME InTest, step' > o + 3 PROVE portIS' = {} /\ taken \cap Vectors(Mode) # {}
  <2>1. ToolWrites /\ PortWrites
    BY <1>4 DEF StepOn, GoesOnWith, RunWrites
  <2>2. CASE step = o + 3
    BY <1>2, <1>3, <2>1, <2>2 DEF ToolWrites, PortWrites, FlagOwn
  <2>3. CASE step > o + 3
    BY <1>2, <1>4, <2>1, <2>3 DEF PortWrites, SeenOwn
  <2> QED
    BY <1>1, <1>3, <1>4, <2>2, <2>3
<1>5. ASSUME Waiting', disk' = "idle", ~HasEnterInterrupt', "disk" \notin Failing
      PROVE  portIS' # {}
  <2>1. Waiting /\ InTest
    BY <1>5, StepOnWaiting DEF Waiting
  <2>2. ToolWrites /\ PortWrites
    BY <2>1 DEF StepOn, GoesOnWith, RunWrites
  <2>3. step \in {o + 2, o + 3} /\ step + 1 \notin w
    BY <1>2, <1>3, <2>1 DEF Waiting
  <2>4. disk = "idle" /\ ~HasEnterInterrupt /\ portIS' = portIS
    BY <1>2, <1>3, <1>5, <2>1, <2>2, <2>3, StepOnWaiting DEF ToolWrites, PortWrites
  <2> QED
    BY <1>5, <2>1, <2>4 DEF SeenOwn
<1> QED
  BY <1>1, <1>2, <1>4, <1>5 DEF SeenOwn

LEMMA StepOnClosed ==
  ASSUME TypeOK, ClosedAgain, StepOn, ~exiting
  PROVE  ClosedAgain'
<1>1. /\ Mode \in Modes /\ step \in Nat /\ step' = step + 1 /\ InTest
      /\ Mode' = Mode /\ InTest' = InTest /\ Vectors(Mode)' = Vectors(Mode)
  BY StepOnTest, StepOnSame DEF InExit
<1>2. PICK o, c, ra : o = OpenAt(Mode) /\ c = CloseAt(Mode) /\ ra = RegisterAt(Mode)
  OBVIOUS
<1>3. o \in 9..10 /\ c \in {o + 7, o + 8} /\ ra \in 6..8 /\ ra < o
  BY <1>1, <1>2, Layout
<1>4. ToolWrites /\ WayWrites
  BY <1>1 DEF StepOn, GoesOnWith, RunWrites
<1>5. registered' = IF step' > ra /\ step' <= o + 6 THEN Vectors(Mode) ELSE {}
  BY <1>1, <1>2, <1>3, <1>4 DEF ToolWrites, ClosedAgain
<1>6. opened' \subseteq IF step' > o /\ step' <= c THEN {Path(Mode)} ELSE {}
  BY <1>1, <1>2, <1>3, <1>4 DEF WayWrites, ClosedAgain
<1> QED
  BY <1>1, <1>2, <1>5, <1>6 DEF ClosedAgain

LEMMA StepOnOneInterrupt ==
  ASSUME TypeOK, FlagOwn, OneInterrupt, StepOn
  PROVE  OneInterrupt'
<1>1. handler = NoVector /\ handler' = handler /\ irr' = irr /\ inService' = inService
  BY StepOnTest
<1>2. /\ Waiting' => Waiting \/ (disk' # "idle" /\ portIS' = {})
      /\ Waiting => Waiting' \/ portIS = {}
      /\ Waiting => portIS' = portIS /\ registered' = registered /\ Sent' = Sent
  BY StepOnWaiting, StepOnSent
<1> QED
  BY <1>1, <1>2 DEF OneInterrupt

LEMMA StepOnKeeps ==
  ASSUME TypeOK, Fits, StepOn
  PROVE  Fits'
<1> USE DEF Fits
<1>1. CourseOK'
  BY StepOnPort, StepOnHandlers, StepOnPath, StepOnVerdict DEF CourseOK
<1>2. Clean' = Clean /\ Tame' = Tame
  BY StepOnSame
<1>3. ASSUME WaitsOwn PROVE WaitsOwn'
  BY <1>3, StepOnPathOwn, StepOnFlag, StepOnHandlerOwn, StepOnSeen DEF WaitsOwn
<1>4. ASSUME Clean, WaitsOwn, Undone PROVE Undone'
  BY <1>4, StepOnClosed, StepOnOneInterrupt DEF Undone, WaitsOwn, Clean
<1>5. SupportedGoOn'
  BY StepOnTest, SupportedStays
<1> QED
  BY <1>1, <1>2, <1>3, <1>4, <1>5

-----------------------------------------------------------------------------
(***************************************************************************)
(* The last step of a test.                                                *)
(***************************************************************************)
StepLast == GoesOnWith /\ step = Len(Course) /\ NextTest

\* The next test has not begun.
Fresh ==
  /\ UNCHANGED board /\ Tests' = Tests /\ Failing' = Failing /\ Tame' = Tame
  /\ test' = test + 1 /\ ~exiting' /\ step' = 1 /\ taken' = {} /\ good'
  /\ ~Waiting' /\ ~InExit'

LEMMA HereMode == TypeOK /\ Running => Mode \in Modes
BY Here

LEMMA FreshTest ==
  ASSUME TypeOK, TypeOK', UNCHANGED board, NextTest
  PROVE  /\ Fresh
         /\ \A i : Vectors(Tests[i])' = Vectors(Tests[i])
         /\ \A i : Supported(Tests[i])' = Supported(Tests[i])
<1>1. /\ Tests' = Tests /\ Failing' = Failing
      /\ \A i : Vectors(Tests[i])' = Vectors(Tests[i])
      /\ \A i : Supported(Tests[i])' = Supported(Tests[i])
  BY DEF Tests, Failing, Vectors, Supported
<1>2. ASSUME Waiting' PROVE FALSE
  <2>1. Running' /\ step' \in {OpenAt(Mode') + 2, OpenAt(Mode') + 3}
    BY <1>2 DEF Waiting, InTest
  <2>2. Running'
    BY <2>1
  <2>3. (Mode \in Modes)'
    BY <2>2, HereMode, PTL
  <2>4. OpenAt(Mode') \in 9..10
    BY <2>3, Layout
  <2> QED
    BY <2>1, <2>4 DEF NextTest
<1> QED
  BY <1>1, <1>2 DEF Fresh, NextTest, Tame, InExit

\* Where the next test begins, whatever it is, nothing is expected yet.
LEMMA FreshPlace ==
  ASSUME TypeOK', Fresh, Running'
  PROVE  /\ Mode' \in Modes /\ SetAt(Mode') \in 7..9 /\ IntxAt(Mode') \in 7..8 /\ RegisterAt(Mode') \in 6..8
         /\ OpenAt(Mode') \in 9..10
<1>1. (Mode \in Modes)'
  BY HereMode, PTL
<1> QED
  BY <1>1, Layout

\* What the step that ends a test leaves.
Left ==
  /\ TypeOK' /\ Fresh /\ disk' = "idle" /\ ~portIE'
  /\ \A v \in registered' : \E i \in 1..Len(Tests) : i <= test /\ v \in Vectors(Tests[i])
  /\ \A i \in 1..Len(Tests) : i > test => verdict'[i] = "none"
  /\ Clean' \/ Tame =>
       /\ \A p \in opened' : p = "PIC" /\ p \notin board.routed
       /\ ~HasEnterInterrupt' /\ handler' = NoVector /\ Latched' = {} /\ 114 \notin inService'
  /\ Clean' => registered' = {} /\ opened' = {} /\ irr' = {} /\ inService' = {}
  /\ Timely /\ Failing = {} => SupportedSucceed'

LEMMA NewTest ==
  ASSUME TypeOK, UNCHANGED board, Left
  PROVE  Fits'
<1>1. /\ Tests' = Tests /\ Failing' = Failing /\ Tame' = Tame /\ test' = test + 1 /\ ~exiting'
      /\ step' = 1 /\ good' /\ ~Waiting' /\ ~InExit' /\ Fresh
      /\ \A i : Vectors(Tests[i])' = Vectors(Tests[i])
  BY DEF Left, Fresh, Tests, Vectors
<1>2. InTest' => Running'
  BY DEF InTest
<1>3. InTest' => SetAt(Mode') \in 7..9 /\ IntxAt(Mode') \in 7..8 /\ RegisterAt(Mode') \in 6..8
                 /\ OpenAt(Mode') \in 9..10 /\ Mode' \in Modes
  BY <1>1, <1>2, FreshPlace DEF Left
<1>4. test \in Nat /\ Len(Tests) \in Nat /\ (InTest' => test + 1 \in 1..Len(Tests))
  BY <1>1, <1>2, ToolAssumption DEF TypeOK, BoardRecord, Tests, Running
<1>5. PICK m, n : m = Mode' /\ n = Len(Tests)
  OBVIOUS
<1>6. PortFits'
  BY <1>1, <1>3 DEF Left, PortFits
<1>7. HandlersFit'
  <2>1. \A v \in registered' : \E i \in 1..n : i <= test + 1 /\ v \in Vectors(Tests[i])
    BY <1>4, <1>5 DEF Left
  <2> QED
    BY <1>1, <1>3, <1>5, <2>1 DEF HandlersFit
<1>8. PathFits'
  BY <1>1, <1>3 DEF PathFits
<1>9. VerdictFits'
  <2>1. \A i \in 1..n : i > test + 1 => verdict'[i] = "none"
    BY <1>4, <1>5 DEF Left
  <2>2. InTest' => verdict'[test + 1] = "none"
    BY <1>4, <1>5 DEF Left
  <2>3. InTest' => ~(step' > OpenAt(Mode') + 4)
    BY <1>1, <1>3
  <2> QED
    BY <1>1, <1>5, <2>1, <2>2, <2>3 DEF VerdictFits
<1>10. ASSUME Clean' \/ Tame PROVE WaitsOwn'
  <2>1. PathOwn'
    BY <1>1, <1>10 DEF Left, PathOwn, Fresh
  <2>2. FlagOwn' /\ HandlerOwn'
    BY <1>10 DEF Left, FlagOwn, HandlerOwn
  <2>3. SeenOwn'
    BY <1>1, <1>3 DEF SeenOwn
  <2> QED
    BY <2>1, <2>2, <2>3 DEF WaitsOwn
<1>11. ASSUME Clean' PROVE Undone'
  <2>1. ClosedAgain'
    BY <1>1, <1>3, <1>11 DEF Left, ClosedAgain
  <2>2. OneInterrupt'
    BY <1>1, <1>11 DEF Left, OneInterrupt
  <2> QED
    BY <2>1, <2>2 DEF Undone
<1>12. SupportedGoOn'
  BY <1>1 DEF Left, SupportedGoOn
<1> QED
  BY <1>1, <1>6, <1>7, <1>8, <1>9, <1>10, <1>11, <1>12 DEF Fits, CourseOK

\* What is said of the tests that have ended includes the one that ends.
LEMMA FreshClean ==
  ASSUME TypeOK, Running, Fresh, \A i \in 1..Len(Tests) : i # test => verdict'[i] = verdict[i]
  PROVE  /\ Clean' => /\ verdict'[test] = "success"
                      /\ \A i \in 1..(test - 1) : verdict[i] = "success"
         /\ SupportedSucceed /\ (\A j \in 1..test : Supported(Tests[j])) /\ Failing = {}
              => \A i \in 1..(test - 1) : verdict[i] = "success"
<1>1. test \in 1..Len(Tests) /\ Len(Tests) \in Nat /\ test' = test + 1
  BY Here DEF Fresh
<1>2. PICK n : n = Len(Tests)
  OBVIOUS
<1>3. /\ (test + 1) - 1 = test /\ test \in 1..test
      /\ \A i \in 1..(test - 1) : i \in 1..test /\ i \in 1..n /\ i # test
                                  /\ \A j \in 1..i : j \in 1..test
  BY <1>1, <1>2
<1>4. ASSUME Clean' PROVE \A i \in 1..test : verdict'[i] = "success"
  BY <1>1, <1>3, <1>4 DEF Clean
<1>5. ASSUME SupportedSucceed, \A j \in 1..test : Supported(Tests[j]), Failing = {}
      PROVE  \A i \in 1..(test - 1) : verdict[i] = "success"
  BY <1>3, <1>5 DEF SupportedSucceed
<1> QED
  BY <1>2, <1>3, <1>4, <1>5

\* What is said of the supported tests goes on to include the one that ends.
LEMMA FreshSupported ==
  ASSUME TypeOK, Running, Fresh, \A i \in 1..Len(Tests) : i # test => verdict'[i] = verdict[i],
         \A i : Supported(Tests[i])' = Supported(Tests[i]),
         SupportedSucceed,
         Failing = {} /\ (\A j \in 1..test : Supported(Tests[j])) => verdict'[test] = "success"
  PROVE  SupportedSucceed'
<1>1. test \in 1..Len(Tests) /\ Len(Tests) \in Nat /\ test' = test + 1 /\ Failing' = Failing
      /\ Tests' = Tests
  BY Here DEF Fresh
<1>2. PICK n : n = Len(Tests)
  OBVIOUS
<1>3. /\ (test + 1) - 1 = test
      /\ \A i \in 1..test : i = test \/ (i \in 1..(test - 1) /\ i \in 1..n /\ i # test)
  BY <1>1, <1>2
<1>4. SUFFICES ASSUME Failing = {}, NEW i \in 1..test, \A j \in 1..i : Supported(Tests[j])
               PROVE  verdict'[i] = "success"
  BY <1>1, <1>3 DEF SupportedSucceed
<1>5. CASE i = test
  BY <1>4, <1>5
<1>6. CASE i \in 1..(test - 1) /\ i \in 1..n /\ i # test
  BY <1>2, <1>4, <1>6 DEF SupportedSucceed
<1> QED
  BY <1>3, <1>5, <1>6

LEMMA StepLastKeeps ==
  ASSUME TypeOK, TypeOK', Fits, StepLast, Running
  PROVE  Fits'
<1>1. /\ Fresh /\ UNCHANGED board
      /\ \A i : Supported(Tests[i])' = Supported(Tests[i])
  BY FreshTest DEF StepLast, GoesOnWith, Calm
<1>2. UNCHANGED verdict \/ Report("success")
  BY DEF StepLast, GoesOnWith, InTest, InExit, RunWrites, ToolWrites, ExitWrites
<1>3. \A i \in 1..Len(Tests) : i # test => verdict'[i] = verdict[i]
  BY <1>2 DEF Report, TypeOK
<1>4. /\ Mode \in Modes /\ test \in 1..Len(Tests) /\ Len(Tests) \in Nat
      /\ (InTest \/ InExit) /\ handler = NoVector
      /\ UNCHANGED <<irr, inService, handler>>
  BY Here DEF InTest, InExit, StepLast, GoesOnWith, Calm
<1>5. PICK o, w, c, xc, xr, xe, xk, ra, sa :
        /\ o = OpenAt(Mode) /\ w = WaitAt(Mode) /\ c = CloseAt(Mode) /\ xc = ExitClearAt(Mode)
        /\ xr = ExitResetAt(Mode) /\ xe = ExitEndAt(Mode) /\ xk = ExitCloseAt(Mode)
        /\ ra = RegisterAt(Mode) /\ sa = SetAt(Mode)
  OBVIOUS
<1>6. /\ o \in 9..10 /\ w = {IF Mode = "PIC" THEN 4 ELSE 3, o + 2} /\ c \in {o + 7, o + 8}
      /\ ClearAt \in {o + 7, o + 8} /\ xe \in 2..4 /\ xc \in 2..xe /\ xr \in 0..2 /\ xr < xe
      /\ xk \in 0..xe /\ ra \in 6..8 /\ sa \in 7..9 /\ sa < o
  BY <1>4, <1>5, Layout
<1>7. (InTest => step = o + 8) /\ (InExit => step = xe)
  BY <1>4, <1>5, Here, Layout DEF InTest, InExit, StepLast
<1>8. (InTest => RunWrites) /\ (InExit => ExitWrites)
  BY DEF StepLast, GoesOnWith
<1>9. disk' = "idle" /\ ~portIE'
  <2>1. CASE InTest
    BY <1>5, <1>6, <1>7, <1>8, <2>1 DEF RunWrites, PortWrites, Fits, CourseOK, PortFits, InTest
  <2>2. CASE InExit
    BY <1>5, <1>6, <1>7, <1>8, <2>2 DEF ExitWrites, Fits, CourseOK, PortFits, InTest, InExit
  <2> QED
    BY <1>4, <2>1, <2>2
<1>10. \A v \in registered' : \E i \in 1..Len(Tests) : i <= test /\ v \in Vectors(Tests[i])
  <2>1. CASE InTest
    <3>1. step # ra /\ step # o + 6
      BY <1>6, <1>7, <2>1
    <3> QED
      BY <1>5, <1>8, <2>1, <3>1 DEF RunWrites, ToolWrites, Fits, CourseOK, HandlersFit
  <2>2. CASE InExit
    BY <1>8, <2>2 DEF ExitWrites, Fits, CourseOK, HandlersFit
  <2> QED
    BY <1>4, <2>1, <2>2
<1>11. \A i \in 1..Len(Tests) : i > test => verdict'[i] = "none"
  BY <1>3, <1>4 DEF Fits, CourseOK, VerdictFits
<1>12. verdict' = verdict /\ verdict[test] = IF exiting THEN "failure" ELSE "success"
  BY <1>4, <1>5, <1>6, <1>7, <1>8
     DEF RunWrites, ToolWrites, ExitWrites, Fits, CourseOK, VerdictFits, InTest, InExit
<1>13. Clean' => Clean
  BY <1>1, <1>3, <1>12, FreshClean DEF Clean
<1>14. ASSUME WaitsOwn
       PROVE  /\ \A p \in opened' : p = "PIC" /\ p \notin board.routed
              /\ ~HasEnterInterrupt' /\ handler' = NoVector /\ Latched' = {}
              /\ 114 \notin inService'
  <2>1. \A p \in opened' : p = "PIC" /\ p \notin board.routed
    <3>1. CASE InTest
      BY <1>5, <1>6, <1>7, <1>8, <1>14, <3>1 DEF RunWrites, WayWrites, WaitsOwn, PathOwn, InTest
    <3>2. CASE InExit
      BY <1>5, <1>6, <1>7, <1>8, <1>14, <3>2 DEF ExitWrites, WaitsOwn, PathOwn, InExit
    <3> QED
      BY <1>4, <3>1, <3>2
  <2>2. ~HasEnterInterrupt'
    <3>1. CASE InTest
      BY <1>5, <1>6, <1>7, <1>8, <1>14, <3>1 DEF RunWrites, ToolWrites, WaitsOwn, FlagOwn, InTest
    <3>2. CASE InExit
      BY <1>5, <1>6, <1>7, <1>8, <1>14, <3>2 DEF ExitWrites, WaitsOwn, FlagOwn, InExit
    <3> QED
      BY <1>4, <3>1, <3>2
  <2>3. ~Waiting
    BY <1>5, <1>6, <1>7 DEF Waiting
  <2>4. Latched = {} /\ Latched' = Latched
    BY <1>4, <1>14, <2>3 DEF WaitsOwn, HandlerOwn, Latched
  <2>5. 114 \notin inService
    BY <1>4, <1>14, VectorsTyped DEF WaitsOwn, HandlerOwn
  <2> QED
    BY <1>4, <2>1, <2>2, <2>4, <2>5
<1>15. ASSUME Clean, Undone
       PROVE  registered' = {} /\ opened' = {} /\ irr' = {} /\ inService' = {}
  <2>1. InTest /\ ~Waiting
    BY <1>4, <1>5, <1>6, <1>7, <1>15 DEF Clean, InExit, Waiting
  <2>2. ToolWrites /\ WayWrites
    BY <1>8, <2>1 DEF RunWrites
  <2>3. step # ra /\ ~(step <= o + 6) /\ step # o /\ (step = c \/ ~(step <= c))
    BY <1>6, <1>7, <2>1
  <2>4. registered' = {}
    BY <1>5, <1>15, <2>2, <2>3 DEF ToolWrites, Undone, ClosedAgain
  <2>5. opened' = {}
    BY <1>5, <1>15, <2>2, <2>3 DEF WayWrites, Undone, ClosedAgain
  <2> QED
    BY <1>4, <1>15, <2>1, <2>4, <2>5 DEF Undone, OneInterrupt
<1>16. Timely /\ Failing = {} => SupportedSucceed'
  <2>1. ASSUME Timely, Failing = {}, \A j \in 1..test : Supported(Tests[j])
        PROVE  verdict'[test] = "success"
    BY <1>12, <2>1, <1>4 DEF Fits, SupportedGoOn, InTest, InExit
  <2> QED
    BY <1>1, <1>3, <2>1, FreshSupported DEF Fits, SupportedGoOn
<1>17. Left
  BY <1>1, <1>9, <1>10, <1>11, <1>13, <1>14, <1>15, <1>16 DEF Left, Fits
<1> QED
  BY <1>1, <1>17, NewTest

-----------------------------------------------------------------------------
(***************************************************************************)
(* What the device sends while a test waits.                               *)
(***************************************************************************)
LEMMA WaitingOpen ==
  ASSUME TypeOK, CourseOK, PathOwn, Waiting
  PROVE  /\ Mode \in Modes /\ Path(Mode) \in opened /\ opened \subseteq {"PIC", Path(Mode)}
         /\ Vectors(Mode) \subseteq registered /\ portIE
         /\ Mode \in Messages => message = MsiMessage(Mode)
         /\ Mode \in {"PIC", "APIC"} => ~intxOff
         /\ InTest /\ Running /\ ~exiting
<1>1. InTest /\ Running /\ ~exiting /\ step \in {OpenAt(Mode) + 2, OpenAt(Mode) + 3}
  BY DEF Waiting, InTest
<1>2. Mode \in Modes
  BY <1>1, Here
<1>3. PICK o, c, ra, sa, ia : o = OpenAt(Mode) /\ c = CloseAt(Mode) /\ ra = RegisterAt(Mode)
                              /\ sa = SetAt(Mode) /\ ia = IntxAt(Mode)
  OBVIOUS
<1>4. /\ o \in 9..10 /\ c \in {o + 7, o + 8} /\ ClearAt \in {o + 7, o + 8}
      /\ ra \in 6..8 /\ ra < o /\ sa \in 7..9 /\ sa < o /\ ia \in 7..8 /\ ia < o
  BY <1>2, <1>3, Layout
<1>5. /\ step > o /\ step <= c /\ step > ra /\ step <= o + 6 /\ step > sa /\ step <= ClearAt
      /\ step > ia
  BY <1>1, <1>3, <1>4
<1>6. Path(Mode) \in opened /\ (Mode \in Messages => message = MsiMessage(Mode))
  BY <1>1, <1>3, <1>5 DEF CourseOK, PathFits
<1>7. Vectors(Mode) \subseteq registered
  BY <1>1, <1>3, <1>5 DEF CourseOK, HandlersFit
<1>8. portIE /\ (Mode \in {"PIC", "APIC"} => ~intxOff)
  BY <1>1, <1>3, <1>5 DEF CourseOK, PortFits
<1>9. opened \subseteq {"PIC", Path(Mode)}
  BY DEF PathOwn
<1> QED
  BY <1>1, <1>2, <1>6, <1>7, <1>8, <1>9

\* The vector a test waits for, if it does not use the 8259.
Expected ==
  CASE Mode \in {"APIC", "SMSI"} -> 149
    [] Mode = "MMSI" -> MsiMessage("MMSI")
    [] Mode = "MSIX" -> MsixVector(board.port)

LEMMA WaitingSent ==
  ASSUME TypeOK, CourseOK, PathOwn, Waiting
  PROVE  /\ Mode = "PIC" => Sent = {}
         /\ Mode # "PIC" => Sent = IF Path(Mode) \in board.routed THEN {Expected} ELSE {}
<1>1. /\ Mode \in Modes /\ Path(Mode) \in opened /\ opened \subseteq {"PIC", Path(Mode)}
      /\ Mode \in Messages => message = MsiMessage(Mode)
      /\ Mode \in {"PIC", "APIC"} => ~intxOff
  BY WaitingOpen
<1>2. CASE Mode = "PIC"
  BY <1>1, <1>2 DEF Path, Sent, Routed
<1>3. CASE Mode = "APIC"
  BY <1>1, <1>3 DEF Path, Sent, Routed, Expected
<1>4. CASE Mode = "SMSI"
  BY <1>1, <1>4 DEF Path, Sent, Routed, Expected, MsiMessage, Messages
<1>5. CASE Mode = "MMSI"
  BY <1>1, <1>5 DEF Path, Sent, Routed, Expected, Messages
<1>6. CASE Mode = "MSIX"
  BY <1>1, <1>6 DEF Path, Sent, Routed, Expected
<1> QED
  BY <1>1, <1>2, <1>3, <1>4, <1>5, <1>6 DEF Modes

\* A controller that has fallen back to one message sends 148, which no test
\* before the one of multiple MSI has a handler for.
LEMMA ExpectedOwn ==
  ASSUME TypeOK, CourseOK, Running, Mode # "PIC"
  PROVE  /\ Expected # 114
         /\ Expected \in registered => Expected \in Vectors(Mode)
         /\ Supported(Mode) => Expected \in Vectors(Mode)
<1>1. /\ Mode \in Modes /\ test \in 1..Len(Tests) /\ Len(Tests) \in Nat /\ Tests \in Seq(Modes)
      /\ board.port \in Nat /\ board.port < TableSize /\ TableSize \in Nat /\ InOrder(Tests)
      /\ board.reverts \in BOOLEAN
  BY Here, ToolAssumption DEF TypeOK, BoardRecord, Tests
<1>2. CASE Mode \in {"APIC", "SMSI"}
  BY <1>2 DEF Expected, Vectors
<1>3. CASE Mode = "MSIX"
  BY <1>1, <1>3, VectorsTyped DEF Expected, MsixVector
<1>4. CASE Mode = "MMSI"
  <2>1. Vectors(Mode) = {148 + board.port} /\ Expected \in {148, 148 + board.port}
        /\ (~board.reverts => Expected = 148 + board.port)
    BY <1>1, <1>4 DEF Expected, Vectors, MsiMessage
  <2>2. ASSUME 148 \in registered PROVE 148 \in Vectors(Mode)
    <3>1. PICK i \in 1..Len(Tests) : i <= test /\ 148 \in Vectors(Tests[i])
      BY <2>2 DEF CourseOK, HandlersFit
    <3>2. Tests[i] \in Modes
      BY <1>1
    <3>3. Tests[i] # "MSIX"
      <4>1. CASE i = test
        BY <1>4, <4>1 DEF Mode
      <4>2. CASE i < test
        BY <1>1, <1>4, <4>2 DEF InOrder, Mode
      <4> QED
        BY <1>1, <3>1, <4>1, <4>2
    <3>4. Tests[i] = "MMSI"
      BY <3>1, <3>2, <3>3 DEF Modes, Vectors
    <3> QED
      BY <1>4, <3>1, <3>4
  <2>3. Supported(Mode) => board.port = 0 \/ ~board.reverts
    BY <1>4 DEF Supported
  <2> QED
    BY <1>1, <2>1, <2>2, <2>3
<1> QED
  BY <1>1, <1>2, <1>3, <1>4 DEF Modes

-----------------------------------------------------------------------------
(***************************************************************************)
(* A test that gives up, or is refused.                                    *)
(***************************************************************************)
\* With the interrupt pending at the port, a test that can be reached has one
\* on its way: it does not give up.
LEMMA PicNotSilent ==
  ASSUME TypeOK, CourseOK, WaitsOwn, Waiting, portIS # {}, handler = NoVector, Mode = "PIC",
         "PIC" \in board.routed
  PROVE  OnItsWay
<1>1. /\ Path(Mode) \in opened /\ opened \subseteq {"PIC", Path(Mode)} /\ portIE /\ ~intxOff
  BY WaitingOpen DEF WaitsOwn
<1>2. 114 \notin inService
  BY VectorsTyped DEF WaitsOwn, HandlerOwn
<1> QED
  BY <1>1, <1>2 DEF OnItsWay, PicRequest, Routed, Path

LEMMA SupportedNotSilent ==
  ASSUME TypeOK, CourseOK, WaitsOwn, Undone, Waiting, portIS # {}, handler = NoVector,
         Supported(Mode)
  PROVE  OnItsWay
<1>1. Mode \in Modes /\ Vectors(Mode) \subseteq registered /\ Running
  BY WaitingOpen DEF WaitsOwn
<1>2. CASE Mode = "PIC"
  BY <1>2, PicNotSilent DEF Supported, Path
<1>3. CASE Mode # "PIC"
  <2>1. Sent = {Expected}
    BY <1>3, WaitingSent DEF Supported, WaitsOwn
  <2>2. Expected \in registered
    BY <1>1, <1>3, ExpectedOwn
  <2>3. inService = {}
    BY <2>1, <2>2 DEF Undone, OneInterrupt
  <2>4. irr = {Expected}
    BY <2>1, <2>3 DEF Undone, OneInterrupt
  <2> QED
    BY <2>3, <2>4 DEF OnItsWay, Latched
<1> QED
  BY <1>2, <1>3

LEMMA GivesUpKeeps ==
  ASSUME TypeOK, Fits, GivesUp
  PROVE  Fits'
<1>1. /\ InTest /\ Running /\ ~exiting /\ exiting' /\ step' = 1 /\ test' = test /\ taken' = taken
      /\ good' = good /\ handler = NoVector /\ step \notin WaitAt(Mode)
      /\ UNCHANGED <<board, irr, inService, handler, registered, opened, message, intxOff,
                     portIE, portIS, disk, HasEnterInterrupt>>
      /\ Report("failure")
  BY DEF GivesUp, Fail, GotoExit, Calm, Still, InTest
<1>2. /\ Mode \in Modes /\ test \in 1..Len(Tests) /\ Len(Tests) \in Nat
  BY <1>1, Here
<1>3. /\ Tests' = Tests /\ Mode' = Mode /\ Failing' = Failing /\ Running' /\ Tame' = Tame
      /\ ~InTest' /\ InExit' /\ ~Waiting' /\ ~Clean' /\ Latched' = Latched
      /\ Vectors(Mode)' = Vectors(Mode)
      /\ \A i : Vectors(Tests[i])' = Vectors(Tests[i])
      /\ \A i : Supported(Tests[i])' = Supported(Tests[i])
  BY <1>1 DEF Tests, Mode, Failing, Running, Tame, InTest, InExit, Waiting, Clean, Latched,
              Vectors, Supported
<1>4. verdict'[test] = "failure" /\ \A i \in 1..Len(Tests) : i # test => verdict'[i] = verdict[i]
  BY <1>1, <1>2 DEF Report, TypeOK
<1>5. PICK o, c, ra, sa, xc, xr, xk :
        /\ o = OpenAt(Mode) /\ c = CloseAt(Mode) /\ ra = RegisterAt(Mode) /\ sa = SetAt(Mode)
        /\ xc = ExitClearAt(Mode) /\ xr = ExitResetAt(Mode) /\ xk = ExitCloseAt(Mode)
  OBVIOUS
<1>6. /\ o \in 9..10 /\ c \in {o + 7, o + 8} /\ ra \in 6..8 /\ ra < o /\ sa \in 7..9 /\ sa < o
      /\ xc \in Int /\ xc >= 2 /\ xr \in 0..2 /\ xk \in Int
      /\ (Mode \notin {"PIC", "APIC"} => xr = 2 /\ xk > 2) /\ (Mode = "APIC" => xk = 2)
      /\ step \in Nat
  BY <1>1, <1>2, <1>5, Layout, Here DEF ExitCloseAt
<1>7. \/ step < ra /\ step < sa /\ Failing # {}
      \/ step = o + 3 /\ ~HasEnterInterrupt /\ (Timely => ~OnItsWay)
      \/ step = o + 4 /\ Failing # {}
  BY <1>5 DEF GivesUp, Fits, CourseOK, VerdictFits
<1>8. disk = "idle"
  BY <1>1 DEF Fits, CourseOK, PortFits
<1>9. CourseOK'
  <2>1. PortFits'
    BY <1>1, <1>3, <1>5, <1>6, <1>8 DEF PortFits
  <2>2. HandlersFit' /\ PathFits'
    BY <1>1, <1>3 DEF Fits, CourseOK, HandlersFit, PathFits
  <2>3. VerdictFits'
    BY <1>1, <1>2, <1>3, <1>4 DEF Fits, CourseOK, VerdictFits
  <2> QED
    BY <2>1, <2>2, <2>3 DEF CourseOK
<1>10. step = o + 3 => Waiting
  BY <1>1, <1>5 DEF Waiting
<1>11. ASSUME Tame PROVE WaitsOwn'
  <2>1. WaitsOwn /\ Timely /\ (Mode \in {"PIC", "APIC"} => Failing = {})
    BY <1>2, <1>11 DEF Fits, Tame, Mode
  <2>2. ~Waiting \/ ~OnItsWay
    BY <1>5, <1>6, <1>7, <2>1 DEF Waiting
  <2>3. Latched = {}
    BY <2>1, <2>2 DEF WaitsOwn, HandlerOwn, OnItsWay
  <2>4. step > o => \/ Mode \notin {"PIC", "APIC"}
                    \/ step = o + 3 /\ portIS # {} /\ ~HasEnterInterrupt
    BY <1>6, <1>7, <1>8, <1>10, <2>1 DEF WaitsOwn, SeenOwn
  <2>5. ASSUME NEW p \in opened
        PROVE  \/ p = "PIC" /\ p \notin board.routed
               \/ p = Path(Mode) /\ 1 <= xk
    <3>1. CASE p = Path(Mode) /\ step > o
      <4>1. CASE Mode # "PIC"
        BY <1>2, <1>6, <3>1, <4>1 DEF Modes
      <4>2. CASE Mode = "PIC"
        <5>1. Waiting /\ portIS # {} /\ ~OnItsWay
          BY <1>10, <2>2, <2>4, <3>1, <4>2
        <5>2. "PIC" \notin board.routed
          BY <1>1, <2>1, <4>2, <5>1, PicNotSilent DEF Fits
        <5> QED
          BY <3>1, <4>2, <5>2 DEF Path
      <4> QED
        BY <4>1, <4>2
    <3> QED
      BY <1>1, <1>5, <2>1, <3>1 DEF WaitsOwn, PathOwn
  <2>6. PathOwn'
    BY <1>1, <1>3, <1>5, <2>5 DEF PathOwn
  <2>7. FlagOwn'
    <3>1. ASSUME HasEnterInterrupt
          PROVE  1 <= xr /\ taken \cap Vectors(Mode) # {} /\ portIS = {}
      <4>1. step > o
        BY <1>1, <1>5, <1>6, <2>1, <3>1 DEF WaitsOwn, FlagOwn
      <4> QED
        BY <1>6, <2>1, <2>4, <3>1, <4>1 DEF WaitsOwn, FlagOwn
    <3> QED
      BY <1>1, <1>3, <1>5, <1>8, <2>3, <3>1 DEF FlagOwn
  <2>8. HandlerOwn'
    BY <1>1, <1>3, <2>1, <2>3 DEF WaitsOwn, HandlerOwn
  <2>9. SeenOwn'
    BY <1>3 DEF SeenOwn
  <2> QED
    BY <2>6, <2>7, <2>8, <2>9 DEF WaitsOwn
<1>12. SupportedGoOn'
  <2>1. SUFFICES ASSUME Timely, Failing = {}
                 PROVE  SupportedSucceed' /\ \E j \in 1..test : ~Supported(Tests[j])
    BY <1>1, <1>3 DEF SupportedGoOn
  <2>2. SupportedSucceed'
    <3>1. \A i \in 1..(test - 1) : verdict'[i] = verdict[i]
      BY <1>4, Earlier
    <3> QED
      BY <1>1, <1>3, <2>1, <3>1 DEF Fits, SupportedGoOn, SupportedSucceed
  <2>3. ASSUME \A j \in 1..test : Supported(Tests[j]) PROVE FALSE
    <3>1. \A i \in 1..(test - 1) : i \in 1..test /\ \A j \in 1..i : j \in 1..test
      BY <1>2
    <3>2. Clean
      BY <1>1, <2>1, <2>3, <3>1 DEF Fits, SupportedGoOn, SupportedSucceed, Clean
    <3>3. WaitsOwn /\ Undone /\ Waiting /\ ~OnItsWay /\ ~HasEnterInterrupt
      BY <1>7, <1>10, <2>1, <3>2 DEF Fits
    <3>4. portIS # {}
      BY <1>8, <2>1, <3>3 DEF WaitsOwn, SeenOwn
    <3>5. Supported(Mode)
      BY <1>2, <2>3 DEF Mode
    <3> QED
      BY <1>1, <3>3, <3>4, <3>5, SupportedNotSilent DEF Fits
  <2> QED
    BY <2>2, <2>3
<1> QED
  BY <1>3, <1>9, <1>11, <1>12 DEF Fits

LEMMA RefusedKeeps ==
  ASSUME TypeOK, TypeOK', Fits, Refused
  PROVE  Fits'
<1>1. /\ InTest /\ Running /\ ~exiting /\ handler = NoVector /\ step \notin WaitAt(Mode)
      /\ UNCHANGED <<board, irr, inService, handler, opened, message, intxOff,
                     portIE, portIS, disk, HasEnterInterrupt>>
      /\ Report("error") /\ NextTest
      /\ registered' \subseteq registered \cup Vectors(Mode)
  BY DEF Refused, ReturnError, Calm, Still, InTest
<1>2. Mode \in Modes /\ test \in 1..Len(Tests) /\ Len(Tests) \in Nat /\ step \in Nat
  BY <1>1, Here
<1>3. /\ Fresh /\ \A i : Supported(Tests[i])' = Supported(Tests[i])
  BY <1>1, FreshTest
<1>4. verdict'[test] = "error" /\ \A i \in 1..Len(Tests) : i # test => verdict'[i] = verdict[i]
  BY <1>1, <1>2 DEF Report, TypeOK
<1>5. PICK o, ra, sa : o = OpenAt(Mode) /\ ra = RegisterAt(Mode) /\ sa = SetAt(Mode)
  OBVIOUS
<1>6. /\ o \in 9..10 /\ ra \in 6..8 /\ ra < o /\ sa \in 7..9 /\ sa < o /\ ra < sa
      /\ step < sa
  BY <1>2, <1>5, Layout DEF Refused
<1>7. disk' = "idle" /\ ~portIE'
  BY <1>1, <1>2, <1>5, <1>6 DEF Fits, CourseOK, PortFits
<1>8. \A v \in registered' : \E i \in 1..Len(Tests) : i <= test /\ v \in Vectors(Tests[i])
  BY <1>1, <1>2 DEF Fits, CourseOK, HandlersFit, Mode
<1>9. \A i \in 1..Len(Tests) : i > test => verdict'[i] = "none"
  BY <1>2, <1>4 DEF Fits, CourseOK, VerdictFits
<1>10. ~Clean'
  BY <1>1, <1>3, <1>4, FreshClean
<1>11. ASSUME WaitsOwn
       PROVE  /\ \A p \in opened' : p = "PIC" /\ p \notin board.routed
              /\ ~HasEnterInterrupt' /\ handler' = NoVector /\ Latched' = {}
              /\ 114 \notin inService'
  <2>1. ~(step > o) /\ ~(step > o + 1) /\ ~Waiting
    BY <1>2, <1>5, <1>6 DEF Waiting
  <2>2. \A p \in opened : p = "PIC" /\ p \notin board.routed
    BY <1>1, <1>5, <1>11, <2>1 DEF WaitsOwn, PathOwn
  <2>3. ~HasEnterInterrupt
    BY <1>1, <1>5, <1>11, <2>1 DEF WaitsOwn, FlagOwn
  <2>4. Latched = {} /\ Latched' = Latched
    BY <1>1, <1>11, <2>1 DEF WaitsOwn, HandlerOwn, Latched
  <2>5. 114 \notin inService
    BY <1>1, <1>11, VectorsTyped DEF WaitsOwn, HandlerOwn
  <2> QED
    BY <1>1, <2>2, <2>3, <2>4, <2>5
<1>12. Timely /\ Failing = {} => SupportedSucceed'
  <2>1. ASSUME Timely, Failing = {}, \A j \in 1..test : Supported(Tests[j])
        PROVE  FALSE
    <3>1. \A i \in 1..(test - 1) : verdict[i] = "success"
      BY <1>1, <1>3, <1>4, <2>1, FreshClean DEF Fits, SupportedGoOn
    <3>2. Undone
      BY <1>1, <3>1 DEF Fits, Clean
    <3>3. Supported(Mode)
      BY <1>2, <2>1 DEF Mode
    <3>4. step = ra /\ registered # {}
      BY <1>5, <3>3 DEF Refused
    <3>5. ~(step > ra)
      BY <1>2, <1>6, <3>4
    <3> QED
      BY <1>5, <3>2, <3>4, <3>5 DEF Undone, ClosedAgain
  <2> QED
    BY <1>1, <1>3, <1>4, <2>1, FreshSupported DEF Fits, SupportedGoOn
<1>13. Left
  BY <1>3, <1>7, <1>8, <1>9, <1>10, <1>11, <1>12 DEF Left, Fits
<1> QED
  BY <1>1, <1>13, NewTest

-----------------------------------------------------------------------------
(***************************************************************************)
(* The program.                                                            *)
(***************************************************************************)
LEMMA ProgramKeeps ==
  ASSUME TypeOK, TypeOK', Fits, Program
  PROVE  Fits'
<1>1. GoesOnWith \/ GivesUp \/ Refused
  BY ProgramEffect
<1>2. Running
  BY ProgramWrites DEF Moved
<1>3. CASE GoesOnWith
  <2>1. Advance \/ (step = Len(Course) /\ NextTest)
    BY <1>2, <1>3, GoesOn DEF GoesOnWith, Calm
  <2> QED
    BY <1>2, <1>3, <2>1, StepOnKeeps, StepLastKeeps DEF StepOn, StepLast
<1> QED
  BY <1>1, <1>3, GivesUpKeeps, RefusedKeeps

-----------------------------------------------------------------------------
(***************************************************************************)
(* The disk, the processor and the handlers.                               *)
(***************************************************************************)
\* They leave the course of the test, its path and its handlers alone.
Apart ==
  UNCHANGED <<board, test, exiting, step, verdict, registered, opened, message, intxOff, portIE>>

LEMMA ApartSame ==
  ASSUME TypeOK, Apart
  PROVE  /\ Tests' = Tests /\ Mode' = Mode /\ Failing' = Failing /\ Running' = Running
         /\ InTest' = InTest /\ InExit' = InExit /\ Waiting' = Waiting
         /\ Vectors(Mode)' = Vectors(Mode) /\ Sent' = Sent
         /\ Tame' = Tame /\ Clean' = Clean
<1>1. SameTest
  BY DEF Apart, SameTest
<1>2. Waiting' = Waiting
  BY DEF Apart, Waiting, InTest, Running, Mode, Tests
<1> QED
  BY <1>1, <1>2, SameTestFacts, SameWay DEF Apart

LEMMA ApartKeeps ==
  ASSUME TypeOK, Apart
  PROVE  /\ HandlersFit => HandlersFit'
         /\ PathFits => PathFits'
         /\ PathOwn => PathOwn'
         /\ ClosedAgain => ClosedAgain'
         /\ SupportedGoOn => SupportedGoOn'
<1>1. SameTest
  BY DEF Apart, SameTest
<1>2. /\ Tests' = Tests /\ Mode' = Mode /\ Failing' = Failing /\ Running' = Running
      /\ InTest' = InTest /\ InExit' = InExit
      /\ Vectors(Mode)' = Vectors(Mode)
      /\ \A i : Vectors(Tests[i])' = Vectors(Tests[i])
      /\ MsiMessage(Mode)' = MsiMessage(Mode)
  BY <1>1, SameTestFacts
<1>3. HandlersFit => HandlersFit'
  BY <1>2 DEF HandlersFit, Apart
<1>4. PathFits => PathFits'
  BY <1>2 DEF PathFits, Apart
<1>5. PathOwn => PathOwn'
  BY <1>2 DEF PathOwn, Apart
<1>6. ClosedAgain => ClosedAgain'
  BY <1>2 DEF ClosedAgain, Apart
<1> QED
  BY <1>1, <1>3, <1>4, <1>5, <1>6, SupportedStays

\* Where a command is in progress.
LEMMA DiskPlace ==
  ASSUME TypeOK, CourseOK, disk # "idle"
  PROVE  /\ InTest /\ "DHR" \notin portIS
         /\ (Waiting => portIE) /\ (portIE => Waiting)
         /\ step < SetAt(Mode) \/ step = OpenAt(Mode) + 2
<1>1. InTest /\ step \in WaitAt(Mode) /\ "DHR" \notin portIS
  BY DEF CourseOK, PortFits
<1>2. Mode \in Modes
  BY <1>1, Here DEF InTest
<1>3. PICK o, sa : o = OpenAt(Mode) /\ sa = SetAt(Mode)
  OBVIOUS
<1>4. /\ o \in 9..10 /\ sa \in 7..9 /\ sa < o /\ ClearAt \in {o + 7, o + 8}
      /\ step \in {IF Mode = "PIC" THEN 4 ELSE 3, o + 2}
  BY <1>1, <1>2, <1>3, Layout
<1>5. CASE step = o + 2
  BY <1>1, <1>3, <1>4, <1>5 DEF CourseOK, PortFits, Waiting
<1>6. CASE step < sa
  BY <1>1, <1>3, <1>4, <1>6 DEF CourseOK, PortFits, Waiting, InTest
<1> QED
  BY <1>3, <1>4, <1>5, <1>6

\* The disk goes on, and may raise the port's interrupt.
DiskStep ==
  /\ Apart /\ UNCHANGED <<HasEnterInterrupt, inService, handler, taken>>
  /\ disk # "idle"
  /\ disk' # "idle" => "DHR" \notin portIS'
  /\ \/ (\E bit : Raise(bit))
     \/ "disk" \in Failing /\ UNCHANGED <<portIS, irr>>
  /\ good' = good \/ "disk" \in Failing

LEMMA DiskStepTaken ==
  ASSUME TypeOK, CourseOK, DiskData \/ DiskDone \/ DiskError \/ DiskSilent
  PROVE  DiskStep
<1> USE DEF DiskStep, Apart, DiskUnchanged, control, tool
<1>1. disk # "idle" => "DHR" \notin portIS
  BY DiskPlace
<1>2. CASE DiskData
  <2>1. Raise("DP")
    BY <1>2 DEF DiskData
  <2>2. "DHR" \notin portIS'
    BY <1>1, <1>2, <2>1 DEF DiskData, Raise
  <2> QED
    BY <1>2, <2>1, <2>2 DEF DiskData
<1>3. CASE DiskDone
  BY <1>3 DEF DiskDone
<1>4. CASE DiskError
  BY <1>4 DEF DiskError
<1>5. CASE DiskSilent
  BY <1>5 DEF DiskSilent
<1> QED
  BY <1>2, <1>3, <1>4, <1>5

LEMMA DiskStepKeeps ==
  ASSUME TypeOK, Fits, DiskStep
  PROVE  Fits'
<1>1. /\ Apart /\ HasEnterInterrupt' = HasEnterInterrupt /\ inService' = inService
      /\ handler' = handler /\ taken' = taken /\ disk # "idle"
      /\ step' = step /\ test' = test /\ exiting' = exiting
      /\ portIE' = portIE /\ registered' = registered /\ intxOff' = intxOff
      /\ verdict' = verdict
  BY DEF DiskStep, Apart
<1>2. /\ Tests' = Tests /\ Mode' = Mode /\ Failing' = Failing /\ Running' = Running
      /\ InTest' = InTest /\ InExit' = InExit /\ Waiting' = Waiting
      /\ Vectors(Mode)' = Vectors(Mode) /\ Sent' = Sent
      /\ Tame' = Tame /\ Clean' = Clean
  BY <1>1, ApartSame
<1>3. /\ InTest /\ (Waiting => portIE) /\ (portIE => Waiting)
      /\ (step < SetAt(Mode) \/ step = OpenAt(Mode) + 2)
      /\ Mode \in Modes /\ step \in Nat /\ OpenAt(Mode) \in 9..10
      /\ SetAt(Mode) \in 7..9 /\ SetAt(Mode) < OpenAt(Mode)
  BY <1>1, DiskPlace, Here, Layout DEF Fits, InTest
<1>4. \/ portIS' # {} /\ irr' = IF portIE /\ portIS = {} THEN irr \cup Sent ELSE irr
      \/ "disk" \in Failing /\ portIS' = portIS /\ irr' = irr
  BY DEF DiskStep, Raise
<1>5. CourseOK'
  <2>1. PortFits'
    <3>1. disk' # "idle" => InTest' /\ step' \in WaitAt(Mode') /\ "DHR" \notin portIS'
      BY <1>1, <1>2 DEF DiskStep, Fits, CourseOK, PortFits
    <3>2. ~(InTest' /\ step' > SetAt(Mode') /\ step' <= OpenAt(Mode') + 1)
      BY <1>1, <1>2, <1>3
    <3> QED
      BY <1>1, <1>2, <3>1, <3>2 DEF Fits, CourseOK, PortFits
  <2>2. HandlersFit' /\ PathFits'
    BY <1>1, ApartKeeps DEF Fits, CourseOK
  <2>3. VerdictFits'
    BY <1>1, <1>2 DEF DiskStep, Fits, CourseOK, VerdictFits
  <2> QED
    BY <2>1, <2>2, <2>3 DEF CourseOK
<1>6. ASSUME WaitsOwn PROVE WaitsOwn'
  <2>1. PathOwn'
    BY <1>1, <1>6, ApartKeeps DEF WaitsOwn
  <2>2. ~HasEnterInterrupt /\ FlagOwn'
    BY <1>1, <1>6 DEF WaitsOwn, FlagOwn
  <2>3. handler # NoVector => irr' = irr /\ portIS' # {}
    BY <1>4, <1>6 DEF WaitsOwn, HandlerOwn
  <2>4. ASSUME Latched' # {} PROVE Waiting /\ portIS' # {} /\ irr' \subseteq Sent
    <3>1. inService \subseteq {114}
      BY <1>1, <2>4 DEF Latched
    <3>2. CASE irr' = irr
      <4>1. Latched # {} /\ irr' = irr
        BY <1>1, <2>4, <3>2 DEF Latched
      <4> QED
        BY <1>4, <1>6, <4>1 DEF WaitsOwn, HandlerOwn
    <3>3. CASE irr' = irr \cup Sent /\ portIE /\ portIS' # {} /\ portIS = {}
      <4>1. irr = {}
        BY <1>6, <3>1, <3>3 DEF WaitsOwn, HandlerOwn, Latched
      <4> QED
        BY <1>3, <3>3, <4>1
    <3> QED
      BY <1>4, <3>2, <3>3
  <2>5. HandlerOwn'
    BY <1>1, <1>2, <1>6, <2>3, <2>4 DEF WaitsOwn, HandlerOwn
  <2>6. SeenOwn'
    <3>1. ~(step > OpenAt(Mode) + 3)
      BY <1>3
    <3> QED
      BY <1>1, <1>2, <1>4, <3>1 DEF SeenOwn
  <2> QED
    BY <2>1, <2>2, <2>5, <2>6 DEF WaitsOwn
<1>7. ASSUME WaitsOwn, Undone PROVE Undone'
  <2>1. ClosedAgain'
    BY <1>1, <1>7, ApartKeeps DEF Undone
  <2>2. handler # NoVector => irr' = irr /\ portIS' # {}
    BY <1>4, <1>7 DEF WaitsOwn, HandlerOwn
  <2>3. ~Waiting \/ portIS' = {} => irr' = irr /\ (~Waiting \/ portIS = {})
    BY <1>3, <1>4
  <2>4. Waiting /\ portIS' # {} /\ inService = {} => irr' = Sent
    BY <1>3, <1>4, <1>7 DEF Undone, OneInterrupt
  <2>5. OneInterrupt'
    BY <1>1, <1>2, <1>7, <2>2, <2>3, <2>4 DEF Undone, OneInterrupt
  <2> QED
    BY <2>1, <2>5 DEF Undone
<1>8. SupportedGoOn'
  BY <1>1, ApartKeeps DEF Fits
<1> QED
  BY <1>2, <1>5, <1>6, <1>7, <1>8 DEF Fits

\* The processor takes an interrupt.
LEMMA TakeCourse ==
  ASSUME TypeOK, CourseOK, Apart, UNCHANGED <<portIS, disk, good>>
  PROVE  CourseOK'
<1>1. /\ Mode' = Mode /\ Tests' = Tests /\ Failing' = Failing /\ Running' = Running
      /\ InTest' = InTest /\ InExit' = InExit
  BY ApartSame
<1>2. PortFits'
  BY <1>1 DEF CourseOK, PortFits, Apart
<1>3. VerdictFits'
  BY <1>1 DEF CourseOK, VerdictFits, Apart
<1> QED
  BY <1>2, <1>3, ApartKeeps DEF CourseOK

LEMMA TakeFrame ==
  ASSUME NEW v, Take(v)
  PROVE  /\ Apart /\ UNCHANGED <<portIS, disk, good, HasEnterInterrupt>>
         /\ step' = step /\ exiting' = exiting
         /\ handler = NoVector /\ inService' = inService \cup {v}
         /\ handler' = (IF v \in registered THEN v ELSE NoVector)
         /\ taken' = (IF v \in registered THEN taken \cup {v} ELSE taken)
BY DEF Take, Apart, control, tool, device

\* Only one interrupt is latched, and it is the test's own.
LEMMA LatchedOne ==
  ASSUME TypeOK, CourseOK, WaitsOwn, handler = NoVector, NEW v \in Latched
  PROVE  /\ Waiting /\ Mode # "PIC" /\ Sent = {v} /\ irr = {v} /\ inService = {} /\ v # 114
         /\ v \in registered => v \in Vectors(Mode)
         /\ portIS # {} /\ ~HasEnterInterrupt
<1>1. Waiting /\ portIS # {} /\ irr \subseteq Sent /\ v \in irr /\ inService \subseteq {114}
  BY DEF WaitsOwn, HandlerOwn, Latched
<1>2. inService = {}
  BY <1>1, VectorsTyped DEF WaitsOwn, HandlerOwn
<1>3. Mode # "PIC" /\ Sent = {Expected} /\ v = Expected
  BY <1>1, WaitingSent DEF WaitsOwn
<1>4. Running
  BY <1>1 DEF Waiting, InTest
<1>5. v # 114 /\ (v \in registered => v \in Vectors(Mode))
  BY <1>3, <1>4, ExpectedOwn
<1> QED
  BY <1>1, <1>2, <1>3, <1>5 DEF WaitsOwn, FlagOwn

LEMMA TakeLatchedKeeps ==
  ASSUME TypeOK, Fits, TakeLatched
  PROVE  Fits'
<1>1. PICK v \in Latched : Take(v) /\ irr' = irr \ {v}
  BY DEF TakeLatched
<1>2. /\ Apart /\ UNCHANGED <<portIS, disk, good, HasEnterInterrupt>>
      /\ step' = step /\ exiting' = exiting
      /\ handler = NoVector /\ inService' = inService \cup {v}
      /\ handler' = (IF v \in registered THEN v ELSE NoVector)
      /\ taken' = (IF v \in registered THEN taken \cup {v} ELSE taken)
  BY <1>1, TakeFrame
<1>3. /\ Mode' = Mode /\ Failing' = Failing /\ Running' = Running
      /\ InTest' = InTest /\ InExit' = InExit /\ Waiting' = Waiting
      /\ Vectors(Mode)' = Vectors(Mode) /\ Sent' = Sent
      /\ Tame' = Tame /\ Clean' = Clean /\ registered' = registered
  BY <1>2, ApartSame DEF Apart
<1>4. CourseOK' /\ SupportedGoOn'
  BY <1>2, TakeCourse, ApartKeeps DEF Fits
<1>5. ASSUME WaitsOwn
      PROVE  /\ Waiting /\ Sent = {v} /\ irr' = {} /\ inService' = {v} /\ v # 114
             /\ v \in registered => v \in Vectors(Mode)
             /\ portIS # {} /\ ~HasEnterInterrupt
  BY <1>1, <1>2, <1>5, LatchedOne DEF Fits
<1>6. ASSUME WaitsOwn PROVE WaitsOwn'
  <2>1. PathOwn'
    BY <1>2, <1>6, ApartKeeps DEF WaitsOwn
  <2>2. FlagOwn'
    BY <1>2, <1>5, <1>6 DEF FlagOwn
  <2>3. Latched' = {}
    BY <1>5, <1>6 DEF Latched
  <2>4. HandlerOwn'
    BY <1>2, <1>3, <1>5, <1>6, <2>3 DEF HandlerOwn
  <2>5. SeenOwn'
    BY <1>2, <1>3, <1>6 DEF WaitsOwn, SeenOwn
  <2> QED
    BY <2>1, <2>2, <2>4, <2>5 DEF WaitsOwn
<1>7. ASSUME WaitsOwn, Undone PROVE Undone'
  <2>1. ClosedAgain'
    BY <1>2, <1>7, ApartKeeps DEF Undone
  <2>2. v # NoVector
    BY VectorsTyped DEF TypeOK, Latched
  <2>3. /\ handler' # NoVector => handler' = v
        /\ handler' = NoVector => v \notin registered
        /\ irr' = {} /\ inService' = {v} /\ Sent' = {v} /\ registered' = registered
        /\ Waiting' /\ portIS' # {}
    BY <1>2, <1>3, <1>5, <1>7, <2>2
  <2>4. OneInterrupt'
    BY <2>3 DEF OneInterrupt
  <2> QED
    BY <2>1, <2>4 DEF Undone
<1> QED
  BY <1>3, <1>4, <1>6, <1>7 DEF Fits

LEMMA TakePicKeeps ==
  ASSUME TypeOK, Fits, TakePic
  PROVE  Fits'
<1>1. Take(114) /\ irr' = irr /\ "PIC" \in opened \cap board.routed /\ portIS # {}
  BY DEF TakePic, PicRequest, Routed
<1>2. /\ Apart /\ UNCHANGED <<portIS, disk, good, HasEnterInterrupt>>
      /\ step' = step /\ exiting' = exiting
      /\ handler = NoVector /\ inService' = inService \cup {114}
      /\ handler' = (IF 114 \in registered THEN 114 ELSE NoVector)
      /\ taken' = (IF 114 \in registered THEN taken \cup {114} ELSE taken)
  BY <1>1, TakeFrame
<1>3. /\ Mode' = Mode /\ Failing' = Failing /\ Running' = Running
      /\ InTest' = InTest /\ InExit' = InExit /\ Waiting' = Waiting
      /\ Vectors(Mode)' = Vectors(Mode) /\ Sent' = Sent
      /\ Tame' = Tame /\ Clean' = Clean /\ registered' = registered
  BY <1>2, ApartSame DEF Apart
<1>4. CourseOK' /\ SupportedGoOn'
  BY <1>2, TakeCourse, ApartKeeps DEF Fits
<1>5. ASSUME WaitsOwn PROVE Waiting /\ Mode = "PIC"
  <2>1. /\ Running /\ Path(Mode) = "PIC"
        /\ IF exiting THEN step <= ExitCloseAt(Mode)
                      ELSE step > OpenAt(Mode) /\ step <= CloseAt(Mode)
    BY <1>1, <1>5 DEF WaitsOwn, PathOwn
  <2>2. Mode = "PIC" /\ Mode \in Modes /\ step \in Nat /\ step >= 1
    BY <2>1, Here, Layout DEF Path, Modes
  <2>3. ~exiting /\ step > OpenAt(Mode) /\ OpenAt(Mode) = 9 /\ SetAt(Mode) = 7
    BY <2>1, <2>2 DEF ExitCloseAt, OpenAt, SetAt, Messages
  <2>4. ~(step > OpenAt(Mode) + 3)
    BY <1>1, <1>5, <2>1, <2>3 DEF WaitsOwn, SeenOwn, InTest
  <2>5. ~(step <= OpenAt(Mode) + 1)
    <3>1. step > SetAt(Mode)
      BY <2>2, <2>3
    <3> QED
      BY <1>1, <2>1, <2>3, <3>1 DEF Fits, CourseOK, PortFits, InTest
  <2> QED
    BY <2>1, <2>2, <2>3, <2>4, <2>5 DEF Waiting, InTest
<1>6. ASSUME WaitsOwn
      PROVE  /\ 114 \in Vectors(Mode) /\ 114 \in registered /\ Sent = {} /\ Latched = {}
             /\ ~HasEnterInterrupt
  <2>1. Waiting /\ Mode = "PIC"
    BY <1>5, <1>6
  <2>2. Vectors(Mode) = {114} /\ Vectors(Mode) \subseteq registered
    BY <1>6, <2>1, WaitingOpen DEF Fits, WaitsOwn, Vectors
  <2>3. Sent = {}
    BY <1>6, <2>1, WaitingSent DEF Fits, WaitsOwn
  <2>4. Latched = {}
    BY <1>6, <2>3 DEF WaitsOwn, HandlerOwn, Latched
  <2> QED
    BY <1>1, <1>6, <2>2, <2>3, <2>4 DEF WaitsOwn, FlagOwn
<1>7. ASSUME WaitsOwn PROVE WaitsOwn'
  <2>1. PathOwn'
    BY <1>2, <1>7, ApartKeeps DEF WaitsOwn
  <2>2. FlagOwn'
    BY <1>2, <1>6, <1>7 DEF FlagOwn
  <2>3. Latched' = {} /\ (irr' = {} \/ ~(inService' \ {114} \subseteq {114}))
    BY <1>1, <1>2, <1>6, <1>7 DEF Latched
  <2>4. handler' = 114 /\ taken' = taken \cup {114} /\ 114 # NoVector
    BY <1>2, <1>6, <1>7 DEF NoVector
  <2>5. HandlerOwn'
    BY <1>1, <1>2, <1>3, <1>5, <1>6, <1>7, <2>3, <2>4 DEF HandlerOwn
  <2>6. SeenOwn'
    BY <1>2, <1>3, <1>7 DEF WaitsOwn, SeenOwn
  <2> QED
    BY <2>1, <2>2, <2>5, <2>6 DEF WaitsOwn
<1>8. ASSUME WaitsOwn, Undone PROVE Undone'
  <2>1. ClosedAgain'
    BY <1>2, <1>8, ApartKeeps DEF Undone
  <2>2. inService = {} /\ irr = {}
    BY <1>1, <1>2, <1>5, <1>6, <1>8 DEF Undone, OneInterrupt
  <2>3. handler' = 114 /\ inService' = {114} /\ irr' = {} /\ 114 # NoVector
    BY <1>1, <1>2, <1>6, <1>8, <2>2 DEF NoVector
  <2>4. Waiting' /\ portIS' # {}
    BY <1>1, <1>2, <1>3, <1>5, <1>8
  <2>5. OneInterrupt'
    BY <2>3, <2>4 DEF OneInterrupt
  <2> QED
    BY <2>1, <2>5 DEF Undone
<1> QED
  BY <1>3, <1>4, <1>7, <1>8 DEF Fits

\* The handler clears the port, sets the flag and ends the interrupt.
LEMMA HandlerKeeps ==
  ASSUME TypeOK, Fits, Clear_Interrupt
  PROVE  Fits'
<1>1. /\ Apart /\ UNCHANGED <<disk, good, irr, taken>>
      /\ step' = step /\ exiting' = exiting /\ test' = test
      /\ handler # NoVector /\ "DHR" \in portIS /\ portIS' = {}
      /\ HasEnterInterrupt' = TRUE /\ handler' = NoVector
      /\ inService' = inService \ {handler}
  BY DEF Clear_Interrupt, Apart, control, tool
<1>2. /\ Mode' = Mode /\ Failing' = Failing /\ Running' = Running
      /\ InTest' = InTest /\ InExit' = InExit /\ Waiting' = Waiting
      /\ Vectors(Mode)' = Vectors(Mode) /\ Sent' = Sent /\ Tests' = Tests
      /\ Tame' = Tame /\ Clean' = Clean /\ registered' = registered
  BY <1>1, ApartSame DEF Apart
<1>3. CourseOK'
  <2>1. PortFits'
    BY <1>1, <1>2 DEF Fits, CourseOK, PortFits, Apart
  <2>2. VerdictFits'
    BY <1>1, <1>2 DEF Fits, CourseOK, VerdictFits, Apart
  <2> QED
    BY <1>1, <2>1, <2>2, ApartKeeps DEF Fits, CourseOK
<1>4. disk = "idle"
  BY <1>1 DEF Fits, CourseOK, PortFits
<1>5. ASSUME WaitsOwn
      PROVE  /\ Waiting /\ handler \in Vectors(Mode) \cap taken \cap inService
             /\ irr = {} \/ ~(inService \ {handler} \subseteq {114})
             /\ 114 \notin inService'
  BY <1>1, <1>5 DEF WaitsOwn, HandlerOwn
<1>6. ASSUME WaitsOwn PROVE WaitsOwn'
  <2>1. PathOwn'
    BY <1>1, <1>6, ApartKeeps DEF WaitsOwn
  <2>2. Latched' = {}
    BY <1>1, <1>5, <1>6 DEF Latched
  <2>3. FlagOwn'
    <3>1. Running /\ ~exiting /\ step > OpenAt(Mode) + 1 /\ step <= OpenAt(Mode) + 5
      <4>1. InTest /\ step \in {OpenAt(Mode) + 2, OpenAt(Mode) + 3}
        BY <1>5, <1>6 DEF Waiting
      <4>2. OpenAt(Mode) \in 9..10
        BY <4>1, Here, Layout DEF InTest
      <4> QED
        BY <4>1, <4>2 DEF InTest
    <3> QED
      BY <1>1, <1>2, <1>4, <1>5, <1>6, <2>2, <3>1 DEF FlagOwn
  <2>4. HandlerOwn'
    BY <1>1, <1>5, <1>6, <2>2 DEF HandlerOwn
  <2>5. SeenOwn'
    BY <1>1, <1>2, <1>6 DEF WaitsOwn, SeenOwn
  <2> QED
    BY <2>1, <2>3, <2>4, <2>5 DEF WaitsOwn
<1>7. ASSUME WaitsOwn, Undone PROVE Undone'
  <2>1. ClosedAgain'
    BY <1>1, <1>7, ApartKeeps DEF Undone
  <2>2. inService' = {} /\ irr' = {}
    BY <1>1, <1>7 DEF Undone, OneInterrupt
  <2>3. portIS' = {} /\ handler' = NoVector
    BY <1>1
  <2>4. OneInterrupt'
    BY <2>2, <2>3 DEF OneInterrupt
  <2> QED
    BY <2>1, <2>4 DEF Undone
<1>8. SupportedGoOn'
  BY <1>1, ApartKeeps DEF Fits
<1> QED
  BY <1>2, <1>3, <1>6, <1>7, <1>8 DEF Fits

-----------------------------------------------------------------------------
(***************************************************************************)
(* The invariant.                                                          *)
(***************************************************************************)
LEMMA FitsInit == Init => Fits
<1> SUFFICES ASSUME Init PROVE Fits
  OBVIOUS
<1>1. TypeOK
  BY TypeInit
<1>2. InTest => /\ Mode \in Modes /\ SetAt(Mode) \in 7..9 /\ IntxAt(Mode) \in 7..8
                /\ RegisterAt(Mode) \in 6..8 /\ OpenAt(Mode) \in 9..10
                /\ test \in 1..Len(Tests)
  BY <1>1, Here, Layout DEF InTest
<1>3. /\ test = 1 /\ ~exiting /\ step = 1 /\ ~HasEnterInterrupt /\ registered = {} /\ opened = {}
      /\ ~portIE /\ portIS = {} /\ disk = "idle" /\ good /\ irr = {} /\ inService = {}
      /\ handler = NoVector
  BY DEF Init
<1>4. ~Waiting /\ ~InExit /\ Latched = {}
  BY <1>2, <1>3 DEF Waiting, InExit, Latched
<1>5. \A i \in 1..Len(Tests) : verdict[i] = "none"
  BY DEF Init
<1>6. PortFits /\ HandlersFit /\ PathFits
  BY <1>2, <1>3 DEF PortFits, HandlersFit, PathFits
<1>7. VerdictFits
  BY <1>2, <1>3, <1>4, <1>5 DEF VerdictFits
<1>8. PathOwn /\ FlagOwn /\ HandlerOwn
  BY <1>3, <1>4 DEF PathOwn, FlagOwn, HandlerOwn
<1>9. SeenOwn
  BY <1>2, <1>3, <1>4 DEF SeenOwn
<1>10. ClosedAgain /\ OneInterrupt
  BY <1>2, <1>3, <1>4 DEF ClosedAgain, OneInterrupt
<1>11. SupportedGoOn
  <2>1. 1..(test - 1) = {}
    BY <1>3
  <2> QED
    BY <1>4, <2>1 DEF SupportedGoOn, SupportedSucceed
<1> QED
  BY <1>6, <1>7, <1>8, <1>9, <1>10, <1>11 DEF Fits, CourseOK, WaitsOwn, Undone

LEMMA FitsStill ==
  ASSUME TypeOK, Fits, UNCHANGED vars
  PROVE  Fits'
<1>1. /\ Apart /\ UNCHANGED <<portIS, disk, good, HasEnterInterrupt, irr, inService, handler,
                              taken>>
      /\ step' = step /\ exiting' = exiting
  BY DEF vars, control, tool, device, cpu, Apart
<1>2. /\ Mode' = Mode /\ Failing' = Failing /\ Running' = Running
      /\ InTest' = InTest /\ InExit' = InExit /\ Waiting' = Waiting
      /\ Vectors(Mode)' = Vectors(Mode) /\ Sent' = Sent
      /\ Tame' = Tame /\ Clean' = Clean /\ registered' = registered
  BY <1>1, ApartSame DEF Apart
<1>3. Latched' = Latched
  BY <1>1 DEF Latched
<1>4. CourseOK' /\ SupportedGoOn'
  BY <1>1, TakeCourse, ApartKeeps DEF Fits
<1>5. ASSUME WaitsOwn PROVE WaitsOwn'
  <2>1. PathOwn'
    BY <1>1, <1>5, ApartKeeps DEF WaitsOwn
  <2>2. FlagOwn'
    BY <1>1, <1>2, <1>3, <1>5 DEF WaitsOwn, FlagOwn
  <2>3. HandlerOwn'
    BY <1>1, <1>2, <1>3, <1>5 DEF WaitsOwn, HandlerOwn
  <2>4. SeenOwn'
    BY <1>1, <1>2, <1>5 DEF WaitsOwn, SeenOwn
  <2> QED
    BY <2>1, <2>2, <2>3, <2>4 DEF WaitsOwn
<1>6. ASSUME Undone PROVE Undone'
  <2>1. ClosedAgain'
    BY <1>1, <1>6, ApartKeeps DEF Undone
  <2>2. OneInterrupt'
    BY <1>1, <1>2, <1>6 DEF Undone, OneInterrupt
  <2> QED
    BY <2>1, <2>2 DEF Undone
<1> QED
  BY <1>2, <1>4, <1>5, <1>6 DEF Fits

LEMMA InvInit == Init => IInv
BY TypeInit, FitsInit DEF IInv

LEMMA InvNext == IInv /\ [Next]_vars => IInv'
<1> SUFFICES ASSUME IInv, [Next]_vars PROVE IInv'
  OBVIOUS
<1>1. TypeOK' /\ MessageSet'
  BY TypeNext DEF IInv
<1>2. Fits'
  <2> USE DEF IInv
  <2>1. CASE Program
    BY <1>1, <2>1, ProgramKeeps
  <2>2. CASE DiskData \/ DiskDone \/ DiskError \/ DiskSilent
    BY <2>2, DiskStepTaken, DiskStepKeeps DEF Fits
  <2>3. CASE TakeLatched \/ TakePic
    BY <2>3, TakeLatchedKeeps, TakePicKeeps
  <2>4. CASE Clear_Interrupt
    BY <2>4, HandlerKeeps
  <2>5. CASE UNCHANGED vars
    BY <2>5, FitsStill
  <2> QED
    BY <2>1, <2>2, <2>3, <2>4, <2>5 DEF Next, Hardware
<1> QED
  BY <1>1, <1>2 DEF IInv

LEMMA Inductive == Spec => []IInv
BY InvInit, InvNext, PTL DEF Spec

-----------------------------------------------------------------------------
(***************************************************************************)
(* What the tool promises.                                                 *)
(***************************************************************************)
LEMMA InvBehind == IInv => NothingLeftBehind
<1> SUFFICES ASSUME IInv PROVE NothingLeftBehind
  OBVIOUS
<1> USE DEF IInv
<1>1. ASSUME step = 1, ~exiting, \A i \in 1..(test - 1) : verdict[i] = "success"
      PROVE  registered = {} /\ opened = {} /\ irr = {} /\ inService = {}
  <2>1. Undone
    BY <1>1 DEF Clean, Fits
  <2>2. InTest => RegisterAt(Mode) \in 6..8 /\ OpenAt(Mode) \in 9..10
    BY Here, Layout DEF InTest
  <2>3. ~Waiting
    BY <1>1, <2>2 DEF Waiting
  <2> QED
    BY <1>1, <2>1, <2>2, <2>3 DEF Undone, ClosedAgain, OneInterrupt
<1>2. ASSUME portIE
      PROVE  /\ Running
             /\ \E i \in step..Len(Course) : Course[i] = "clearport"
             /\ exiting \/ \E i \in 1..(step - 1) : Course[i] = "setport"
  <2>1. Running /\ IF exiting THEN step <= ExitClearAt(Mode)
                              ELSE step > SetAt(Mode) /\ step <= ClearAt
    BY <1>2 DEF Fits, CourseOK, PortFits
  <2>2. /\ Mode \in Modes /\ step \in Nat /\ step >= 1
        /\ Len(Course) = IF exiting THEN ExitEndAt(Mode) ELSE EndAt(Mode)
    BY <2>1, Here, Layout
  <2>3. CASE exiting
    <3>1. ExitClearAt(Mode) \in 1..ExitEndAt(Mode) /\ ExitEndAt(Mode) \in Nat
      BY <2>2, Layout
    <3>2. Course[ExitClearAt(Mode)] = "clearport"
      BY <2>2, <2>3, <3>1, ExitCourse DEF ExitStepAt, Course
    <3> QED
      BY <2>1, <2>2, <2>3, <3>1, <3>2
  <2>4. CASE ~exiting
    <3>1. /\ ClearAt \in 1..EndAt(Mode) /\ SetAt(Mode) \in 1..EndAt(Mode) /\ EndAt(Mode) \in Nat
          /\ SetAt(Mode) \in Nat
      BY <2>2, Layout
    <3>2. Course[ClearAt] = "clearport" /\ Course[SetAt(Mode)] = "setport"
      BY <2>2, <2>4, <3>1, RunCourse DEF RunStepAt, Course
    <3>3. ClearAt \in step..Len(Course) /\ SetAt(Mode) \in 1..(step - 1)
      BY <2>1, <2>2, <2>4, <3>1
    <3> QED
      BY <2>1, <3>2, <3>3
  <2> QED
    BY <2>3, <2>4
<1> QED
  BY <1>1, <1>2 DEF NothingLeftBehind

\* Tests that succeed leave no handler, no open path and no interrupt to the
\* next, on every board; and whatever fails on the way, the port interrupts
\* only between AHCI_Set_Port and AHCI_Clear_Port, which every path of a test
\* that has set the port comes to.
THEOREM NothingLeft == Spec => []NothingLeftBehind
BY Inductive, InvBehind, PTL

\* On a working board each test finds its interrupt and succeeds, up to the
\* first that the board does not support, if no test gives up on an interrupt
\* that is on its way.
THEOREM WorkingBoardsPass == ASSUME Timely PROVE Spec => []SupportedSucceed
<1>1. IInv => SupportedSucceed
  BY DEF IInv, Fits, SupportedGoOn, SupportedSucceed
<1> QED
  BY <1>1, Inductive, PTL

\* "AHCI APIC Interrupt Success" (SataInterrupt.c:1807): where the disk and
\* the services do not fail, or only the tests with messages run, a test that
\* reports success has had its own handler called.
THEOREM SuccessIsHeard ==
  ASSUME Timely,
         \A b \in Boards : \/ b.failing = {}
                           \/ \A i \in 1..Len(b.tests) : b.tests[i] \notin {"PIC", "APIC"}
  PROVE  Spec => []SuccessMeansInterrupt
<1>1. IInv => SuccessMeansInterrupt
  <2> SUFFICES ASSUME IInv, Running, verdict[test] = "success"
               PROVE  taken \cap Vectors(Mode) # {}
    BY DEF SuccessMeansInterrupt
  <2>1. TypeOK /\ Fits
    BY DEF IInv
  <2>2. Tame
    BY <2>1 DEF Tame, TypeOK, Failing, Tests
  <2>3. InTest
    BY <2>1 DEF Fits, CourseOK, VerdictFits, InTest, InExit
  <2>4. step > OpenAt(Mode) + 4
    BY <2>1, <2>3 DEF Fits, CourseOK, VerdictFits
  <2>5. OpenAt(Mode) \in 9..10 /\ step \in Nat
    BY <2>1, Here, Layout
  <2>6. step > OpenAt(Mode) + 3
    BY <2>4, <2>5
  <2> QED
    BY <2>1, <2>2, <2>3, <2>6 DEF Fits, WaitsOwn, SeenOwn
<1> QED
  BY <1>1, Inductive, PTL
=============================================================================
