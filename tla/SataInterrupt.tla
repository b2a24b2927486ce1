--------------------------- MODULE SataInterrupt ---------------------------
(***************************************************************************)
(* The SataInterrupt shell tool: it tests that an AHCI disk interrupts the *)
(* processor through the 8259 (PIC), the I/O APIC, single MSI, multiple    *)
(* MSI and MSI-X.  Each test reads the first block with polling, registers *)
(* an interrupt handler, opens the path the interrupt takes, reads the     *)
(* block again, waits for the handler's flag and compares the two reads.   *)
(*                                                                         *)
(* The tests are sequences of steps in the order of the source, one        *)
(* sequence for the normal course and one for the code after the label     *)
(* Exit.  The disk, the interrupt's way to the processor and the handler   *)
(* run in between.  A register with several bits that are always written   *)
(* together is one flag.                                                   *)
(*                                                                         *)
(* Operators whose names start with Mutant are faulty variants of the      *)
(* definition that follows them; no specification uses them.               *)
(***************************************************************************)
EXTENDS Integers, Sequences, FiniteSets

CONSTANTS
  Boards,     \* what the tool may run on (see BoardRecord)
  TableSize,  \* entries of the MSI-X table
  Timely      \* TRUE: a test gives up only when no interrupt is on its way

Modes == {"PIC", "APIC", "SMSI", "MMSI", "MSIX"}

\* The ways an interrupt can take: the last two are messages.
Paths == {"PIC", "APIC", "MSI", "MSIX"}

\* The argument of the command selects one test, or all in this order.
InOrder(tests) ==
  LET place == [PIC |-> 1, APIC |-> 2, SMSI |-> 3, MMSI |-> 4, MSIX |-> 5]
  IN  \A i, j \in 1..Len(tests) : i < j => place[tests[i]] < place[tests[j]]

\* The tests the argument of the command selects, in order; what may fail;
\* the port of the disk, the capabilities found in PCI configuration space,
\* the paths that lead to the processor, and whether the controller
\* falls back to one message (GHC.MRSM) when several are enabled.
BoardRecord ==
  [tests : Seq(Modes), failing : SUBSET {"alloc", "open", "locate", "disk"},
   port : Nat, capabilities : SUBSET {"SMSI", "MMSI", "MSIX"},
   routed : SUBSET Paths, reverts : BOOLEAN]

ASSUME ToolAssumption ==
  /\ \A b \in Boards : b \in BoardRecord
  /\ TableSize \in Nat \ {0}
  /\ \A b \in Boards : b.port < TableSize /\ InOrder(b.tests)
  /\ Timely \in BOOLEAN

VARIABLES
  board,       \* the machine the tool runs on, and what it is to test
  test,        \* number of the running test; past the last one at the end
  exiting,     \* the test jumped to Exit
  step,        \* number of its step
  verdict,     \* what each test reported
  gPciIo,      \* the protocol has been opened (the global is not NULL)
  HasEnterInterrupt,
  registered,  \* vectors with an interrupt handler
  opened,      \* the paths that are unmasked or enabled
  intxOff,     \* CMD.ID, the interrupt disable bit
  message,     \* the vector in the MSI capability
  portIE,      \* PxIE (descriptor processed, D2H register) and GHC.IE
  portIS,      \* those two bits of PxIS
  disk,        \* the command in progress
  good,        \* both reads of the running test succeeded
  irr,         \* vectors the local APIC has received
  inService,   \* vectors the processor has taken that wait for their EOI
  handler,     \* the vector whose handler runs, or NoVector
  taken        \* history: vectors handled since the running test started

control == <<test, exiting, step>>
tool    == <<verdict, gPciIo, registered>>
device  == <<opened, intxOff, message, portIE, portIS, disk, good>>
cpu     == <<irr, inService, handler, taken>>
vars    == <<board, control, tool, HasEnterInterrupt, device, cpu>>

-----------------------------------------------------------------------------
(***************************************************************************)
(* The course of the tests.                                                *)
(***************************************************************************)
PicSteps ==
  <<"alloc", "open", "read", "wait", "locate", "register", "setport", "intxon", "openpath",
    "read", "wait", "poll", "compare", "resetflag", "unregister", "closepath", "clearport">>

ApicSteps ==
  <<"alloc", "read", "wait", "open", "locate", "register", "intxon", "setport", "openpath",
    "read", "wait", "poll", "compare", "resetflag", "unregister", "closepath", "clearport">>

SmsiSteps ==
  <<"alloc", "read", "wait", "open", "locate", "find", "intxoff", "register", "setport",
    "openpath", "read", "wait", "poll", "compare",
    "resetflag", "unregister", "clearport", "closepath">>

MmsiSteps ==
  <<"alloc", "read", "wait", "open", "locate", "register", "find", "intxoff", "setport",
    "openpath", "read", "wait", "poll", "compare",
    "resetflag", "unregister", "clearport", "closepath">>

MsixSteps ==
  <<"alloc", "read", "wait", "open", "locate", "find", "register", "setport",
    "openpath", "read", "wait", "poll", "compare",
    "resetflag", "unregister", "closepath", "clearport">>

RunSteps(mode) ==
  CASE mode = "PIC"  -> PicSteps
    [] mode = "APIC" -> ApicSteps
    [] mode = "SMSI" -> SmsiSteps
    [] mode = "MMSI" -> MmsiSteps
    [] mode = "MSIX" -> MsixSteps

\* The flag is not reset after a failure of any test.
MutantExitSteps(mode) == <<"report", "closepath", "clearport">>

ExitSteps(mode) ==
  CASE mode = "PIC"              -> <<"report", "clearport">>
    [] mode = "APIC"             -> <<"report", "closepath", "clearport">>
    [] mode \in {"SMSI", "MMSI"} -> <<"report", "resetflag", "clearport", "closepath">>
    [] mode = "MSIX"             -> <<"report", "resetflag", "closepath", "clearport">>

Tests   == board.tests
Failing == board.failing
Mode    == Tests[test]
Running == test <= Len(Tests)
Course  == IF exiting THEN ExitSteps(Mode) ELSE RunSteps(Mode)

NoVector == 0

\* The vectors a test registers its handler for, the last one last: IRQ 0xA
\* of the 8259, and 0x80 + IrqNum.
MsixVector(entry) == 148 + 4 * entry
Vectors(mode) ==
  CASE mode = "PIC"             -> {114}
    [] mode \in {"APIC", "SMSI"} -> {149}
    [] mode = "MMSI"            -> {148 + board.port}
    [] mode = "MSIX"            -> {MsixVector(i) : i \in 0..(TableSize - 1)}

Last(vectors) == CHOOSE v \in vectors : \A w \in vectors : w <= v

\* One path for each test.
MutantPath(mode) == mode

\* The path a test opens.
Path(mode) == IF mode \in {"SMSI", "MMSI"} THEN "MSI" ELSE mode

Init ==
  /\ board \in Boards
  /\ test = 1 /\ exiting = FALSE /\ step = 1
  /\ verdict = [i \in 1..Len(Tests) |-> "none"]
  /\ gPciIo = FALSE
  /\ HasEnterInterrupt = FALSE
  /\ registered = {}
  /\ opened = {} /\ intxOff = FALSE /\ message = NoVector
  /\ portIE = FALSE /\ portIS = {} /\ disk = "idle" /\ good = TRUE
  /\ irr = {} /\ inService = {} /\ handler = NoVector /\ taken = {}

-----------------------------------------------------------------------------
(***************************************************************************)
(* Going from step to step.                                                *)
(***************************************************************************)
\* The program executes step s: no handler has interrupted it.
At(s) == Running /\ Course[step] = s /\ handler = NoVector

NextTest == test' = test + 1 /\ exiting' = FALSE /\ step' = 1 /\ taken' = {} /\ good' = TRUE

GoOn ==
  IF step = Len(Course)
  THEN NextTest
  ELSE step' = step + 1 /\ UNCHANGED <<test, exiting, taken, good>>

GotoExit == exiting' = TRUE /\ step' = 1 /\ UNCHANGED <<test, taken, good>>

\* What a test reports when it ends or gives up.
Report(v) == verdict' = [verdict EXCEPT ![test] = v]

\* An early return, without the code after Exit.
ReturnError == NextTest /\ Report("error")

Fail == GotoExit /\ Report("failure")

\* What the steps of the program leave alone (but for good and taken, which
\* go with the test).
Machine   == <<board, message, portIS, disk, irr, inService, handler>>
Flags     == <<gPciIo, HasEnterInterrupt, registered>>
Registers == <<opened, intxOff, portIE>>

-----------------------------------------------------------------------------
(***************************************************************************)
(* The way of the interrupt.  Enabled messages take the place of the pin.  *)
(* A message, or the I/O APIC's, is sent when the condition arises and     *)
(* stays in the local APIC; the 8259 (level triggered) asks as long as the *)
(* condition lasts.  All vectors of the local APIC have one priority, so   *)
(* one that is in service keeps the others out.                            *)
(***************************************************************************)
Routed(path) == path \in opened \cap board.routed

Sent ==
  CASE "MSIX" \in opened -> IF Routed("MSIX") THEN {MsixVector(board.port)} ELSE {}
    [] "MSIX" \notin opened /\ "MSI" \in opened ->
         IF Routed("MSI") THEN {message} ELSE {}
    [] OTHER -> IF Routed("APIC") /\ ~intxOff THEN {149} ELSE {}

PicRequest ==
  /\ Routed("PIC") /\ ~intxOff /\ opened \cap {"MSI", "MSIX"} = {}
  /\ portIE /\ portIS # {}
  /\ 114 \notin inService

Latched == {v \in irr : inService \subseteq {114}}

OnItsWay == PicRequest \/ Latched # {}

-----------------------------------------------------------------------------
(***************************************************************************)
(* The steps of the tests.                                                 *)
(***************************************************************************)
\* The two buffers.
Alloc ==
  /\ At("alloc")
  /\ \/ GoOn /\ UNCHANGED verdict
     \/ "alloc" \in Failing /\ Fail
  /\ UNCHANGED <<Machine, Flags, Registers>>

\* gPciIo is opened by the first test that gets here.
Open ==
  /\ At("open")
  /\ \/ gPciIo' = TRUE /\ GoOn /\ UNCHANGED verdict
     \/ ~gPciIo /\ "open" \in Failing /\ Fail /\ UNCHANGED gPciIo
  /\ UNCHANGED <<Machine, HasEnterInterrupt, registered, Registers>>

Locate ==
  /\ At("locate")
  /\ \/ GoOn /\ UNCHANGED verdict
     \/ "locate" \in Failing /\ Fail
  /\ UNCHANGED <<Machine, Flags, Registers>>

\* The walk of the capability list.  Without the capability the test of
\* single MSI loops for ever; the other two return.
FindCapability ==
  /\ At("find")
  /\ IF Mode \in board.capabilities
     THEN GoOn /\ UNCHANGED verdict
     ELSE Mode # "SMSI" /\ ReturnError
  /\ UNCHANGED <<Machine, Flags, Registers>>

\* A vector that has a handler keeps it (EFI_ALREADY_STARTED).  The PIC test
\* ignores the status, the MSI-X test that of all vectors but the last.
RegisterInterruptHandler ==
  /\ At("register")
  /\ registered' = registered \cup Vectors(Mode)
  /\ IF Mode # "PIC" /\ Last(Vectors(Mode)) \in registered
     THEN ReturnError
     ELSE GoOn /\ UNCHANGED verdict
  /\ UNCHANGED <<Machine, gPciIo, HasEnterInterrupt, Registers>>

InterruptDisableBit ==
  /\ At("intxon") \/ At("intxoff")
  /\ intxOff' = (Course[step] = "intxoff")
  /\ GoOn
  /\ UNCHANGED <<Machine, Flags, verdict, opened, portIE>>

AHCI_Set_Port ==
  /\ At("setport")
  /\ portIS' = {}
  /\ portIE' = TRUE
  /\ GoOn
  /\ UNCHANGED <<board, message, disk, irr, inService, handler, Flags, verdict,
                 opened, intxOff>>

\* The message of a test: of several messages the device adds the port's.
MsiMessage(mode) ==
  CASE mode = "SMSI" -> 149
    [] mode = "MMSI" -> 148 + (IF board.reverts THEN 0 ELSE board.port)

\* Unmask the 8259's IRQ or the I/O APIC entry, or write the message and
\* enable MSI, or enable MSI-X with the port's table entry unmasked.
OpenPath ==
  /\ At("openpath")
  /\ opened' = opened \cup {Path(Mode)}
  /\ message' = IF Path(Mode) = "MSI" THEN MsiMessage(Mode) ELSE message
  /\ GoOn
  /\ UNCHANGED <<board, portIS, disk, irr, inService, handler, Flags, verdict,
                 intxOff, portIE>>

\* ReadBlocks: the driver clears the port's status and issues the command.
ReadStart ==
  /\ At("read")
  /\ portIS' = {}
  /\ disk' = "reading"
  /\ GoOn
  /\ UNCHANGED <<board, message, irr, inService, handler, Flags, verdict, Registers>>

\* It returns when the disk has answered; the tests ignore its status.
ReadReturn ==
  /\ At("wait")
  /\ disk = "idle"
  /\ GoOn
  /\ UNCHANGED <<Machine, Flags, verdict, Registers>>

\* The loop ends with the flag only.
MutantPoll ==
  /\ At("poll")
  /\ HasEnterInterrupt
  /\ GoOn
  /\ UNCHANGED <<Machine, Flags, verdict, Registers>>

\* The loop on HasEnterInterrupt ends with the flag, or after a number of
\* rounds, which are no measure of time.
Poll ==
  /\ At("poll")
  /\ \/ HasEnterInterrupt /\ GoOn /\ UNCHANGED verdict
     \/ ~HasEnterInterrupt /\ (Timely => ~OnItsWay) /\ Fail
  /\ UNCHANGED <<Machine, Flags, Registers>>

\* Two reads that succeeded are equal; a buffer that was not read is not
\* known to be.
Compare ==
  /\ At("compare")
  /\ \/ GoOn /\ Report("success")
     \/ ~good /\ Fail
  /\ UNCHANGED <<Machine, Flags, Registers>>

ResetFlag ==
  /\ At("resetflag")
  /\ HasEnterInterrupt' = FALSE
  /\ GoOn
  /\ UNCHANGED <<Machine, gPciIo, registered, verdict, Registers>>

\* Of the MSI-X vectors only the last is unregistered.
MutantUnregister ==
  /\ At("unregister")
  /\ registered' = registered \ {Last(Vectors(Mode))}
  /\ GoOn
  /\ UNCHANGED <<Machine, gPciIo, HasEnterInterrupt, verdict, Registers>>

UnregisterInterruptHandler ==
  /\ At("unregister")
  /\ registered' = registered \ Vectors(Mode)
  /\ GoOn
  /\ UNCHANGED <<Machine, gPciIo, HasEnterInterrupt, verdict, Registers>>

ClosePath ==
  /\ At("closepath")
  /\ opened' = opened \ {Path(Mode)}
  /\ GoOn
  /\ UNCHANGED <<Machine, Flags, verdict, intxOff, portIE>>

AHCI_Clear_Port ==
  /\ At("clearport")
  /\ portIS' = {}
  /\ portIE' = FALSE
  /\ GoOn
  /\ UNCHANGED <<board, message, disk, irr, inService, handler, Flags, verdict,
                 opened, intxOff>>

\* Ahci_Report_Error prints registers it reads through gPciIo: with a null
\* pointer the program does not get past it.
Ahci_Report_Error ==
  /\ At("report")
  /\ gPciIo
  /\ GoOn
  /\ UNCHANGED <<Machine, Flags, verdict, Registers>>

-----------------------------------------------------------------------------
(***************************************************************************)
(* The disk.  What arises while the port's interrupts are enabled is sent  *)
(* to the processor, once until the status is clear again.                 *)
(***************************************************************************)
Raise(bit) ==
  /\ portIS' = portIS \cup {bit}
  /\ irr' = IF portIE /\ portIS = {} THEN irr \cup Sent ELSE irr

DiskUnchanged ==
  UNCHANGED <<board, control, tool, HasEnterInterrupt, opened, intxOff, message, portIE,
              inService, handler, taken>>

\* The data is in memory: descriptor processed.
DiskData ==
  /\ disk = "reading"
  /\ disk' = "data"
  /\ Raise("DP")
  /\ UNCHANGED good /\ DiskUnchanged

\* The command has completed: device to host register FIS.
DiskDone ==
  /\ disk = "data"
  /\ disk' = "idle"
  /\ Raise("DHR")
  /\ UNCHANGED good /\ DiskUnchanged

\* The command fails without data.
DiskError ==
  /\ "disk" \in Failing
  /\ disk = "reading"
  /\ disk' = "idle"
  /\ Raise("DHR")
  /\ good' = FALSE
  /\ DiskUnchanged

\* The driver gives up waiting for the disk and stops the command.
DiskSilent ==
  /\ "disk" \in Failing
  /\ disk = "reading"
  /\ disk' = "idle"
  /\ good' = FALSE
  /\ UNCHANGED <<portIS, irr>> /\ DiskUnchanged

(***************************************************************************)
(* The processor takes an interrupt.  One without handler is never told    *)
(* to have ended.                                                          *)
(***************************************************************************)
Take(v) ==
  /\ handler = NoVector
  /\ inService' = inService \cup {v}
  /\ handler' = IF v \in registered THEN v ELSE NoVector
  /\ taken' = IF v \in registered THEN taken \cup {v} ELSE taken
  /\ UNCHANGED <<board, control, tool, HasEnterInterrupt, device>>

TakeLatched == \E v \in Latched : Take(v) /\ irr' = irr \ {v}

TakePic == PicRequest /\ Take(114) /\ UNCHANGED irr

\* No end of interrupt is sent.
MutantClearInterrupt ==
  /\ handler # NoVector
  /\ portIS = {"DP", "DHR"}
  /\ portIS' = {}
  /\ HasEnterInterrupt' = TRUE
  /\ handler' = NoVector
  /\ UNCHANGED <<board, control, tool, opened, intxOff, message, portIE, disk, good,
                 irr, inService, taken>>

\* The handlers: Clear_Interrupt spins until both status bits are set,
\* clears them and sets the flag; then the end of interrupt is sent.
Clear_Interrupt ==
  /\ handler # NoVector
  /\ portIS = {"DP", "DHR"}
  /\ portIS' = {}
  /\ HasEnterInterrupt' = TRUE
  /\ handler' = NoVector
  /\ inService' = inService \ {handler}
  /\ UNCHANGED <<board, control, tool, opened, intxOff, message, portIE, disk, good,
                 irr, taken>>

Program ==
  \/ Alloc \/ Open \/ Locate \/ FindCapability \/ RegisterInterruptHandler
  \/ InterruptDisableBit \/ AHCI_Set_Port \/ OpenPath \/ ReadStart \/ ReadReturn
  \/ Poll \/ Compare \/ ResetFlag \/ UnregisterInterruptHandler \/ ClosePath
  \/ AHCI_Clear_Port \/ Ahci_Report_Error

Hardware == DiskData \/ DiskDone \/ DiskError \/ DiskSilent \/ TakeLatched \/ TakePic

Next == Program \/ Hardware \/ Clear_Interrupt

Spec == Init /\ [][Next]_vars

\* The processor and the disk go on.
FairSpec == Spec /\ WF_vars(Program \/ Clear_Interrupt) /\ WF_vars(Hardware)

-----------------------------------------------------------------------------
(***************************************************************************)
(* Properties.                                                             *)
(***************************************************************************)
AllVectors == {148} \cup UNION {Vectors(m) : m \in Modes}

\* Type invariant: the tool's globals, the device's registers, the paths.
TypeOK ==
  /\ board \in Boards
  /\ test \in 1..(Len(Tests) + 1) /\ exiting \in BOOLEAN
  /\ Running => step \in 1..Len(Course)
  /\ verdict \in [1..Len(Tests) -> {"none", "success", "failure", "error"}]
  /\ gPciIo \in BOOLEAN /\ HasEnterInterrupt \in BOOLEAN
  /\ registered \subseteq AllVectors
  /\ opened \subseteq Paths
  /\ message \in AllVectors \cup {NoVector}
  /\ intxOff \in BOOLEAN /\ portIE \in BOOLEAN /\ good \in BOOLEAN
  /\ portIS \subseteq {"DP", "DHR"}
  /\ disk \in {"idle", "reading", "data"}
  /\ irr \cup inService \cup taken \subseteq AllVectors
  /\ handler \in AllVectors \cup {NoVector}

\* Tests that succeed leave nothing behind for the next: no handler, no open
\* path, no interrupt received or in service.  And whatever fails on the way,
\* the port interrupts only in a test that will still clear it (AHCI_Set_Port
\* ... AHCI_Clear_Port on every path).
NothingLeftBehind ==
  /\ step = 1 /\ ~exiting /\ (\A i \in 1..(test - 1) : verdict[i] = "success") =>
       registered = {} /\ opened = {} /\ irr = {} /\ inService = {}
  /\ portIE => /\ Running
               /\ \E i \in step..Len(Course) : Course[i] = "clearport"
               /\ exiting \/ \E i \in 1..(step - 1) : Course[i] = "setport"

Supported(mode) ==
  /\ Path(mode) \in board.routed
  /\ mode \in {"PIC", "APIC"} \cup board.capabilities
  /\ mode = "MMSI" => board.port = 0 \/ ~board.reverts

\* The tests find the interrupts of a working board: up to the first path
\* that does not work, each test succeeds, after whatever the others did to
\* the controllers.
SupportedSucceed ==
  Failing = {} => \A i \in 1..(test - 1) :
    (\A j \in 1..i : Supported(Tests[j])) => verdict[i] = "success"

\* "AHCI APIC Interrupt Success" (SataInterrupt.c:1807, and in every test):
\* a test that reports success has had its own handler called.
SuccessMeansInterrupt ==
  Running => (verdict[test] = "success" => taken \cap Vectors(Mode) # {})

\* With single MSI in the device and no failures, all tests come to an end, on
\* every board.
TestsEnd == "SMSI" \in board.capabilities /\ Failing = {} ~> ~Running
=============================================================================
