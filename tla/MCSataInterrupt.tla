-------------------------- MODULE MCSataInterrupt --------------------------
(* Instances of SataInterrupt for TLC. *)
EXTENDS SataInterrupt

Capabilities == {{}, {"SMSI"}, {"MSIX"}, {"SMSI", "MMSI", "MSIX"}}

BoardsFor(tests, failing) ==
  [tests : {tests}, failing : {failing}, port : {0, 1}, capabilities : Capabilities,
   routed : SUBSET Paths, reverts : BOOLEAN]

\* All tests where nothing fails, and the tests with messages where anything may.
AllBoards ==
  BoardsFor(<<"PIC", "APIC", "SMSI", "MMSI", "MSIX">>, {}) \cup
  BoardsFor(<<"SMSI", "MMSI", "MSIX">>, {"alloc", "open", "locate", "disk"})

\* The legacy tests with a disk that may fail.
LegacyBoard ==
  {[tests |-> <<"PIC", "APIC">>, failing |-> {"disk"}, port |-> 0,
    capabilities |-> {"SMSI", "MMSI", "MSIX"}, routed |-> Paths, reverts |-> FALSE]}
=============================================================================
