------------------------ MODULE MCPersistentHistory ------------------------
(* Two REPLs and two commands for TLC. *)
EXTENDS PersistentHistory

CONSTANTS replA, replB, cmdA, cmdB
=============================================================================
