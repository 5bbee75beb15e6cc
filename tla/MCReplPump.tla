----------------------------- MODULE MCReplPump -----------------------------
(***************************************************************************)
(* ReplPump for TLC: the sets of kinds that the configurations name.       *)
(***************************************************************************)
EXTENDS ReplPump

AllKinds == PollKinds \cup FlagKinds
=============================================================================
