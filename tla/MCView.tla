------------------------------- MODULE MCView -------------------------------
(***************************************************************************)
(* What one ReplView keeps, for TLC: its edit region, the history its      *)
(* input line recalls from, and the persistent history on disk.  They run  *)
(* side by side, a behaviour is one of one of them, and the others stay as *)
(* they began: what holds here holds of each by itself.                    *)
(***************************************************************************)
EXTENDS EditRegion, MCHistory, MCPersistentHistory

VARIABLE part   \* the component that runs

vars == <<part, erVars, hiVars, phVars>>

Init == part \in {"er", "hi", "ph"} /\ ErInit /\ HiInit /\ PhInit

Next ==
  \/ part = "er" /\ ErNext /\ UNCHANGED <<part, hiVars, phVars>>
  \/ part = "hi" /\ HiNext /\ UNCHANGED <<part, erVars, phVars>>
  \/ part = "ph" /\ PhNext /\ UNCHANGED <<part, erVars, hiVars>>

Spec == Init /\ [][Next]_vars

(* Every component's variables are what its handlers assume they are.       *)
TypesOK == ErTypeOK /\ HiTypeOK /\ PhTypeOK
=============================================================================
