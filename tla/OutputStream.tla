---------------------------- MODULE OutputStream ----------------------------
(***************************************************************************)
(* What the output of one REPL promises to the person who looks at its     *)
(* view, with the threads and queues that deliver it hidden.  The program  *)
(* behind the view emits units of output numbered 1, 2, 3, ...; the view   *)
(* shows some of them, in the order they were emitted and never twice;     *)
(* the others may be discarded, and what was discarded is never shown;     *)
(* after the closing banner nothing is shown any more.                     *)
(*                                                                         *)
(* ReplPump.tla is the detailed specification: reader thread, queue and    *)
(* update thread of sublimerepl.py.                                        *)
(***************************************************************************)
EXTENDS SeqOrder

VARIABLES
  written,    \* number of units emitted so far
  shown,      \* sequence of the units the view shows
  discarded,  \* set of the units that will never be shown
  ended       \* the closing banner has been written

vars == <<written, shown, discarded, ended>>

Init ==
  /\ written = 0
  /\ shown = <<>>
  /\ discarded = {}
  /\ ended = FALSE

\* The program emits one more unit.
Emit ==
  /\ written' = written + 1
  /\ UNCHANGED <<shown, discarded, ended>>

\* The view shows more of the emitted units behind what it shows already,
\* and none that has been discarded.
Show ==
  /\ ~ended
  /\ shown' \in Seq(1..written)
  /\ Len(shown) <= Len(shown')
  /\ \A i \in 1..Len(shown) : shown'[i] = shown[i]
  /\ Ascending(shown')
  /\ Range(shown') \cap discarded = {}
  /\ UNCHANGED <<written, discarded, ended>>

\* Emitted units that are not shown yet are thrown away.
Discard ==
  /\ discarded' \subseteq 1..written
  /\ discarded \subseteq discarded'
  /\ Range(shown) \cap discarded' = {}
  /\ UNCHANGED <<written, shown, ended>>

\* The closing banner is written below the output.
End ==
  /\ ~ended
  /\ ended' = TRUE
  /\ UNCHANGED <<written, shown, discarded>>

Next == Emit \/ Show \/ Discard \/ End

Spec == Init /\ [][Next]_vars
=============================================================================
