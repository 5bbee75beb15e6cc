------------------------------ MODULE MCParts ------------------------------
(***************************************************************************)
(* The smaller components for TLC, side by side: a behaviour is one of one *)
(* component, the others stay in their initial states.  They share nothing *)
(* but the host, so what holds here holds of each of them by itself.       *)
(***************************************************************************)
EXTENDS Autocomplete, Decoder, ReplManager, PowershellRepl,
        SublimePythonRepl, SftpEdit, AnsiColor, AnsiControl, UtopRepl,
        TabCompletion

CONSTANTS
  c1, c2,
  Parts   \* the components a run is about

\* Two remote files of one base name.
SamePaths == {"p", "q"}
SameName == [p \in SamePaths |-> 1]

\* No number, a reset, bold, the marks of an rgb and of a palette colour, red,
\* an extended colour, and one that is a colour only as a text.
ColorNumbers == {Blank, 0, 1, 2, 5, 31, 38, 310}

\* An empty line and a line of two characters.
LineWidths == {0, 2}

VARIABLE part   \* the component that runs

AllParts == {"ac", "dc", "rm", "ps", "py", "sf", "co", "an", "ut", "tc"}

ASSUME PartsAssumption == Parts \subseteq AllParts

vars == <<part, acVars, dcVars, rmVars, psVars, pyVars, sfVars, coVars, anVars, utVars, tcVars>>

Init ==
  /\ part \in Parts
  /\ AcInit /\ DcInit /\ RmInit /\ PsInit
  /\ PyInit /\ SfInit /\ CoInit /\ AnInit /\ UtInit /\ TcInit

Next ==
  \/ part = "ac" /\ AcNext /\ UNCHANGED <<part, dcVars, rmVars, psVars, pyVars, sfVars, coVars, anVars, utVars, tcVars>>
  \/ part = "dc" /\ DcNext /\ UNCHANGED <<part, acVars, rmVars, psVars, pyVars, sfVars, coVars, anVars, utVars, tcVars>>
  \/ part = "rm" /\ RmNext /\ UNCHANGED <<part, acVars, dcVars, psVars, pyVars, sfVars, coVars, anVars, utVars, tcVars>>
  \/ part = "ps" /\ PsNext /\ UNCHANGED <<part, acVars, dcVars, rmVars, pyVars, sfVars, coVars, anVars, utVars, tcVars>>
  \/ part = "py" /\ PyNext /\ UNCHANGED <<part, acVars, dcVars, rmVars, psVars, sfVars, coVars, anVars, utVars, tcVars>>
  \/ part = "sf" /\ SfNext /\ UNCHANGED <<part, acVars, dcVars, rmVars, psVars, pyVars, coVars, anVars, utVars, tcVars>>
  \/ part = "co" /\ CoNext /\ UNCHANGED <<part, acVars, dcVars, rmVars, psVars, pyVars, sfVars, anVars, utVars, tcVars>>
  \/ part = "ut" /\ UtNext /\ UNCHANGED <<part, acVars, dcVars, rmVars, psVars, pyVars, sfVars, coVars, anVars, tcVars>>
  \/ part = "tc" /\ TcNext /\ UNCHANGED <<part, acVars, dcVars, rmVars, psVars, pyVars, sfVars, coVars, anVars, utVars>>
  \/ part = "an" /\ AnNext /\ UNCHANGED <<part, acVars, dcVars, rmVars, psVars, pyVars, sfVars, coVars, utVars, tcVars>>

Fairness == AcFairness /\ PyFairness /\ CoFairness

Spec == Init /\ [][Next]_vars /\ Fairness

\* Bound: a behaviour ends where nothing is claimed of it any more, once copies
\* of two files were mixed, or a line was entered in haste, before the marks of
\* Powershell or the answer of utop.
Claimed == ~(mixed \/ hasty \/ ahead)

(* Every component's variables are what its handlers assume they are.       *)
TypesOK ==
  /\ AcTypeOK /\ RmTypeOK /\ PsTypeOK
  /\ PyTypeOK /\ SfTypeOK /\ CoTypeOK /\ AnTypeOK /\ UtTypeOK
  /\ TcTypeOK

(* What the threads wait for comes, but for the cases named with each:      *)
(* complete() returns to the main thread, unless the interpreter closes the *)
(* socket behind a header; a line of a Python console gets its prompt,      *)
(* unless the console is killed, a line raises or a line runs for ever; the *)
(* update thread gets through a colour sequence, unless 38 or 48 is         *)
(* followed by a number that is neither 2 nor 5.                            *)
WaitsEnd == CompleteEnds /\ LinesAreAnswered /\ DecodeEnds
=============================================================================
