------------------------------ MODULE SeqOrder ------------------------------
(***************************************************************************)
(* Sequences of numbers in strictly ascending order: the order in which    *)
(* units of output travel through the plugin.                              *)
(***************************************************************************)
EXTENDS Naturals, Sequences, Functions

\* The elements get larger from left to right (so none occurs twice).
Ascending(s) == \A i, j \in 1..Len(s) : i < j => s[i] < s[j]
=============================================================================
