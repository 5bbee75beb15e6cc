----------------------------- MODULE MCHistory -----------------------------
(* Texts for TLC: "l", "ls" and "w" are commands, "ls_" is "ls" with a blank *)
(* behind it.                                                               *)
EXTENDS History

SomeTexts == {"", "l", "ls", "ls_", "w"}

Stripped == [t \in SomeTexts |-> IF t = "ls_" THEN "ls" ELSE t]

Prefixes == {<<t, t>> : t \in SomeTexts} \cup {<<t, "">> : t \in SomeTexts}
            \cup {<<"ls", "l">>, <<"ls_", "l">>, <<"ls_", "ls">>}
=============================================================================
