---------------------------- MODULE TabCompletion ----------------------------
(***************************************************************************)
(* Tab in an ssh or winpty REPL: Interceptor._process_tab asks the shell   *)
(* for the names that begin with the last word of the line (compgen -f),   *)
(* or cmd.exe for the completed line, and puts what they have in common in *)
(* its place.  It takes whatever comes within five tries: perhaps a part of *)
(* the answer, perhaps with something else in it, the rest of an answer    *)
(* that came too late or what a program in the background prints.          *)
(*                                                                         *)
(* How the answer is fetched past the reader is in Interceptor.            *)
(***************************************************************************)
EXTENDS Naturals, SequencesExt

CONSTANTS
  Letters,
  MaxLetters,  \* bound: letters of a name
  MaxNames,    \* bound: names that begin with the word
  MaxStray     \* bound: lines that come besides an answer; for cmd.exe letters

ASSUME TabBoundsAssumption ==
  MaxLetters \in Nat /\ MaxNames \in Nat /\ MaxStray \in Nat

Words == UNION {[1..n -> Letters] : n \in 1..MaxLetters}
NamesOn(w) == {name \in Words : IsPrefix(w, name)}

\* The lines of an answer that are no names: the command, and the new prompt.
Echo == <<"echo">>
Prompt == <<"prompt">>

\* Texts are sequences of what is between newlines.  A text that comes besides
\* the answer: lines, and behind them a prompt or another line without its end.
StrayTexts ==
  {Append(whole, last) : whole \in UNION {[1..n -> Words] : n \in 0..MaxStray},
                         last \in {<<>>, Prompt}}
StrayLetters == UNION {[1..n -> Letters] : n \in 0..MaxStray}

VARIABLES
  tab,     \* "type", "ask", "asked" or "done"
  isCmd,   \* _is_cmd
  typed,   \* history: the word that was typed
  word,    \* the last word of the line; for cmd.exe the line
  answer,  \* the lines of the answer; for cmd.exe the completed line
  cutOff,  \* history: not all of what came was taken
  joined   \* history: something else came between the lines of the answer

tcVars == <<tab, isCmd, typed, word, answer, cutOff, joined>>

TcInit ==
  /\ tab = "type" /\ isCmd = FALSE /\ typed = <<>> /\ word = <<>>
  /\ answer = <<>> /\ cutOff = FALSE /\ joined = FALSE

\* The user types a word.
TypeWord ==
  /\ tab = "type" /\ tab' = "ask"
  /\ isCmd' \in BOOLEAN /\ typed' \in Words /\ word' = typed'
  /\ UNCHANGED <<answer, cutOff, joined>>

\* compgen: every name that begins with the word, in any order.
ShellAnswers ==
  /\ tab = "ask" /\ ~isCmd /\ tab' = "asked"
  /\ \E n \in 0..MaxNames : \E names \in [1..n -> NamesOn(word)] :
       answer' = <<Echo>> \o names \o <<Prompt>>
  /\ UNCHANGED <<isCmd, typed, word, cutOff, joined>>

CmdAnswers ==
  /\ tab = "ask" /\ isCmd /\ tab' = "asked"
  /\ answer' \in NamesOn(word)
  /\ UNCHANGED <<isCmd, typed, word, cutOff, joined>>

\* What if the line that is not whole yet, or the prompt, were a name?
ResultsToEnd(lines) == Tail(lines)

\* bytes.split(b'\n')[1:-1]
Results(lines) == SubSeq(lines, 2, Len(lines) - 1)

\* What if the first two names decided?
CommonPrefixOfTwo(names) ==
  LET second == names[IF Len(names) > 1 THEN 2 ELSE 1]
      upTo[i \in 0..Len(names[1])] ==
        IF i = 0 THEN <<>>
        ELSE LET longer == Append(upTo[i - 1], names[1][i])
             IN  IF Len(upTo[i - 1]) = i - 1 /\ IsPrefix(longer, second)
                 THEN longer ELSE upTo[i - 1]
  IN  upTo[Len(names[1])]

\* _common_prefix: letter by letter of the first name, until one has another.
CommonPrefix(names) ==
  LET upTo[i \in 0..Len(names[1])] ==
        IF i = 0 THEN <<>>
        ELSE LET longer == Append(upTo[i - 1], names[1][i])
             IN  IF Len(upTo[i - 1]) = i - 1
                    /\ \A k \in 1..Len(names) : IsPrefix(longer, names[k])
                 THEN longer ELSE upTo[i - 1]
  IN  upTo[Len(names[1])]

\* One text behind another.
Glue(text, next) ==
  Front(text) \o <<Last(text) \o Head(next)>> \o Tail(next)

\* _recv_intercepted: whatever comes is joined.  A text between the first k
\* lines of the answer and the others.
LinesTo(k) == IF k = Len(answer) THEN answer ELSE Append(SubSeq(answer, 1, k), <<>>)
LinesFrom(k) == IF k = Len(answer) THEN <<<<>>>> ELSE SubSeq(answer, k + 1, Len(answer))
WithStray(k, stray) == Glue(Glue(LinesTo(k), stray), LinesFrom(k))

\* _process_tab_unix, with the first n lines of what came, the last of them
\* perhaps not whole: two lines are no answer.
TakeFrom(came) ==
  \E n \in 0..Len(came) :
    /\ word' = IF n <= 2 THEN word ELSE CommonPrefix(Results(SubSeq(came, 1, n)))
    /\ cutOff' = (n < Len(came))

\* In front of the command or behind the prompt, less than a line is no harm.
TakeNames ==
  /\ tab = "asked" /\ ~isCmd /\ tab' = "done"
  /\ \/ TakeFrom(answer) /\ joined' = FALSE
     \/ \E k \in 0..Len(answer), stray \in StrayTexts :
          /\ TakeFrom(WithStray(k, stray))
          /\ joined' = (Len(stray) > 1 \/ k \notin {0, Len(answer)})
  /\ UNCHANGED <<isCmd, typed, answer>>

\* _process_tab_win: the first n characters of what came are the line.
TakeLine ==
  /\ tab = "asked" /\ isCmd /\ tab' = "done"
  /\ \E k \in 0..Len(answer), stray \in StrayLetters :
       LET came == SubSeq(answer, 1, k) \o stray \o SubSeq(answer, k + 1, Len(answer))
       IN  \E n \in 0..Len(came) :
             /\ word' = IF n = 0 THEN word ELSE SubSeq(came, 1, n)
             /\ cutOff' = (n < Len(came))
             /\ joined' = (stray # <<>>)
  /\ UNCHANGED <<isCmd, typed, answer>>

TcNext == TypeWord \/ ShellAnswers \/ CmdAnswers \/ TakeNames \/ TakeLine

TcSpec == TcInit /\ [][TcNext]_tcVars
-----------------------------------------------------------------------------
TcTypeOK ==
  /\ tab \in {"type", "ask", "asked", "done"}
  /\ isCmd \in BOOLEAN /\ cutOff \in BOOLEAN /\ joined \in BOOLEAN
  /\ typed \in Words \cup {<<>>} /\ word \in Seq(Letters \cup {"echo", "prompt"})

(* What the user typed stays where it is, unless something else came        *)
(* between the lines of the answer.  With cmd.exe only if the answer is     *)
(* there in time: a part of it takes the place of the whole line.           *)
TypedStays == joined \/ (isCmd /\ cutOff) \/ IsPrefix(typed, word)

(* A word grows to what all names that begin with it have in common.  When  *)
(* the shell is slow it may grow further, but it never leads to no name.    *)
(* A prompt that comes late, in front of the command, does no harm.         *)
GrowsToCommon ==
  tab = "done" /\ ~isCmd /\ ~joined =>
    LET names == Results(answer)
    IN  /\ ~cutOff /\ names # <<>> => word = LongestCommonPrefix(Range(names))
        /\ word = typed \/ \E i \in 1..Len(names) : IsPrefix(word, names[i])

(* Tab completes what was typed, whatever the names and their order, and    *)
(* however little of the answer comes in time, as long as nothing else      *)
(* comes between the lines of the answer.                                   *)
TabCompletes == TypedStays /\ GrowsToCommon
=============================================================================
