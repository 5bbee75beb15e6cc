------------------------------ MODULE History ------------------------------
(***************************************************************************)
(* The input line of one ReplView and its command history: MemHistory,     *)
(* HistoryMatchList, and ReplView's enter, previous_command, next_command  *)
(* and ensure_history_match, between which the user edits the line.        *)
(*                                                                         *)
(* Texts are members of a small set; two relations say of them what the    *)
(* code computes: Strip (str.rstrip) and StartsWith (str.startswith).      *)
(***************************************************************************)
EXTENDS Integers, Sequences

CONSTANTS
  Texts,       \* what the input line may contain
  Empty,       \* the empty text
  Strip,       \* text -> the text without trailing blanks
  StartsWith,  \* pairs <<text, prefix>>
  MaxPushes    \* bound: commands entered

ASSUME StripAssumption ==
  /\ Empty \in Texts /\ Strip \in [Texts -> Texts] /\ Strip[Empty] = Empty
  /\ \A t \in Texts : Strip[Strip[t]] = Strip[t]
ASSUME PrefixAssumption ==
  /\ StartsWith \subseteq Texts \X Texts
  /\ \A t \in Texts : {<<t, Empty>>, <<t, t>>} \subseteq StartsWith
ASSUME BoundAssumption == MaxPushes \in Nat

VARIABLES
  stack,   \* MemHistory._stack
  last,    \* History._last (Empty for None: neither is ever pushed)
  match,   \* _history_match: the list recalled from, or NoMatch
  input,   \* user_input
  pushes

hiVars == <<stack, last, match, input, pushes>>

NoMatch == [prefix |-> Empty, commands |-> <<>>, cur |-> -1, set |-> FALSE]

HiInit ==
  /\ stack = <<>> /\ last = Empty /\ match = NoMatch /\ input = Empty
  /\ pushes = 0

\* matching_commands: those of s with the prefix, in their order.
Matching(s, prefix) ==
  LET upTo[i \in 0..Len(s)] ==
        IF i = 0 THEN <<>>
        ELSE IF <<s[i], prefix>> \in StartsWith THEN Append(upTo[i - 1], s[i])
        ELSE upTo[i - 1]
  IN  upTo[Len(s)]

\* MemHistory.match: a list of them, its cursor behind the last one.
Match(prefix) ==
  LET commands == Matching(stack, prefix)
  IN  [prefix |-> prefix, commands |-> commands, cur |-> Len(commands),
       set |-> TRUE]

\* HistoryMatchList.current_command: an empty text for an empty list; an index
\* behind the list raises IndexError, which recalls nothing either.
CurrentCommand(m) ==
  IF m.cur + 1 \in DOMAIN m.commands THEN m.commands[m.cur + 1] ELSE Empty

\* What if the list were kept whatever the user did?
EnsureMatchKeeps == IF match.set THEN match ELSE Match(input)

\* ensure_history_match: a list is kept while the line is what it gave.
EnsureMatch ==
  IF match.set /\ input = CurrentCommand(match) THEN match ELSE Match(input)

\* What if the last index were taken for the length?
ForthTooFar(m) ==
  [m EXCEPT !.cur = IF Len(m.commands) < @ + 1 THEN Len(m.commands) ELSE @ + 1]

\* max(0, cur - 1) and min(len(commands) - 1, cur + 1).
Back(m) == [m EXCEPT !.cur = IF @ - 1 < 0 THEN 0 ELSE @ - 1]
Forth(m) ==
  [m EXCEPT !.cur = IF Len(m.commands) - 1 < @ + 1 THEN Len(m.commands) - 1
                    ELSE @ + 1]

\* replace_current_input does nothing for an empty command.
Recall(m) ==
  /\ match' = m
  /\ input' = IF CurrentCommand(m) = Empty THEN input ELSE CurrentCommand(m)
  /\ UNCHANGED <<stack, last, pushes>>

PreviousCommand == Recall(Back(EnsureMatch))
NextCommand == Recall(Forth(EnsureMatch))

\* The user edits the line.
Edit ==
  /\ input' \in Texts \ {input}
  /\ UNCHANGED <<stack, last, match, pushes>>

\* What if the list survived a command?
EnterKeepsMatch ==
  /\ pushes < MaxPushes
  /\ pushes' = pushes + 1
  /\ LET cmd == Strip[input]
     IN  IF cmd \in {Empty, last}
           THEN UNCHANGED <<stack, last>>
           ELSE stack' = Append(stack, cmd) /\ last' = cmd
  /\ input' = Empty
  /\ UNCHANGED match

\* What if the command were compared before it is stripped?
EnterStripsLate ==
  /\ pushes < MaxPushes
  /\ pushes' = pushes + 1
  /\ IF input \in {Empty, last}
       THEN UNCHANGED <<stack, last>>
       ELSE stack' = Append(stack, Strip[input]) /\ last' = input
  /\ match' = NoMatch /\ input' = Empty

\* What if the empty command were recorded like any other?
EnterPushesEmpty ==
  /\ pushes < MaxPushes
  /\ pushes' = pushes + 1
  /\ LET cmd == Strip[input]
     IN  IF cmd = last /\ stack # <<>>
           THEN UNCHANGED <<stack, last>>
           ELSE stack' = Append(stack, cmd) /\ last' = cmd
  /\ match' = NoMatch /\ input' = Empty

\* enter: push_history(user_input), and the line is empty again.
Enter ==
  /\ pushes < MaxPushes
  /\ pushes' = pushes + 1
  /\ LET cmd == Strip[input]
     IN  IF cmd \in {Empty, last}
           THEN UNCHANGED <<stack, last>>
           ELSE stack' = Append(stack, cmd) /\ last' = cmd
  /\ match' = NoMatch /\ input' = Empty

HiNext == PreviousCommand \/ NextCommand \/ Edit \/ Enter

HiSpec == HiInit /\ [][HiNext]_hiVars
-----------------------------------------------------------------------------
HiTypeOK ==
  /\ stack \in Seq(Texts \ {Empty}) /\ last \in Texts /\ input \in Texts
  /\ match \in [prefix : Texts, commands : Seq(Texts), cur : Int, set : BOOLEAN]
  /\ pushes \in 0..MaxPushes

(* ensure_history_match asks for the current command of a list that was     *)
(* recalled from, never of a fresh one: the cursor, which starts behind the *)
(* last command, is on a command whenever the next key is pressed, so       *)
(* current_command has no IndexError, nor does a negative index wrap round. *)
CursorOnCommand ==
  match.set /\ match.commands # <<>> => match.cur \in 0..(Len(match.commands) - 1)

(* The list recalled from is what the history has for its prefix now.       *)
MatchIsFresh ==
  match.set => match.commands = Match(match.prefix).commands

(* No command stands twice in a row in the history, none is empty, and none *)
(* ends in blanks.                                                          *)
NoRepeats ==
  /\ \A i \in 1..(Len(stack) - 1) : stack[i] # stack[i + 1]
  /\ \A i \in 1..Len(stack) : stack[i] # Empty /\ Strip[stack[i]] = stack[i]

(* The list recalled from and its cursor fit the history, which has no      *)
(* command twice in a row.                                                  *)
HistoryIsSound == CursorOnCommand /\ MatchIsFresh /\ NoRepeats

(* Recalling on a line the user edited since the last recall starts from    *)
(* what stands there: the line keeps its beginning.                         *)
Edited == ~match.set \/ input # CurrentCommand(match)
KeepsBeginning ==
  [][(PreviousCommand \/ NextCommand) /\ Edited
        => <<input', input>> \in StartsWith]_hiVars
-----------------------------------------------------------------------------
(* sublimerepl.py:476, ensure_history_match: "user did something! reset".   *)
(* Recalling never empties the line, so a list for a longer prefix than the *)
(* one on an empty line is older than the edit that emptied it -- and the   *)
(* history, which is not empty, has a command to recall.                    *)
EditResets ==
  [][(PreviousCommand \/ NextCommand) /\ input = Empty /\ stack # <<>>
        => match'.prefix = Empty]_hiVars
=============================================================================
