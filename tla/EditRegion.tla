----------------------------- MODULE EditRegion -----------------------------
(***************************************************************************)
(* The edit region of one ReplView without ANSI emulation: the text of the *)
(* view, and the boundary _output_end between what the program wrote and   *)
(* what the user is typing.                                                *)
(*                                                                         *)
(* The update thread (write) and Sublime's main thread (typing, enter,     *)
(* escape, clear, recall) share _output_end without a lock.  Changes of    *)
(* the text run on the main thread, also those the update thread asks for, *)
(* so Insert waits for a handler to end; the reads and writes of           *)
(* _output_end around it do not.  A cell of the text is one write of the   *)
(* program, one text the user entered, or the postfix of a command.        *)
(***************************************************************************)
EXTENDS Integers, SeqOrder

CONSTANTS
  MaxOut,    \* bound: writes of the program
  MaxTyped,  \* bound: texts the user enters
  MaxKeys    \* bound: escape, clear and enter

ASSUME ErBoundsAssumption == MaxOut \in Nat /\ MaxTyped \in Nat /\ MaxKeys \in Nat

Output == 1..MaxOut
Typed == (MaxOut + 1)..(MaxOut + MaxTyped)
Postfix == 0
Cells == Output \cup Typed \cup {Postfix}

VARIABLES
  text,          \* the view's text
  outputEnd,     \* _output_end
  cursor,        \* sel()[0].begin() of the only, empty selection
  readOnly,      \* the view is read-only
  suppressEcho,  \* repl.suppress_echo
  \* the update thread
  writing,        \* "idle", "insert", "load" or "store": where write() stands
  register,      \* the _output_end it has read
  out,           \* writes begun
  \* the main thread
  ui,            \* "idle", "adjust" or "clear": where enter or clear stands
  command,       \* enter's local
  typed, keys,   \* counters
  \* history
  sent,          \* all that went to repl.write
  erased,        \* cells the user erased with escape, clear, recall, backspace
  upset          \* what has happened to the boundary: "race", "clear", "trespass"

viewVars == <<text, cursor, readOnly>>
writerVars == <<writing, register, out>>
uiVars == <<ui, command, typed, keys>>
logVars == <<sent, erased>>
erVars == <<viewVars, outputEnd, suppressEcho, writerVars, uiVars, logVars, upset>>

ErInit ==
  /\ text = <<>> /\ outputEnd = 0 /\ cursor = 0 /\ readOnly = FALSE
  /\ suppressEcho \in BOOLEAN
  /\ writing = "idle" /\ register = 0 /\ out = 0
  /\ ui = "idle" /\ command = <<>> /\ typed = 0 /\ keys = 0
  /\ sent = <<>> /\ erased = {} /\ upset = {}

-----------------------------------------------------------------------------
(* Sublime's view: positions are clipped to the text, a region may be given *)
(* from either end, the cursor moves with the text around it.              *)

Least(a, b) == IF a < b THEN a ELSE b
Clip(p) == IF p < 0 THEN 0 ELSE Least(p, Len(text))
From(a, b) == Clip(Least(a, b))
To(a, b) == Clip(IF a < b THEN b ELSE a)
Substr(a, b) == SubSeq(text, From(a, b) + 1, To(a, b))

Inserted(p, cell) ==
  SubSeq(text, 1, Clip(p)) \o <<cell>> \o SubSeq(text, Clip(p) + 1, Len(text))
Without(a, b) == SubSeq(text, 1, From(a, b)) \o SubSeq(text, To(a, b) + 1, Len(text))
CursorWithout(a, b) ==
  IF cursor <= From(a, b) THEN cursor
  ELSE IF cursor <= To(a, b) THEN From(a, b)
  ELSE cursor - (To(a, b) - From(a, b))

InputRegion == Substr(outputEnd, Len(text))

\* Where the output ends in fact: what is inserted and not yet counted is output.
OutputNow == outputEnd + IF writing \in {"load", "store"} THEN 1 ELSE 0

\* What a step of the main thread does to the boundary while the update thread
\* has inserted its text and not yet advanced _output_end.
Racing == IF writing \in {"load", "store"} THEN {"race"} ELSE {}
-----------------------------------------------------------------------------
(* The update thread: write().                                             *)

\* What if the size of a prompt that is gone were subtracted?
ReadPositionOfPrompt ==
  /\ writing = "idle" /\ out < MaxOut
  /\ register' = (IF outputEnd = 0 THEN 0 ELSE outputEnd - 1)
  /\ out' = out + 1 /\ writing' = "insert"
  /\ UNCHANGED <<viewVars, outputEnd, suppressEcho, uiVars, logVars, upset>>

\* pos = self._output_end - self._prompt_size
ReadPosition ==
  /\ writing = "idle" /\ out < MaxOut
  /\ register' = outputEnd /\ out' = out + 1 /\ writing' = "insert"
  /\ UNCHANGED <<viewVars, outputEnd, suppressEcho, uiVars, logVars, upset>>

\* ReplInsertTextCommand: the view becomes writable; Sublime may report the
\* selection that moved, and on_selection_modified looks at _output_end.
Insert ==
  /\ writing = "insert" /\ ui = "idle"
  /\ text' = Inserted(register, out)
  /\ cursor' = IF cursor < Clip(register) THEN cursor ELSE cursor + 1
  /\ readOnly' \in {FALSE, outputEnd > cursor'}
  /\ writing' = "load"
  /\ UNCHANGED <<outputEnd, register, out, suppressEcho, uiVars, logVars, upset>>

\* self._output_end += len(unistr): read, then written.
LoadEnd ==
  /\ writing = "load"
  /\ register' = outputEnd /\ writing' = "store"
  /\ UNCHANGED <<viewVars, outputEnd, out, suppressEcho, uiVars, logVars, upset>>

\* What if _output_end were not advanced?
StoreForgotten ==
  /\ writing = "store"
  /\ outputEnd' = register /\ writing' = "idle"
  /\ UNCHANGED <<viewVars, register, out, suppressEcho, uiVars, logVars, upset>>

StoreEnd ==
  /\ writing = "store"
  /\ outputEnd' = register + 1 /\ writing' = "idle"
  /\ UNCHANGED <<viewVars, register, out, suppressEcho, uiVars, logVars, upset>>

Write == ReadPosition \/ Insert \/ LoadEnd \/ StoreEnd
-----------------------------------------------------------------------------
(* The main thread.                                                        *)

\* on_selection_modified: read-only while the cursor is in the output.
Select(p) == cursor' = p /\ readOnly' = (outputEnd > p)

KeysIdle == ui = "idle"

\* A click, or a key that moves the cursor.
MoveCursor ==
  /\ KeysIdle /\ \E p \in 0..Len(text) : Select(p)
  /\ UNCHANGED <<text, outputEnd, suppressEcho, writerVars, uiVars, logVars, upset>>

Type ==
  /\ KeysIdle /\ ~readOnly /\ typed < MaxTyped
  /\ typed' = typed + 1
  /\ text' = Inserted(cursor, MaxOut + typed + 1)
  /\ Select(cursor + 1)
  /\ upset' = upset \cup IF cursor < OutputNow THEN {"trespass"} ELSE {}
  /\ UNCHANGED <<outputEnd, suppressEcho, writerVars, ui, command, keys, logVars>>

\* What if allow_deletion compared with <= the other way round?
BackspaceAtBoundary ==
  /\ KeysIdle /\ ~readOnly /\ cursor >= outputEnd /\ cursor > 0
  /\ text' = Without(cursor - 1, cursor) /\ Select(cursor - 1)
  /\ erased' = erased \cup Range(Substr(cursor - 1, cursor))
  /\ upset' = upset \cup Racing
  /\ UNCHANGED <<outputEnd, suppressEcho, writerVars, uiVars, sent>>

\* left_delete, when allow_deletion lets it through.
Backspace ==
  /\ KeysIdle /\ ~readOnly /\ cursor > outputEnd /\ cursor > 0
  /\ text' = Without(cursor - 1, cursor) /\ Select(cursor - 1)
  /\ erased' = erased \cup Range(Substr(cursor - 1, cursor))
  /\ upset' = upset \cup Racing
  /\ UNCHANGED <<outputEnd, suppressEcho, writerVars, uiVars, sent>>

EraseInput ==
  /\ text' = Without(outputEnd, Len(text))
  /\ cursor' = CursorWithout(outputEnd, Len(text))
  /\ readOnly' \in {FALSE, outputEnd > cursor'}
  /\ erased' = erased \cup Range(InputRegion)
  /\ keys' = keys + 1
  /\ upset' = upset \cup Racing

Escape ==
  /\ KeysIdle /\ keys < MaxKeys
  /\ EraseInput
  /\ UNCHANGED <<outputEnd, suppressEcho, writerVars, ui, command, typed, sent>>

\* clear() begins with escape().
BeginClear ==
  /\ KeysIdle /\ keys < MaxKeys
  /\ EraseInput
  /\ ui' = "clear"
  /\ UNCHANGED <<outputEnd, suppressEcho, writerVars, command, typed, sent>>

\* What if _output_end were reduced by what is erased?
EndClearSubtracts ==
  /\ ui = "clear"
  /\ text' = Without(0, outputEnd - 2)
  /\ cursor' = CursorWithout(0, outputEnd - 2)
  /\ outputEnd' = outputEnd - Len(text) /\ readOnly' = FALSE
  /\ ui' = "idle"
  /\ UNCHANGED <<suppressEcho, writerVars, command, typed, keys, logVars, upset>>

\* output_region ends two characters before _output_end; then _output_end is
\* where the cursor is.
EndClear ==
  /\ ui = "clear"
  /\ text' = Without(0, outputEnd - 2)
  /\ cursor' = CursorWithout(0, outputEnd - 2)
  /\ outputEnd' = cursor' /\ readOnly' = FALSE
  /\ ui' = "idle"
  /\ erased' = erased \cup Range(Substr(0, outputEnd - 2))
  /\ upset' = upset \cup IF writing # "idle" \/ cursor' # Len(text') THEN {"clear"} ELSE {}
  /\ UNCHANGED <<suppressEcho, writerVars, command, typed, keys, sent>>

\* previous_command, next_command: the input is replaced by another text.
RecallText ==
  /\ KeysIdle /\ typed < MaxTyped
  /\ typed' = typed + 1
  /\ text' = Append(Without(outputEnd, Len(text)), MaxOut + typed + 1)
  /\ Select(Len(text'))
  /\ erased' = erased \cup Range(InputRegion)
  /\ upset' = upset \cup Racing
  /\ UNCHANGED <<outputEnd, suppressEcho, writerVars, ui, command, keys, sent>>

\* enter: the cursor goes to the end, the postfix is inserted -- unless the
\* view is still read-only -- and user_input is the command.
BeginEnter ==
  /\ KeysIdle /\ keys < MaxKeys
  /\ keys' = keys + 1
  /\ \E writable \in IF ~readOnly THEN {TRUE}
                     ELSE IF cursor # Len(text) THEN BOOLEAN ELSE {FALSE} :
       LET all == IF writable THEN Append(text, Postfix) ELSE text
       IN  /\ text' = all /\ Select(Len(all))
           /\ command' = SubSeq(all, Least(outputEnd, Len(all)) + 1, Len(all))
  /\ ui' = "adjust"
  /\ upset' = upset \cup Racing
  /\ UNCHANGED <<outputEnd, suppressEcho, writerVars, typed, logVars>>

\* What if adjust_end left the boundary where it is?
EndEnterKeeps ==
  /\ ui = "adjust"
  /\ sent' = sent \o command /\ ui' = "idle" /\ command' = <<>>
  /\ UNCHANGED <<viewVars, outputEnd, suppressEcho, writerVars, typed, keys,
                 erased, upset>>

\* What if user_input were read after adjust_end?
EndEnterReadsLate ==
  /\ ui = "adjust"
  /\ IF suppressEcho
       THEN /\ outputEnd' = Least(Len(text), outputEnd)
            /\ text' = SubSeq(text, 1, outputEnd')
            /\ cursor' = Least(cursor, outputEnd') /\ readOnly' = FALSE
       ELSE outputEnd' = Len(text) /\ UNCHANGED viewVars
  /\ ui' = "idle" /\ command' = <<>>
  /\ UNCHANGED <<suppressEcho, writerVars, typed, keys, logVars, upset>>

\* adjust_end and repl.write(command).
EndEnter ==
  /\ ui = "adjust"
  /\ IF suppressEcho
       THEN /\ outputEnd' = Least(Len(text), outputEnd)
            /\ text' = SubSeq(text, 1, outputEnd')
            /\ cursor' = Least(cursor, outputEnd') /\ readOnly' = FALSE
       ELSE outputEnd' = Len(text) /\ UNCHANGED viewVars
  /\ sent' = sent \o command /\ ui' = "idle" /\ command' = <<>>
  /\ UNCHANGED <<suppressEcho, writerVars, typed, keys, erased, upset>>

Keys == MoveCursor \/ Type \/ Backspace \/ Escape \/ BeginClear
        \/ RecallText \/ BeginEnter

ErNext == Write \/ Keys \/ EndClear \/ EndEnter

ErSpec == ErInit /\ [][ErNext]_erVars
-----------------------------------------------------------------------------
ErTypeOK ==
  /\ text \in Seq(Cells) /\ outputEnd \in Nat /\ cursor \in 0..Len(text)
  /\ readOnly \in BOOLEAN /\ suppressEcho \in BOOLEAN
  /\ writing \in {"idle", "insert", "load", "store"}
  /\ register \in Nat /\ out \in 0..MaxOut
  /\ ui \in {"idle", "adjust", "clear"} /\ command \in Seq(Cells)
  /\ typed \in 0..MaxTyped /\ keys \in 0..MaxKeys
  /\ sent \in Seq(Cells) /\ erased \subseteq Cells
  /\ upset \subseteq {"race", "clear", "trespass"}

(* While nothing has upset it the boundary is exact at every moment: what   *)
(* the program wrote lies before it, and behind it lies only what the user  *)
(* entered and has not sent.                                                *)
Boundary ==
  upset = {} =>
    /\ OutputNow <= Len(text)
    /\ \A i \in 1..Len(text) :
         i > OutputNow => text[i] \in Typed \ Range(sent) \/ ui = "adjust"

(* What the program wrote stands in the view in the order it wrote it, even *)
(* if Enter comes between the reading of a position and the insertion there. *)
WrittenInOrder ==
  upset = {} =>
    \A i, j \in 1..Len(text) :
      i < j /\ text[i] \in Output /\ text[j] \in Output => text[i] < text[j]

(* Nothing that is not user input is sent, nothing is sent twice, and a     *)
(* command ends in its postfix only.                                        *)
SentOnce ==
  upset = {} =>
    /\ Range(sent) \cap Output = {}
    /\ \A i, j \in 1..Len(sent) : i < j /\ sent[i] = sent[j] => sent[i] = Postfix

(* What the user entered is in the view, was sent, or was erased by a key   *)
(* of the user: no output overwrites it, no Enter skips it.                 *)
TypedKept ==
  upset = {} =>
    (MaxOut + 1)..(MaxOut + typed)
      \subseteq Range(text) \cup Range(command) \cup Range(sent) \cup erased

(* The boundary is exact, and neither side of it loses or reorders a cell.  *)
RegionIsExact == Boundary /\ WrittenInOrder /\ TypedKept

(* Backspace, escape and recall never take output away, and no output is    *)
(* lost but by clear().                                                     *)
OutputKept ==
  [][~(ui = "clear") /\ upset' = {} =>
       Range(text) \cap Output \subseteq Range(text')]_erVars
-----------------------------------------------------------------------------
(* What the repository says of the program and the code does not do.       *)

(* sublimerepl.py:506, user_input: "Returns text entered by the user".      *)
UserInputIsTyped == Range(sent) \cap Output = {}
=============================================================================
