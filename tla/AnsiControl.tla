---------------------------- MODULE AnsiControl ----------------------------
(***************************************************************************)
(* AnsiControl on one view: the program's output with control sequences    *)
(* that move _cursor_pos and erase, drawn into the text before             *)
(* _output_end; behind it stands what the user is typing, which has lines   *)
(* of its own when it is pasted, or put there by repl_view_write.          *)
(*                                                                         *)
(* A screen is [text, end, cur, strayed]: the cells of the view,           *)
(* _output_end and _cursor_pos, both counted from 0 as in the code, and a  *)
(* history: _output_end was put wrong, by erasing what is behind it or     *)
(* inserting there while input waits; positions mean nothing then.  A cell *)
(* is "nl", a blank, another character of the output, or a character or    *)
(* newline of the input.  One control sequence, or the text between two,   *)
(* is one step.                                                            *)
(***************************************************************************)
EXTENDS Integers, Sequences, FiniteSets

CONSTANTS
  Height,      \* terminal_height; as good as off if it exceeds the lines there are
  MaxCells,    \* bound: cells in the view, also for a cursor that is behind them
  MaxMove      \* bound: the number in a control sequence

ASSUME HeightAssumption == Height \in Nat
ASSUME AnsiBoundsAssumption == MaxCells \in Nat /\ MaxMove \in Nat

Chars == {"a", "b"}
Blanks == " "
NL == "nl"
Input == "i"
InputNL == "inl"
Inputs == {Input, InputNL}

VARIABLE screen

anVars == <<screen>>

AnInit == screen = [text |-> <<>>, end |-> 0, cur |-> 0, strayed |-> FALSE]
-----------------------------------------------------------------------------
(* Lines, on a screen s.                                                   *)

CellsOf(s) == DOMAIN s.text
NewlineAt(s) == {k \in CellsOf(s) : s.text[k] \in {NL, InputNL}}
PendingInput(s) == s.end < Len(s.text)
PendingLines(s) == \E k \in CellsOf(s) : s.text[k] = InputNL
Ahead(s) == s.cur > s.end

\* _find_line_start: behind the last newline before position c.
LineStart(s, c) ==
  LET before == {k \in NewlineAt(s) : k <= c}
  IN  IF before = {} THEN 0 ELSE CHOOSE k \in before : \A j \in before : j <= k

\* _find_line_end: the next newline, be it the input's, or the end of the output.
HasLineEnd(s) == \E k \in NewlineAt(s) : k > s.cur
LineEnd(s) ==
  LET after == {k \in NewlineAt(s) : k > s.cur}
  IN  IF after = {} THEN s.end ELSE (CHOOSE k \in after : \A j \in after : k <= j) - 1

Column(s) == s.cur - LineStart(s, s.cur)

Smaller(a, b) == IF a < b THEN a ELSE b
ClipTo(s, p) == IF p < 0 THEN 0 ELSE Smaller(p, Len(s.text))

\* What if _output_end were not reduced?
ErasedOnly(s, from, to) ==
  IF to <= from THEN s
  ELSE [s EXCEPT !.text = SubSeq(@, 1, ClipTo(s, from))
                          \o SubSeq(@, ClipTo(s, to) + 1, Len(@))]

\* _erase
Erased(s, from, to) ==
  IF to <= from THEN s
  ELSE [s EXCEPT !.text = SubSeq(@, 1, ClipTo(s, from))
                          \o SubSeq(@, ClipTo(s, to) + 1, Len(@)),
                 !.end = @ - (to - from), !.strayed = @ \/ to > s.end]

\* _insert_append at the cursor
InsertedAt(s, cells) ==
  [text |-> SubSeq(s.text, 1, ClipTo(s, s.cur)) \o cells
            \o SubSeq(s.text, ClipTo(s, s.cur) + 1, Len(s.text)),
   end |-> s.end + Len(cells), cur |-> s.cur + Len(cells),
   strayed |-> s.strayed \/ (Ahead(s) /\ PendingInput(s))]

\* What if it overwrote the newline too?
OverwrittenBeyond(s, cells) == InsertedAt(Erased(s, s.cur, s.cur + Len(cells)), cells)

\* _insert_overwrite: as much of the line is erased as is inserted.
Overwritten(s, cells) ==
  LET n == Smaller(LineEnd(s) - s.cur, Len(cells))
  IN  InsertedAt(Erased(s, s.cur, s.cur + n), cells)

\* What if characters were always inserted?
PrintedBetween(s, cells) == InsertedAt(s, cells)

\* _insert
Printed(s, cells) == IF s.cur # s.end THEN Overwritten(s, cells) ELSE InsertedAt(s, cells)

\* What if the cursor were moved without filling the line?
ToColumnShort(s, column) == [s EXCEPT !.cur = Smaller(@ + column, LineEnd(s))]

\* _insert_space_to_offset, from the start of a line.
ToColumn(s, column) ==
  LET missing == s.cur + column - LineEnd(s)
  IN  IF missing > 0
        THEN InsertedAt([s EXCEPT !.cur = LineEnd(s)], [k \in 1..missing |-> Blanks])
        ELSE [s EXCEPT !.cur = @ + column]
-----------------------------------------------------------------------------
(* Cursor movements.                                                       *)

LinesAbove(s) == {k \in NewlineAt(s) : k <= s.cur}
LinesBelow(s) == {k \in NewlineAt(s) : k > s.cur /\ k <= s.end + 1}

\* The start of the n-th line above.
StartAbove(s, n) ==
  LET start[k \in 0..n] ==
        IF k = 0 THEN LineStart(s, s.cur) ELSE LineStart(s, start[k - 1] - 1)
  IN  start[n]

\* _move_line_up: more lines than there are lead to the begin of the first.
Up(s, n) ==
  LET most == (Height - 1) - Cardinality(LinesBelow(s))
      moves == Smaller(n, most)
  IN  IF moves < 1 \/ LinesAbove(s) = {} THEN s
      ELSE IF moves > Cardinality(LinesAbove(s)) THEN [s EXCEPT !.cur = 0]
      ELSE ToColumn([s EXCEPT !.cur = StartAbove(s, moves)], Column(s))

\* One line down; behind the last line a new one begins.
NextLine(s) ==
  IF HasLineEnd(s) THEN [s EXCEPT !.cur = LineEnd(s) + 1]
  ELSE InsertedAt([s EXCEPT !.cur = s.end], <<NL>>)

\* _move_line_down
Down(s, n) ==
  LET below[k \in 0..n] == IF k = 0 THEN s ELSE NextLine(below[k - 1])
  IN  ToColumn(below[n], Column(s))

\* What if the end of the line were not looked at?
ForwardPast(s, n) == [s EXCEPT !.cur = @ + n]

\* _move_cursor_forward: ' ' * diff is empty, since diff is negative.
Forward(s, n) == [s EXCEPT !.cur = Smaller(s.cur + n, LineEnd(s))]

\* What if the start of the line were not looked at?
BackwardPast(s, n) == [s EXCEPT !.cur = @ - n]

\* _move_cursor_backward
Backward(s, n) ==
  [s EXCEPT !.cur = IF s.cur - n < LineStart(s, s.cur) THEN LineStart(s, s.cur) ELSE @ - n]

\* _move_cursor_coordinate
Coordinate(s, y, x) ==
  LET top == [s EXCEPT !.cur = 0]
      row == IF y = 0 THEN top ELSE Down(top, y)
  IN  IF x = 0 THEN row ELSE Forward(row, x)

\* _process_carriage_return
CarriageReturn(s) == [s EXCEPT !.cur = LineStart(s, s.cur)]

\* _process_line_erase and _process_display_erase; the cursor stays.
LineErased(s, mode) ==
  CASE mode = 0 -> Erased(s, s.cur, LineEnd(s))
    [] mode = 1 -> Erased(s, LineStart(s, s.cur), s.cur)
    [] mode = 2 -> Erased(s, LineStart(s, s.cur), LineEnd(s))

DisplayErased(s, mode) ==
  CASE mode = 0 -> Erased(s, s.cur, Len(s.text))
    [] mode = 1 -> Erased(s, 0, s.cur)
    [] mode = 2 -> Erased(s, 0, Len(s.text))
-----------------------------------------------------------------------------
(* The steps of run(), in the update thread.                               *)

Draw(s) ==
  ~screen.strayed /\ Len(s.text) <= MaxCells /\ s.cur <= MaxCells + 1 /\ screen' = s

\* Zero before an A raises a TypeError, and what is left of the text is lost.
Move ==
  \E n \in 0..MaxMove :
    \/ Draw(Up(screen, n)) \/ Draw(Down(screen, n))
    \/ Draw(Forward(screen, n)) \/ Draw(Backward(screen, n))
    \/ \E m \in 0..MaxMove : Draw(Coordinate(screen, n, m))

PrintChars ==
  \E cells \in [1..1 -> Chars] \cup [1..2 -> Chars] : Draw(Printed(screen, cells))

\* A newline is a character like others at the end of the output; elsewhere it
\* is a carriage return and a move down.
PrintNewline ==
  Draw(IF screen.cur = screen.end THEN InsertedAt(screen, <<NL>>)
       ELSE Down(CarriageReturn(screen), 1))

PrintReturn == Draw(CarriageReturn(screen))

EraseLine == \E mode \in 0..2 : Draw(LineErased(screen, mode))

EraseDisplay == \E mode \in 0..2 : Draw(DisplayErased(screen, mode))
-----------------------------------------------------------------------------
(* The main thread.                                                        *)

\* A key, or a piece of what is pasted or written into the view.
TypeChar == \E c \in Inputs : Draw([screen EXCEPT !.text = Append(@, c)])

\* What is on the screen, when nothing of it is input any more.
Taken == [k \in CellsOf(screen) |-> CASE screen.text[k] = Input -> "a"
                                      [] screen.text[k] = InputNL -> NL
                                      [] OTHER -> screen.text[k]]
AllOutput(cur) ==
  [screen EXCEPT !.text = Append(Taken, NL), !.end = Len(Taken) + 1, !.cur = cur]

\* What if the input stayed behind _output_end?
EnterStays ==
  Draw([screen EXCEPT !.text = Append(Taken, NL), !.cur = screen.end])

\* enter and adjust_end: the input is output now, or is erased for its echo.
TakeInput ==
  \/ Draw(AllOutput(Len(Taken) + 1))
  \/ Draw([screen EXCEPT !.text = SubSeq(@, 1, screen.end), !.cur = screen.end])

\* clear() with the cursor of the view at the end: the last two characters of
\* the output stay, and so does _cursor_pos.
ClearScreen ==
  LET kept == IF screen.end < 2 THEN screen.end ELSE 2
  IN  Draw([screen EXCEPT !.text = SubSeq(@, screen.end - kept + 1, screen.end),
                          !.end = kept])

\* restart: a new AnsiControl, with _cursor_pos = 0, on a view that has text.
RestartScreen == Draw(AllOutput(0))

AnNext ==
  \/ Move \/ PrintChars \/ PrintNewline \/ PrintReturn \/ EraseLine \/ EraseDisplay
  \/ TypeChar \/ TakeInput \/ ClearScreen \/ RestartScreen

AnSpec == AnInit /\ [][AnNext]_anVars
-----------------------------------------------------------------------------
AnTypeOK ==
  /\ screen.text \in Seq(Chars \cup {Blanks, NL} \cup Inputs)
  /\ screen.end \in Int /\ screen.cur \in Nat /\ screen.strayed \in BOOLEAN

(* Whatever is drawn, moved and erased, _output_end is where the output     *)
(* ends: before it there is output only, behind it only the user's input.   *)
EndIsExact ==
  ~screen.strayed =>
    /\ screen.end \in 0..Len(screen.text)
    /\ \A k \in CellsOf(screen) : screen.text[k] \in Inputs <=> k > screen.end

(* It gets lost only when the display is erased with input behind it, when  *)
(* the cursor is behind it, or when the input has a newline, which          *)
(* _find_line_end takes for one of the output.                              *)
StraysAreKnown ==
  [][screen'.strayed =>
       Ahead(screen) \/ PendingLines(screen) \/ (EraseDisplay /\ PendingInput(screen))]_anVars

\* The newlines of the output.
OutputLines(s) == {k \in CellsOf(s) : s.text[k] = NL}

(* Only erasing the display, clear() and restart take newlines away:        *)
(* characters that overwrite a line never run into the next one.            *)
LinesStay ==
  [][Cardinality(OutputLines(screen')) < Cardinality(OutputLines(screen))
       => EraseDisplay \/ ClearScreen]_anVars

(* Characters printed inside a line replace as many characters of that line *)
(* and touch nothing before and nothing behind it, as long as _output_end   *)
(* stays what it is.                                                        *)
PrintReplaces ==
  [][PrintChars /\ ~Ahead(screen) /\ ~screen'.strayed =>
       \E n \in 1..2 :
         /\ screen'.cur = screen.cur + n
         /\ SubSeq(screen'.text, 1, screen.cur) = SubSeq(screen.text, 1, screen.cur)
         /\ LET rest == Smaller(Smaller(LineEnd(screen), screen.end), screen'.cur)
            IN  SubSeq(screen'.text, screen'.cur + 1, Len(screen'.text))
                  = SubSeq(screen.text, rest + 1, Len(screen.text))]_anVars

\* The cells that show something, in order.
Visible(cells) ==
  LET f[k \in 0..Len(cells)] ==
        IF k = 0 THEN <<>>
        ELSE IF cells[k] \in {Blanks, NL, InputNL} THEN f[k - 1]
        ELSE Append(f[k - 1], cells[k])
  IN  f[Len(cells)]

(* Cursor movements draw nothing but blanks and new lines, and leave the    *)
(* cursor within the output they found or made, unless the input has lines. *)
MovesDrawNothing ==
  [][Move => /\ Visible(screen'.text) = Visible(screen.text)
             /\ Len(screen'.text) >= Len(screen.text)
             /\ ~Ahead(screen) /\ ~PendingLines(screen) => ~Ahead(screen')]_anVars

(* Moving up and down keeps the column, on short lines and new ones too,   *)
(* unless it would lead above the first line or into the input's lines.     *)
ColumnIsKept ==
  ~screen.strayed /\ ~Ahead(screen) /\ ~PendingLines(screen) =>
    \A n \in 1..MaxMove :
      /\ Column(Down(screen, n)) = Column(screen)
      /\ n <= Cardinality(LinesAbove(screen)) => Column(Up(screen, n)) = Column(screen)

(* The positions the controller keeps are those of the text on the screen.  *)
ScreenIsExact == EndIsExact /\ ColumnIsKept

(* No control sequence changes more of the screen than its own place.       *)
DrawingIsLocal == StraysAreKnown /\ LinesStay /\ PrintReplaces /\ MovesDrawNothing
=============================================================================
