----------------------------- MODULE AnsiColor -----------------------------
(***************************************************************************)
(* AnsiColor: the loop of _decode and _decode_multi over the numbers of    *)
(* one colour sequence, ESC [ n ; n ; ... m, and the style it leaves for   *)
(* the text that follows.  idx is the code's, counted from 1.  An empty    *)
(* number is Blank; a colour is its index in XTERM_COLORS_256.  Numbers    *)
(* have no zero before them but one of a single digit, which reads alike.  *)
(***************************************************************************)
EXTENDS Integers, Sequences

CONSTANTS
  Numbers,     \* numbers that occur in sequences
  MaxNumbers,  \* bound: numbers in a sequence
  MaxSequences \* bound: sequences

Blank == -1
None == -1
Unset == -2    \* the key is not in the dictionary

ASSUME NumbersAssumption == Numbers \subseteq (0..999) \cup {Blank}
ASSUME ColorBoundsAssumption == MaxNumbers \in Nat /\ MaxSequences \in Nat

VARIABLES
  decoding,    \* "idle", "loop" or "raised"
  codes, idx,  \* _decode's locals
  change,      \* its dictionary
  acted,       \* its ret
  style,       \* self._style
  sequences

coVars == <<decoding, codes, idx, change, acted, style, sequences>>

Grounds == {"fg", "bg"}
Default == [bold |-> 0, italic |-> 0, underline |-> 0, fg |-> None, bg |-> None]
NoChange == [bold |-> Unset, italic |-> Unset, underline |-> Unset,
             fg |-> Unset, bg |-> Unset]

CoInit ==
  /\ decoding = "idle" /\ codes = <<>> /\ idx = 1 /\ change = NoChange
  /\ acted = FALSE /\ style = Default /\ sequences = 0

\* _ansi_color_unsupported_regex: such a sequence is replaced by that for bold,
\* and the reset before it is lost.
Unsupported == {2, 5, 6, 8, 9}
Supported(s) ==
  IF \E n \in Unsupported : s \in {<<n>>, <<0, n>>} THEN <<1>> ELSE s

\* run: _ansi_color_regex matches all the sequences in a row at once, and m[1]
\* is the last one: those before it have no effect.
FindSequence ==
  /\ decoding = "idle" /\ sequences < MaxSequences
  /\ \E n \in 1..MaxNumbers : \E s \in [1..n -> Numbers] : codes' = Supported(s)
  /\ sequences' = sequences + 1
  /\ decoding' = "loop" /\ idx' = 1 /\ change' = NoChange /\ acted' = FALSE
  /\ UNCHANGED style

Item == codes[idx]
Running == decoding = "loop" /\ idx <= Len(codes)

\* _xterm_color
Bright == change.bold = 1
Xterm(digit, bright) == digit + IF bright THEN 8 ELSE 0

\* item in ('0', '00'), or the empty sequence
Resets == Item = 0 \/ (Len(codes) = 1 /\ Item = Blank)

\* The tests compare texts: "310" lies between "30" and "37".
Fg == 30..37 \cup 300..369
Bg == 40..47 \cup 400..469
BrightFg == 90..97 \cup 900..969
BrightBg == 100..107

\* What the item does to the dictionary.
Effect ==
  CASE Resets -> Default
    [] Item = 1 -> [change EXCEPT !.bold = 1]
    [] Item = 3 -> [change EXCEPT !.italic = 1]
    [] Item = 4 -> [change EXCEPT !.underline = 1]
    [] Item = 7 -> [change EXCEPT !.fg = Xterm(0, Bright), !.bg = Xterm(7, Bright)]
    [] Item \in Fg -> [change EXCEPT !.fg = Xterm(Item % 10, Bright)]
    [] Item \in Bg -> [change EXCEPT !.bg = Xterm(Item % 10, Bright)]
    [] Item \in BrightFg -> [change EXCEPT !.fg = Xterm(Item % 10, TRUE)]
    [] Item \in BrightBg -> [change EXCEPT !.bg = Xterm(Item % 10, TRUE)]
    [] OTHER -> change

Acts(item) == item \in {0, 1, 3, 4, 7} \cup Fg \cup Bg \cup BrightFg \cup BrightBg

\* What if an item were looked at with the dictionary of the style so far?
DecodeItemBrightFirst ==
  /\ Running /\ Item \notin {38, 48}
  /\ change' = IF Item \in Fg THEN [change EXCEPT !.fg = Item % 10] ELSE Effect
  /\ acted' = (acted \/ Resets \/ Acts(Item)) /\ idx' = idx + 1
  /\ UNCHANGED <<decoding, codes, style, sequences>>

\* What if an empty number were converted like the others?
DecodeItemConverted ==
  /\ Running /\ Item \notin {38, 48}
  /\ IF Item = Blank
       THEN decoding' = "raised" /\ UNCHANGED <<change, acted, idx>>
       ELSE /\ change' = Effect /\ UNCHANGED decoding
            /\ acted' = (acted \/ Resets \/ Acts(Item)) /\ idx' = idx + 1
  /\ UNCHANGED <<codes, style, sequences>>

DecodeItem ==
  /\ Running /\ Item \notin {38, 48}
  /\ change' = Effect
  /\ acted' = (acted \/ Resets \/ Acts(Item)) /\ idx' = idx + 1
  /\ UNCHANGED <<decoding, codes, style, sequences>>

\* _decode_multi: it tests for ">" where ">=" would do, it takes the numbers of
\* an rgb colour for numbers though they are texts, and it leaves idx on the
\* last number it has used, or where it was.
Raises(k) ==
  IF k + 1 > Len(codes) THEN TRUE
  ELSE \/ codes[k + 1] = 5 /\ IF k + 2 > Len(codes) THEN TRUE ELSE codes[k + 2] \notin 0..255
       \/ codes[k + 1] = 2 /\ k + 4 <= Len(codes)

Multi(color, last) ==
  /\ change' = [change EXCEPT ![IF Item = 38 THEN "fg" ELSE "bg"] = color]
  /\ acted' = TRUE /\ idx' = last
  /\ UNCHANGED <<decoding, codes, style, sequences>>

\* What if the palette number were taken from the place before?
DecodePaletteMisplaced ==
  /\ Running /\ Item \in {38, 48} /\ ~Raises(idx) /\ codes[idx + 1] = 5
  /\ Multi(codes[idx + 1], idx + 2)

DecodePalette ==
  /\ Running /\ Item \in {38, 48} /\ ~Raises(idx) /\ codes[idx + 1] = 5
  /\ Multi(codes[idx + 2],
           IF idx + 3 <= Len(codes) /\ codes[idx + 3] = 0 THEN idx + 3 ELSE idx + 2)

\* What if an rgb colour that is cut short left idx where it is?
DecodeShortRgbStays ==
  /\ Running /\ Item \in {38, 48} /\ ~Raises(idx) /\ codes[idx + 1] = 2
  /\ UNCHANGED coVars

\* An rgb colour that is cut short.
DecodeShortRgb ==
  /\ Running /\ Item \in {38, 48} /\ ~Raises(idx) /\ codes[idx + 1] = 2
  /\ idx' = Len(codes)
  /\ UNCHANGED <<decoding, codes, change, acted, style, sequences>>

\* return idx, None: the loop comes back to the same item.
DecodeNeither ==
  /\ Running /\ Item \in {38, 48} /\ ~Raises(idx) /\ codes[idx + 1] \notin {2, 5}
  /\ UNCHANGED coVars

\* The exception leaves run(): what is left of the text is not shown.
DecodeRaises ==
  /\ Running /\ Item \in {38, 48} /\ Raises(idx)
  /\ decoding' = "raised"
  /\ UNCHANGED <<codes, idx, change, acted, style, sequences>>

\* if not ret: continue; self._style.update(current_style)
ApplyStyle ==
  /\ decoding = "loop" /\ idx > Len(codes)
  /\ style' = IF acted
                THEN [k \in DOMAIN style |-> IF change[k] = Unset THEN style[k] ELSE change[k]]
                ELSE style
  /\ decoding' = "idle"
  /\ UNCHANGED <<codes, idx, change, acted, sequences>>

\* write() catches the exception, and the next output starts anew.
NextOutput ==
  /\ decoding = "raised" /\ decoding' = "idle"
  /\ UNCHANGED <<codes, idx, change, acted, style, sequences>>

Decode1 == DecodeItem \/ DecodePalette \/ DecodeShortRgb \/ DecodeNeither
           \/ DecodeRaises \/ ApplyStyle

CoNext == FindSequence \/ Decode1 \/ NextOutput

CoFairness == WF_coVars(Decode1)
CoSpec == CoInit /\ [][CoNext]_coVars
-----------------------------------------------------------------------------
CoTypeOK ==
  /\ decoding \in {"idle", "loop", "raised"}
  /\ idx \in 1..(MaxNumbers + 1) /\ acted \in BOOLEAN
  /\ \A k \in {"bold", "italic", "underline"} : style[k] \in {0, 1}
  /\ \A g \in Grounds : style[g] \in {None} \cup 0..255
  /\ sequences \in 0..MaxSequences

\* The last i in 1..Len(s) with P(i), or 0.
LastPlace(s, places) ==
  IF \E i \in 1..Len(s) : i \in places
    THEN CHOOSE i \in 1..Len(s) : i \in places /\ \A j \in (i + 1)..Len(s) : j \notin places
    ELSE 0

Plain(s) == \A i \in 1..Len(s) : s[i] \notin {38, 48}

\* The foreground _decode means: that of the last number behind the last reset
\* that has one, bright when bold lies between.
Foreground(s) ==
  LET reset == LastPlace(s, {i \in 1..Len(s) : s[i] = 0})
      last == LastPlace(s, {i \in 1..Len(s) : s[i] \in {7} \cup Fg \cup BrightFg})
      bold == \E i \in (reset + 1)..(last - 1) : s[i] = 1
  IN  IF last <= reset THEN None
      ELSE IF s[last] = 7 THEN Xterm(0, bold)
      ELSE Xterm(s[last] % 10, bold \/ s[last] \in BrightFg)

(* Of a sequence without extended colours the last colour behind the last   *)
(* reset decides, whatever the order and number of resets, bold and colours *)
(* before it.  This is _decode's meaning, not a terminal's: there an empty  *)
(* number among others is a reset and 39 no colour, "310" is none either,   *)
(* and ESC[0;2m is a reset.                                                 *)
LastColorDecides ==
  decoding = "loop" /\ idx > Len(codes) /\ Plain(codes) /\ change.fg # Unset =>
    change.fg = Foreground(codes)

(* A colour of the palette that a sequence ends with stays, unless its      *)
(* number is an item by itself: the loop goes on with that number, and      *)
(* 38;5;31 is red, 38;5;0 no colour, 38;5;38 an error.                      *)
PaletteStays ==
  decoding = "loop" /\ idx > Len(codes) /\ Len(codes) >= 3 =>
    LET k == Len(codes) - 2
    IN  codes[k] = 38 /\ codes[k + 1] = 5 /\ Plain(SubSeq(codes, 1, k - 1))
        /\ ~Acts(codes[k + 2])
          => change.fg = codes[k + 2]

(* Nothing but an extended colour raises.                                   *)
PlainDoesNotRaise == decoding = "raised" => ~Plain(codes)

(* A sequence leaves the colours _decode means it to.                       *)
ColorsAreRead == LastColorDecides /\ PaletteStays /\ PlainDoesNotRaise

(* The loop ends, unless 38 or 48 is followed by a number that is neither   *)
(* 2 nor 5: then the update thread never comes back.                        *)
DecodeEnds ==
  decoding = "loop" ~>
    decoding # "loop"
    \/ \E i \in 1..(Len(codes) - 1) : codes[i] \in {38, 48} /\ codes[i + 1] \notin {2, 5}
=============================================================================
