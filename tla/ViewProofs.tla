----------------------------- MODULE ViewProofs -----------------------------
(***************************************************************************)
(* Proofs about what one ReplView keeps.                                   *)
(*                                                                         *)
(* EditRegion, for any number of writes and keys: while nothing has upset  *)
(* the boundary it is exact, neither side of it loses or reorders a cell,  *)
(* and what goes to the program is what the user entered.                  *)
(*                                                                         *)
(* History, for every set of texts and every number of commands, and       *)
(* PersistentHistory, a history file shared by every set of REPLs, for any *)
(* number of records, crashes and failed writes.                           *)
(*                                                                         *)
(* The three side by side, as MCView runs them: what holds of each of them *)
(* holds of the whole.                                                     *)
(***************************************************************************)
EXTENDS MCView, SeqOrderProofs
-----------------------------------------------------------------------------
(* Positions and the text.                                                 *)

(* A point clipped to the buffer is a point of it, and kept if it was one. *)
LEMMA ClipIs ==
  ASSUME NEW p \in Int, text \in Seq(Cells)
  PROVE  Clip(p) \in 0..Len(text) /\ (p \in 0..Len(text) => Clip(p) = p)
<1>1. Len(text) \in Nat
  BY LenProperties
<1> QED BY <1>1 DEF Clip, Least

(* A region clipped to the buffer lies in it, in order.                    *)
LEMMA RegionIs ==
  ASSUME NEW a \in Int, NEW b \in Int, text \in Seq(Cells)
  PROVE  /\ From(a, b) \in 0..Len(text) /\ To(a, b) \in From(a, b)..Len(text)
         /\ a \in 0..Len(text) /\ b \in a..Len(text) => From(a, b) = a /\ To(a, b) = b
<1>1. Len(text) \in Nat
  BY LenProperties
<1> QED BY <1>1 DEF From, To, Clip, Least

(* Without takes the cells of the region away, and Substr has them.         *)
LEMMA WithoutIs ==
  ASSUME NEW a \in Int, NEW b \in Int, text \in Seq(Cells)
  PROVE  LET f == From(a, b) u == To(a, b) IN
         /\ Without(a, b) \in Seq(Cells) /\ Len(Without(a, b)) = Len(text) - (u - f)
         /\ \A i \in 1..(Len(text) - (u - f)) :
              Without(a, b)[i] = IF i <= f THEN text[i] ELSE text[i + (u - f)]
         /\ Range(Without(a, b)) \subseteq Range(text)
         /\ Substr(a, b) \in Seq(Cells)
         /\ Range(text) = Range(Without(a, b)) \cup Range(Substr(a, b))
         /\ Range(Substr(a, b)) = Between(text, f + 1, u)
<1> DEFINE f == From(a, b)
           u == To(a, b)
           t == CutOut(text, f, u)
           r == SubSeq(text, f + 1, u)
<1>1. Len(text) \in Nat /\ f \in 0..Len(text) /\ u \in f..Len(text)
  BY LenProperties, RegionIs
<1>2. Without(a, b) = t /\ Substr(a, b) = r
  BY DEF Without, CutOut, Substr
<1> HIDE DEF f, u
<1>4. r \in Seq(Cells)
  BY <1>1, PartBehind
<1>5. Range(r) = Between(text, f + 1, u)
  BY <1>1, PartBehind
<1>6. t \in Seq(Cells) /\ Len(t) = Len(text) - (u - f)
  BY <1>1, CutOutIs
<1>7. \A i \in 1..(Len(text) - (u - f)) : t[i] = IF i <= f THEN text[i] ELSE text[i + (u - f)]
  BY <1>1, CutOutIs
<1>8. Range(t) \subseteq Range(text)
  BY <1>1, CutOutIs
<1>9. Range(text) = Range(t) \cup Between(text, f + 1, u)
  BY <1>1, CutOutIs
<1> HIDE DEF r, t
<1>10. Range(text) = Range(t) \cup Range(r)
  BY <1>5, <1>9
<1> QED BY <1>2, <1>4, <1>5, <1>6, <1>7, <1>8, <1>10 DEF f, u

(* Inserted puts one cell at the position.                                  *)
LEMMA InsertedIs ==
  ASSUME NEW p \in Int, NEW cell \in Cells, text \in Seq(Cells)
  PROVE  LET k == Clip(p) IN
         /\ Inserted(p, cell) \in Seq(Cells) /\ Len(Inserted(p, cell)) = Len(text) + 1
         /\ \A i \in 1..(Len(text) + 1) :
              Inserted(p, cell)[i] = IF i <= k THEN text[i]
                                     ELSE IF i = k + 1 THEN cell ELSE text[i - 1]
         /\ Range(Inserted(p, cell)) = Range(text) \cup {cell}
<1> DEFINE k == Clip(p)
           t == PutBehind(text, k, cell)
<1>1. k \in 0..Len(text)
  BY ClipIs
<1>2. Inserted(p, cell) = t
  BY DEF Inserted, PutBehind
<1> HIDE DEF k
<1>3. t \in Seq(Cells) /\ Len(t) = Len(text) + 1
  BY <1>1, PutBehindIs
<1>4. \A i \in 1..(Len(text) + 1) :
        t[i] = IF i <= k THEN text[i] ELSE IF i = k + 1 THEN cell ELSE text[i - 1]
  BY <1>1, PutBehindIs
<1>5. Range(t) = Range(text) \cup {cell}
  BY <1>1, PutBehindIs
<1> HIDE DEF t
<1> QED BY <1>2, <1>3, <1>4, <1>5 DEF k

(* The three kinds of text in a view, told apart.                          *)
LEMMA CellsAre ==
  /\ MaxOut \in Nat /\ MaxTyped \in Nat /\ MaxKeys \in Nat
  /\ Cells \subseteq Nat /\ Postfix \in Cells /\ Postfix \notin Output /\ Postfix \notin Typed
  /\ Output \cap Typed = {}
  /\ \A n \in 0..MaxOut : n \in Cells /\ n \notin Typed
  /\ \A n \in 0..MaxTyped : n < MaxTyped =>
       MaxOut + n + 1 \in Typed /\ MaxOut + n + 1 \in Cells /\ MaxOut + n + 1 \notin Output
BY ErBoundsAssumption DEF Cells, Output, Typed, Postfix
-----------------------------------------------------------------------------
(* Type correctness.                                                       *)

(* ErTypeOK holds at the start.                                            *)
LEMMA ErTypeInit == ErInit => ErTypeOK
<1> SUFFICES ASSUME ErInit PROVE ErTypeOK
  OBVIOUS
<1>1. <<>> \in Seq(Cells) /\ Len(<<>>) = 0
  OBVIOUS
<1>2. 0 \in 0..MaxOut /\ 0 \in 0..MaxTyped /\ 0 \in 0..MaxKeys /\ 0 \in 0..0 /\ 0 \in Nat
  BY ErBoundsAssumption
<1> QED BY <1>1, <1>2 DEF ErInit, ErTypeOK

(* What a handler of a key does to the text, the cursor and what is sent.  *)
LEMMA TypeKeys == ASSUME ErTypeOK, Keys PROVE ErTypeOK'
<1>1. /\ text \in Seq(Cells) /\ Len(text) \in Nat /\ outputEnd \in Nat
      /\ cursor \in 0..Len(text) /\ Len(text) \in Int /\ outputEnd \in Int
      /\ cursor \in Int /\ cursor - 1 \in Int /\ 0 \in Int /\ outputEnd - 2 \in Int
  BY LenProperties DEF ErTypeOK
<1>2. Range(InputRegion) \subseteq Cells
  <2>1. InputRegion \in Seq(Cells)
    BY <1>1, WithoutIs DEF InputRegion
  <2> QED BY <2>1, RangeOfSeq
<1>0. MaxOut \in Nat /\ MaxTyped \in Nat /\ MaxKeys \in Nat
  BY CellsAre
<1>3. Racing \subseteq {"race", "clear", "trespass"}
  BY DEF Racing
<1>4. ASSUME EraseInput PROVE /\ text' \in Seq(Cells) /\ cursor' \in 0..Len(text')
                              /\ readOnly' \in BOOLEAN /\ erased' \subseteq Cells
                              /\ keys' = keys + 1 /\ upset' \subseteq {"race", "clear", "trespass"}
  <2> DEFINE f == From(outputEnd, Len(text))
             u == To(outputEnd, Len(text))
  <2>1. f \in 0..Len(text) /\ u \in f..Len(text)
    BY <1>1, RegionIs
  <2>2. text' \in Seq(Cells) /\ Len(text') = Len(text) - (u - f)
    BY <1>1, <1>4, WithoutIs DEF EraseInput
  <2>3. cursor' = IF cursor <= f THEN cursor ELSE IF cursor <= u THEN f ELSE cursor - (u - f)
    BY <1>4 DEF EraseInput, CursorWithout
  <2> HIDE DEF f, u
  <2>4. cursor' \in 0..Len(text')
    BY <1>1, <2>1, <2>2, <2>3
  <2>7. readOnly' \in {FALSE, outputEnd > cursor'} /\ keys' = keys + 1
        /\ erased' = erased \cup Range(InputRegion)
    BY <1>4 DEF EraseInput
  <2>5. erased' \subseteq Cells /\ keys' = keys + 1
    BY <1>2, <2>7 DEF ErTypeOK
  <2>8. readOnly' \in BOOLEAN
    <3>1. readOnly' = FALSE \/ readOnly' = (outputEnd > cursor')
      BY <2>7
    <3>2. ASSUME readOnly' = (outputEnd > cursor') PROVE readOnly' \in BOOLEAN
      BY <3>2
    <3> QED BY <3>1, <3>2
  <2>6. upset' \subseteq {"race", "clear", "trespass"}
    BY <1>3, <1>4 DEF EraseInput, ErTypeOK
  <2> QED BY <2>2, <2>4, <2>5, <2>6, <2>8
<1>5. CASE MoveCursor
  BY <1>1, <1>5 DEF MoveCursor, Select, ErTypeOK, writerVars, uiVars, logVars
<1>6. CASE Type
  <2>0. typed \in 0..MaxTyped /\ typed < MaxTyped
    BY <1>6 DEF Type, ErTypeOK
  <2>4. MaxOut + typed + 1 \in Cells
    BY <2>0, CellsAre
  <2>1. /\ text' \in Seq(Cells) /\ Len(text') = Len(text) + 1
    BY <1>1, <1>6, <2>4, InsertedIs DEF Type
  <2>2. cursor' = cursor + 1 /\ readOnly' = (outputEnd > cursor + 1) /\ typed' = typed + 1
    BY <1>6 DEF Type, Select
  <2>3. cursor' \in 0..Len(text') /\ readOnly' \in BOOLEAN /\ typed' \in 0..MaxTyped
    BY <1>0, <1>1, <2>0, <2>1, <2>2
  <2>5. upset' \subseteq {"race", "clear", "trespass"}
    BY <1>6 DEF Type, ErTypeOK
  <2> QED BY <1>6, <2>1, <2>3, <2>5 DEF Type, ErTypeOK, writerVars, logVars
<1>7. CASE Backspace
  <2> DEFINE f == From(cursor - 1, cursor)
             u == To(cursor - 1, cursor)
  <2>1. cursor - 1 \in 0..Len(text) /\ cursor \in (cursor - 1)..Len(text)
    BY <1>1, <1>7 DEF Backspace
  <2>2. f = cursor - 1 /\ u = cursor
    BY <1>1, <2>1, RegionIs
  <2>3. text' \in Seq(Cells) /\ Len(text') = Len(text) - (u - f)
        /\ Substr(cursor - 1, cursor) \in Seq(Cells)
    BY <1>1, <1>7, WithoutIs DEF Backspace
  <2> HIDE DEF f, u
  <2>4. Range(Substr(cursor - 1, cursor)) \subseteq Cells
    BY <2>3, RangeOfSeq
  <2>5. cursor' = cursor - 1 /\ readOnly' = (outputEnd > cursor - 1)
    BY <1>7 DEF Backspace, Select
  <2>6. cursor' \in 0..Len(text') /\ readOnly' \in BOOLEAN
    BY <1>1, <2>1, <2>2, <2>3, <2>5
  <2> QED BY <1>3, <1>7, <2>3, <2>4, <2>6 DEF Backspace, ErTypeOK, writerVars, uiVars
<1>8. CASE Escape
  BY <1>0, <1>4, <1>8 DEF Escape, ErTypeOK, writerVars
<1>9. CASE BeginClear
  BY <1>0, <1>4, <1>9 DEF BeginClear, ErTypeOK, writerVars
<1>10. CASE RecallText
  <2> DEFINE rest == Without(outputEnd, Len(text))
  <2>1. rest \in Seq(Cells)
    BY <1>1, WithoutIs
  <2>0. typed \in 0..MaxTyped /\ typed < MaxTyped
    BY <1>10 DEF RecallText, ErTypeOK
  <2>2. MaxOut + typed + 1 \in Cells
    BY <2>0, CellsAre
  <2>6. typed + 1 \in 0..MaxTyped
    BY <1>0, <2>0
  <2>3. text' = Append(rest, MaxOut + typed + 1)
    BY <1>10 DEF RecallText
  <2> HIDE DEF rest
  <2>4. text' \in Seq(Cells) /\ Len(text') \in Nat
    BY <2>1, <2>2, <2>3, AppendProperties, LenProperties
  <2>5. cursor' \in 0..Len(text') /\ readOnly' \in BOOLEAN
    BY <1>10, <2>4 DEF RecallText, Select
  <2> QED BY <1>2, <1>3, <1>10, <2>4, <2>5, <2>6 DEF RecallText, ErTypeOK, writerVars
<1>11. CASE BeginEnter
  <2>1. PICK all \in {text, Append(text, Postfix)} :
          /\ text' = all /\ Select(Len(all))
          /\ command' = SubSeq(all, Least(outputEnd, Len(all)) + 1, Len(all))
    BY <1>11 DEF BeginEnter
  <2>6. Append(text, Postfix) \in Seq(Cells)
    BY <1>1, CellsAre, AppendProperties
  <2>2. all \in Seq(Cells) /\ Len(all) \in Nat
    BY <1>1, <2>6, LenProperties
  <2>3. /\ Least(outputEnd, Len(all)) + 1 \in 1..(Len(all) + 1)
        /\ Len(all) \in (Least(outputEnd, Len(all)) + 1 - 1)..Len(all)
    BY <1>1, <2>2 DEF Least
  <2>4. command' \in Seq(Cells)
    BY <2>1, <2>2, <2>3, PartOf
  <2>5. text' \in Seq(Cells) /\ cursor' \in 0..Len(text') /\ readOnly' \in BOOLEAN
    BY <2>1, <2>2 DEF Select
  <2>7. keys \in 0..MaxKeys /\ keys < MaxKeys /\ keys' = keys + 1 /\ ui' = "adjust"
    BY <1>11 DEF BeginEnter, ErTypeOK
  <2>8. keys' \in 0..MaxKeys
    BY <1>0, <2>7
  <2>9. upset' \subseteq {"race", "clear", "trespass"}
    BY <1>3, <1>11 DEF BeginEnter, ErTypeOK
  <2>10. UNCHANGED <<outputEnd, suppressEcho, writerVars, typed, logVars>>
    BY <1>11 DEF BeginEnter
  <2> QED BY <2>4, <2>5, <2>7, <2>8, <2>9, <2>10 DEF ErTypeOK, writerVars, logVars
<1> QED BY <1>5, <1>6, <1>7, <1>8, <1>9, <1>10, <1>11 DEF Keys

(* Every step keeps ErTypeOK.                                              *)
LEMMA ErTypeStep == ErTypeOK /\ [ErNext]_erVars => ErTypeOK'
<1> SUFFICES ASSUME ErTypeOK, [ErNext]_erVars PROVE ErTypeOK'
  OBVIOUS
<1>1. /\ text \in Seq(Cells) /\ Len(text) \in Nat /\ outputEnd \in Nat
      /\ cursor \in 0..Len(text) /\ Len(text) \in Int /\ outputEnd \in Int
      /\ cursor \in Int /\ cursor - 1 \in Int /\ 0 \in Int /\ outputEnd - 2 \in Int
  BY LenProperties DEF ErTypeOK
<1>0. MaxOut \in Nat /\ MaxTyped \in Nat /\ MaxKeys \in Nat
  BY CellsAre
<1>2. CASE ReadPosition
  BY <1>0, <1>2 DEF ReadPosition, ErTypeOK, viewVars, uiVars, logVars
<1>3. CASE Insert
  <2>0. out \in Cells /\ register \in Int
    BY CellsAre DEF ErTypeOK
  <2>1. /\ text' \in Seq(Cells) /\ Len(text') = Len(text) + 1
    BY <1>1, <1>3, <2>0, InsertedIs DEF Insert
  <2>3. cursor' \in {cursor, cursor + 1}
    BY <1>3 DEF Insert
  <2>4. readOnly' \in {FALSE, outputEnd > cursor'}
    BY <1>3 DEF Insert
  <2>5. readOnly' \in BOOLEAN
    <3>1. readOnly' = FALSE \/ readOnly' = (outputEnd > cursor')
      BY <2>4
    <3>2. ASSUME readOnly' = (outputEnd > cursor') PROVE readOnly' \in BOOLEAN
      BY <3>2
    <3> QED BY <3>1, <3>2
  <2>2. cursor' \in 0..Len(text')
    BY <1>1, <2>1, <2>3
  <2> QED BY <1>3, <2>1, <2>2, <2>5 DEF Insert, ErTypeOK, uiVars, logVars
<1>4. CASE LoadEnd
  BY <1>4 DEF LoadEnd, ErTypeOK, viewVars, uiVars, logVars
<1>5. CASE StoreEnd
  BY <1>5 DEF StoreEnd, ErTypeOK, viewVars, uiVars, logVars
<1>6. CASE Keys
  BY <1>6, TypeKeys
<1>7. CASE EndClear
  <2> DEFINE f == From(0, outputEnd - 2)
             u == To(0, outputEnd - 2)
  <2>1. f \in 0..Len(text) /\ u \in f..Len(text)
    BY <1>1, RegionIs
  <2>2. text' \in Seq(Cells) /\ Len(text') = Len(text) - (u - f)
        /\ Substr(0, outputEnd - 2) \in Seq(Cells)
    BY <1>1, <1>7, WithoutIs DEF EndClear
  <2>3. cursor' = IF cursor <= f THEN cursor ELSE IF cursor <= u THEN f ELSE cursor - (u - f)
    BY <1>7 DEF EndClear, CursorWithout
  <2> HIDE DEF f, u
  <2>4. cursor' \in 0..Len(text') /\ cursor' \in Nat
    BY <1>1, <2>1, <2>2, <2>3
  <2>5. Range(Substr(0, outputEnd - 2)) \subseteq Cells
    BY <2>2, RangeOfSeq
  <2> QED BY <1>7, <2>2, <2>4, <2>5 DEF EndClear, ErTypeOK, writerVars
<1>8. CASE EndEnter
  <2>1. sent' \in Seq(Cells) /\ command' \in Seq(Cells)
    BY <1>8, ConcatProperties DEF EndEnter, ErTypeOK
  <2>2. CASE suppressEcho
    <3> DEFINE n == Least(Len(text), outputEnd)
    <3>1. n \in 0..Len(text) /\ n \in Nat /\ 1 \in 1..(Len(text) + 1) /\ n \in (1 - 1)..Len(text)
      BY <1>1 DEF Least
    <3>2. text' = SubSeq(text, 1, n) /\ outputEnd' = n /\ cursor' = Least(cursor, n)
          /\ readOnly' = FALSE
      BY <1>8, <2>2 DEF EndEnter
    <3> HIDE DEF n
    <3>3. text' \in Seq(Cells) /\ Len(text') = n - 1 + 1
      BY <1>1, <3>1, <3>2, PartOf
    <3>4. cursor' \in 0..Len(text')
      BY <1>1, <3>1, <3>2, <3>3 DEF Least
    <3> QED BY <1>8, <2>1, <3>1, <3>2, <3>3, <3>4 DEF EndEnter, ErTypeOK, writerVars
  <2>3. CASE ~suppressEcho
    BY <1>1, <1>8, <2>1, <2>3 DEF EndEnter, ErTypeOK, writerVars, viewVars
  <2> QED BY <2>2, <2>3
<1>9. CASE UNCHANGED erVars
  BY <1>9 DEF ErTypeOK, erVars, viewVars, writerVars, uiVars, logVars
<1> QED BY <1>2, <1>3, <1>4, <1>5, <1>6, <1>7, <1>8, <1>9 DEF ErNext, Write

(* The view, the boundary and the handlers always have their types.         *)
THEOREM ErTypeCorrect == ErSpec => []ErTypeOK
<1> QED BY ErTypeInit, ErTypeStep, PTL DEF ErSpec
-----------------------------------------------------------------------------
(* The inductive invariant.                                                *)
(*                                                                         *)
(* Boundary and the order speak of the text between two steps of a write or *)
(* of a handler; to keep them, the position the write has read, what was    *)
(* typed and what the handler has in its hands have to fit the text.        *)

\* Output stands in the order in which it was written, and no text of the user twice.
ErInOrder(t) ==
  \A i, j \in 1..Len(t) : i < j /\ t[i] \in Output /\ t[j] \in Output => t[i] < t[j]
TypedOnce(t) == \A i, j \in 1..Len(t) : i < j /\ t[i] = t[j] => t[i] \notin Typed

\* All there is of the user's cells behind the boundary has not been sent.
Exact ==
  /\ OutputNow <= Len(text)
  /\ \A i \in 1..Len(text) : i > OutputNow => text[i] \in Typed \ Range(sent) \/ ui = "adjust"

\* The position a write has read is behind all output in the text.
WriterSafe ==
  /\ writing \in {"load", "store"} => ui = "idle"
  /\ writing = "insert" => register <= outputEnd
  /\ writing = "insert" => \A i \in 1..Len(text) : i > register => text[i] \notin Output
  /\ writing = "store" => register = outputEnd
  /\ \A i \in 1..Len(text) : text[i] \in Output => text[i] <= out
  /\ writing = "insert" => \A i \in 1..Len(text) : text[i] \in Output => text[i] < out

\* What is typed next is a cell that is nowhere yet.
TypedSafe ==
  /\ \A i \in 1..Len(text) : text[i] \in Typed => text[i] <= MaxOut + typed
  /\ \A c \in Range(sent) : c \in Typed => c <= MaxOut + typed

\* Between the two halves of clear there is no input, between those of enter
\* the input is the command.
HandlerSafe ==
  /\ ui = "clear" => Len(text) = outputEnd
  /\ ui # "adjust" => command = <<>>
  /\ ui = "adjust" => command = SubSeq(text, outputEnd + 1, Len(text))
  /\ ui = "adjust" => \A i \in 1..Len(text) : i > outputEnd =>
       text[i] \in Typed \ Range(sent) \/ (text[i] = Postfix /\ i = Len(text))

ErOnce ==
  /\ Range(sent) \cap Output = {}
  /\ \A i, j \in 1..Len(sent) : i < j /\ sent[i] = sent[j] => sent[i] = Postfix

Kept ==
  (MaxOut + 1)..(MaxOut + typed)
    \subseteq Range(text) \cup Range(command) \cup Range(sent) \cup erased

Calm == /\ Exact /\ ErInOrder(text) /\ TypedOnce(text)
        /\ WriterSafe /\ TypedSafe /\ HandlerSafe /\ ErOnce /\ Kept

ErIInv == ErTypeOK /\ (upset = {} => Calm)

(* What a step may not take from the text.                                  *)
OutputStays == Range(text) \cap Output \subseteq Range(text')
-----------------------------------------------------------------------------
(* Texts that lose or win a cell.                                          *)

(* Cutting a piece out of a text keeps the order of the rest.               *)
LEMMA CutKeeps ==
  ASSUME NEW t \in Seq(Cells), ErInOrder(t), TypedOnce(t),
         NEW s \in Seq(Cells), NEW f \in 0..Len(t), NEW d \in Nat,
         Len(s) + d = Len(t),
         \A i \in 1..Len(s) : s[i] = IF i <= f THEN t[i] ELSE t[i + d]
  PROVE  ErInOrder(s) /\ TypedOnce(s)
<1>1. Len(s) \in Nat /\ Len(t) \in Nat
  BY LenProperties
<1>2. SUFFICES ASSUME NEW i \in 1..Len(s), NEW j \in 1..Len(s), i < j
               PROVE  /\ s[i] \in Output /\ s[j] \in Output => s[i] < s[j]
                      /\ s[i] = s[j] => s[i] \notin Typed
  BY DEF ErInOrder, TypedOnce
<1>3. PICK a \in 1..Len(t), b \in 1..Len(t) : a < b /\ s[i] = t[a] /\ s[j] = t[b]
  <2>1. CASE i <= f /\ j <= f
    <3>1. i \in 1..Len(t) /\ j \in 1..Len(t)
      BY <1>1
    <3>2. s[i] = t[i] /\ s[j] = t[j]
      BY <2>1
    <3> QED BY <1>2, <3>1, <3>2
  <2>2. CASE i <= f /\ j > f
    <3>1. i \in 1..Len(t) /\ j + d \in 1..Len(t) /\ i < j + d /\ ~(j <= f)
      BY <1>1, <1>2, <2>2
    <3>2. s[i] = t[i] /\ s[j] = t[j + d]
      BY <2>2, <3>1
    <3> QED BY <3>1, <3>2
  <2>3. CASE i > f
    <3>1. i + d \in 1..Len(t) /\ j + d \in 1..Len(t) /\ i + d < j + d /\ ~(j <= f) /\ ~(i <= f)
      BY <1>1, <1>2, <2>3
    <3>2. s[i] = t[i + d] /\ s[j] = t[j + d]
      BY <3>1
    <3> QED BY <3>1, <3>2
  <2>4. i <= f \/ i > f
    BY <1>1
  <2>5. j <= f \/ j > f
    BY <1>1
  <2> QED BY <2>1, <2>2, <2>3, <2>4, <2>5
<1> QED BY <1>3 DEF ErInOrder, TypedOnce

(* So does putting a cell in that comes later than all output and stands    *)
(* behind it, or one of the user that is new.                               *)
LEMMA PutKeeps ==
  ASSUME NEW t \in Seq(Cells), ErInOrder(t), TypedOnce(t),
         NEW s \in Seq(Cells), NEW k \in 0..Len(t), NEW e \in Cells,
         Len(s) = Len(t) + 1,
         \A i \in 1..(Len(t) + 1) :
           s[i] = IF i <= k THEN t[i] ELSE IF i = k + 1 THEN e ELSE t[i - 1],
         e \in Output => /\ \A i \in 1..Len(t) : t[i] \in Output => t[i] < e
                         /\ \A i \in 1..Len(t) : i > k => t[i] \notin Output,
         e \in Typed => \A i \in 1..Len(t) : t[i] # e
  PROVE  ErInOrder(s) /\ TypedOnce(s)
<1>1. Len(s) \in Nat /\ Len(t) \in Nat
  BY LenProperties
<1>2. SUFFICES ASSUME NEW i \in 1..Len(s), NEW j \in 1..Len(s), i < j
               PROVE  /\ s[i] \in Output /\ s[j] \in Output => s[i] < s[j]
                      /\ s[i] = s[j] => s[i] \notin Typed
  BY DEF ErInOrder, TypedOnce
<1>3. i \in 1..(Len(t) + 1) /\ j \in 1..(Len(t) + 1)
  OBVIOUS
<1>4. CASE i = k + 1
  <2>1. ~(i <= k) /\ ~(j <= k) /\ j # k + 1 /\ j - 1 \in 1..Len(t) /\ j - 1 > k
    BY <1>1, <1>2, <1>3, <1>4
  <2>2. s[i] = e /\ s[j] = t[j - 1]
    BY <1>3, <1>4, <2>1
  <2> QED BY <2>1, <2>2
<1>5. CASE j = k + 1
  <2>1. i <= k /\ ~(j <= k) /\ i \in 1..Len(t)
    BY <1>1, <1>2, <1>3, <1>5
  <2>2. s[i] = t[i] /\ s[j] = e
    BY <1>3, <1>5, <2>1
  <2> QED BY <2>1, <2>2
<1>6. CASE i # k + 1 /\ j # k + 1
  <2>1. PICK a \in 1..Len(t), b \in 1..Len(t) : a < b /\ s[i] = t[a] /\ s[j] = t[b]
    <3>1. CASE i <= k /\ j <= k
      <4>1. i \in 1..Len(t) /\ j \in 1..Len(t) /\ s[i] = t[i] /\ s[j] = t[j]
        BY <1>1, <1>3, <3>1
      <4> QED BY <1>2, <4>1
    <3>2. CASE i <= k /\ j > k
      <4>1. i \in 1..Len(t) /\ j - 1 \in 1..Len(t) /\ i < j - 1 /\ ~(j <= k)
        BY <1>1, <1>3, <1>6, <3>2
      <4>2. s[i] = t[i] /\ s[j] = t[j - 1]
        BY <1>3, <1>6, <3>2, <4>1
      <4> QED BY <4>1, <4>2
    <3>3. CASE i > k
      <4>1. /\ i - 1 \in 1..Len(t) /\ j - 1 \in 1..Len(t) /\ i - 1 < j - 1
            /\ ~(i <= k) /\ ~(j <= k)
        BY <1>1, <1>2, <1>3, <1>6, <3>3
      <4>2. s[i] = t[i - 1] /\ s[j] = t[j - 1]
        BY <1>3, <1>6, <4>1
      <4> QED BY <4>1, <4>2
    <3>4. i <= k \/ i > k
      BY <1>1
    <3>5. j <= k \/ j > k
      BY <1>1
    <3> QED BY <3>1, <3>2, <3>3, <3>4, <3>5
  <2> QED BY <2>1 DEF ErInOrder, TypedOnce
<1> QED BY <1>4, <1>5, <1>6

-----------------------------------------------------------------------------
(* The steps of a write.                                                   *)

(* ErIInv holds at the start.                                                *)
LEMMA CalmInit == ErInit => ErIInv
<1> SUFFICES ASSUME ErInit PROVE ErIInv
  OBVIOUS
<1>1. ErTypeOK
  BY ErTypeInit
<1>2. text = <<>> /\ Len(text) = 0 /\ 1..Len(text) = {} /\ sent = <<>> /\ Len(sent) = 0
      /\ 1..Len(sent) = {} /\ Range(sent) = {}
  <2>1. text = <<>> /\ sent = <<>>
    BY DEF ErInit
  <2> QED BY <2>1 DEF Range
<1>3. Exact
  BY <1>2 DEF Exact, OutputNow, ErInit
<1>4. ErInOrder(text) /\ TypedOnce(text)
  BY <1>2 DEF ErInOrder, TypedOnce
<1>5. WriterSafe
  BY <1>2 DEF WriterSafe, ErInit
<1>6. TypedSafe /\ ErOnce
  BY <1>2 DEF TypedSafe, ErOnce
<1>7. HandlerSafe
  BY <1>2 DEF HandlerSafe, ErInit
<1>8. (MaxOut + 1)..(MaxOut + typed) = {}
  BY CellsAre DEF ErInit
<1>9. Kept
  BY <1>8 DEF Kept
<1> QED BY <1>1, <1>3, <1>4, <1>5, <1>6, <1>7, <1>9 DEF ErIInv, Calm

(* write(): _output_end is read.                                           *)
LEMMA ReadPositionCalm ==
  ASSUME ErTypeOK, Calm, ReadPosition PROVE Calm' /\ OutputStays
<1>1. /\ writing = "idle" /\ register' = outputEnd /\ out' = out + 1 /\ writing' = "insert"
      /\ text' = text /\ outputEnd' = outputEnd /\ ui' = ui /\ command' = command
      /\ typed' = typed /\ sent' = sent /\ erased' = erased
  BY DEF ReadPosition, viewVars, uiVars, logVars
<1>2. OutputNow = outputEnd /\ OutputNow' = outputEnd
  <2>1. OutputNow = outputEnd + 0 /\ OutputNow' = outputEnd + 0 /\ outputEnd \in Nat
    BY <1>1 DEF OutputNow, ErTypeOK
  <2> QED BY <2>1
<1>3. Exact' /\ ErInOrder(text)' /\ TypedOnce(text)' /\ TypedSafe' /\ HandlerSafe' /\ ErOnce' /\ Kept'
  BY <1>1, <1>2 DEF Calm, Exact, ErInOrder, TypedOnce, TypedSafe, HandlerSafe, ErOnce, Kept
<1>4. ASSUME NEW i \in 1..Len(text), i > outputEnd PROVE text[i] \notin Output
  <2>1. CASE ui = "adjust"
    BY <1>4, <2>1, CellsAre DEF Calm, HandlerSafe
  <2>2. CASE ui # "adjust"
    BY <1>2, <1>4, <2>2, CellsAre DEF Calm, Exact
  <2> QED BY <2>1, <2>2
<1>5. ASSUME NEW i \in 1..Len(text), text[i] \in Output PROVE text[i] < out + 1
  <2>1. text[i] <= out /\ text[i] \in Nat /\ out \in Nat
    BY <1>5 DEF Calm, WriterSafe, ErTypeOK, Output
  <2> QED BY <2>1
<1>6. ASSUME NEW i \in 1..Len(text), text[i] \in Output PROVE text[i] <= out + 1
  <2>1. text[i] <= out /\ text[i] \in Nat /\ out \in Nat
    BY <1>6 DEF Calm, WriterSafe, ErTypeOK, Output
  <2> QED BY <2>1
<1>7. outputEnd <= outputEnd
  BY DEF ErTypeOK
<1>8. WriterSafe'
  BY <1>1, <1>4, <1>5, <1>6, <1>7 DEF WriterSafe
<1> QED BY <1>1, <1>3, <1>8 DEF Calm, OutputStays

(* write(): the output is inserted there.                                  *)
LEMMA InsertCalm ==
  ASSUME ErTypeOK, Calm, Insert PROVE Calm' /\ OutputStays
<1> DEFINE k == register
<1>1. /\ writing = "insert" /\ ui = "idle" /\ text' = Inserted(register, out)
      /\ writing' = "load" /\ outputEnd' = outputEnd /\ register' = register /\ out' = out
      /\ ui' = ui /\ command' = command /\ typed' = typed /\ sent' = sent /\ erased' = erased
  BY DEF Insert, uiVars, logVars
<1>2. /\ outputEnd \in Nat /\ OutputNow = outputEnd /\ OutputNow' = outputEnd + 1
      /\ Len(text) \in Nat /\ text \in Seq(Cells)
  <2>1. OutputNow = outputEnd + 0 /\ OutputNow' = outputEnd + 1 /\ outputEnd \in Nat
    BY <1>1 DEF OutputNow, ErTypeOK
  <2> QED BY <2>1, LenProperties DEF ErTypeOK
<1>3. outputEnd <= Len(text) /\ k <= outputEnd /\ k \in 0..Len(text) /\ register \in Int
  BY <1>1, <1>2 DEF Calm, Exact, WriterSafe, ErTypeOK
<1>4. Clip(register) = k
  BY <1>2, <1>3, ClipIs
<1>5. out \in Cells /\ out \notin Typed
  BY CellsAre DEF ErTypeOK
<1>6. /\ text' \in Seq(Cells) /\ Len(text') = Len(text) + 1
      /\ \A i \in 1..(Len(text) + 1) :
           text'[i] = IF i <= k THEN text[i] ELSE IF i = k + 1 THEN out ELSE text[i - 1]
      /\ Range(text') = Range(text) \cup {out}
  BY <1>1, <1>2, <1>3, <1>4, <1>5, InsertedIs
<1>7. ErInOrder(text') /\ TypedOnce(text')
  <2>1. /\ \A i \in 1..Len(text) : text[i] \in Output => text[i] < out
        /\ \A i \in 1..Len(text) : i > k => text[i] \notin Output
    BY <1>1 DEF Calm, WriterSafe
  <2>2. ErInOrder(text) /\ TypedOnce(text)
    BY DEF Calm
  <2> QED BY <1>2, <1>3, <1>5, <1>6, <2>1, <2>2, PutKeeps
<1>8. Exact'
  <2>1. ASSUME NEW i \in 1..Len(text'), i > outputEnd + 1 PROVE text'[i] \in Typed \ Range(sent)
    <3>1. i - 1 \in 1..Len(text) /\ i - 1 > outputEnd /\ ~(i <= k) /\ i # k + 1
          /\ i \in 1..(Len(text) + 1)
      BY <1>2, <1>3, <1>6, <2>1
    <3>2. text'[i] = text[i - 1]
      BY <1>6, <3>1
    <3>3. text[i - 1] \in Typed \ Range(sent)
      BY <1>1, <1>2, <3>1 DEF Calm, Exact
    <3> QED BY <3>2, <3>3
  <2>2. outputEnd + 1 <= Len(text')
    BY <1>2, <1>3, <1>6
  <2> QED BY <1>1, <1>2, <2>1, <2>2 DEF Exact
<1>9. ASSUME NEW i \in 1..Len(text') PROVE text'[i] \in Range(text) \/ text'[i] = out
  <2>1. text'[i] \in Range(text')
    BY <1>6, RangeIsPlaces
  <2> QED BY <1>6, <2>1
<1>10. ASSUME NEW c \in Range(text), c \in Output PROVE c <= out
  <2>1. PICK i \in 1..Len(text) : c = text[i]
    BY <1>2, RangeIsPlaces
  <2> QED BY <1>10, <2>1 DEF Calm, WriterSafe
<1>11. ASSUME NEW c \in Range(text), c \in Typed PROVE c <= MaxOut + typed
  <2>1. PICK i \in 1..Len(text) : c = text[i]
    BY <1>2, RangeIsPlaces
  <2> QED BY <1>11, <2>1 DEF Calm, TypedSafe
<1>12. WriterSafe'
  <2>1. out <= out
    BY DEF ErTypeOK
  <2>2. \A i \in 1..Len(text') : text'[i] \in Output => text'[i] <= out
    BY <1>9, <1>10, <2>1
  <2> QED BY <1>1, <2>2 DEF WriterSafe
<1>13. TypedSafe'
  <2>1. \A i \in 1..Len(text') : text'[i] \in Typed => text'[i] <= MaxOut + typed
    BY <1>5, <1>9, <1>11
  <2> QED BY <1>1, <2>1 DEF Calm, TypedSafe
<1>14. HandlerSafe' /\ ErOnce' /\ Kept'
  BY <1>1, <1>6 DEF Calm, HandlerSafe, ErOnce, Kept
<1>15. OutputStays
  BY <1>6 DEF OutputStays
<1> QED BY <1>7, <1>8, <1>12, <1>13, <1>14, <1>15 DEF Calm

(* write(): _output_end is read once more, for its increment.              *)
LEMMA LoadEndCalm ==
  ASSUME ErTypeOK, Calm, LoadEnd PROVE Calm' /\ OutputStays
<1>1. /\ writing = "load" /\ register' = outputEnd /\ writing' = "store" /\ out' = out
      /\ text' = text /\ outputEnd' = outputEnd /\ ui' = ui /\ command' = command
      /\ typed' = typed /\ sent' = sent /\ erased' = erased
  BY DEF LoadEnd, viewVars, uiVars, logVars
<1>2. OutputNow' = OutputNow
  BY <1>1 DEF OutputNow
<1>3. Exact' /\ ErInOrder(text)' /\ TypedOnce(text)' /\ TypedSafe' /\ HandlerSafe' /\ ErOnce' /\ Kept'
  BY <1>1, <1>2 DEF Calm, Exact, ErInOrder, TypedOnce, TypedSafe, HandlerSafe, ErOnce, Kept
<1>4. WriterSafe'
  BY <1>1 DEF Calm, WriterSafe
<1> QED BY <1>1, <1>3, <1>4 DEF Calm, OutputStays

(* write(): the increment is stored.                                       *)
LEMMA StoreEndCalm ==
  ASSUME ErTypeOK, Calm, StoreEnd PROVE Calm' /\ OutputStays
<1>1. /\ writing = "store" /\ outputEnd' = register + 1 /\ writing' = "idle" /\ out' = out
      /\ text' = text /\ ui' = ui /\ command' = command
      /\ typed' = typed /\ sent' = sent /\ erased' = erased
  BY DEF StoreEnd, viewVars, uiVars, logVars
<1>2. register = outputEnd /\ ui = "idle" /\ outputEnd \in Nat
  BY <1>1 DEF Calm, WriterSafe, ErTypeOK
<1>3. OutputNow' = OutputNow
  <2>1. OutputNow' = outputEnd' + 0 /\ OutputNow = outputEnd + 1
    BY <1>1 DEF OutputNow
  <2> QED BY <1>1, <1>2, <2>1
<1>4. Exact' /\ ErInOrder(text)' /\ TypedOnce(text)' /\ TypedSafe' /\ HandlerSafe' /\ ErOnce' /\ Kept'
  BY <1>1, <1>2, <1>3 DEF Calm, Exact, ErInOrder, TypedOnce, TypedSafe, HandlerSafe, ErOnce, Kept
<1>5. WriterSafe'
  BY <1>1, <1>2 DEF Calm, WriterSafe
<1> QED BY <1>1, <1>4, <1>5 DEF Calm, OutputStays

-----------------------------------------------------------------------------
(* The keys.                                                               *)

(* Where the main thread may look at the boundary without a race.           *)
LEMMA Still ==
  ASSUME ErTypeOK, Calm, ui = "idle", Racing = {}
  PROVE  /\ OutputNow = outputEnd /\ outputEnd \in 0..Len(text) /\ Len(text) \in Nat
         /\ text \in Seq(Cells) /\ outputEnd \in Int /\ Len(text) \in Int
         /\ writing \in {"idle", "insert"}
         /\ \A i \in 1..Len(text) : i > outputEnd => text[i] \in Typed \ Range(sent)
<1>1. writing \in {"idle", "insert"}
  BY DEF Racing, ErTypeOK
<1>2. OutputNow = outputEnd + 0 /\ outputEnd \in Nat
  BY <1>1 DEF OutputNow, ErTypeOK
<1>3. OutputNow = outputEnd /\ text \in Seq(Cells) /\ Len(text) \in Nat
  BY <1>2, LenProperties DEF ErTypeOK
<1>4. outputEnd <= Len(text)
  BY <1>3 DEF Calm, Exact
<1>5. outputEnd \in 0..Len(text) /\ outputEnd \in Int /\ Len(text) \in Int
  BY <1>2, <1>3, <1>4
<1>6. \A i \in 1..Len(text) : i > outputEnd => text[i] \in Typed \ Range(sent)
  BY <1>3 DEF Calm, Exact
<1> QED BY <1>1, <1>3, <1>5, <1>6

(* The text without the input: it has all output, in order.                 *)
LEMMA InputGone ==
  ASSUME ErTypeOK, Calm, ui = "idle", Racing = {}
  PROVE  LET s == Without(outputEnd, Len(text)) IN
         /\ s \in Seq(Cells) /\ Len(s) = outputEnd
         /\ \A i \in 1..outputEnd : s[i] = text[i] /\ i \in 1..Len(text)
         /\ ErInOrder(s) /\ TypedOnce(s)
         /\ Range(text) = Range(s) \cup Range(InputRegion)
         /\ Range(text) \cap Output \subseteq Range(s)
<1> DEFINE s == Without(outputEnd, Len(text))
           n == Len(text)
<1>1. /\ outputEnd \in 0..n /\ n \in Nat /\ text \in Seq(Cells) /\ outputEnd \in Int /\ n \in Int
      /\ \A i \in 1..n : i > outputEnd => text[i] \in Typed \ Range(sent)
  BY Still
<1>2. From(outputEnd, n) = outputEnd /\ To(outputEnd, n) = n
  <2>1. n \in outputEnd..n
    BY <1>1
  <2> QED BY <1>1, <2>1, RegionIs
<1>3. /\ s \in Seq(Cells) /\ Len(s) = n - (n - outputEnd)
      /\ \A i \in 1..(n - (n - outputEnd)) :
           s[i] = IF i <= outputEnd THEN text[i] ELSE text[i + (n - outputEnd)]
      /\ Range(text) = Range(s) \cup Range(InputRegion)
      /\ Range(InputRegion) = Between(text, outputEnd + 1, n)
  <2> DEFINE f == From(outputEnd, n)
             u == To(outputEnd, n)
  <2>1. s \in Seq(Cells) /\ Len(s) = n - (u - f)
    BY <1>1, WithoutIs
  <2>2. \A i \in 1..(n - (u - f)) : s[i] = IF i <= f THEN text[i] ELSE text[i + (u - f)]
    BY <1>1, WithoutIs
  <2>3. /\ Range(text) = Range(s) \cup Range(InputRegion)
        /\ Range(InputRegion) = Between(text, f + 1, u)
    BY <1>1, WithoutIs DEF InputRegion
  <2> HIDE DEF f, u, s
  <2>4. f = outputEnd /\ u = n
    BY <1>2 DEF f, u
  <2> QED BY <2>1, <2>2, <2>3, <2>4
<1> HIDE DEF s
<1>4. n - (n - outputEnd) = outputEnd /\ \A i \in 1..outputEnd : i <= outputEnd /\ i \in 1..n
  BY <1>1
<1>5. Len(s) = outputEnd /\ \A i \in 1..outputEnd : s[i] = text[i] /\ i \in 1..n
  BY <1>3, <1>4
<1>6. ErInOrder(s) /\ TypedOnce(s)
  <2>1. ErInOrder(text) /\ TypedOnce(text)
    BY DEF Calm
  <2>2. n - outputEnd \in Nat /\ Len(s) + (n - outputEnd) = n
    BY <1>1, <1>5
  <2>3. \A i \in 1..Len(s) : s[i] = IF i <= outputEnd THEN text[i] ELSE text[i + (n - outputEnd)]
    BY <1>3, <1>4, <1>5
  <2> QED BY <1>1, <1>3, <2>1, <2>2, <2>3, CutKeeps
<1>7. Range(InputRegion) \cap Output = {}
  <2>1. \A i \in (outputEnd + 1)..n : i \in 1..n /\ i > outputEnd
    BY <1>1
  <2>2. \A i \in (outputEnd + 1)..n : text[i] \notin Output
    BY <1>1, <2>1, CellsAre
  <2> QED BY <1>3, <2>2 DEF Between
<1>8. Range(text) \cap Output \subseteq Range(s)
  BY <1>3, <1>7
<1> QED BY <1>3, <1>5, <1>6, <1>8 DEF s

(* Erasing the input takes none of the output with it.                     *)
LEMMA EraseCalm ==
  ASSUME ErTypeOK, Calm, ui = "idle", EraseInput, upset' = {}, ui' \in {"idle", "clear"},
         UNCHANGED <<outputEnd, writing, register, out, command, typed, sent>>
  PROVE  Calm' /\ OutputStays
<1>1. /\ text' = Without(outputEnd, Len(text)) /\ Racing = {}
      /\ erased' = erased \cup Range(InputRegion)
      /\ outputEnd' = outputEnd /\ writing' = writing /\ register' = register /\ out' = out
      /\ command' = command /\ typed' = typed /\ sent' = sent
  BY DEF EraseInput
<1>2. /\ OutputNow = outputEnd /\ outputEnd \in Nat /\ writing \in {"idle", "insert"}
  BY <1>1, Still
<1>3. /\ text' \in Seq(Cells) /\ Len(text') = outputEnd
      /\ \A i \in 1..outputEnd : text'[i] = text[i] /\ i \in 1..Len(text)
      /\ ErInOrder(text') /\ TypedOnce(text')
      /\ Range(text) = Range(text') \cup Range(InputRegion)
      /\ Range(text) \cap Output \subseteq Range(text')
  BY <1>1, InputGone
<1>4. OutputNow' = outputEnd
  <2>1. OutputNow' = outputEnd + 0
    BY <1>1, <1>2 DEF OutputNow
  <2> QED BY <1>2, <2>1
<1>5. Exact'
  <2>1. outputEnd <= outputEnd /\ \A i \in 1..outputEnd : ~(i > outputEnd)
    BY <1>2
  <2> QED BY <1>3, <1>4, <2>1 DEF Exact
<1>6. WriterSafe'
  BY <1>1, <1>2, <1>3 DEF Calm, WriterSafe
<1>7. TypedSafe'
  BY <1>1, <1>3 DEF Calm, TypedSafe
<1>8. HandlerSafe'
  BY <1>1, <1>3 DEF Calm, HandlerSafe
<1>9. ErOnce' /\ Kept'
  BY <1>1, <1>3 DEF Calm, ErOnce, Kept
<1> QED BY <1>3, <1>5, <1>6, <1>7, <1>8, <1>9 DEF Calm, OutputStays

(* escape() erases the input.                                              *)
LEMMA EscapeCalm ==
  ASSUME ErTypeOK, Calm, Escape, upset' = {} PROVE Calm' /\ OutputStays
<1>1. /\ ui = "idle" /\ ui' = ui /\ EraseInput
      /\ UNCHANGED <<outputEnd, writing, register, out, command, typed, sent>>
  BY DEF Escape, KeysIdle, writerVars
<1> QED BY <1>1, EraseCalm

(* clear() erases the input first.                                         *)
LEMMA BeginClearCalm ==
  ASSUME ErTypeOK, Calm, BeginClear, upset' = {} PROVE Calm' /\ OutputStays
<1>1. /\ ui = "idle" /\ ui' = "clear" /\ EraseInput
      /\ UNCHANGED <<outputEnd, writing, register, out, command, typed, sent>>
  BY DEF BeginClear, KeysIdle, writerVars
<1> QED BY <1>1, EraseCalm

(* The cursor's place is no part of the invariant.                         *)
LEMMA MoveCursorCalm ==
  ASSUME ErTypeOK, Calm, MoveCursor PROVE Calm' /\ OutputStays
<1>1. /\ text' = text /\ outputEnd' = outputEnd /\ writing' = writing /\ register' = register
      /\ out' = out /\ ui' = ui /\ command' = command /\ typed' = typed /\ sent' = sent
      /\ erased' = erased
  BY DEF MoveCursor, writerVars, uiVars, logVars
<1>2. OutputNow' = OutputNow
  BY <1>1 DEF OutputNow
<1>3. Exact' /\ ErInOrder(text)' /\ TypedOnce(text)' /\ WriterSafe' /\ TypedSafe' /\ HandlerSafe'
      /\ ErOnce' /\ Kept'
  BY <1>1, <1>2
  DEF Calm, Exact, ErInOrder, TypedOnce, WriterSafe, TypedSafe, HandlerSafe, ErOnce, Kept
<1> QED BY <1>1, <1>3 DEF Calm, OutputStays

(* A typed cell goes behind the output, where the cursor may be.           *)
LEMMA TypeCalm ==
  ASSUME ErTypeOK, Calm, Type, upset' = {} PROVE Calm' /\ OutputStays
<1> DEFINE v == MaxOut + typed + 1
           k == cursor
           n == Len(text)
<1>1. /\ ui = "idle" /\ typed < MaxTyped /\ typed' = typed + 1 /\ text' = Inserted(cursor, v)
      /\ outputEnd' = outputEnd /\ writing' = writing /\ register' = register /\ out' = out
      /\ ui' = ui /\ command' = command /\ sent' = sent /\ erased' = erased
  BY DEF Type, KeysIdle, writerVars, logVars
<1>2. ~(cursor < OutputNow)
  BY DEF Type
<1>3. /\ n \in Nat /\ text \in Seq(Cells) /\ k \in 0..n /\ k \in Int /\ typed \in 0..MaxTyped
      /\ OutputNow \in Nat /\ outputEnd \in Nat /\ out \in Nat
  BY LenProperties DEF ErTypeOK, OutputNow
<1>4. k >= OutputNow /\ OutputNow >= outputEnd /\ OutputNow <= n
  BY <1>2, <1>3 DEF OutputNow, Calm, Exact
<1>5. v \in Cells /\ v \in Typed /\ v \notin Output /\ MaxOut \in Nat /\ typed \in Nat
  <2>1. v \in Cells /\ v \in Typed /\ v \notin Output
    BY <1>1, <1>3, CellsAre
  <2> QED BY <1>3, <2>1, CellsAre
<1>6. OutputNow' = OutputNow
  BY <1>1 DEF OutputNow
<1>7. Clip(cursor) = k
  BY <1>3, ClipIs
<1>8. text' \in Seq(Cells) /\ Len(text') = n + 1 /\ Range(text') = Range(text) \cup {v}
  BY <1>1, <1>3, <1>5, InsertedIs
<1>9. \A i \in 1..(n + 1) :
        text'[i] = IF i <= k THEN text[i] ELSE IF i = k + 1 THEN v ELSE text[i - 1]
  BY <1>1, <1>3, <1>5, <1>7, InsertedIs
<1> HIDE DEF v
<1>10. /\ \A i \in 1..n : text[i] \in Typed => text[i] <= MaxOut + typed
       /\ \A c \in Range(sent) : c \in Typed => c <= MaxOut + typed
  BY DEF Calm, TypedSafe
<1>11. ~(v <= MaxOut + typed) /\ v <= MaxOut + (typed + 1)
  BY <1>5 DEF v
<1>12. v \notin Range(sent) /\ \A i \in 1..n : text[i] # v
  BY <1>5, <1>10, <1>11
<1>13. ErInOrder(text') /\ TypedOnce(text')
  <2>1. ErInOrder(text) /\ TypedOnce(text)
    BY DEF Calm
  <2> QED BY <1>3, <1>5, <1>8, <1>9, <1>12, <2>1, PutKeeps
<1>14. Exact'
  <2>1. ASSUME NEW i \in 1..Len(text'), i > OutputNow PROVE text'[i] \in Typed \ Range(sent)
    <3>0. i \in 1..(n + 1)
      BY <1>8
    <3>1. CASE i <= k
      <4>1. i \in 1..n /\ text'[i] = text[i]
        BY <1>3, <1>9, <3>0, <3>1
      <4> QED BY <1>1, <2>1, <4>1 DEF Calm, Exact
    <3>2. CASE i = k + 1
      <4>1. ~(i <= k)
        BY <1>3, <3>2
      <4>2. text'[i] = v
        BY <1>9, <3>0, <3>2, <4>1
      <4> QED BY <1>5, <1>12, <4>2
    <3>3. CASE i > k + 1
      <4>1. i - 1 \in 1..n /\ i - 1 > OutputNow /\ ~(i <= k) /\ i # k + 1
        BY <1>3, <1>4, <3>0, <3>3
      <4>2. text'[i] = text[i - 1]
        BY <1>9, <3>0, <4>1
      <4> QED BY <1>1, <4>1, <4>2 DEF Calm, Exact
    <3> QED BY <1>3, <3>0, <3>1, <3>2, <3>3
  <2>2. OutputNow <= n + 1
    BY <1>3, <1>4
  <2> QED BY <1>1, <1>6, <1>8, <2>1, <2>2 DEF Exact
<1>15. ASSUME NEW i \in 1..Len(text'), text'[i] \in Output
       PROVE \E j \in 1..n : j <= i /\ text'[i] = text[j] /\ (i > k => j > k)
  <2>0. i \in 1..(n + 1)
    BY <1>8
  <2>1. CASE i <= k
    <3>1. i \in 1..n /\ text'[i] = text[i] /\ i <= i
      BY <1>3, <1>9, <2>0, <2>1
    <3> QED BY <1>3, <2>0, <2>1, <3>1
  <2>2. CASE i = k + 1
    <3>1. ~(i <= k)
      BY <1>3, <2>2
    <3>2. text'[i] = v
      BY <1>9, <2>0, <2>2, <3>1
    <3> QED BY <1>5, <1>15, <3>2
  <2>3. CASE i > k + 1
    <3>1. i - 1 \in 1..n /\ i - 1 > k /\ i - 1 <= i /\ ~(i <= k) /\ i # k + 1
      BY <1>3, <2>0, <2>3
    <3>2. text'[i] = text[i - 1]
      BY <1>9, <2>0, <3>1
    <3> QED BY <3>1, <3>2
  <2> QED BY <1>3, <2>0, <2>1, <2>2, <2>3
<1>16. WriterSafe'
  <2>1. ASSUME writing = "insert", NEW i \in 1..Len(text'), i > register
        PROVE text'[i] \notin Output
    <3>1. SUFFICES ASSUME text'[i] \in Output PROVE FALSE
      OBVIOUS
    <3>2. PICK j \in 1..n : j <= i /\ text'[i] = text[j] /\ (i > k => j > k)
      BY <1>15, <3>1
    <3>3. register <= outputEnd /\ register \in Nat /\ i \in Nat /\ j \in Nat
      BY <2>1 DEF Calm, WriterSafe, ErTypeOK
    <3>4. j > register
      <4>1. CASE i > k
        BY <1>3, <1>4, <3>2, <3>3, <4>1
      <4>2. CASE i <= k
        <5>1. i \in 1..n /\ text'[i] = text[i]
          BY <1>3, <1>8, <1>9, <3>3, <4>2
        <5> QED BY <2>1, <3>1, <5>1 DEF Calm, WriterSafe
      <4> QED BY <1>3, <3>3, <4>1, <4>2
    <3> QED BY <2>1, <3>1, <3>2, <3>4 DEF Calm, WriterSafe
  <2>2. \A i \in 1..Len(text') : text'[i] \in Output => text'[i] <= out
    BY <1>15 DEF Calm, WriterSafe
  <2>3. writing = "insert" => \A i \in 1..Len(text') : text'[i] \in Output => text'[i] < out
    BY <1>15 DEF Calm, WriterSafe
  <2>4. /\ writing \in {"load", "store"} => ui = "idle"
        /\ writing = "insert" => register <= outputEnd
        /\ writing = "store" => register = outputEnd
    BY DEF Calm, WriterSafe
  <2> QED BY <1>1, <2>1, <2>2, <2>3, <2>4 DEF WriterSafe
<1>17. TypedSafe'
  <2>1. ASSUME NEW c, c \in Typed, c <= MaxOut + typed PROVE c <= MaxOut + (typed + 1)
    <3>1. c \in Nat
      BY <2>1, CellsAre DEF Cells
    <3> QED BY <1>5, <2>1, <3>1
  <2>2. ASSUME NEW i \in 1..Len(text'), text'[i] \in Typed PROVE text'[i] <= MaxOut + (typed + 1)
    <3>1. CASE text'[i] = v
      BY <1>11, <3>1
    <3>2. CASE text'[i] # v
      <4>1. text'[i] \in Range(text)
        BY <1>8, <3>2, RangeIsPlaces
      <4>2. PICK j \in 1..n : text'[i] = text[j]
        BY <1>3, <4>1, RangeIsPlaces
      <4> QED BY <1>10, <2>1, <2>2, <4>2
    <3> QED BY <3>1, <3>2
  <2> QED BY <1>1, <1>10, <2>1, <2>2 DEF TypedSafe
<1>18. HandlerSafe' /\ ErOnce'
  BY <1>1 DEF Calm, HandlerSafe, ErOnce
<1>19. Kept'
  <2>1. \A c \in (MaxOut + 1)..(MaxOut + (typed + 1)) :
          c \in (MaxOut + 1)..(MaxOut + typed) \/ c = MaxOut + typed + 1
    BY <1>5
  <2>2. \A c \in (MaxOut + 1)..(MaxOut + (typed + 1)) :
          c \in (MaxOut + 1)..(MaxOut + typed) \/ c = v
    BY <2>1 DEF v
  <2> QED BY <1>1, <1>8, <2>2 DEF Calm, Kept
<1>20. OutputStays
  BY <1>8 DEF OutputStays
<1> QED BY <1>13, <1>14, <1>16, <1>17, <1>18, <1>19, <1>20 DEF Calm

(* Backspace takes a cell of the input at most.                            *)
LEMMA BackspaceCalm ==
  ASSUME ErTypeOK, Calm, Backspace, upset' = {} PROVE Calm' /\ OutputStays
<1> DEFINE n == Len(text)
           f == cursor - 1
           gone == Substr(cursor - 1, cursor)
<1>1. /\ ui = "idle" /\ Racing = {} /\ text' = Without(cursor - 1, cursor)
      /\ erased' = erased \cup Range(gone) /\ cursor > outputEnd
      /\ outputEnd' = outputEnd /\ writing' = writing /\ register' = register /\ out' = out
      /\ ui' = ui /\ command' = command /\ typed' = typed /\ sent' = sent
  BY DEF Backspace, KeysIdle, writerVars, uiVars
<1>2. /\ OutputNow = outputEnd /\ outputEnd \in 0..n /\ n \in Nat /\ text \in Seq(Cells)
      /\ writing \in {"idle", "insert"}
      /\ \A i \in 1..n : i > outputEnd => text[i] \in Typed \ Range(sent)
  BY <1>1, Still
<1>3. /\ cursor \in 1..n /\ f \in 0..n /\ cursor \in Int /\ f \in Int /\ cursor \in f..n
      /\ outputEnd <= f /\ cursor - f = 1 /\ f + 1 = cursor
  BY <1>1, <1>2 DEF ErTypeOK
<1>4. From(f, cursor) = f /\ To(f, cursor) = cursor
  BY <1>2, <1>3, RegionIs
<1>5. /\ text' \in Seq(Cells) /\ Len(text') = n - 1
      /\ \A i \in 1..(n - 1) : text'[i] = IF i <= f THEN text[i] ELSE text[i + 1]
      /\ Range(text) = Range(text') \cup Range(gone)
      /\ Range(gone) = Between(text, cursor, cursor)
  <2> DEFINE a == From(f, cursor)
             b == To(f, cursor)
             s == Without(f, cursor)
  <2>1. s \in Seq(Cells) /\ Len(s) = n - (b - a)
    BY <1>2, <1>3, WithoutIs
  <2>2. \A i \in 1..(n - (b - a)) : s[i] = IF i <= a THEN text[i] ELSE text[i + (b - a)]
    BY <1>2, <1>3, WithoutIs
  <2>3. /\ Range(text) = Range(s) \cup Range(gone)
        /\ Range(gone) = Between(text, a + 1, b)
    BY <1>2, <1>3, WithoutIs
  <2> HIDE DEF a, b, s, f
  <2>4. a = f /\ b = cursor /\ b - a = 1 /\ a + 1 = cursor
    BY <1>3, <1>4 DEF a, b
  <2>5. text' = s
    BY <1>1 DEF s, f
  <2> QED BY <2>1, <2>2, <2>3, <2>4, <2>5
<1> HIDE DEF f, gone
<1>6. ErInOrder(text') /\ TypedOnce(text')
  <2>1. ErInOrder(text) /\ TypedOnce(text)
    BY DEF Calm
  <2>2. 1 \in Nat /\ Len(text') + 1 = n
    BY <1>2, <1>5
  <2>3. \A i \in 1..Len(text') : text'[i] = IF i <= f THEN text[i] ELSE text[i + 1]
    BY <1>5
  <2> QED BY <1>2, <1>3, <1>5, <2>1, <2>2, <2>3, CutKeeps
<1>7. Range(gone) \cap Output = {}
  <2>1. \A i \in cursor..cursor : i \in 1..n /\ i > outputEnd
    BY <1>2, <1>3
  <2>2. \A i \in cursor..cursor : text[i] \notin Output
    BY <1>2, <2>1, CellsAre
  <2> QED BY <1>5, <2>2 DEF Between
<1>8. ASSUME NEW i \in 1..Len(text')
      PROVE \E j \in 1..n : i <= j /\ text'[i] = text[j]
  <2>1. CASE i <= f
    <3>1. i \in 1..n /\ i <= i /\ i \in 1..(n - 1)
      BY <1>2, <1>5
    <3>2. text'[i] = text[i]
      BY <1>5, <2>1, <3>1
    <3> QED BY <3>1, <3>2
  <2>2. CASE ~(i <= f)
    <3>1. i + 1 \in 1..n /\ i <= i + 1 /\ i \in 1..(n - 1)
      BY <1>2, <1>5
    <3>2. text'[i] = text[i + 1]
      BY <1>5, <2>2, <3>1
    <3> QED BY <3>1, <3>2
  <2> QED BY <2>1, <2>2
<1>9. OutputNow' = outputEnd
  <2>1. OutputNow' = outputEnd + 0
    BY <1>1, <1>2 DEF OutputNow
  <2> QED BY <1>2, <2>1
<1>10. Exact'
  <2>1. outputEnd <= n - 1
    BY <1>2, <1>3
  <2>2. ASSUME NEW i \in 1..Len(text'), i > outputEnd PROVE text'[i] \in Typed \ Range(sent)
    <3>1. PICK j \in 1..n : i <= j /\ text'[i] = text[j]
      BY <1>8
    <3>2. j > outputEnd
      BY <1>2, <2>2, <3>1
    <3> QED BY <1>2, <3>1, <3>2
  <2> QED BY <1>1, <1>5, <1>9, <2>1, <2>2 DEF Exact
<1>11. WriterSafe'
  <2>1. ASSUME writing = "insert", NEW i \in 1..Len(text'), i > register
        PROVE text'[i] \notin Output
    <3>1. PICK j \in 1..n : i <= j /\ text'[i] = text[j]
      BY <1>8
    <3>2. j > register
      BY <1>2, <2>1, <3>1 DEF ErTypeOK
    <3> QED BY <2>1, <3>1, <3>2 DEF Calm, WriterSafe
  <2>2. /\ \A i \in 1..Len(text') : text'[i] \in Output => text'[i] <= out
        /\ writing = "insert" => \A i \in 1..Len(text') : text'[i] \in Output => text'[i] < out
    BY <1>8 DEF Calm, WriterSafe
  <2>3. /\ writing = "insert" => register <= outputEnd
        /\ writing = "store" => register = outputEnd
    BY DEF Calm, WriterSafe
  <2> QED BY <1>1, <2>1, <2>2, <2>3 DEF WriterSafe
<1>12. TypedSafe'
  <2>1. \A i \in 1..Len(text') : text'[i] \in Typed => text'[i] <= MaxOut + typed
    BY <1>8 DEF Calm, TypedSafe
  <2> QED BY <1>1, <2>1 DEF Calm, TypedSafe
<1>13. HandlerSafe' /\ ErOnce'
  BY <1>1 DEF Calm, HandlerSafe, ErOnce
<1>14. Kept'
  BY <1>1, <1>5 DEF Calm, Kept
<1>15. OutputStays
  BY <1>5, <1>7 DEF OutputStays
<1> QED BY <1>6, <1>10, <1>11, <1>12, <1>13, <1>14, <1>15 DEF Calm

(* A recalled command stands where the input stood.                        *)
LEMMA RecallTextCalm ==
  ASSUME ErTypeOK, Calm, RecallText, upset' = {} PROVE Calm' /\ OutputStays
<1> DEFINE v == MaxOut + typed + 1
           s == Without(outputEnd, Len(text))
           m == outputEnd
<1>1. /\ ui = "idle" /\ Racing = {} /\ typed < MaxTyped /\ typed' = typed + 1
      /\ text' = Append(s, v) /\ erased' = erased \cup Range(InputRegion)
      /\ outputEnd' = outputEnd /\ writing' = writing /\ register' = register /\ out' = out
      /\ ui' = ui /\ command' = command /\ sent' = sent
  BY DEF RecallText, KeysIdle, writerVars
<1>2. OutputNow = m /\ m \in 0..Len(text) /\ m \in Nat /\ writing \in {"idle", "insert"}
  BY <1>1, Still
<1>3. /\ s \in Seq(Cells) /\ Len(s) = m
      /\ \A i \in 1..m : s[i] = text[i] /\ i \in 1..Len(text)
      /\ ErInOrder(s) /\ TypedOnce(s)
      /\ Range(text) = Range(s) \cup Range(InputRegion)
      /\ Range(text) \cap Output \subseteq Range(s)
  BY <1>1, InputGone
<1>4. v \in Cells /\ v \in Typed /\ v \notin Output
  <2>1. typed \in 0..MaxTyped
    BY DEF ErTypeOK
  <2> QED BY <1>1, <2>1, CellsAre
<1>5. MaxOut \in Nat /\ typed \in Nat
  BY CellsAre DEF ErTypeOK
<1> HIDE DEF v, s
<1>6. text' \in Seq(Cells) /\ Len(text') = m + 1 /\ Range(text') = Range(s) \cup {v}
  BY <1>1, <1>3, <1>4, AppendIs
<1>7. \A i \in 1..(m + 1) : text'[i] = IF i <= m THEN s[i] ELSE v
  BY <1>1, <1>3, <1>4, AppendIs
<1>8. ~(v <= MaxOut + typed) /\ v <= MaxOut + (typed + 1)
  BY <1>5 DEF v
<1>9. /\ \A i \in 1..Len(text) : text[i] \in Typed => text[i] <= MaxOut + typed
      /\ \A c \in Range(sent) : c \in Typed => c <= MaxOut + typed
  BY DEF Calm, TypedSafe
<1>10. v \notin Range(sent) /\ \A i \in 1..m : s[i] # v
  BY <1>3, <1>4, <1>8, <1>9
<1>11. ErInOrder(text') /\ TypedOnce(text')
  <2>1. m \in 0..Len(s) /\ Len(text') = Len(s) + 1
    BY <1>2, <1>3, <1>6
  <2>2. \A i \in 1..(Len(s) + 1) :
          text'[i] = IF i <= m THEN s[i] ELSE IF i = m + 1 THEN v ELSE s[i - 1]
    <3>1. \A i \in 1..(m + 1) : ~(i <= m) => i = m + 1
      BY <1>2
    <3> QED BY <1>3, <1>7, <3>1
  <2>3. \A i \in 1..Len(s) : s[i] # v
    BY <1>3, <1>10
  <2> QED BY <1>3, <1>4, <1>6, <2>1, <2>2, <2>3, PutKeeps
<1>12. ASSUME NEW i \in 1..Len(text')
       PROVE (i <= m /\ i \in 1..Len(text) /\ text'[i] = text[i]) \/ (i > m /\ text'[i] = v)
  <2>1. i \in 1..(m + 1) /\ (i <= m \/ i > m) /\ (i > m => ~(i <= m)) /\ (i <= m => i \in 1..m)
    BY <1>2, <1>6
  <2> QED BY <1>3, <1>7, <2>1
<1>13. OutputNow' = m
  <2>1. OutputNow' = m + 0
    BY <1>1, <1>2 DEF OutputNow
  <2> QED BY <1>2, <2>1
<1>14. Exact'
  <2>1. m <= m + 1 /\ \A i \in 1..Len(text') : i > m => ~(i <= m)
    BY <1>2, <1>6
  <2>2. \A i \in 1..Len(text') : i > m => text'[i] \in Typed \ Range(sent)
    BY <1>4, <1>10, <1>12, <2>1
  <2> QED BY <1>1, <1>6, <1>13, <2>1, <2>2 DEF Exact
<1>15. WriterSafe'
  <2>1. \A i \in 1..Len(text') :
          text'[i] \in Output => i \in 1..Len(text) /\ text'[i] = text[i]
    BY <1>4, <1>12
  <2> QED BY <1>1, <1>2, <2>1 DEF Calm, WriterSafe
<1>16. TypedSafe'
  <2>1. ASSUME NEW c, c \in Typed, c <= MaxOut + typed PROVE c <= MaxOut + (typed + 1)
    <3>1. c \in Nat
      BY <2>1, CellsAre DEF Cells
    <3> QED BY <1>5, <2>1, <3>1
  <2>2. \A i \in 1..Len(text') : text'[i] \in Typed => text'[i] <= MaxOut + (typed + 1)
    BY <1>8, <1>9, <1>12, <2>1
  <2> QED BY <1>1, <1>9, <2>1, <2>2 DEF TypedSafe
<1>17. HandlerSafe' /\ ErOnce'
  BY <1>1 DEF Calm, HandlerSafe, ErOnce
<1>18. Kept'
  <2>1. \A c \in (MaxOut + 1)..(MaxOut + (typed + 1)) :
          c \in (MaxOut + 1)..(MaxOut + typed) \/ c = MaxOut + typed + 1
    BY <1>5
  <2>2. \A c \in (MaxOut + 1)..(MaxOut + (typed + 1)) :
          c \in (MaxOut + 1)..(MaxOut + typed) \/ c = v
    BY <2>1 DEF v
  <2> QED BY <1>1, <1>3, <1>6, <2>2 DEF Calm, Kept
<1>19. OutputStays
  BY <1>3, <1>6 DEF OutputStays
<1> QED BY <1>11, <1>14, <1>15, <1>16, <1>17, <1>18, <1>19 DEF Calm

(* enter() takes the input as it is.                                       *)
LEMMA BeginEnterCalm ==
  ASSUME ErTypeOK, Calm, BeginEnter, upset' = {} PROVE Calm' /\ OutputStays
<1> DEFINE n == Len(text)
           m == outputEnd
<1>1. /\ ui = "idle" /\ Racing = {} /\ ui' = "adjust"
      /\ outputEnd' = m /\ writing' = writing /\ register' = register /\ out' = out
      /\ typed' = typed /\ sent' = sent /\ erased' = erased
  BY DEF BeginEnter, KeysIdle, writerVars, logVars
<1>2. /\ OutputNow = m /\ m \in 0..n /\ n \in Nat /\ text \in Seq(Cells)
      /\ writing \in {"idle", "insert"}
      /\ \A i \in 1..n : i > m => text[i] \in Typed \ Range(sent)
  BY <1>1, Still
<1>3. PICK all \in {text, Append(text, Postfix)} :
        text' = all /\ command' = SubSeq(all, Least(m, Len(all)) + 1, Len(all))
  BY DEF BeginEnter
<1>4. Postfix \in Cells /\ Postfix \notin Output /\ Postfix \notin Typed
  BY CellsAre
<1>5. /\ text' \in Seq(Cells) /\ Len(text') \in {n, n + 1} /\ Len(text') \in Nat
      /\ Range(text) \subseteq Range(text') /\ Range(text') \subseteq Range(text) \cup {Postfix}
  <2>1. CASE all = text
    BY <1>2, <1>3, <2>1
  <2>2. CASE all = Append(text, Postfix)
    <3>1. /\ text' \in Seq(Cells) /\ Len(text') = n + 1
          /\ Range(text') = Range(text) \cup {Postfix}
      BY <1>2, <1>3, <1>4, <2>2, AppendIs
    <3> QED BY <1>2, <3>1
  <2> QED BY <1>3, <2>1, <2>2
<1>6. /\ \A i \in 1..n : i \in 1..Len(text') /\ text'[i] = text[i]
      /\ \A i \in 1..Len(text') : i \in 1..n \/ (i = n + 1 /\ i = Len(text') /\ text'[i] = Postfix)
  <2>1. CASE all = text
    BY <1>3, <2>1
  <2>2. CASE all = Append(text, Postfix)
    <3>1. /\ Len(text') = n + 1
          /\ \A i \in 1..(n + 1) : text'[i] = IF i <= n THEN text[i] ELSE Postfix
      BY <1>2, <1>3, <1>4, <2>2, AppendIs
    <3>2. \A i \in 1..n : i \in 1..(n + 1) /\ i <= n
      BY <1>2
    <3>3. \A i \in 1..(n + 1) : i \in 1..n \/ (i = n + 1 /\ ~(i <= n))
      BY <1>2
    <3> QED BY <3>1, <3>2, <3>3
  <2> QED BY <1>3, <2>1, <2>2
<1>7. ASSUME NEW i \in 1..Len(text') PROVE (i \in 1..n /\ text'[i] = text[i]) \/ text'[i] = Postfix
  BY <1>6
<1>8. ErInOrder(text') /\ TypedOnce(text')
  <2>1. CASE all = text
    BY <1>3, <2>1 DEF Calm
  <2>2. CASE all = Append(text, Postfix)
    <3>1. /\ Len(text') = n + 1
          /\ \A i \in 1..(n + 1) : text'[i] = IF i <= n THEN text[i] ELSE Postfix
      BY <1>2, <1>3, <1>4, <2>2, AppendIs
    <3>2. n \in 0..n /\ \A i \in 1..(n + 1) : ~(i <= n) => i = n + 1
      BY <1>2
    <3>3. \A i \in 1..(n + 1) :
            text'[i] = IF i <= n THEN text[i] ELSE IF i = n + 1 THEN Postfix ELSE text[i - 1]
      BY <3>1, <3>2
    <3>4. ErInOrder(text) /\ TypedOnce(text)
      BY DEF Calm
    <3> QED BY <1>2, <1>4, <1>5, <3>1, <3>2, <3>3, <3>4, PutKeeps
  <2> QED BY <1>3, <2>1, <2>2
<1>9. m <= Len(text') /\ Least(m, Len(text')) = m
  BY <1>2, <1>5 DEF Least
<1>10. OutputNow' = m
  <2>1. OutputNow' = m + 0
    BY <1>1, <1>2 DEF OutputNow
  <2> QED BY <1>2, <2>1
<1>11. Exact'
  BY <1>1, <1>9, <1>10 DEF Exact
<1>12. WriterSafe'
  <2>1. \A i \in 1..Len(text') : text'[i] \in Output => i \in 1..n /\ text'[i] = text[i]
    BY <1>4, <1>7
  <2> QED BY <1>1, <1>2, <2>1 DEF Calm, WriterSafe
<1>13. TypedSafe'
  <2>1. \A i \in 1..Len(text') : text'[i] \in Typed => i \in 1..n /\ text'[i] = text[i]
    BY <1>4, <1>7
  <2> QED BY <1>1, <2>1 DEF Calm, TypedSafe
<1>14. HandlerSafe'
  <2>1. command' = SubSeq(text', m + 1, Len(text'))
    BY <1>3, <1>9
  <2>2. ASSUME NEW i \in 1..Len(text'), i > m
        PROVE text'[i] \in Typed \ Range(sent) \/ (text'[i] = Postfix /\ i = Len(text'))
    BY <1>2, <1>6, <2>2
  <2> QED BY <1>1, <2>1, <2>2 DEF HandlerSafe
<1>15. ErOnce'
  BY <1>1 DEF Calm, ErOnce
<1>16. Kept'
  <2>1. command = <<>> /\ Range(command) = {}
    <3>1. command = <<>>
      BY <1>1 DEF Calm, HandlerSafe
    <3> QED BY <3>1 DEF Range
  <2> QED BY <1>1, <1>5, <2>1 DEF Calm, Kept
<1>17. OutputStays
  BY <1>5 DEF OutputStays
<1> QED BY <1>8, <1>11, <1>12, <1>13, <1>14, <1>15, <1>16, <1>17 DEF Calm

-----------------------------------------------------------------------------
(* The second halves of clear and of enter.                                *)

(* clear() then cuts the output, and puts _output_end where that ended.    *)
LEMMA EndClearCalm ==
  ASSUME ErTypeOK, Calm, EndClear, upset' = {} PROVE Calm'
<1> DEFINE n == Len(text)
           f == From(0, outputEnd - 2)
           u == To(0, outputEnd - 2)
           gone == Substr(0, outputEnd - 2)
<1>1. /\ ui = "clear" /\ ui' = "idle" /\ text' = Without(0, outputEnd - 2)
      /\ outputEnd' = cursor' /\ erased' = erased \cup Range(gone)
      /\ writing' = writing /\ register' = register /\ out' = out
      /\ command' = command /\ typed' = typed /\ sent' = sent
  BY DEF EndClear, writerVars
<1>2. writing = "idle" /\ cursor' = Len(text')
  BY DEF EndClear
<1>3. n \in Nat /\ text \in Seq(Cells) /\ 0 \in Int /\ outputEnd - 2 \in Int
  BY LenProperties DEF ErTypeOK
<1>4. f \in 0..n /\ u \in f..n
  BY <1>3, RegionIs
<1>5. text' \in Seq(Cells) /\ Len(text') = n - (u - f)
  BY <1>1, <1>3, WithoutIs
<1>6. \A i \in 1..(n - (u - f)) : text'[i] = IF i <= f THEN text[i] ELSE text[i + (u - f)]
  BY <1>1, <1>3, WithoutIs
<1>7. Range(text) = Range(text') \cup Range(gone)
  BY <1>1, <1>3, WithoutIs
<1> HIDE DEF f, u, gone
<1>8. ErInOrder(text') /\ TypedOnce(text')
  <2>1. ErInOrder(text) /\ TypedOnce(text)
    BY DEF Calm
  <2>2. u - f \in Nat /\ Len(text') + (u - f) = n
    BY <1>3, <1>4, <1>5
  <2> QED BY <1>3, <1>4, <1>5, <1>6, <2>1, <2>2, CutKeeps
<1>9. ASSUME NEW i \in 1..Len(text') PROVE \E j \in 1..n : text'[i] = text[j]
  <2>1. text'[i] \in Range(text)
    BY <1>5, <1>7, RangeIsPlaces
  <2> QED BY <1>3, <2>1, RangeIsPlaces
<1>10. Len(text') \in Nat
  BY <1>5, LenProperties
<1>11. OutputNow' = Len(text')
  <2>1. OutputNow' = outputEnd' + 0
    BY <1>1, <1>2 DEF OutputNow
  <2> QED BY <1>1, <1>2, <1>10, <2>1
<1>12. Exact'
  <2>1. Len(text') <= Len(text') /\ \A i \in 1..Len(text') : ~(i > Len(text'))
    BY <1>10
  <2> QED BY <1>11, <2>1 DEF Exact
<1>13. WriterSafe'
  <2>1. \A i \in 1..Len(text') : text'[i] \in Output => text'[i] <= out
    BY <1>9 DEF Calm, WriterSafe
  <2> QED BY <1>1, <1>2, <2>1 DEF WriterSafe
<1>14. TypedSafe'
  <2>1. \A i \in 1..Len(text') : text'[i] \in Typed => text'[i] <= MaxOut + typed
    BY <1>9 DEF Calm, TypedSafe
  <2> QED BY <1>1, <2>1 DEF Calm, TypedSafe
<1>15. HandlerSafe' /\ ErOnce' /\ Kept'
  BY <1>1, <1>7 DEF Calm, HandlerSafe, ErOnce, Kept
<1> QED BY <1>8, <1>12, <1>13, <1>14, <1>15 DEF Calm

(* enter() passes the taken input on and appends the postfix.              *)
LEMMA EndEnterCalm ==
  ASSUME ErTypeOK, Calm, EndEnter PROVE Calm' /\ OutputStays
<1> DEFINE n == Len(text)
           m == outputEnd
           rest == SubSeq(text, 1, m)
<1>1. /\ ui = "adjust" /\ ui' = "idle" /\ command' = <<>> /\ sent' = sent \o command
      /\ writing' = writing /\ register' = register /\ out' = out
      /\ typed' = typed /\ erased' = erased
  BY DEF EndEnter, writerVars
<1>2. writing \in {"idle", "insert"}
  BY <1>1 DEF Calm, WriterSafe, ErTypeOK
<1>3. /\ n \in Nat /\ text \in Seq(Cells) /\ m \in Nat /\ OutputNow = m /\ m <= n
      /\ m \in 0..n /\ n \in m..n
  <2>1. OutputNow = m + 0 /\ m \in Nat /\ text \in Seq(Cells) /\ n \in Nat
    BY <1>2, LenProperties DEF OutputNow, ErTypeOK
  <2>2. OutputNow <= n
    BY DEF Calm, Exact
  <2> QED BY <2>1, <2>2
<1>4. Least(n, m) = m
  BY <1>3 DEF Least
<1>5. /\ \A i \in 1..n : i > m => text[i] \in Typed \ Range(sent) \/ (text[i] = Postfix /\ i = n)
      /\ command = SubSeq(text, m + 1, n)
  BY <1>1 DEF Calm, HandlerSafe
<1>6. /\ command \in Seq(Cells) /\ Len(command) = n - m
      /\ \A i \in 1..(n - m) : command[i] = text[m + i]
      /\ Range(command) = Between(text, m + 1, n)
  BY <1>3, <1>5, PartBehind
<1>7. /\ rest \in Seq(Cells) /\ Len(rest) = m /\ \A i \in 1..m : rest[i] = text[i]
      /\ Range(rest) = Between(text, 1, m)
  <2>1. 1 \in 1..(n + 1) /\ m \in (1 - 1)..n /\ m - 1 + 1 = m /\ \A i \in 1..m : 1 + i - 1 = i
    BY <1>3
  <2>2. rest \in Seq(Cells) /\ Len(rest) = m - 1 + 1
    BY <1>3, <2>1, PartOf
  <2>3. \A i \in 1..(m - 1 + 1) : rest[i] = text[1 + i - 1]
    BY <1>3, <2>1, PartOf
  <2>4. Range(rest) = Between(text, 1, m)
    BY <1>3, <2>1, PartOf
  <2> QED BY <2>1, <2>2, <2>3, <2>4
<1>8. Range(text) = Range(rest) \cup Range(command)
  <2>1. \A i \in 1..n : i \in 1..m \/ i \in (m + 1)..n
    BY <1>3
  <2>2. (1..m) \subseteq 1..n /\ ((m + 1)..n) \subseteq 1..n
    BY <1>3
  <2>3. Range(text) = {text[i] : i \in 1..n}
    BY <1>3, RangeEquality
  <2> QED BY <1>6, <1>7, <2>1, <2>2, <2>3 DEF Between
<1> HIDE DEF rest
<1>9. text' \in {text, rest} /\ outputEnd' = Len(text')
  BY <1>3, <1>4, <1>7 DEF EndEnter, viewVars, rest
<1>10. ASSUME NEW c \in Range(command)
       PROVE c \in Typed \ Range(sent) \/ c = Postfix
  <2>1. PICK i \in (m + 1)..n : c = text[i]
    BY <1>6 DEF Between
  <2>2. i \in 1..n /\ i > m
    BY <1>3
  <2> QED BY <1>5, <2>1, <2>2
<1>11. Range(command) \cap Output = {}
  BY <1>10, CellsAre
<1>12. /\ text' \in Seq(Cells) /\ Len(text') \in {n, m} /\ Len(text') \in Nat /\ m <= Len(text')
       /\ Range(text) = Range(text') \cup Range(command) /\ Range(text') \subseteq Range(text)
  <2>1. CASE text' = text
    BY <1>3, <1>8, <2>1
  <2>2. CASE text' = rest
    BY <1>3, <1>7, <1>8, <2>2
  <2> QED BY <1>9, <2>1, <2>2
<1>13. \A i \in 1..Len(text') : i \in 1..n /\ text'[i] = text[i]
  <2>1. CASE text' = text
    BY <2>1
  <2>2. CASE text' = rest
    <3>1. \A i \in 1..m : i \in 1..n
      BY <1>3
    <3> QED BY <1>7, <2>2, <3>1
  <2> QED BY <1>9, <2>1, <2>2
<1>14. ErInOrder(text') /\ TypedOnce(text')
  BY <1>13 DEF Calm, ErInOrder, TypedOnce
<1>15. OutputNow' = Len(text')
  <2>1. OutputNow' = outputEnd' + 0
    BY <1>1, <1>2 DEF OutputNow
  <2> QED BY <1>9, <1>12, <2>1
<1>16. Exact'
  <2>1. Len(text') <= Len(text') /\ \A i \in 1..Len(text') : ~(i > Len(text'))
    BY <1>12
  <2> QED BY <1>15, <2>1 DEF Exact
<1>17. WriterSafe'
  <2>1. /\ \A i \in 1..Len(text') : text'[i] \in Output => text'[i] <= out
        /\ writing = "insert" => \A i \in 1..Len(text') : text'[i] \in Output => text'[i] < out
        /\ writing = "insert" => \A i \in 1..Len(text') : i > register => text'[i] \notin Output
    BY <1>13 DEF Calm, WriterSafe
  <2>2. writing = "insert" => register <= outputEnd'
    <3>1. writing = "insert" => register <= m
      BY DEF Calm, WriterSafe
    <3>2. register \in Nat
      BY DEF ErTypeOK
    <3> QED BY <1>3, <1>9, <1>12, <3>1, <3>2
  <2> QED BY <1>1, <1>2, <2>1, <2>2 DEF WriterSafe
<1>18. sent \in Seq(Cells) /\ Range(sent') = Range(sent) \cup Range(command)
  BY <1>1, <1>6, RangeConcatenation DEF ErTypeOK
<1>19. TypedSafe'
  <2>1. \A i \in 1..Len(text') : text'[i] \in Typed => text'[i] <= MaxOut + typed
    BY <1>13 DEF Calm, TypedSafe
  <2>2. ASSUME NEW c \in Range(command), c \in Typed PROVE c <= MaxOut + typed
    <3>1. c \in Range(text)
      BY <1>12
    <3>2. PICK i \in 1..n : c = text[i]
      BY <1>3, <3>1, RangeIsPlaces
    <3> QED BY <2>2, <3>2 DEF Calm, TypedSafe
  <2> QED BY <1>1, <1>18, <2>1, <2>2 DEF Calm, TypedSafe
<1>20. HandlerSafe'
  BY <1>1 DEF HandlerSafe
<1>21. ASSUME NEW i \in 1..Len(sent'), NEW j \in 1..Len(sent'), i < j, sent'[i] = sent'[j]
       PROVE sent'[i] = Postfix
  <2> DEFINE k == Len(sent)
  <2>1. k \in Nat /\ Len(sent') = k + (n - m)
        /\ \A a \in 1..(k + (n - m)) : sent'[a] = IF a <= k THEN sent[a] ELSE command[a - k]
    <3>1. k \in Nat /\ sent \o command = sent'
      BY <1>1, <1>18, LenProperties
    <3>2. /\ Len(sent \o command) = k + Len(command)
          /\ \A a \in 1..(k + Len(command)) :
               (sent \o command)[a] = IF a <= k THEN sent[a] ELSE command[a - k]
      BY <1>6, <1>18, ConcatProperties
    <3> QED BY <1>6, <3>1, <3>2
  <2> HIDE DEF k
  <2>2. \A a \in 1..Len(sent') : a <= k => a \in 1..k /\ sent'[a] = sent[a]
    BY <2>1
  <2>3. \A a \in 1..Len(sent') : ~(a <= k) => a - k \in 1..(n - m) /\ sent'[a] = command[a - k]
    <3>1. \A a \in 1..Len(sent') : a \in 1..(k + (n - m))
      BY <2>1
    <3>2. n \in Nat /\ m \in Nat /\ m <= n
      BY <1>3
    <3>3. \A a \in 1..(k + (n - m)) : ~(a <= k) => a - k \in 1..(n - m)
      BY <2>1, <3>2
    <3> QED BY <2>1, <3>1, <3>3
  <2>4. CASE j <= k
    <3>1. i <= k
      BY <1>21, <2>1, <2>4
    <3> QED BY <1>21, <2>2, <2>4, <3>1 DEF Calm, ErOnce, k
  <2>5. CASE i <= k /\ ~(j <= k)
    <3>1. sent'[i] \in Range(sent)
      BY <1>18, <2>2, <2>5, RangeIsPlaces DEF k
    <3>2. sent'[j] \in Range(command)
      BY <1>6, <2>3, <2>5, RangeIsPlaces
    <3> QED BY <1>10, <1>21, <3>1, <3>2
  <2>6. CASE ~(i <= k)
    <3>1. ~(j <= k)
      BY <1>21, <2>1, <2>6
    <3>2. /\ i - k \in 1..(n - m) /\ sent'[i] = command[i - k]
          /\ j - k \in 1..(n - m) /\ sent'[j] = command[j - k]
      BY <2>3, <2>6, <3>1
    <3>3. /\ m + (i - k) \in 1..n /\ m + (j - k) \in 1..n /\ m + (i - k) < m + (j - k)
      BY <1>3, <1>21, <2>1, <3>2
    <3>4. sent'[i] = text[m + (i - k)] /\ sent'[j] = text[m + (j - k)]
      BY <1>6, <3>2
    <3>5. sent'[i] \notin Typed
      BY <1>21, <3>3, <3>4 DEF Calm, TypedOnce
    <3>6. sent'[i] \in Range(command)
      BY <1>6, <3>2, RangeIsPlaces
    <3> QED BY <1>10, <3>5, <3>6
  <2> QED BY <2>4, <2>5, <2>6
<1>22. ErOnce'
  <2>1. Range(sent) \cap Output = {}
    BY DEF Calm, ErOnce
  <2>2. Range(sent') \cap Output = {}
    BY <1>11, <1>18, <2>1
  <2> QED BY <1>21, <2>2 DEF ErOnce
<1>23. Kept'
  BY <1>1, <1>12, <1>18 DEF Calm, Kept
<1>24. OutputStays
  BY <1>11, <1>12 DEF OutputStays
<1> QED BY <1>14, <1>16, <1>17, <1>19, <1>20, <1>22, <1>23, <1>24 DEF Calm

-----------------------------------------------------------------------------
(* What has upset the boundary is never forgotten.                          *)
LEMMA UpsetGrows == ErNext => upset \subseteq upset'
<1> SUFFICES ASSUME ErNext PROVE upset \subseteq upset'
  OBVIOUS
<1>1. CASE Write
  BY <1>1 DEF Write, ReadPosition, Insert, LoadEnd, StoreEnd
<1>2. CASE MoveCursor \/ Type \/ Backspace
  BY <1>2 DEF MoveCursor, Type, Backspace
<1>3. CASE Escape \/ BeginClear
  BY <1>3 DEF Escape, BeginClear, EraseInput
<1>4. CASE RecallText \/ BeginEnter
  BY <1>4 DEF RecallText, BeginEnter
<1>5. CASE EndClear \/ EndEnter
  BY <1>5 DEF EndClear, EndEnter
<1> QED BY <1>1, <1>2, <1>3, <1>4, <1>5 DEF ErNext, Keys

(* Every step that leaves the boundary undisturbed keeps the invariant, and *)
(* every one but clear's keeps the output.                                  *)
LEMMA CalmStep ==
  ASSUME ErIInv, ErNext, upset' = {}
  PROVE  Calm' /\ (ui # "clear" => OutputStays)
<1>1. ErTypeOK /\ Calm
  <2>1. upset = {}
    BY UpsetGrows
  <2> QED BY <2>1 DEF ErIInv
<1>2. CASE ReadPosition
  BY <1>1, <1>2, ReadPositionCalm
<1>3. CASE Insert
  BY <1>1, <1>3, InsertCalm
<1>4. CASE LoadEnd
  BY <1>1, <1>4, LoadEndCalm
<1>5. CASE StoreEnd
  BY <1>1, <1>5, StoreEndCalm
<1>6. CASE MoveCursor
  BY <1>1, <1>6, MoveCursorCalm
<1>7. CASE Type
  BY <1>1, <1>7, TypeCalm
<1>8. CASE Backspace
  BY <1>1, <1>8, BackspaceCalm
<1>9. CASE Escape
  BY <1>1, <1>9, EscapeCalm
<1>10. CASE BeginClear
  BY <1>1, <1>10, BeginClearCalm
<1>11. CASE RecallText
  BY <1>1, <1>11, RecallTextCalm
<1>12. CASE BeginEnter
  BY <1>1, <1>12, BeginEnterCalm
<1>13. CASE EndClear
  <2>1. ui = "clear"
    BY <1>13 DEF EndClear
  <2> QED BY <1>1, <1>13, <2>1, EndClearCalm
<1>14. CASE EndEnter
  BY <1>1, <1>14, EndEnterCalm
<1> QED BY <1>2, <1>3, <1>4, <1>5, <1>6, <1>7, <1>8, <1>9, <1>10, <1>11, <1>12, <1>13, <1>14
  DEF ErNext, Write, Keys

(* Every step keeps ErIInv.                                                  *)
LEMMA IInvStep == ErIInv /\ [ErNext]_erVars => ErIInv'
<1> SUFFICES ASSUME ErIInv, [ErNext]_erVars PROVE ErIInv'
  OBVIOUS
<1>1. ErTypeOK'
  BY ErTypeStep DEF ErIInv
<1>2. CASE ErNext
  BY <1>1, <1>2, CalmStep DEF ErIInv
<1>3. CASE UNCHANGED erVars
  <2>1. /\ text' = text /\ outputEnd' = outputEnd /\ writing' = writing
        /\ register' = register /\ out' = out /\ ui' = ui /\ command' = command
        /\ typed' = typed /\ sent' = sent /\ erased' = erased /\ upset' = upset
    BY <1>3 DEF erVars, viewVars, writerVars, uiVars, logVars
  <2>2. OutputNow' = OutputNow
    BY <2>1 DEF OutputNow
  <2>3. Calm => Calm'
    BY <2>1, <2>2
    DEF Calm, Exact, ErInOrder, TypedOnce, WriterSafe, TypedSafe, HandlerSafe, ErOnce, Kept
  <2> QED BY <1>1, <2>1, <2>3 DEF ErIInv
<1> QED BY <1>2, <1>3

(* What the invariant says of the properties the run checks.               *)
LEMMA ErIInvSays == ErIInv => RegionIsExact /\ SentOnce
<1> SUFFICES ASSUME ErIInv PROVE RegionIsExact /\ SentOnce
  OBVIOUS
<1>1. Boundary
  BY DEF ErIInv, Calm, Exact, Boundary
<1>2. WrittenInOrder
  BY DEF ErIInv, Calm, ErInOrder, WrittenInOrder
<1>3. TypedKept
  BY DEF ErIInv, Calm, Kept, TypedKept
<1>4. SentOnce
  BY DEF ErIInv, Calm, ErOnce, SentOnce
<1> QED BY <1>1, <1>2, <1>3, <1>4 DEF RegionIsExact

(* ErIInv always holds.                                                      *)
LEMMA ErInvariantHolds == ErSpec => []ErIInv
<1> QED BY CalmInit, IInvStep, PTL DEF ErSpec

(* However the update thread's reads and writes of _output_end fall between *)
(* the keys: unless a step races, types into the output or clears during a  *)
(* write, the boundary is where the output ends, the output is in order and *)
(* nothing the user typed is lost.                                          *)
THEOREM RegionAlwaysExact == ErSpec => []RegionIsExact
<1>1. ErIInv => RegionIsExact
  BY ErIInvSays
<1> QED BY <1>1, ErInvariantHolds, PTL

(* Then Enter sends the user's cells only, and each of them once.           *)
THEOREM SentAlwaysOnce == ErSpec => []SentOnce
<1>1. ErIInv => SentOnce
  BY ErIInvSays
<1> QED BY <1>1, ErInvariantHolds, PTL

(* And no key but clear takes output out of the view.                       *)
THEOREM OutputIsKept == ErSpec => OutputKept
<1>1. ErIInv /\ [ErNext]_erVars =>
        [~(ui = "clear") /\ upset' = {} =>
           Range(text) \cap Output \subseteq Range(text')]_erVars
  <2> SUFFICES ASSUME ErIInv, ErNext, ui # "clear", upset' = {}
               PROVE Range(text) \cap Output \subseteq Range(text')
    OBVIOUS
  <2> QED BY CalmStep DEF OutputStays
<1> QED BY <1>1, ErInvariantHolds, PTL DEF ErSpec, OutputKept
-----------------------------------------------------------------------------
(* The history in memory, and the line it is recalled into.                *)

(* What MemHistory.match selects: commands of the history that start with   *)
(* the prefix.                                                             *)
LEMMA MatchingIs ==
  ASSUME NEW S, NEW s \in Seq(S), NEW prefix
  PROVE  Matching(s, prefix) \in Seq({c \in S : <<c, prefix>> \in StartsWith})
<1> DEFINE Good == {c \in S : <<c, prefix>> \in StartsWith}
           n == Len(s)
           Body(f, i) == IF i = 0 THEN <<>>
                         ELSE IF <<s[i], prefix>> \in StartsWith
                                THEN Append(f[i - 1], s[i])
                                ELSE f[i - 1]
           F == CHOOSE f : f = [i \in 0..n |-> Body(f, i)]
<1>1. Matching(s, prefix) = F[n]
  BY DEF Matching
<1>2. n \in Nat /\ \A i \in 1..n : s[i] \in S
  BY LenProperties, ElementOfSeq
<1>3. \A q \in Seq(Good), i \in 1..n :
        (IF <<s[i], prefix>> \in StartsWith THEN Append(q, s[i]) ELSE q) \in Seq(Good)
  <2> TAKE q \in Seq(Good), i \in 1..n
  <2>1. s[i] \in S
    BY <1>2
  <2> QED BY <2>1, AppendProperties
<1>4. <<>> \in Seq(Good)
  BY EmptySeq
<1>5. \E f : f = [i \in 0..n |-> Body(f, i)]
  <2> DEFINE step == [p \in Seq(Good) \X (1..n) |->
                       IF <<s[p[2]], prefix>> \in StartsWith
                         THEN Append(p[1], s[p[2]]) ELSE p[1]]
  <2>1. step \in [Seq(Good) \X (1..n) -> Seq(Good)]
    BY <1>3
  <2>2. \A q \in Seq(Good), i \in 1..n :
          step[<<q, i>>] = IF <<s[i], prefix>> \in StartsWith THEN Append(q, s[i]) ELSE q
    OBVIOUS
  <2> DEFINE Lists == Seq(Good)
             empty == <<>>
  <2>3. PICK f \in [0..n -> Lists] :
          f[0] = empty /\ \A i \in 1..n : f[i] = step[<<f[i - 1], i>>]
    <3>1. n \in Nat
      BY <1>2
    <3>2. empty \in Lists
      BY <1>4
    <3>3. step \in [Lists \X (1..n) -> Lists]
      BY <2>1
    <3> HIDE DEF step, Lists, n, empty
    <3>4. PICK f \in [0..n -> Lists] : Recursive(f, empty, step, n)
      BY <3>1, <3>2, <3>3, PrimitiveRecursion
    <3> QED BY <3>4 DEF Recursive
  <2> HIDE DEF step
  <2>4. \A i \in 1..n : i - 1 \in 0..n /\ f[i - 1] \in Seq(Good)
    <3>1. \A i \in 1..n : i - 1 \in 0..n
      BY <1>2
    <3> HIDE DEF Lists, n
    <3>2. \A i \in 1..n : f[i - 1] \in Lists
      BY <2>3, <3>1
    <3> QED BY <3>1, <3>2 DEF Lists
  <2>5. \A i \in 1..n : f[i] = IF <<s[i], prefix>> \in StartsWith
                                 THEN Append(f[i - 1], s[i]) ELSE f[i - 1]
    BY <2>2, <2>3, <2>4
  <2>6. \A i \in 0..n : f[i] = Body(f, i)
    <3> TAKE i \in 0..n
    <3>1. i = 0 \/ i \in 1..n
      BY <1>2
    <3> QED BY <2>3, <2>5, <3>1, <1>2
  <2>7. f = [i \in 0..n |-> Body(f, i)]
    <3>1. f = [i \in 0..n |-> f[i]]
      BY <2>3
    <3> QED BY <2>6, <3>1
  <2> QED BY <2>7
<1>6. F = [i \in 0..n |-> Body(F, i)]
  BY <1>5
<1> HIDE DEF F, Good
<1>7. F[0] = <<>> /\ \A i \in 1..n : F[i] = Body(F, i)
  <2>1. 0 \in 0..n /\ \A i \in 1..n : i \in 0..n
    BY <1>2
  <2>2. \A i \in 0..n : F[i] = Body(F, i)
    <3> HIDE DEF Body
    <3> QED BY <1>6
  <2> QED BY <2>1, <2>2
<1> DEFINE WellTyped == {k \in Nat : k <= n => F[k] \in Seq(Good)}
<1>8. 0 \in WellTyped
  BY <1>4, <1>7
<1>9. ASSUME NEW k \in WellTyped PROVE k + 1 \in WellTyped
  <2> SUFFICES ASSUME k + 1 <= n PROVE F[k + 1] \in Seq(Good)
    OBVIOUS
  <2>1. k + 1 \in 1..n /\ k + 1 # 0 /\ (k + 1) - 1 = k /\ F[k] \in Seq(Good)
    BY <1>2
  <2>2. F[k + 1] = Body(F, k + 1)
    BY <1>7, <2>1
  <2>3. F[k + 1] = IF <<s[k + 1], prefix>> \in StartsWith
                     THEN Append(F[k], s[k + 1]) ELSE F[k]
    BY <2>1, <2>2
  <2> QED BY <1>3, <2>1, <2>3
<1>10. WellTyped = Nat
  <2>1. WellTyped \in SUBSET Nat
    OBVIOUS
  <2> HIDE DEF WellTyped
  <2> QED BY <1>8, <1>9, <2>1, SetInduction
<1> QED BY <1>1, <1>2, <1>10 DEF Good

\* What a list to recall from consists of.
Lists == [prefix : Texts, commands : Seq(Texts), cur : Int, set : BOOLEAN]

\* The commands that start with a text.
Starting(prefix) == {c \in Texts : <<c, prefix>> \in StartsWith}

\* A list of what the history has for its prefix now.
Fresh(m) ==
  /\ m \in Lists /\ m.set = TRUE
  /\ m.commands \in Seq(Starting(m.prefix))
  /\ m.commands = Matching(stack, m.prefix)

\* History._last is what stands last in the history.
LastIsOnTop ==
  IF stack = <<>> THEN last = Empty ELSE last = stack[Len(stack)]

HiIInv == HiTypeOK /\ HistoryIsSound /\ LastIsOnTop

(* A new list is fresh, and its cursor is behind the last command.         *)
LEMMA NewList ==
  ASSUME HiTypeOK, NEW prefix \in Texts
  PROVE  /\ Fresh(Match(prefix)) /\ Match(prefix).prefix = prefix
         /\ Match(prefix).cur = Len(Match(prefix).commands)
<1> DEFINE commands == Matching(stack, prefix)
           m == Match(prefix)
<1>1. stack \in Seq(Texts)
  <2>1. stack \in Seq(Texts \ {Empty}) /\ Texts \ {Empty} \subseteq Texts
    BY DEF HiTypeOK
  <2> QED BY <2>1, SeqMonotonic
<1>2. commands \in Seq(Starting(prefix))
  BY <1>1, MatchingIs DEF Starting
<1>3. commands \in Seq(Texts) /\ Len(commands) \in Int
  <2>1. Starting(prefix) \subseteq Texts
    BY DEF Starting
  <2>2. Len(commands) \in Nat
    BY <1>2, LenProperties
  <2> QED BY <1>2, <2>1, <2>2, SeqMonotonic
<1>4. m = [prefix |-> prefix, commands |-> commands, cur |-> Len(commands), set |-> TRUE]
  BY DEF Match
<1> HIDE DEF commands, m
<1>5. m \in Lists /\ m.set = TRUE /\ m.prefix = prefix /\ m.commands = commands
      /\ m.cur = Len(commands)
  BY <1>3, <1>4 DEF Lists
<1> QED BY <1>2, <1>5 DEF Fresh, m, commands

(* What ensure_history_match leaves is fresh; after an edit it is for what *)
(* stands in the line.                                                     *)
LEMMA Ensured ==
  ASSUME HiIInv
  PROVE  /\ Fresh(EnsureMatch)
         /\ EnsureMatch.commands # <<>>
              => EnsureMatch.cur \in 0..Len(EnsureMatch.commands)
         /\ Edited => EnsureMatch.prefix = input
<1>1. CASE match.set /\ input = CurrentCommand(match)
  <2>1. EnsureMatch = match /\ ~Edited
    BY <1>1 DEF EnsureMatch, Edited
  <2>2. match \in Lists /\ match.set = TRUE /\ match.prefix \in Texts
    BY <1>1 DEF HiIInv, HiTypeOK, Lists
  <2>3. match.commands = Match(match.prefix).commands
    BY <1>1 DEF HiIInv, HistoryIsSound, MatchIsFresh
  <2>4. Fresh(Match(match.prefix)) /\ Match(match.prefix).prefix = match.prefix
    BY <2>2, NewList DEF HiIInv
  <2>5. Fresh(match)
    BY <2>2, <2>3, <2>4 DEF Fresh
  <2>6. match.commands # <<>> => match.cur \in 0..(Len(match.commands) - 1)
    BY <1>1 DEF HiIInv, HistoryIsSound, CursorOnCommand
  <2>7. Len(match.commands) \in Nat
    BY <2>2, LenProperties DEF Lists
  <2> QED BY <2>1, <2>5, <2>6, <2>7
<1>2. CASE ~(match.set /\ input = CurrentCommand(match))
  <2>1. EnsureMatch = Match(input)
    BY <1>2 DEF EnsureMatch
  <2>2. /\ Fresh(Match(input)) /\ Match(input).prefix = input
        /\ Match(input).cur = Len(Match(input).commands)
    BY NewList DEF HiIInv, HiTypeOK
  <2>3. Len(Match(input).commands) \in Nat
    BY <2>2, LenProperties DEF Fresh
  <2> QED BY <2>1, <2>2, <2>3
<1> QED BY <1>1, <1>2

(* The cursor moves to a command, the list stays.                          *)
LEMMA Moved ==
  ASSUME NEW e, Fresh(e), e.commands # <<>> => e.cur \in 0..Len(e.commands),
         NEW m \in {Back(e), Forth(e)}
  PROVE  /\ Fresh(m) /\ m.prefix = e.prefix
         /\ m.commands # <<>> => m.cur \in 0..(Len(m.commands) - 1)
<1>1. /\ e \in Lists /\ e.cur \in Int /\ Len(e.commands) \in Nat
      /\ (e.commands = <<>> <=> Len(e.commands) = 0)
  BY LenZero DEF Fresh, Lists
<1>2. PICK k \in Int : /\ m = [e EXCEPT !.cur = k]
                       /\ e.commands # <<>> => k \in 0..(Len(e.commands) - 1)
  <2>1. CASE m = Back(e)
    <3> DEFINE k == IF e.cur - 1 < 0 THEN 0 ELSE e.cur - 1
    <3>1. m = [e EXCEPT !.cur = k]
      BY <2>1 DEF Back
    <3>2. k \in Int /\ (e.commands # <<>> => k \in 0..(Len(e.commands) - 1))
      BY <1>1
    <3> QED BY <3>1, <3>2
  <2>2. CASE m = Forth(e)
    <3> DEFINE k == IF Len(e.commands) - 1 < e.cur + 1 THEN Len(e.commands) - 1
                    ELSE e.cur + 1
    <3>1. m = [e EXCEPT !.cur = k]
      BY <2>2 DEF Forth
    <3>2. k \in Int /\ (e.commands # <<>> => k \in 0..(Len(e.commands) - 1))
      BY <1>1
    <3> QED BY <3>1, <3>2
  <2> QED BY <2>1, <2>2
<1>3. /\ m \in Lists /\ m.cur = k /\ m.prefix = e.prefix
      /\ m.commands = e.commands /\ m.set = e.set
  BY <1>1, <1>2 DEF Lists
<1> QED BY <1>2, <1>3 DEF Fresh

(* The current command is empty, or one that starts with the prefix.       *)
LEMMA Current ==
  ASSUME NEW m, Fresh(m)
  PROVE  /\ CurrentCommand(m) \in Texts
         /\ CurrentCommand(m) # Empty => <<CurrentCommand(m), m.prefix>> \in StartsWith
<1>1. CASE m.cur + 1 \in DOMAIN m.commands
  <2>1. CurrentCommand(m) = m.commands[m.cur + 1]
    BY <1>1 DEF CurrentCommand
  <2>2. m.commands[m.cur + 1] \in Starting(m.prefix)
    BY <1>1, ElementOfSeq, LenProperties DEF Fresh
  <2> QED BY <2>1, <2>2 DEF Starting
<1>2. CASE m.cur + 1 \notin DOMAIN m.commands
  BY <1>2, StripAssumption DEF CurrentCommand
<1> QED BY <1>1, <1>2

(* A command that is not the last one goes on top of the history.          *)
LEMMA Pushed ==
  ASSUME NEW s \in Seq(Texts \ {Empty}), NEW cmd \in Texts \ {Empty},
         s # <<>> => s[Len(s)] # cmd, Strip[cmd] = cmd,
         \A i \in 1..(Len(s) - 1) : s[i] # s[i + 1],
         \A i \in 1..Len(s) : s[i] # Empty /\ Strip[s[i]] = s[i]
  PROVE  LET t == Append(s, cmd) IN
         /\ t \in Seq(Texts \ {Empty}) /\ t # <<>> /\ t[Len(t)] = cmd
         /\ \A i \in 1..(Len(t) - 1) : t[i] # t[i + 1]
         /\ \A i \in 1..Len(t) : t[i] # Empty /\ Strip[t[i]] = t[i]
<1> DEFINE t == Append(s, cmd)
<1>1. /\ t \in Seq(Texts \ {Empty}) /\ Len(t) = Len(s) + 1
      /\ \A i \in 1..(Len(s) + 1) : t[i] = IF i <= Len(s) THEN s[i] ELSE cmd
  BY AppendIs
<1>2. Len(s) \in Nat /\ (s = <<>> <=> Len(s) = 0) /\ (t = <<>> <=> Len(t) = 0)
  BY <1>1, LenZero
<1> HIDE DEF t
<1>3. t # <<>> /\ t[Len(t)] = cmd
  BY <1>1, <1>2
<1>4. \A i \in 1..(Len(t) - 1) : t[i] # t[i + 1]
  <2> TAKE i \in 1..(Len(t) - 1)
  <2>1. i \in 1..Len(s) /\ t[i] = s[i]
    BY <1>1, <1>2
  <2>2. CASE i = Len(s)
    BY <1>1, <1>2, <2>1, <2>2
  <2>3. CASE i # Len(s)
    <3>1. i \in 1..(Len(s) - 1) /\ i + 1 \in 1..(Len(s) + 1) /\ i + 1 <= Len(s)
      BY <1>2, <2>1, <2>3
    <3>2. t[i + 1] = s[i + 1]
      BY <1>1, <3>1
    <3> QED BY <2>1, <3>1, <3>2
  <2> QED BY <2>2, <2>3
<1>5. \A i \in 1..Len(t) : t[i] # Empty /\ Strip[t[i]] = t[i]
  <2> TAKE i \in 1..Len(t)
  <2>1. i \in 1..Len(s) \/ i = Len(s) + 1
    BY <1>1, <1>2
  <2> QED BY <1>1, <1>2, <2>1
<1> QED BY <1>1, <1>3, <1>4, <1>5 DEF t

(* Recalling keeps the invariant, and what is recalled on an edited line    *)
(* starts with the line.                                                   *)
LEMMA RecallStep ==
  ASSUME HiIInv, PreviousCommand \/ NextCommand
  PROVE  /\ HiTypeOK' /\ CursorOnCommand' /\ MatchIsFresh'
         /\ UNCHANGED <<stack, last>>
         /\ Edited => <<input', input>> \in StartsWith
<1>1. PICK m \in {Back(EnsureMatch), Forth(EnsureMatch)} : Recall(m)
  BY DEF PreviousCommand, NextCommand
<1>2. /\ Fresh(EnsureMatch)
      /\ EnsureMatch.commands # <<>> => EnsureMatch.cur \in 0..Len(EnsureMatch.commands)
      /\ Edited => EnsureMatch.prefix = input
  BY Ensured
<1>3. /\ Fresh(m) /\ m.prefix = EnsureMatch.prefix
      /\ m.commands # <<>> => m.cur \in 0..(Len(m.commands) - 1)
  BY <1>2, Moved
<1>4. /\ CurrentCommand(m) \in Texts
      /\ CurrentCommand(m) # Empty => <<CurrentCommand(m), m.prefix>> \in StartsWith
  BY <1>3, Current
<1>5. match' = m /\ UNCHANGED <<stack, last, pushes>>
      /\ input' = IF CurrentCommand(m) = Empty THEN input ELSE CurrentCommand(m)
  BY <1>1 DEF Recall
<1>6. HiTypeOK'
  BY <1>3, <1>4, <1>5 DEF HiIInv, HiTypeOK, Fresh, Lists
<1>7. CursorOnCommand'
  BY <1>3, <1>5 DEF CursorOnCommand
<1>8. MatchIsFresh'
  <2>1. m.commands = Matching(stack, m.prefix)
    BY <1>3 DEF Fresh
  <2> QED BY <1>5, <2>1 DEF MatchIsFresh, Match
<1>9. ASSUME Edited PROVE <<input', input>> \in StartsWith
  <2>1. <<input, input>> \in StartsWith
    BY PrefixAssumption DEF HiIInv, HiTypeOK
  <2> QED BY <1>2, <1>3, <1>4, <1>5, <1>9, <2>1
<1> QED BY <1>5, <1>6, <1>7, <1>8, <1>9

(* Entering a line pushes it, unless it is blank or the last command.      *)
LEMMA EnterStep ==
  ASSUME HiIInv, Enter
  PROVE  HiIInv'
<1> DEFINE cmd == Strip[input]
<1>1. cmd \in Texts /\ Strip[cmd] = cmd
  BY StripAssumption DEF HiIInv, HiTypeOK
<1>2. /\ match' = NoMatch /\ input' = Empty
      /\ pushes < MaxPushes /\ pushes' = pushes + 1
  BY DEF Enter
<1>3. input' \in Texts /\ pushes' \in 0..MaxPushes
      /\ match' \in [prefix : Texts, commands : Seq(Texts), cur : Int, set : BOOLEAN]
      /\ match'.set = FALSE
  <2>1. <<>> \in Seq(Texts)
    BY EmptySeq
  <2> QED BY <1>2, <2>1, StripAssumption, BoundAssumption DEF HiIInv, HiTypeOK, NoMatch
<1>4. CursorOnCommand' /\ MatchIsFresh'
  BY <1>3 DEF CursorOnCommand, MatchIsFresh
<1>5. CASE cmd \in {Empty, last}
  <2>1. UNCHANGED <<stack, last>>
    BY <1>5 DEF Enter
  <2> QED BY <1>3, <1>4, <2>1 DEF HiIInv, HiTypeOK, HistoryIsSound, NoRepeats, LastIsOnTop
<1>6. CASE cmd \notin {Empty, last}
  <2>1. stack' = Append(stack, cmd) /\ last' = cmd
    BY <1>6 DEF Enter
  <2>2. stack \in Seq(Texts \ {Empty}) /\ (stack # <<>> => stack[Len(stack)] # cmd)
    BY <1>6 DEF HiIInv, HiTypeOK, LastIsOnTop
  <2>3. /\ \A i \in 1..(Len(stack) - 1) : stack[i] # stack[i + 1]
        /\ \A i \in 1..Len(stack) : stack[i] # Empty /\ Strip[stack[i]] = stack[i]
    BY DEF HiIInv, HistoryIsSound, NoRepeats
  <2> HIDE DEF cmd
  <2>4. cmd \in Texts \ {Empty}
    BY <1>1, <1>6
  <2>5. /\ stack' \in Seq(Texts \ {Empty}) /\ stack' # <<>> /\ stack'[Len(stack')] = cmd
        /\ \A i \in 1..(Len(stack') - 1) : stack'[i] # stack'[i + 1]
        /\ \A i \in 1..Len(stack') : stack'[i] # Empty /\ Strip[stack'[i]] = stack'[i]
    BY <1>1, <2>1, <2>2, <2>3, <2>4, Pushed
  <2>6. HiTypeOK'
    BY <1>3, <2>1, <2>4, <2>5 DEF HiTypeOK
  <2>7. NoRepeats' /\ LastIsOnTop'
    BY <2>1, <2>5 DEF NoRepeats, LastIsOnTop
  <2> QED BY <1>4, <2>6, <2>7 DEF HiIInv, HistoryIsSound
<1> QED BY <1>5, <1>6

(* The invariant holds at first.                                           *)
LEMMA HiStart == HiInit => HiIInv
<1> SUFFICES ASSUME HiInit PROVE HiIInv
  OBVIOUS
<1>1. stack = <<>> /\ last = Empty /\ match = NoMatch /\ input = Empty /\ pushes = 0
  BY DEF HiInit
<1>2. <<>> \in Seq(Texts \ {Empty}) /\ <<>> \in Seq(Texts) /\ Len(<<>>) = 0
  BY EmptySeq
<1>3. HiTypeOK
  BY <1>1, <1>2, StripAssumption, BoundAssumption DEF HiTypeOK, NoMatch
<1>4. CursorOnCommand /\ MatchIsFresh
  BY <1>1 DEF CursorOnCommand, MatchIsFresh, NoMatch
<1>5. NoRepeats /\ LastIsOnTop
  BY <1>1, <1>2 DEF NoRepeats, LastIsOnTop
<1> QED BY <1>3, <1>4, <1>5 DEF HiIInv, HistoryIsSound

(* Every step keeps it.                                                    *)
LEMMA HiStep == HiIInv /\ [HiNext]_hiVars => HiIInv'
<1> SUFFICES ASSUME HiIInv, [HiNext]_hiVars PROVE HiIInv'
  OBVIOUS
<1>1. CASE PreviousCommand \/ NextCommand
  <2>1. HiTypeOK' /\ CursorOnCommand' /\ MatchIsFresh' /\ UNCHANGED <<stack, last>>
    BY <1>1, RecallStep
  <2>2. NoRepeats' /\ LastIsOnTop'
    BY <2>1 DEF HiIInv, HistoryIsSound, NoRepeats, LastIsOnTop
  <2> QED BY <2>1, <2>2 DEF HiIInv, HistoryIsSound
<1>2. CASE Edit
  <2>1. input' \in Texts /\ UNCHANGED <<stack, last, match, pushes>>
    BY <1>2 DEF Edit
  <2>2. HiTypeOK' /\ CursorOnCommand' /\ NoRepeats' /\ LastIsOnTop'
    BY <2>1 DEF HiIInv, HiTypeOK, HistoryIsSound, CursorOnCommand, NoRepeats, LastIsOnTop
  <2>3. MatchIsFresh'
    BY <2>1 DEF HiIInv, HistoryIsSound, MatchIsFresh, Match
  <2> QED BY <2>2, <2>3 DEF HiIInv, HistoryIsSound
<1>3. CASE Enter
  BY <1>3, EnterStep
<1>4. CASE UNCHANGED hiVars
  <2>1. UNCHANGED <<stack, last, match, input, pushes>>
    BY <1>4 DEF hiVars
  <2>2. HiTypeOK' /\ CursorOnCommand' /\ NoRepeats' /\ LastIsOnTop'
    BY <2>1 DEF HiIInv, HiTypeOK, HistoryIsSound, CursorOnCommand, NoRepeats, LastIsOnTop
  <2>3. MatchIsFresh'
    BY <2>1 DEF HiIInv, HistoryIsSound, MatchIsFresh, Match
  <2> QED BY <2>2, <2>3 DEF HiIInv, HistoryIsSound
<1> QED BY <1>1, <1>2, <1>3, <1>4 DEF HiNext

(* HiIInv always holds.                                                    *)
LEMMA HiAlways == HiSpec => []HiIInv
BY HiStart, HiStep, PTL DEF HiSpec

(* MemHistory, HistoryMatchList and the input line hold what their code     *)
(* assumes: texts, whole commands in the history, an index as cursor.      *)
THEOREM HiTypeCorrect == HiSpec => []HiTypeOK
<1>1. HiIInv => HiTypeOK
  BY DEF HiIInv
<1> QED BY <1>1, HiAlways, PTL

(* Whatever is recalled, edited and entered, and however often, the cursor  *)
(* is on a command of a list the history still has, and no command stands   *)
(* twice in a row: current_command cannot raise IndexError.                 *)
THEOREM HistoryAlwaysSound == HiSpec => []HistoryIsSound
<1>1. HiIInv => HistoryIsSound
  BY DEF HiIInv
<1> QED BY <1>1, HiAlways, PTL

(* Recalling on a line the user edited keeps what stands there at the       *)
(* beginning of the line.                                                  *)
THEOREM RecallKeepsBeginning == HiSpec => KeepsBeginning
<1>1. HiIInv /\ [HiNext]_hiVars
        => [(PreviousCommand \/ NextCommand) /\ Edited
              => <<input', input>> \in StartsWith]_hiVars
  BY RecallStep
<1> QED BY <1>1, HiAlways, PTL DEF HiSpec, KeepsBeginning
-----------------------------------------------------------------------------
(* The history file.                                                       *)

\* Records in the order of their time stamps, none of them later than now.
PhInOrder(s) == \A i, j \in 1..Len(s) : i < j => s[i].ts < s[j].ts
UpTo(s, now) == Len(s) <= now /\ \A i \in 1..Len(s) : s[i].ts <= now

(* An empty history is in order.                                           *)
LEMMA EmptyHistory ==
  /\ <<>> \in Seq(Records) /\ Len(<<>>) = 0 /\ PhInOrder(<<>>) /\ Range(<<>>) = {}
  /\ \A now \in Nat : UpTo(<<>>, now)
<1>1. <<>> \in Seq(Records) /\ Len(<<>>) = 0
  BY EmptySeq
<1> QED BY <1>1, EmptyAscending DEF PhInOrder, UpTo

(* What a history in memory or in the file consists of.                    *)
LEMMA RecordsOf ==
  ASSUME NEW s \in Seq(Records)
  PROVE  /\ Len(s) \in Nat /\ DOMAIN s = 1..Len(s)
         /\ \A i \in 1..Len(s) : s[i] \in Records /\ s[i].ts \in Nat
                                /\ s[i].command \in Commands
<1>1. Len(s) \in Nat /\ DOMAIN s = 1..Len(s)
  BY LenProperties
<1>2. \A i \in 1..Len(s) : s[i] \in Records
  BY ElementOfSeq
<1>3. \A e \in Records : e.ts \in Nat /\ e.command \in Commands
  BY PhBoundsAssumption DEF Records
<1> QED BY <1>1, <1>2, <1>3

(* The two ways to say that a history is in the order of time.             *)
LEMMA TimesInOrder ==
  ASSUME NEW s \in Seq(Records), PhInOrder(s)
  PROVE  Ascending(Times(s))
<1>1. /\ Len(s) \in Nat /\ DOMAIN s = 1..Len(s)
      /\ \A i \in 1..Len(s) : s[i].ts \in Nat
  BY RecordsOf
<1>2. Times(s) \in [1..Len(s) -> Nat]
  BY <1>1 DEF Times
<1>3. Times(s) \in Seq(Nat)
  BY <1>1, <1>2, SeqDef
<1>4. Len(Times(s)) = Len(s)
  BY <1>1, <1>2, <1>3, LenProperties
<1> QED BY <1>1, <1>4 DEF PhInOrder, Ascending, Times

(* A record with the time after "now" goes to the end of the history.      *)
LEMMA AppendRecord ==
  ASSUME NEW s \in Seq(Records), NEW now \in 0..MaxClock, now < MaxClock, MaxClock \in Nat,
         NEW c \in Commands, UpTo(s, now), PhInOrder(s)
  PROVE  LET t == Append(s, [command |-> c, ts |-> now + 1])
         IN  /\ t \in Seq(Records) /\ PhInOrder(t) /\ UpTo(t, now + 1)
             /\ Len(t) = Len(s) + 1 /\ t[Len(t)].command = c
             /\ \A i \in 1..Len(s) : t[i] = s[i]
             /\ Range(s) \subseteq Range(t)
<1> DEFINE e == [command |-> c, ts |-> now + 1]
           t == Append(s, e)
<1>1. e \in Records /\ e.ts = now + 1 /\ e.command = c
  BY DEF Records
<1> HIDE DEF e
<1>2. /\ t \in Seq(Records) /\ Len(t) = Len(s) + 1
      /\ \A i \in 1..Len(s) : t[i] = s[i]
      /\ t[Len(s) + 1] = e
  BY <1>1, AppendProperties
<1>3. Len(s) \in Nat /\ DOMAIN s = 1..Len(s) /\ DOMAIN t = 1..Len(t)
      /\ \A i \in 1..Len(s) : s[i] \in Records /\ s[i].ts \in Nat
  BY <1>2, RecordsOf
<1> HIDE DEF t
<1>4. \A i \in 1..Len(t) : i = Len(s) + 1 \/ i \in 1..Len(s)
  BY <1>2, <1>3
<1>5. UpTo(t, now + 1)
  <2>1. Len(t) <= now + 1
    BY <1>2, <1>3 DEF UpTo
  <2>2. \A i \in 1..Len(t) : t[i].ts <= now + 1
    BY <1>1, <1>2, <1>3, <1>4 DEF UpTo
  <2> QED BY <2>1, <2>2 DEF UpTo
<1>6. PhInOrder(t)
  <2> SUFFICES ASSUME NEW i \in 1..Len(t), NEW j \in 1..Len(t), i < j
               PROVE  t[i].ts < t[j].ts
    BY DEF PhInOrder
  <2>1. i \in 1..Len(s) /\ t[i] = s[i]
    BY <1>2, <1>3, <1>4
  <2>2. CASE j \in 1..Len(s)
    BY <1>2, <2>1, <2>2 DEF PhInOrder
  <2>3. CASE j = Len(s) + 1
    BY <1>1, <1>2, <1>3, <2>1, <2>3 DEF UpTo
  <2> QED BY <1>4, <2>2, <2>3
<1>7. Range(s) \subseteq Range(t)
  <2> SUFFICES ASSUME NEW i \in 1..Len(s) PROVE s[i] \in Range(t)
    BY <1>3 DEF Range
  <2>1. i \in 1..Len(t) /\ t[i] = s[i]
    BY <1>2, <1>3
  <2> QED BY <1>3, <2>1 DEF Range
<1>8. t[Len(t)].command = c
  BY <1>1, <1>2
<1> QED BY <1>2, <1>5, <1>6, <1>7, <1>8 DEF t, e
-----------------------------------------------------------------------------
(* Types, order, and what a session has in memory.                         *)

\* Who writes is open; who is opening writes an empty base.
SessionInv ==
  \A r \in Repls :
    /\ writer = r => IsOpen(r)
    /\ writer = r /\ session[r] = "open" => db[r] # <<>>
    /\ session[r] = "opening" => writer = r /\ db[r] = <<>> /\ base[r] = 0

PhOrderInv ==
  /\ PhInOrder(saved) /\ UpTo(saved, clock)
  /\ \A r \in Repls : PhInOrder(db[r]) /\ UpTo(db[r], clock)

PhTypeInv == PhTypeOK /\ SessionInv /\ PhOrderInv

(* PhTypeInv holds at the start.                                             *)
LEMMA PhTypeInit == PhInit => PhTypeInv
<1> SUFFICES ASSUME PhInit PROVE PhTypeInv
  OBVIOUS
<1>1. PhTypeOK
  <2>1. interrupted \in BOOLEAN /\ overlapped \in BOOLEAN
    BY DEF PhInit
  <2> QED BY <2>1, EmptyHistory, PhBoundsAssumption DEF PhInit, PhTypeOK
<1>2. SessionInv
  BY NobodyAssumption DEF PhInit, SessionInv, IsOpen
<1>3. PhOrderInv
  BY EmptyHistory DEF PhInit, PhOrderInv
<1> QED BY <1>1, <1>2, <1>3 DEF PhTypeInv

(* Every step keeps PhTypeInv.                                               *)
LEMMA PhTypeStep == PhTypeInv /\ [PhNext]_phVars => PhTypeInv'
<1> SUFFICES ASSUME PhTypeInv, [PhNext]_phVars PROVE PhTypeInv'
  OBVIOUS
<1> USE NobodyAssumption, PhBoundsAssumption
<1>0. clock \in Nat /\ clock <= MaxClock /\ <<>> \in Seq(Records) /\ Len(<<>>) = 0
      /\ PhInOrder(<<>>) /\ UpTo(<<>>, clock)
  BY EmptyHistory DEF PhTypeInv, PhTypeOK
<1>1. ASSUME NEW r \in Repls, Create(r) PROVE PhTypeInv'
  <2>1. overlapped' \in BOOLEAN
    BY <1>1 DEF Create, Overlaps
  <2>2. PhTypeOK'
    BY <1>0, <1>1, <2>1 DEF Create, PhTypeInv, PhTypeOK
  <2>3. SessionInv'
    BY <1>1 DEF Create, PhTypeInv, PhTypeOK, SessionInv, IsOpen, Idle
  <2>4. PhOrderInv'
    BY <1>0, <1>1 DEF Create, PhTypeInv, PhTypeOK, PhOrderInv
  <2> QED BY <2>2, <2>3, <2>4 DEF PhTypeInv
<1>2. ASSUME NEW r \in Repls, Load(r) PROVE PhTypeInv'
  <2>1. overlapped' \in BOOLEAN
    BY <1>2 DEF Load, Overlaps
  <2>2. Len(saved) \in 0..MaxClock
    BY <1>0, LenProperties DEF PhTypeInv, PhTypeOK, PhOrderInv, UpTo
  <2>3. PhTypeOK'
    BY <1>2, <2>1, <2>2 DEF Load, PhTypeInv, PhTypeOK
  <2>4. SessionInv'
    BY <1>2 DEF Load, PhTypeInv, PhTypeOK, SessionInv, IsOpen, Idle
  <2>5. PhOrderInv'
    BY <1>2 DEF Load, PhTypeInv, PhTypeOK, PhOrderInv
  <2> QED BY <2>3, <2>4, <2>5 DEF PhTypeInv
<1>3. ASSUME NEW r \in Repls, LoadRaises(r) PROVE PhTypeInv'
  <2>1. interrupted' \in BOOLEAN /\ overlapped' \in BOOLEAN
    BY <1>3 DEF LoadRaises, PhTypeInv, PhTypeOK
  <2>2. PhTypeOK'
    BY <1>3, <2>1 DEF LoadRaises, PhTypeInv, PhTypeOK
  <2>3. SessionInv'
    BY <1>3 DEF LoadRaises, PhTypeInv, PhTypeOK, SessionInv, IsOpen, Idle
  <2>4. PhOrderInv'
    BY <1>3 DEF LoadRaises, PhTypeInv, PhOrderInv
  <2> QED BY <2>2, <2>3, <2>4 DEF PhTypeInv
<1>4. ASSUME NEW r \in Repls, NEW c \in Commands, Push(r, c) PROVE PhTypeInv'
  <2> DEFINE t == Append(db[r], [command |-> c, ts |-> clock + 1])
  <2>1. /\ db[r] \in Seq(Records) /\ clock \in 0..MaxClock /\ clock < MaxClock
        /\ UpTo(db[r], clock) /\ PhInOrder(db[r]) /\ Len(db[r]) \in Nat
    BY <1>4, LenProperties DEF Push, PhTypeInv, PhTypeOK, PhOrderInv
  <2>2. /\ t \in Seq(Records) /\ PhInOrder(t) /\ UpTo(t, clock + 1)
        /\ Len(t) = Len(db[r]) + 1
    BY <2>1, AppendRecord
  <2>3. t # <<>>
    BY <1>0, <2>1, <2>2
  <2>4. /\ db' = [db EXCEPT ![r] = t] /\ clock' = clock + 1 /\ saved' = saved
        /\ db'[r] = t /\ \A q \in Repls \ {r} : db'[q] = db[q]
    BY <1>4 DEF Push, PhTypeInv, PhTypeOK
  <2> HIDE DEF t
  <2>5. interrupted' \in BOOLEAN /\ overlapped' \in BOOLEAN
    BY <1>4 DEF Push, PhTypeInv, PhTypeOK
  <2>6. PhTypeOK'
    <3>1. db' \in [Repls -> Seq(Records)]
      BY <2>2, <2>4 DEF PhTypeInv, PhTypeOK
    <3>2. clock' \in 0..MaxClock
      BY <2>1, <2>4
    <3> QED BY <1>4, <2>5, <3>1, <3>2 DEF Push, PhTypeInv, PhTypeOK
  <2>7. SessionInv'
    BY <1>4, <2>3, <2>4 DEF Push, PhTypeInv, PhTypeOK, SessionInv, IsOpen, Idle
  <2>8. ASSUME NEW s \in Seq(Records), UpTo(s, clock) PROVE UpTo(s, clock')
    <3>1. Len(s) \in Nat /\ \A i \in 1..Len(s) : s[i].ts \in Nat
      BY RecordsOf
    <3> QED BY <2>1, <2>4, <2>8, <3>1 DEF UpTo
  <2>9. PhOrderInv'
    BY <2>2, <2>4, <2>8 DEF PhTypeInv, PhTypeOK, PhOrderInv
  <2> QED BY <2>6, <2>7, <2>9 DEF PhTypeInv
<1>5. ASSUME NEW r \in Repls, EndCommit(r) PROVE PhTypeInv'
  <2>1. /\ db[r] \in Seq(Records) /\ PhInOrder(db[r]) /\ UpTo(db[r], clock)
        /\ Range(db[r]) \subseteq Records
    BY RangeInSet DEF PhTypeInv, PhTypeOK, PhOrderInv
  <2>2. session[r] = "open" => db[r][Len(db[r])].command \in Commands
    <3>1. session[r] = "open" => db[r] # <<>>
      BY <1>5 DEF EndCommit, PhTypeInv, SessionInv
    <3>2. db[r] # <<>> => Len(db[r]) \in 1..Len(db[r])
      BY <2>1, LenZero
    <3> QED BY <2>1, <3>1, <3>2, RecordsOf
  <2>3. interrupted' \in BOOLEAN /\ overlapped' \in BOOLEAN
    BY <1>5 DEF EndCommit, PhTypeInv, PhTypeOK
  <2>4. PhTypeOK'
    BY <1>5, <2>1, <2>2, <2>3 DEF EndCommit, PhTypeInv, PhTypeOK
  <2>5. SessionInv'
    BY <1>5 DEF EndCommit, PhTypeInv, PhTypeOK, SessionInv, IsOpen
  <2>6. PhOrderInv'
    BY <1>5, <2>1 DEF EndCommit, PhTypeInv, PhOrderInv
  <2> QED BY <2>4, <2>5, <2>6 DEF PhTypeInv
<1>6. ASSUME NEW r \in Repls, CommitRaises(r) PROVE PhTypeInv'
  <2>1. interrupted' \in BOOLEAN /\ overlapped' \in BOOLEAN /\ faults' \in 0..MaxFaults
    BY <1>6 DEF CommitRaises, PhTypeInv, PhTypeOK
  <2>2. PhTypeOK'
    BY <1>6, <2>1 DEF CommitRaises, PhTypeInv, PhTypeOK
  <2>3. SessionInv'
    BY <1>6 DEF CommitRaises, PhTypeInv, PhTypeOK, SessionInv, IsOpen
  <2>4. PhOrderInv'
    BY <1>6 DEF CommitRaises, PhTypeInv, PhOrderInv
  <2> QED BY <2>2, <2>3, <2>4 DEF PhTypeInv
<1>7. ASSUME NEW r \in Repls, Close(r) PROVE PhTypeInv'
  <2>1. interrupted' \in BOOLEAN /\ overlapped' \in BOOLEAN
    BY <1>7 DEF Close, PhTypeInv, PhTypeOK
  <2>2. PhTypeOK'
    BY <1>0, <1>7, <2>1 DEF Close, PhTypeInv, PhTypeOK
  <2>3. SessionInv'
    BY <1>7 DEF Close, PhTypeInv, PhTypeOK, SessionInv, IsOpen, Idle
  <2>4. PhOrderInv'
    BY <1>0, <1>7 DEF Close, PhTypeInv, PhTypeOK, PhOrderInv
  <2> QED BY <2>2, <2>3, <2>4 DEF PhTypeInv
<1>8. CASE Crash
  <2>1. interrupted' \in BOOLEAN /\ overlapped' \in BOOLEAN /\ faults' \in 0..MaxFaults
    BY <1>8 DEF Crash, Idle, PhTypeInv, PhTypeOK
  <2>2. PhTypeOK'
    BY <1>0, <1>8, <2>1 DEF Crash, PhTypeInv, PhTypeOK
  <2>3. SessionInv'
    BY <1>8 DEF Crash, SessionInv, IsOpen
  <2>4. PhOrderInv'
    BY <1>0, <1>8 DEF Crash, PhTypeInv, PhOrderInv
  <2> QED BY <2>2, <2>3, <2>4 DEF PhTypeInv
<1>9. CASE UNCHANGED phVars
  <2>1. interrupted' \in BOOLEAN /\ overlapped' \in BOOLEAN
    BY <1>9 DEF phVars, PhTypeInv, PhTypeOK
  <2> QED BY <1>9, <2>1 DEF phVars, PhTypeInv, PhTypeOK, SessionInv, IsOpen, PhOrderInv
<1> QED
  BY <1>1, <1>2, <1>3, <1>4, <1>5, <1>6, <1>7, <1>8, <1>9 DEF PhNext

(* PhTypeInv always holds.                                                   *)
LEMMA PhTypeAlways == PhSpec => []PhTypeInv
  BY PhTypeInit, PhTypeStep, PTL DEF PhSpec

(* Every variable of the shared history keeps its type, however often it is *)
(* loaded, committed, cut short and lost.                                   *)
THEOREM PhTypeCorrect == PhSpec => []PhTypeOK
<1>1. PhTypeInv => PhTypeOK
  BY DEF PhTypeInv
<1> QED BY <1>1, PhTypeAlways, PTL
-----------------------------------------------------------------------------
(* The file and the REPLs are in order.                                    *)

\* push compares with the newest command of this session.
LastInv ==
  ~interrupted =>
    \A r \in Repls : session[r] = "open" /\ writer # r /\ Len(db[r]) > base[r]
                       => lastOf[r] = db[r][Len(db[r])].command

SoundInv == TornOnlyIfInterrupted /\ RecordedOnce /\ LastInv

(* SoundInv holds at the start.                                            *)
LEMMA SoundInit == PhInit => SoundInv
<1> SUFFICES ASSUME PhInit PROVE SoundInv
  OBVIOUS
<1>1. TornOnlyIfInterrupted
  BY DEF PhInit, TornOnlyIfInterrupted
<1>2. RecordedOnce
  BY EmptyHistory DEF PhInit, RecordedOnce
<1>3. LastInv
  BY DEF PhInit, LastInv
<1> QED BY <1>1, <1>2, <1>3 DEF SoundInv

(* An empty memory, and one that holds what it found, repeat nothing.      *)
LEMMA NothingNew ==
  ASSUME NEW s \in Seq(Records), NEW n \in Nat, Len(s) <= n
  PROVE  /\ ~(Len(s) > n)
         /\ \A i \in (n + 1)..(Len(s) - 1) : s[i].command # s[i + 1].command
<1>1. Len(s) \in Nat
  BY RecordsOf
<1> QED BY <1>1

(* Every step keeps TornOnlyIfInterrupted.                                 *)
LEMMA TornStep == PhTypeInv /\ SoundInv /\ [PhNext]_phVars => TornOnlyIfInterrupted'
<1> SUFFICES ASSUME PhTypeInv, SoundInv, [PhNext]_phVars PROVE TornOnlyIfInterrupted'
  OBVIOUS
<1> USE NobodyAssumption DEF PhTypeInv, PhTypeOK, SoundInv, TornOnlyIfInterrupted, Idle
<1>1. ASSUME NEW r \in Repls, Create(r) PROVE TornOnlyIfInterrupted'
  BY <1>1 DEF Create
<1>2. ASSUME NEW r \in Repls, Load(r) PROVE TornOnlyIfInterrupted'
  BY <1>2 DEF Load
<1>3. ASSUME NEW r \in Repls, LoadRaises(r) PROVE TornOnlyIfInterrupted'
  BY <1>3 DEF LoadRaises
<1>4. ASSUME NEW r \in Repls, NEW c \in Commands, Push(r, c)
      PROVE  TornOnlyIfInterrupted'
  BY <1>4 DEF Push
<1>5. ASSUME NEW r \in Repls, EndCommit(r) PROVE TornOnlyIfInterrupted'
  BY <1>5 DEF EndCommit
<1>6. ASSUME NEW r \in Repls, CommitRaises(r) PROVE TornOnlyIfInterrupted'
  BY <1>6 DEF CommitRaises
<1>7. ASSUME NEW r \in Repls, Close(r) PROVE TornOnlyIfInterrupted'
  BY <1>7 DEF Close
<1>8. CASE Crash
  BY <1>8 DEF Crash
<1>9. CASE UNCHANGED phVars
  BY <1>9 DEF phVars
<1> QED
  BY <1>1, <1>2, <1>3, <1>4, <1>5, <1>6, <1>7, <1>8, <1>9 DEF PhNext

\* What one REPL's memory owes to RecordedOnce and LastInv.
PhOnce(r) ==
  /\ \A i \in (base[r] + 1)..(Len(db[r]) - 1) : db[r][i].command # db[r][i + 1].command
  /\ session[r] = "open" /\ writer # r /\ Len(db[r]) > base[r]
       => lastOf[r] = db[r][Len(db[r])].command

(* Every step keeps RecordedOnce and LastInv.                              *)
LEMMA OnceStep == PhTypeInv /\ SoundInv /\ [PhNext]_phVars => (RecordedOnce /\ LastInv)'
<1> SUFFICES ASSUME PhTypeInv, SoundInv, [PhNext]_phVars, ~interrupted',
                    NEW q \in Repls
             PROVE  PhOnce(q)'
  BY DEF PhOnce, RecordedOnce, LastInv
<1> USE NobodyAssumption
<1>0. \A r \in Repls : base[r] \in Nat /\ db[r] \in Seq(Records) /\ Len(db[r]) \in Nat
  BY RecordsOf, PhBoundsAssumption DEF PhTypeInv, PhTypeOK
<1>a. ~interrupted => PhOnce(q)
  BY DEF SoundInv, RecordedOnce, LastInv, PhOnce
\* A step that leaves q's memory alone, and does not end a commit of q's.
<1>b. ASSUME ~interrupted, UNCHANGED <<db[q], base[q], lastOf[q]>>,
             session'[q] = "open" /\ writer' # q => session[q] = "open" /\ writer # q
      PROVE  PhOnce(q)'
  BY <1>a, <1>b DEF PhOnce
<1>c. ASSUME db'[q] = <<>>, base'[q] \in Nat PROVE PhOnce(q)'
  BY <1>c, EmptyHistory, NothingNew DEF PhOnce
<1>1. ASSUME NEW r \in Repls, Create(r) PROVE PhOnce(q)'
  <2>1. CASE q = r
    BY <1>1, <1>c, <2>1 DEF Create, PhTypeInv, PhTypeOK
  <2>2. CASE q # r
    BY <1>1, <1>b, <2>2 DEF Create, PhTypeInv, PhTypeOK, Idle
  <2> QED BY <2>1, <2>2
<1>2. ASSUME NEW r \in Repls, Load(r) PROVE PhOnce(q)'
  <2>1. CASE q = r
    <3>1. db'[q] = saved /\ base'[q] = Len(saved) /\ saved \in Seq(Records)
      BY <1>2, <2>1 DEF Load, PhTypeInv, PhTypeOK
    <3>2. Len(saved) \in Nat /\ Len(saved) <= Len(saved)
      BY <3>1, RecordsOf
    <3> QED BY <3>1, <3>2, NothingNew DEF PhOnce
  <2>2. CASE q # r
    BY <1>2, <1>b, <2>2 DEF Load, PhTypeInv, PhTypeOK, Idle
  <2> QED BY <2>1, <2>2
<1>3. ASSUME NEW r \in Repls, LoadRaises(r) PROVE PhOnce(q)'
  BY <1>3, <1>b DEF LoadRaises, PhTypeInv, PhTypeOK
<1>4. ASSUME NEW r \in Repls, NEW c \in Commands, Push(r, c) PROVE PhOnce(q)'
  <2>1. CASE q # r
    BY <1>4, <1>b, <2>1 DEF Push, PhTypeInv, PhTypeOK, Idle
  <2>2. CASE q = r
    <3> DEFINE t == Append(db[q], [command |-> c, ts |-> clock + 1])
    <3>1. /\ t \in Seq(Records) /\ Len(t) = Len(db[q]) + 1 /\ t[Len(t)].command = c
          /\ \A i \in 1..Len(db[q]) : t[i] = db[q][i]
      <4>1. clock \in 0..MaxClock /\ clock < MaxClock /\ UpTo(db[q], clock) /\ PhInOrder(db[q])
        BY <1>4 DEF Push, PhTypeInv, PhTypeOK, PhOrderInv
      <4> QED BY <1>0, <4>1, AppendRecord, PhBoundsAssumption
    <3>2. db'[q] = t /\ base'[q] = base[q] /\ writer' = q
      BY <1>4, <2>2 DEF Push, PhTypeInv, PhTypeOK
    <3> HIDE DEF t
    <3>3. /\ ~interrupted
          /\ Len(db[q]) > base[q] => c # db[q][Len(db[q])].command
      BY <1>4, <1>a, <2>2 DEF Push, Idle, PhOnce
    <3>4. ASSUME NEW i \in (base[q] + 1)..(Len(t) - 1)
          PROVE  t[i].command # t[i + 1].command
      <4>1. CASE i = Len(db[q])
        BY <1>0, <3>1, <3>3, <4>1
      <4>2. CASE i # Len(db[q])
        <5>1. /\ i \in (base[q] + 1)..(Len(db[q]) - 1)
              /\ i \in 1..Len(db[q]) /\ i + 1 \in 1..Len(db[q])
          BY <1>0, <3>1, <4>2
        <5> QED BY <1>a, <3>1, <3>3, <5>1 DEF PhOnce
      <4> QED BY <4>1, <4>2
    <3> QED BY <3>2, <3>4 DEF PhOnce
  <2> QED BY <2>1, <2>2
<1>5. ASSUME NEW r \in Repls, EndCommit(r) PROVE PhOnce(q)'
  <2>1. CASE q # r
    BY <1>5, <1>b, <2>1 DEF EndCommit, PhTypeInv, PhTypeOK
  <2>2. CASE q = r /\ session[q] = "open"
    <3>1. lastOf'[q] = db'[q][Len(db'[q])].command /\ UNCHANGED <<db, base>> /\ ~interrupted
      BY <1>5, <2>2 DEF EndCommit, PhTypeInv, PhTypeOK
    <3> QED BY <1>a, <3>1 DEF PhOnce
  <2>3. CASE q = r /\ session[q] = "opening"
    BY <1>0, <1>5, <1>c, <2>3 DEF EndCommit, PhTypeInv, SessionInv
  <2>4. q = r => IsOpen(q)
    BY <1>5 DEF EndCommit, PhTypeInv, SessionInv
  <2> QED BY <2>1, <2>2, <2>3, <2>4 DEF IsOpen
<1>6. ASSUME NEW r \in Repls, CommitRaises(r) PROVE PhOnce(q)'
  BY <1>6 DEF CommitRaises
<1>7. ASSUME NEW r \in Repls, Close(r) PROVE PhOnce(q)'
  <2>1. CASE q = r
    BY <1>0, <1>7, <1>c, <2>1 DEF Close, PhTypeInv, PhTypeOK
  <2>2. CASE q # r
    BY <1>7, <1>b, <2>2 DEF Close, PhTypeInv, PhTypeOK
  <2> QED BY <2>1, <2>2
<1>8. CASE Crash
  BY <1>0, <1>8, <1>c DEF Crash
<1>9. CASE UNCHANGED phVars
  BY <1>9, <1>b DEF phVars
<1> QED
  BY <1>1, <1>2, <1>3, <1>4, <1>5, <1>6, <1>7, <1>8, <1>9 DEF PhNext

(* SoundInv always holds.                                                  *)
LEMMA SoundAlways == PhSpec => []SoundInv
<1>1. PhTypeInv /\ SoundInv /\ [PhNext]_phVars => SoundInv'
  BY TornStep, OnceStep DEF SoundInv
<1> QED BY <1>1, SoundInit, PhTypeAlways, PTL DEF PhSpec

(* The file and every REPL's memory are in the order of time; only a commit *)
(* that was cut short makes the file unreadable or keeps a REPL from        *)
(* opening; and as long as none was, no REPL records a command twice in a   *)
(* row.                                                                     *)
THEOREM FileSound == PhSpec => []FileIsSound
<1>1. PhTypeInv => Chronological
  BY TimesInOrder DEF PhTypeInv, PhTypeOK, PhOrderInv, Chronological
<1>2. PhTypeInv /\ SoundInv => FileIsSound
  BY <1>1 DEF SoundInv, FileIsSound
<1> QED BY <1>2, PhTypeAlways, SoundAlways, PTL
-----------------------------------------------------------------------------
(* Nothing is lost while REPLs are open one at a time.                     *)

KeptInv ==
  /\ fileState = "absent" => committed = {}
  /\ AloneNothingLost
  /\ ~overlapped => \A r \in Repls : IsOpen(r) =>
       /\ committed \subseteq Range(db[r])
       /\ \A other \in Repls : IsOpen(other) => other = r

(* KeptInv holds at the start.                                             *)
LEMMA KeptInit == PhInit => KeptInv
  BY DEF PhInit, KeptInv, AloneNothingLost, IsOpen

(* Every step keeps KeptInv.                                               *)
LEMMA KeptStep == PhTypeInv /\ KeptInv /\ [PhNext]_phVars => KeptInv'
<1> SUFFICES ASSUME PhTypeInv, KeptInv, [PhNext]_phVars PROVE KeptInv'
  OBVIOUS
<1> USE NobodyAssumption DEF KeptInv, AloneNothingLost, IsOpen
<1>1. ASSUME NEW r \in Repls, Create(r) PROVE KeptInv'
  <2>1. /\ fileState = "absent" /\ fileState' = "torn" /\ committed = {} /\ committed' = {}
        /\ overlapped' = (overlapped \/ Overlaps(r))
        /\ session' = [session EXCEPT ![r] = "opening"]
        BY <1>1 DEF Create
  <2>2. ASSUME ~overlapped', NEW p \in Repls, IsOpen(p)' PROVE p = r
        BY <2>1, <2>2 DEF Overlaps, PhTypeInv, PhTypeOK
  <2>3. AloneNothingLost'
        BY <2>1
  <2> QED BY <2>1, <2>2, <2>3
<1>2. ASSUME NEW r \in Repls, Load(r) PROVE KeptInv'
  BY <1>2 DEF Load, Overlaps, PhTypeInv, PhTypeOK
<1>3. ASSUME NEW r \in Repls, LoadRaises(r) PROVE KeptInv'
  BY <1>3 DEF LoadRaises, PhTypeInv, PhTypeOK
<1>4. ASSUME NEW r \in Repls, NEW c \in Commands, Push(r, c) PROVE KeptInv'
  <2> DEFINE t == Append(db[r], [command |-> c, ts |-> clock + 1])
  <2>1. Range(db[r]) \subseteq Range(t)
    <3>1. /\ db[r] \in Seq(Records) /\ clock \in 0..MaxClock /\ clock < MaxClock
          /\ UpTo(db[r], clock) /\ PhInOrder(db[r])
      BY <1>4 DEF Push, PhTypeInv, PhTypeOK, PhOrderInv
    <3> QED BY <3>1, AppendRecord, PhBoundsAssumption
  <2>2. db' = [db EXCEPT ![r] = t] /\ UNCHANGED <<session, committed, overlapped>>
        /\ fileState' = "torn"
    BY <1>4 DEF Push
  <2> HIDE DEF t
  <2> QED BY <2>1, <2>2 DEF PhTypeInv, PhTypeOK
<1>5. ASSUME NEW r \in Repls, EndCommit(r) PROVE KeptInv'
  <2>1. IsOpen(r)
    BY <1>5 DEF EndCommit, PhTypeInv, SessionInv
  <2>2. ~overlapped => committed' = Range(db[r])
    BY <1>5, <2>1 DEF EndCommit
  <2> QED BY <1>5, <2>1, <2>2 DEF EndCommit, PhTypeInv, PhTypeOK
<1>6. ASSUME NEW r \in Repls, CommitRaises(r) PROVE KeptInv'
  BY <1>6 DEF CommitRaises, PhTypeInv, PhTypeOK
<1>7. ASSUME NEW r \in Repls, Close(r) PROVE KeptInv'
  BY <1>7 DEF Close, PhTypeInv, PhTypeOK
<1>8. CASE Crash
  BY <1>8 DEF Crash
<1>9. CASE UNCHANGED phVars
  BY <1>9 DEF phVars
<1> QED
  BY <1>1, <1>2, <1>3, <1>4, <1>5, <1>6, <1>7, <1>8, <1>9 DEF PhNext

(* A file that can be read has every command that was ever committed, as    *)
(* long as no two REPLs were open at the same time: whatever crashed, and   *)
(* whatever could not be written.                                           *)
THEOREM NothingLostAlone == PhSpec => []AloneNothingLost
<1>1. KeptInv => AloneNothingLost
  BY DEF KeptInv
<1> QED BY <1>1, KeptInit, KeptStep, PhTypeAlways, PTL DEF PhSpec
-----------------------------------------------------------------------------
(* What one ReplView keeps, as MCView runs it: every step of the whole is  *)
(* a step of one component, which leaves the variables of the others       *)
(* alone.                                                                  *)

(* A behaviour of the whole is a behaviour of each component, the ones     *)
(* that stand still included.                                              *)
THEOREM ViewComposes == Spec => ErSpec /\ HiSpec /\ PhSpec
<1>1. Init => ErInit /\ HiInit /\ PhInit
  BY DEF Init
<1>2. [Next]_vars => [ErNext]_erVars /\ [HiNext]_hiVars /\ [PhNext]_phVars
  BY DEF Next, vars
<1> QED BY <1>1, <1>2, PTL DEF Spec, ErSpec, HiSpec, PhSpec

(* So the variables of every component are what its handlers take them     *)
(* for, in every state of the whole.                                       *)
THEOREM ViewTypeCorrect == Spec => []TypesOK
<1> QED BY ViewComposes, ErTypeCorrect, HiTypeCorrect, PhTypeCorrect, PTL
        DEF TypesOK

(* And every component keeps its promises in the whole.                    *)
THEOREM ViewSafe ==
  Spec => /\ [](RegionIsExact /\ SentOnce /\ HistoryIsSound /\ FileIsSound /\ AloneNothingLost)
          /\ OutputKept
          /\ KeepsBeginning
<1> QED BY ViewComposes, RegionAlwaysExact, SentAlwaysOnce, HistoryAlwaysSound,
           FileSound, NothingLostAlone, OutputIsKept, RecallKeepsBeginning, PTL
=============================================================================
