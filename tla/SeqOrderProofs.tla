--------------------------- MODULE SeqOrderProofs ---------------------------
(***************************************************************************)
(* Lemmas about ascending sequences and the sets of their elements: with   *)
(* them the invariants about queues are proved on sets, without indices;   *)
(* about parts of sequences; about how many elements of a sequence are in  *)
(* a set; and two forms of induction a prover can use, which rest on the   *)
(* fact that the order of the numbers is well-founded.                     *)
(***************************************************************************)
EXTENDS SeqOrder, FiniteSets, SequenceTheorems, FiniteSetTheorems,
        WellFoundedInduction, TLAPS

\* Every element of S lies below every element of T.
Below(S, T) == \A x \in S, y \in T : x < y

(* The empty sequence is ascending and has no elements.                    *)
LEMMA EmptyAscending == Ascending(<<>>) /\ Range(<<>>) = {}
  BY DEF Ascending, Range

(* Only the empty sequence has length zero.                                *)
LEMMA LenZero ==
  ASSUME NEW S, NEW s \in Seq(S)
  PROVE  Len(s) \in Nat /\ (s = <<>> <=> Len(s) = 0)
<1>1. Len(s) \in Nat
  BY LenProperties
<1>2. s # <<>> => Len(s) # 0
  BY EmptySeq
<1>3. Len(<<>>) = 0
  BY EmptySeq
<1> QED BY <1>1, <1>2, <1>3

(* A sequence that is not longer than one is empty or has length one.      *)
LEMMA LenAtMostOne ==
  ASSUME NEW S, NEW s \in Seq(S), Len(s) <= 1
  PROVE  Len(s) \in {0, 1} /\ (s = <<>> <=> Len(s) = 0) /\ (s # <<>> => Len(s) = 1)
<1> DEFINE n == Len(s)
<1>1. n \in Nat /\ n <= 1 /\ (s = <<>> <=> n = 0)
  BY LenZero
<1> HIDE DEF n
<1>2. n \in {0, 1} /\ (n # 0 => n = 1)
  BY <1>1
<1> QED BY <1>1, <1>2 DEF n

(* Elements of a sequence over S are in S; only <<>> has none.             *)
LEMMA RangeInSet ==
  ASSUME NEW S, NEW s \in Seq(S)
  PROVE  /\ Range(s) \subseteq S
         /\ Range(s) = {} => s = <<>>
         /\ \A x \in Range(s) : \E i \in 1..Len(s) : s[i] = x
<1>1. Len(s) \in Nat /\ DOMAIN s = 1..Len(s) /\ \A i \in 1..Len(s) : s[i] \in S
  BY LenProperties, ElementOfSeq
<1>2. ASSUME s # <<>> PROVE Range(s) # {}
  <2>1. 1 \in 1..Len(s)
    BY <1>2, EmptySeq
  <2> QED BY <1>1, <2>1 DEF Range
<1> QED BY <1>1, <1>2 DEF Range

(* Append adds one element at the upper end.                               *)
LEMMA AppendAscending ==
  ASSUME NEW S, S \subseteq Nat, NEW s \in Seq(S), NEW e \in S
  PROVE  /\ Append(s, e) \in Seq(S)
         /\ Range(Append(s, e)) = Range(s) \cup {e}
         /\ Ascending(s) /\ Below(Range(s), {e}) => Ascending(Append(s, e))
<1>1. /\ Append(s, e) \in Seq(S) /\ Len(Append(s, e)) = Len(s) + 1
      /\ \A i \in 1..Len(s) : Append(s, e)[i] = s[i]
      /\ Append(s, e)[Len(s) + 1] = e
  BY AppendProperties
<1>2. /\ Len(s) \in Nat
      /\ DOMAIN s = 1..Len(s) /\ DOMAIN Append(s, e) = 1..(Len(s) + 1)
  BY <1>1, LenProperties
<1>3. Range(Append(s, e)) = Range(s) \cup {e}
  BY <1>1, <1>2 DEF Range
<1>4. ASSUME Ascending(s), Below(Range(s), {e})
      PROVE  Ascending(Append(s, e))
  <2>1. \A i \in 1..Len(s) : s[i] < e
    BY <1>2, <1>4 DEF Below, Range
  <2>2. SUFFICES ASSUME NEW i \in 1..(Len(s) + 1), NEW j \in 1..(Len(s) + 1), i < j
                 PROVE  Append(s, e)[i] < Append(s, e)[j]
    BY <1>1 DEF Ascending
  <2>3. CASE j = Len(s) + 1
    <3>1. i \in 1..Len(s)
      BY <1>2, <2>2, <2>3
    <3> QED BY <1>1, <2>1, <2>3, <3>1
  <2>4. CASE j \in 1..Len(s)
    <3>1. i \in 1..Len(s)
      BY <1>2, <2>2, <2>4
    <3> QED BY <1>1, <1>4, <2>2, <2>4, <3>1 DEF Ascending
  <2> QED BY <1>2, <2>3, <2>4
<1> QED BY <1>1, <1>3, <1>4

(* A non-empty ascending sequence is its least element and an ascending    *)
(* rest.                                                                   *)
LEMMA TailAscending ==
  ASSUME NEW S, S \subseteq Nat, NEW s \in Seq(S), s # <<>>
  PROVE  /\ Head(s) \in S /\ Tail(s) \in Seq(S)
         /\ Range(s) = {Head(s)} \cup Range(Tail(s))
         /\ Ascending(s) => Ascending(Tail(s)) /\ Below({Head(s)}, Range(Tail(s)))
<1>1. /\ Head(s) \in S /\ Tail(s) \in Seq(S) /\ Len(Tail(s)) = Len(s) - 1
      /\ \A i \in 1..Len(Tail(s)) : Tail(s)[i] = s[i + 1]
  BY HeadTailProperties
<1>2. /\ Len(s) \in Nat \ {0} /\ Head(s) = s[1]
      /\ DOMAIN s = 1..Len(s) /\ DOMAIN Tail(s) = 1..(Len(s) - 1)
  BY <1>1, EmptySeq, LenProperties
<1>3. \A i \in 2..Len(s) : i - 1 \in 1..Len(Tail(s)) /\ s[i] = Tail(s)[i - 1]
  BY <1>1, <1>2
<1>4. Range(s) = {Head(s)} \cup Range(Tail(s))
  <2>1. \A x \in Range(Tail(s)) : x \in Range(s)
    <3> SUFFICES ASSUME NEW i \in 1..(Len(s) - 1)
                 PROVE  Tail(s)[i] \in Range(s)
      BY <1>2 DEF Range
    <3>1. i + 1 \in 1..Len(s) /\ Tail(s)[i] = s[i + 1]
      BY <1>1, <1>2
    <3> QED BY <1>2, <3>1 DEF Range
  <2>2. \A x \in Range(s) : x = Head(s) \/ x \in Range(Tail(s))
    <3> SUFFICES ASSUME NEW i \in 1..Len(s)
                 PROVE  s[i] = Head(s) \/ s[i] \in Range(Tail(s))
      BY <1>2 DEF Range
    <3>1. CASE i = 1
      BY <1>2, <3>1
    <3>2. CASE i \in 2..Len(s)
      BY <1>1, <1>2, <1>3, <3>2 DEF Range
    <3> QED BY <1>2, <3>1, <3>2
  <2>3. Head(s) \in Range(s)
    BY <1>2 DEF Range
  <2> QED BY <2>1, <2>2, <2>3
<1>5. ASSUME Ascending(s)
      PROVE  Ascending(Tail(s)) /\ Below({Head(s)}, Range(Tail(s)))
  <2>1. ASSUME NEW i \in 1..Len(Tail(s))
        PROVE  i + 1 \in 1..Len(s) /\ Head(s) < Tail(s)[i]
    <3>1. i + 1 \in 1..Len(s) /\ 1 \in 1..Len(s) /\ 1 < i + 1
      BY <1>1, <1>2
    <3> QED BY <1>1, <1>2, <1>5, <3>1 DEF Ascending
  <2>2. Ascending(Tail(s))
    <3> SUFFICES ASSUME NEW i \in 1..Len(Tail(s)), NEW j \in 1..Len(Tail(s)), i < j
                 PROVE  Tail(s)[i] < Tail(s)[j]
      BY DEF Ascending
    <3>1. i + 1 \in 1..Len(s) /\ j + 1 \in 1..Len(s) /\ i + 1 < j + 1
      BY <2>1
    <3> QED BY <1>1, <1>5, <3>1 DEF Ascending
  <2>3. Below({Head(s)}, Range(Tail(s)))
    BY <1>1, <1>2, <2>1 DEF Below, Range
  <2> QED BY <2>2, <2>3
<1> QED BY <1>1, <1>4, <1>5

(* Two ascending sequences, the first below the second, make one.          *)
LEMMA ConcatAscending ==
  ASSUME NEW S, S \subseteq Nat, NEW s \in Seq(S), NEW t \in Seq(S)
  PROVE  /\ s \o t \in Seq(S)
         /\ Len(s) <= Len(s \o t) /\ \A i \in 1..Len(s) : (s \o t)[i] = s[i]
         /\ Range(s \o t) = Range(s) \cup Range(t)
         /\ Ascending(s) /\ Ascending(t) /\ Below(Range(s), Range(t))
              => Ascending(s \o t)
<1>1. /\ s \o t \in Seq(S) /\ Len(s \o t) = Len(s) + Len(t)
      /\ \A i \in 1..(Len(s) + Len(t)) :
           (s \o t)[i] = IF i <= Len(s) THEN s[i] ELSE t[i - Len(s)]
  BY ConcatProperties
<1>2. /\ Len(s) \in Nat /\ Len(t) \in Nat
      /\ DOMAIN s = 1..Len(s) /\ DOMAIN t = 1..Len(t)
      /\ DOMAIN (s \o t) = 1..(Len(s) + Len(t))
  BY <1>1, LenProperties
<1>3. \A i \in 1..Len(s) : i \in 1..(Len(s) + Len(t)) /\ (s \o t)[i] = s[i]
  BY <1>1, <1>2
<1>4. \A i \in 1..Len(t) : Len(s) + i \in 1..(Len(s) + Len(t))
                           /\ (s \o t)[Len(s) + i] = t[i]
  BY <1>1, <1>2
<1>5. Range(s \o t) = Range(s) \cup Range(t)
  <2>1. \A x \in Range(s) \cup Range(t) : x \in Range(s \o t)
    BY <1>2, <1>3, <1>4 DEF Range
  <2>2. ASSUME NEW i \in 1..(Len(s) + Len(t))
        PROVE  (s \o t)[i] \in Range(s) \cup Range(t)
    <3>1. CASE i <= Len(s)
      BY <1>1, <1>2, <3>1 DEF Range
    <3>2. CASE i > Len(s)
      <4>1. i - Len(s) \in 1..Len(t) /\ (s \o t)[i] = t[i - Len(s)]
        BY <1>1, <1>2, <3>2
      <4> QED BY <1>2, <4>1 DEF Range
    <3> QED BY <1>2, <3>1, <3>2
  <2> QED BY <1>2, <2>1, <2>2 DEF Range
<1>6. ASSUME Ascending(s), Ascending(t), Below(Range(s), Range(t))
      PROVE  Ascending(s \o t)
  <2> SUFFICES ASSUME NEW i \in 1..(Len(s) + Len(t)),
                      NEW j \in 1..(Len(s) + Len(t)), i < j
               PROVE  (s \o t)[i] < (s \o t)[j]
    BY <1>1 DEF Ascending
  <2>1. CASE j <= Len(s)
    <3>1. i \in 1..Len(s) /\ j \in 1..Len(s)
      BY <1>2, <2>1
    <3> QED BY <1>3, <1>6, <3>1 DEF Ascending
  <2>2. CASE i <= Len(s) /\ j > Len(s)
    <3>1. i \in 1..Len(s) /\ j - Len(s) \in 1..Len(t)
      BY <1>2, <2>2
    <3>2. s[i] \in Range(s) /\ t[j - Len(s)] \in Range(t)
      BY <1>2, <3>1 DEF Range
    <3> QED BY <1>1, <1>2, <1>6, <2>2, <3>1, <3>2 DEF Below
  <2>3. CASE i > Len(s)
    <3>1. /\ i - Len(s) \in 1..Len(t) /\ j - Len(s) \in 1..Len(t)
          /\ i - Len(s) < j - Len(s)
      BY <1>2, <2>3
    <3>2. (s \o t)[i] = t[i - Len(s)] /\ (s \o t)[j] = t[j - Len(s)]
      BY <1>1, <1>2, <2>3, <3>1
    <3> QED BY <1>6, <3>1, <3>2 DEF Ascending
  <2> QED BY <1>2, <2>1, <2>2, <2>3
<1> QED BY <1>1, <1>2, <1>3, <1>5, <1>6
-----------------------------------------------------------------------------
(* Parts of sequences.                                                     *)

(* What a sequence has is what stands at its places.                       *)
LEMMA RangeIsPlaces ==
  ASSUME NEW S, NEW s \in Seq(S)
  PROVE  /\ \A i \in 1..Len(s) : s[i] \in Range(s) /\ s[i] \in S
         /\ \A x \in Range(s) : \E i \in 1..Len(s) : x = s[i]
BY ElementOfSeq, RangeEquality

(* A sequence with an element more at its end.                             *)
LEMMA AppendIs ==
  ASSUME NEW S, NEW s \in Seq(S), NEW e \in S
  PROVE  /\ Append(s, e) \in Seq(S) /\ Len(Append(s, e)) = Len(s) + 1
         /\ \A i \in 1..(Len(s) + 1) : Append(s, e)[i] = IF i <= Len(s) THEN s[i] ELSE e
         /\ Range(Append(s, e)) = Range(s) \cup {e}
<1> DEFINE t == Append(s, e)
<1>1. Len(s) \in Nat /\ t \in Seq(S) /\ Len(t) = Len(s) + 1
      /\ (\A i \in 1..Len(s) : t[i] = s[i]) /\ t[Len(s) + 1] = e
  BY AppendProperties, LenProperties
<1>2. t = s \o <<e>> /\ <<e>> \in Seq(S) /\ Range(<<e>>) = {e}
  BY AppendIsConcat DEF Range
<1> HIDE DEF t
<1>3. \A i \in 1..(Len(s) + 1) : t[i] = IF i <= Len(s) THEN s[i] ELSE e
  <2> TAKE i \in 1..(Len(s) + 1)
  <2>1. CASE i <= Len(s)
    <3>1. i \in 1..Len(s)
      BY <1>1, <2>1
    <3> QED BY <1>1, <2>1, <3>1
  <2>2. CASE ~(i <= Len(s))
    <3>1. i = Len(s) + 1
      BY <1>1, <2>2
    <3> QED BY <1>1, <2>2, <3>1
  <2> QED BY <2>1, <2>2
<1>4. Range(t) = Range(s) \cup {e}
  <2> DEFINE r == <<e>>
  <2>1. r \in Seq(S) /\ Range(r) = {e} /\ t = s \o r
    BY <1>2
  <2> HIDE DEF r
  <2>2. Range(s \o r) = Range(s) \cup Range(r)
    BY <2>1, RangeConcatenation
  <2> QED BY <2>1, <2>2
<1> QED BY <1>1, <1>3, <1>4 DEF t

\* The elements at the places m to n.
Between(s, m, n) == {s[i] : i \in m..n}

(* A part of a sequence, by its places.                                    *)
LEMMA PartOf ==
  ASSUME NEW S, NEW s \in Seq(S), NEW m \in 1..(Len(s) + 1), NEW n \in (m - 1)..Len(s)
  PROVE  /\ SubSeq(s, m, n) \in Seq(S) /\ Len(SubSeq(s, m, n)) = n - m + 1
         /\ \A i \in 1..(n - m + 1) :
              SubSeq(s, m, n)[i] = s[m + i - 1] /\ m + i - 1 \in m..n
         /\ Range(SubSeq(s, m, n)) = Between(s, m, n)
<1>1. /\ Len(s) \in Nat /\ m \in Int /\ n \in Int
      /\ \A i \in m..n : i \in 1..Len(s) /\ s[i] \in S
  BY LenProperties, ElementOfSeq
<1>2. /\ SubSeq(s, m, n) \in Seq(S)
      /\ Len(SubSeq(s, m, n)) = IF m <= n THEN n - m + 1 ELSE 0
      /\ \A i \in 1..(n - m + 1) : SubSeq(s, m, n)[i] = s[m + i - 1]
  BY <1>1, SubSeqProperties
<1>3. Len(SubSeq(s, m, n)) = n - m + 1
  BY <1>1, <1>2
<1>4. \A i \in 1..(n - m + 1) : m + i - 1 \in m..n
  BY <1>1
<1>5. \A i \in m..n : i - m + 1 \in 1..(n - m + 1) /\ m + (i - m + 1) - 1 = i
  BY <1>1
<1>6. Range(SubSeq(s, m, n)) = {SubSeq(s, m, n)[i] : i \in 1..(n - m + 1)}
  BY <1>2, <1>3, RangeEquality
<1>7. \A x \in Range(SubSeq(s, m, n)) : x \in {s[i] : i \in m..n}
  BY <1>2, <1>4, <1>6
<1>8. \A i \in m..n : s[i] \in Range(SubSeq(s, m, n))
  <2> TAKE i \in m..n
  <2>1. SubSeq(s, m, n)[i - m + 1] = s[i] /\ i - m + 1 \in 1..(n - m + 1)
    BY <1>2, <1>5
  <2> QED BY <1>6, <2>1
<1> QED BY <1>2, <1>3, <1>4, <1>7, <1>8 DEF Between

(* What stands behind place f, up to place u.                              *)
LEMMA PartBehind ==
  ASSUME NEW S, NEW s \in Seq(S), NEW f \in 0..Len(s), NEW u \in f..Len(s)
  PROVE  /\ SubSeq(s, f + 1, u) \in Seq(S) /\ Len(SubSeq(s, f + 1, u)) = u - f
         /\ \A i \in 1..(u - f) : SubSeq(s, f + 1, u)[i] = s[f + i]
         /\ Range(SubSeq(s, f + 1, u)) = Between(s, f + 1, u)
<1> DEFINE m == f + 1
<1>1. m \in 1..(Len(s) + 1) /\ u \in (m - 1)..Len(s)
  BY LenProperties
<1>2. u - m + 1 = u - f /\ \A i \in 1..(u - f) : m + i - 1 = f + i
  BY LenProperties
<1> HIDE DEF m
<1>3. /\ SubSeq(s, m, u) \in Seq(S) /\ Len(SubSeq(s, m, u)) = u - m + 1
      /\ \A i \in 1..(u - m + 1) : SubSeq(s, m, u)[i] = s[m + i - 1]
  BY <1>1, PartOf
<1>4. Range(SubSeq(s, m, u)) = Between(s, m, u)
  BY <1>1, PartOf
<1>5. Len(SubSeq(s, m, u)) = u - f /\ \A i \in 1..(u - f) : SubSeq(s, m, u)[i] = s[f + i]
  BY <1>2, <1>3
<1> QED BY <1>3, <1>4, <1>5 DEF m

\* s with e behind its first k elements, and s without the places f + 1 to u.
PutBehind(s, k, e) == SubSeq(s, 1, k) \o <<e>> \o SubSeq(s, k + 1, Len(s))
CutOut(s, f, u) == SubSeq(s, 1, f) \o SubSeq(s, u + 1, Len(s))

(* A sequence with an element put in behind place k.                       *)
LEMMA PutBehindIs ==
  ASSUME NEW S, NEW s \in Seq(S), NEW k \in 0..Len(s), NEW e \in S
  PROVE  LET t == PutBehind(s, k, e) IN
         /\ t \in Seq(S) /\ Len(t) = Len(s) + 1
         /\ \A i \in 1..(Len(s) + 1) :
              t[i] = IF i <= k THEN s[i] ELSE IF i = k + 1 THEN e ELSE s[i - 1]
         /\ Range(t) = Range(s) \cup {e}
<1> DEFINE t == PutBehind(s, k, e)
           front == SubSeq(s, 1, k)
           back == SubSeq(s, k + 1, Len(s))
<1>1. Len(s) \in Nat /\ 1 \in 1..(Len(s) + 1) /\ k \in (1 - 1)..Len(s)
      /\ k + 1 \in 1..(Len(s) + 1) /\ Len(s) \in (k + 1 - 1)..Len(s)
  BY LenProperties
<1>2. front \in Seq(S) /\ Len(front) = k /\ \A i \in 1..k : front[i] = s[i]
  BY <1>1, PartOf
<1>3. back \in Seq(S) /\ Len(back) = Len(s) - k /\ \A i \in 1..(Len(s) - k) : back[i] = s[k + i]
  BY <1>1, PartOf
<1>4. <<e>> \in Seq(S) /\ Len(<<e>>) = 1 /\ <<e>>[1] = e
  OBVIOUS
<1> HIDE DEF front, back
<1>5. /\ front \o <<e>> \in Seq(S) /\ Len(front \o <<e>>) = k + 1
      /\ \A i \in 1..(k + 1) : (front \o <<e>>)[i] = IF i <= k THEN s[i] ELSE e
  <2>1. \A i \in 1..(k + 1) : (front \o <<e>>)[i] = IF i <= k THEN front[i] ELSE <<e>>[i - k]
    BY <1>2, <1>4, ConcatProperties
  <2>2. \A i \in 1..(k + 1) : (front \o <<e>>)[i] = IF i <= k THEN s[i] ELSE e
    BY <1>2, <1>4, <2>1
  <2> QED BY <1>2, <1>4, <2>2, ConcatProperties
<1> DEFINE head == front \o <<e>>
<1>6. head \in Seq(S) /\ Len(head) = k + 1
      /\ \A i \in 1..(k + 1) : head[i] = IF i <= k THEN s[i] ELSE e
  BY <1>5
<1>7. t = head \o back
  BY DEF front, back, PutBehind
<1> HIDE DEF head, t
<1>8. /\ t \in Seq(S) /\ Len(t) = Len(s) + 1
      /\ \A i \in 1..(Len(s) + 1) : t[i] = IF i <= k + 1 THEN head[i] ELSE back[i - (k + 1)]
  <2>1. Len(head) + Len(back) = Len(s) + 1
    BY <1>1, <1>3, <1>6
  <2>2. /\ head \o back \in Seq(S) /\ Len(head \o back) = Len(head) + Len(back)
        /\ \A i \in 1..(Len(head) + Len(back)) :
             (head \o back)[i] = IF i <= Len(head) THEN head[i] ELSE back[i - Len(head)]
    BY <1>3, <1>6, ConcatProperties
  <2> QED BY <1>6, <1>7, <2>1, <2>2
<1>9. \A i \in 1..(Len(s) + 1) :
        t[i] = IF i <= k THEN s[i] ELSE IF i = k + 1 THEN e ELSE s[i - 1]
  <2> TAKE i \in 1..(Len(s) + 1)
  <2>1. CASE i <= k
    <3>1. i \in 1..(k + 1) /\ i <= k + 1
      BY <1>1, <2>1
    <3>2. t[i] = head[i] /\ head[i] = s[i]
      BY <1>6, <1>8, <2>1, <3>1
    <3> QED BY <2>1, <3>2
  <2>2. CASE i = k + 1
    <3>1. i \in 1..(k + 1) /\ i <= k + 1 /\ ~(i <= k)
      BY <1>1, <2>2
    <3>2. t[i] = head[i] /\ head[i] = e
      BY <1>6, <1>8, <3>1
    <3> QED BY <2>2, <3>1, <3>2
  <2>3. CASE i > k + 1
    <3>1. /\ i - (k + 1) \in 1..(Len(s) - k) /\ k + (i - (k + 1)) = i - 1
          /\ ~(i <= k + 1) /\ ~(i <= k) /\ i # k + 1
      BY <1>1, <2>3
    <3>2. t[i] = back[i - (k + 1)] /\ back[i - (k + 1)] = s[i - 1]
      BY <1>3, <1>8, <3>1
    <3> QED BY <3>1, <3>2
  <2> QED BY <1>1, <2>1, <2>2, <2>3
<1>10. Range(t) = {t[i] : i \in 1..(Len(s) + 1)} /\ Range(s) = {s[i] : i \in 1..Len(s)}
  BY <1>8, RangeEquality
<1>11. Range(t) \subseteq Range(s) \cup {e}
  <2> SUFFICES ASSUME NEW i \in 1..(Len(s) + 1) PROVE t[i] \in Range(s) \cup {e}
    BY <1>10
  <2>1. i <= k => i \in 1..Len(s)
    BY <1>1
  <2>2. i > k + 1 => i - 1 \in 1..Len(s)
    BY <1>1
  <2>3. i <= k \/ i = k + 1 \/ i > k + 1
    BY <1>1
  <2> QED BY <1>1, <1>9, <1>10, <2>1, <2>2, <2>3
<1>12. e \in Range(t)
  <2>1. k + 1 \in 1..(Len(s) + 1) /\ ~(k + 1 <= k)
    BY <1>1
  <2>2. t[k + 1] = e
    BY <1>9, <2>1
  <2> QED BY <1>10, <2>1, <2>2
<1>13. ASSUME NEW i \in 1..Len(s) PROVE s[i] \in Range(t)
  <2>1. CASE i <= k
    <3>1. i \in 1..(Len(s) + 1)
      BY <1>1
    <3>2. t[i] = s[i]
      BY <1>9, <2>1, <3>1
    <3> QED BY <1>10, <3>1, <3>2
  <2>2. CASE i > k
    <3>1. i + 1 \in 1..(Len(s) + 1) /\ ~(i + 1 <= k) /\ i + 1 # k + 1 /\ i + 1 - 1 = i
      BY <1>1, <2>2
    <3>2. t[i + 1] = s[i]
      BY <1>9, <3>1
    <3> QED BY <1>10, <3>1, <3>2
  <2>3. i <= k \/ i > k
    BY <1>1
  <2> QED BY <2>1, <2>2, <2>3
<1>14. \A x \in Range(s) : x \in Range(t)
  BY <1>10, <1>13
<1>15. Range(t) = Range(s) \cup {e}
  BY <1>11, <1>12, <1>14
<1> QED BY <1>8, <1>9, <1>15 DEF t

(* A sequence without what stands at the places f + 1 to u.                *)
LEMMA CutOutIs ==
  ASSUME NEW S, NEW s \in Seq(S), NEW f \in 0..Len(s), NEW u \in f..Len(s)
  PROVE  LET t == CutOut(s, f, u) IN
         /\ t \in Seq(S) /\ Len(t) = Len(s) - (u - f)
         /\ \A i \in 1..(Len(s) - (u - f)) : t[i] = IF i <= f THEN s[i] ELSE s[i + (u - f)]
         /\ Range(t) \subseteq Range(s)
         /\ Range(s) = Range(t) \cup Between(s, f + 1, u)
<1> DEFINE t == CutOut(s, f, u)
           front == SubSeq(s, 1, f)
           back == SubSeq(s, u + 1, Len(s))
<1>1. Len(s) \in Nat /\ 1 \in 1..(Len(s) + 1) /\ f \in (1 - 1)..Len(s)
      /\ u + 1 \in 1..(Len(s) + 1) /\ Len(s) \in (u + 1 - 1)..Len(s)
  BY LenProperties
<1>2. front \in Seq(S) /\ Len(front) = f /\ (\A i \in 1..f : front[i] = s[i])
      /\ Range(front) = {s[i] : i \in 1..f}
  <2>1. f - 1 + 1 = f /\ \A i \in 1..f : 1 + i - 1 = i
    BY <1>1
  <2>2. /\ front \in Seq(S) /\ Len(front) = f - 1 + 1
        /\ \A i \in 1..(f - 1 + 1) : front[i] = s[1 + i - 1]
        /\ Range(front) = {s[i] : i \in 1..f}
    BY <1>1, PartOf DEF Between
  <2> QED BY <2>1, <2>2
<1>3. back \in Seq(S) /\ Len(back) = Len(s) - u /\ (\A i \in 1..(Len(s) - u) : back[i] = s[u + i])
      /\ Range(back) = {s[i] : i \in (u + 1)..Len(s)}
  BY <1>1, PartOf DEF Between
<1>4. t = front \o back
  BY DEF CutOut
<1> HIDE DEF front, back, t
<1>5. /\ t \in Seq(S) /\ Len(t) = Len(s) - (u - f)
      /\ \A i \in 1..(Len(s) - (u - f)) : t[i] = IF i <= f THEN front[i] ELSE back[i - f]
      /\ Range(t) = Range(front) \cup Range(back)
  <2>1. Len(front) + Len(back) = Len(s) - (u - f)
    BY <1>1, <1>2, <1>3
  <2>2. /\ front \o back \in Seq(S) /\ Len(front \o back) = Len(front) + Len(back)
        /\ \A i \in 1..(Len(front) + Len(back)) :
             (front \o back)[i] = IF i <= Len(front) THEN front[i] ELSE back[i - Len(front)]
    BY <1>2, <1>3, ConcatProperties
  <2>3. Range(front \o back) = Range(front) \cup Range(back)
    BY <1>2, <1>3, RangeConcatenation
  <2> QED BY <1>2, <1>4, <2>1, <2>2, <2>3
<1>6. \A i \in 1..(Len(s) - (u - f)) : t[i] = IF i <= f THEN s[i] ELSE s[i + (u - f)]
  <2> TAKE i \in 1..(Len(s) - (u - f))
  <2>1. CASE i <= f
    BY <1>1, <1>2, <1>5, <2>1
  <2>2. CASE i > f
    <3>1. i - f \in 1..(Len(s) - u) /\ u + (i - f) = i + (u - f) /\ ~(i <= f)
      BY <1>1, <2>2
    <3>2. t[i] = back[i - f]
      BY <1>5, <3>1
    <3>3. back[i - f] = s[u + (i - f)]
      BY <1>3, <3>1
    <3> QED BY <3>1, <3>2, <3>3
  <2> QED BY <1>1, <2>1, <2>2
<1>7. Range(s) = {s[i] : i \in 1..Len(s)}
  BY RangeEquality
<1>8. 1..Len(s) = (1..f) \cup ((f + 1)..u) \cup ((u + 1)..Len(s))
  BY <1>1
<1>9. Range(s) = Range(t) \cup Between(s, f + 1, u)
  BY <1>2, <1>3, <1>5, <1>7, <1>8 DEF Between
<1>10. Range(t) \subseteq Range(s)
  BY <1>9
<1> QED BY <1>5, <1>6, <1>9, <1>10 DEF t

-----------------------------------------------------------------------------
(* Induction and recursion.                                                *)

(* Every set of numbers that is not empty has a least one.                 *)
LEMMA LeastNumber ==
  ASSUME NEW S \in SUBSET Nat, S # {}
  PROVE  \E m \in S : \A k \in S : m <= k
<1> DEFINE R == OpToRel(<, Nat)
<1>2. \A x, y \in Nat : <<y, x>> \in R <=> y < x
  BY DEF OpToRel
<1>3. IsWellFoundedOn(R, Nat)
  BY NatLessThanWellFounded
<1> HIDE DEF R
<1>4. \E x \in S : \A y \in S : ~(<<y, x>> \in R)
  BY <1>3, WFMin
<1>5. PICK x \in S : \A y \in S : ~(<<y, x>> \in R)
  BY <1>4
<1>6. \A y \in S : ~(y < x)
  BY <1>2, <1>5
<1>7. \A y \in S : x <= y
  BY <1>6
<1> QED BY <1>7

(* Induction on a set of numbers: it has 0 and with n also n + 1.  In this  *)
(* form it is about a set and not about a predicate, so a prover can use it. *)
LEMMA SetInduction ==
  ASSUME NEW S \in SUBSET Nat, 0 \in S, \A n \in S : n + 1 \in S
  PROVE  S = Nat
<1> SUFFICES ASSUME S # Nat PROVE FALSE
  OBVIOUS
<1>1. PICK m \in Nat \ S : \A k \in Nat \ S : m <= k
  <2> DEFINE N == Nat \ S
  <2>1. N \in SUBSET Nat /\ N # {}
    OBVIOUS
  <2> HIDE DEF N
  <2>2. \E m \in N : \A k \in N : m <= k
    BY <2>1, LeastNumber
  <2> QED BY <2>2 DEF N
<1>2. m # 0
  BY <1>1
<1>3. m - 1 \in Nat /\ m - 1 < m
  BY <1>1, <1>2
<1>4. m - 1 \in S
  BY <1>1, <1>3
<1> QED BY <1>1, <1>3, <1>4


\* The values of f follow from the one at 0, step by step.
Recursive(f, base, step, n) ==
  f[0] = base /\ \A i \in 1..n : f[i] = step[<<f[i - 1], i>>]

(* A function that is defined from its value at the place before exists.   *)
LEMMA PrimitiveRecursion ==
  ASSUME NEW T, NEW base \in T, NEW n \in Nat, NEW step \in [T \X (1..n) -> T]
  PROVE  \E f \in [0..n -> T] : Recursive(f, base, step, n)
<1> DEFINE Up(k) == \E f \in [0..k -> T] :
                      f[0] = base /\ \A i \in 1..k : f[i] = step[<<f[i - 1], i>>]
<1> DEFINE S == {k \in Nat : k <= n => Up(k)}
<1>1. 0 \in S
  <2> DEFINE f == [i \in 0..0 |-> base]
  <2>1. f \in [0..0 -> T] /\ f[0] = base /\ \A i \in 1..0 : f[i] = step[<<f[i - 1], i>>]
    OBVIOUS
  <2> QED BY <2>1
<1>2. ASSUME NEW k \in S PROVE k + 1 \in S
  <2> SUFFICES ASSUME k + 1 <= n PROVE Up(k + 1)
    OBVIOUS
  <2>1. PICK f \in [0..k -> T] : f[0] = base /\ \A i \in 1..k : f[i] = step[<<f[i - 1], i>>]
    OBVIOUS
  <2> DEFINE g == [i \in 0..(k + 1) |-> IF i = k + 1 THEN step[<<f[k], k + 1>>] ELSE f[i]]
  <2>2. k \in 0..k /\ f[k] \in T /\ k + 1 \in 1..n
    BY <2>1
  <2>3. <<f[k], k + 1>> \in T \X (1..n)
    BY <2>2
  <2>4. step[<<f[k], k + 1>>] \in T
    BY <2>3
  <2>5. g \in [0..(k + 1) -> T]
    BY <2>1, <2>4
  <2>6. g[0] = base /\ g[k + 1] = step[<<f[k], k + 1>>] /\ \A i \in 0..k : g[i] = f[i]
    BY <2>1
  <2> HIDE DEF g
  <2>7. \A i \in 1..(k + 1) : g[i] = step[<<g[i - 1], i>>]
    <3> TAKE i \in 1..(k + 1)
    <3>1. CASE i = k + 1
      BY <2>6, <3>1
    <3>2. CASE i # k + 1
      <4>1. i \in 1..k /\ i - 1 \in 0..k /\ i \in 0..k
        BY <3>2
      <4> QED BY <2>1, <2>6, <4>1
    <3> QED BY <3>1, <3>2
  <2> QED BY <2>5, <2>6, <2>7
<1>3. S = Nat
  <2> HIDE DEF S
  <2>1. S \in SUBSET Nat
    BY DEF S
  <2>2. 0 \in S /\ \A k \in S : k + 1 \in S
    BY <1>1, <1>2
  <2> QED BY <2>1, <2>2, SetInduction
<1>4. n \in S
  BY <1>3
<1>5. n <= n
  OBVIOUS
<1> QED BY <1>4, <1>5 DEF Recursive

\* The places of the elements of s that are in P, and their number.
Places(s, P) == {i \in 1..Len(s) : s[i] \in P}
HowMany(s, P) == Cardinality(Places(s, P))

(* How many elements of a sequence are in a set.                           *)
LEMMA HowManyIs ==
  ASSUME NEW S, NEW s \in Seq(S), NEW P
  PROVE  /\ HowMany(s, P) \in Nat /\ IsFiniteSet(Places(s, P))
         /\ HowMany(s, P) = 0 => \A i \in 1..Len(s) : s[i] \notin P
         /\ (\A i \in 1..Len(s) : s[i] \notin P) => HowMany(s, P) = 0
<1> DEFINE places == Places(s, P)
<1>1. Len(s) \in Nat /\ 1 \in Int /\ Len(s) \in Int
  BY LenProperties
<1>2. IsFiniteSet(1..Len(s))
  BY <1>1, FS_Interval
<1>3. places \in SUBSET (1..Len(s))
  BY DEF Places
<1>4. \A i \in 1..Len(s) : i \in places <=> s[i] \in P
  BY DEF Places
<1> HIDE DEF places
<1>5. IsFiniteSet(places)
  BY <1>2, <1>3, FS_Subset
<1>6. Cardinality(places) \in Nat /\ (Cardinality(places) = 0 <=> places = {})
  BY <1>5, FS_CardinalityType, FS_EmptySet
<1> QED BY <1>3, <1>4, <1>5, <1>6 DEF HowMany, places

(* None in the empty sequence.                                             *)
LEMMA HowManyEmpty == \A P : HowMany(<<>>, P) = 0
<1> TAKE P
<1>1. Len(<<>>) = 0
  BY EmptySeq
<1>2. Places(<<>>, P) = {}
  BY <1>1 DEF Places
<1> QED BY <1>2, FS_EmptySet DEF HowMany

(* The number with an element more at the end.                             *)
LEMMA HowManyAppend ==
  ASSUME NEW S, NEW s \in Seq(S), NEW e \in S, NEW P
  PROVE  HowMany(Append(s, e), P) = HowMany(s, P) + IF e \in P THEN 1 ELSE 0
<1> DEFINE t == Append(s, e)
           n == Len(s)
<1>1. /\ n \in Nat /\ Len(t) = n + 1
      /\ \A i \in 1..(n + 1) : t[i] = IF i <= n THEN s[i] ELSE e
  BY AppendProperties, LenProperties
<1>2. HowMany(s, P) \in Nat /\ IsFiniteSet(Places(s, P))
  BY HowManyIs
<1>3. n + 1 \notin Places(s, P)
  BY <1>1 DEF Places
<1> HIDE DEF t, n
<1>4. CASE e \in P
  <2>1. Places(t, P) = Places(s, P) \cup {n + 1}
    BY <1>1, <1>4 DEF Places, n
  <2>2. Cardinality(Places(s, P) \cup {n + 1}) = Cardinality(Places(s, P)) + 1
    BY <1>2, <1>3, FS_AddElement
  <2> QED BY <1>4, <2>1, <2>2 DEF HowMany, t
<1>5. CASE e \notin P
  <2>1. Places(t, P) = Places(s, P)
    BY <1>1, <1>5 DEF Places, n
  <2> QED BY <1>2, <1>5, <2>1 DEF HowMany, t
<1> QED BY <1>4, <1>5

(* The number without the first element.                                   *)
LEMMA HowManyTail ==
  ASSUME NEW S, NEW s \in Seq(S), s # <<>>, NEW P
  PROVE  HowMany(Tail(s), P) = HowMany(s, P) - IF Head(s) \in P THEN 1 ELSE 0
<1> DEFINE t == Tail(s)
           n == Len(s)
           from == Places(t, P)
           to == Places(s, P) \ {1}
           f == [i \in from |-> i + 1]
<1>1. /\ n \in Nat \ {0} /\ t \in Seq(S) /\ Len(t) = n - 1 /\ Head(s) = s[1]
      /\ \A i \in 1..(n - 1) : t[i] = s[i + 1]
  BY HeadTailProperties, EmptySeq, LenProperties
<1>2. IsFiniteSet(Places(s, P)) /\ IsFiniteSet(from) /\ HowMany(s, P) \in Nat
  BY <1>1, HowManyIs
<1>3. \A i : i \in from <=> i \in 1..(n - 1) /\ s[i + 1] \in P
  BY <1>1 DEF Places
<1>4. \A i : i \in to <=> i \in 2..n /\ s[i] \in P
  BY <1>1 DEF Places
<1>5. 1 \in Places(s, P) <=> Head(s) \in P
  BY <1>1 DEF Places
<1> HIDE DEF t, n, from, to
<1>6. f \in Bijection(from, to)
  <2>1. \A i \in from : i \in Int /\ i + 1 \in to
    BY <1>1, <1>3, <1>4
  <2>2. \A j \in to : j - 1 \in from /\ (j - 1) + 1 = j
    <3> TAKE j \in to
    <3>1. j \in 2..n /\ s[j] \in P
      BY <1>4
    <3>2. j - 1 \in 1..(n - 1) /\ (j - 1) + 1 = j
      BY <1>1, <3>1
    <3> QED BY <1>3, <3>1, <3>2
  <2>3. f \in [from -> to]
    BY <2>1
  <2>4. \A i, j \in from : f[i] = f[j] => i = j
    BY <2>1
  <2>5. \A j \in to : \E i \in from : f[i] = j
    BY <2>2
  <2> QED BY <2>3, <2>4, <2>5 DEF Bijection, Injection, Surjection, IsInjective
<1>7. Cardinality(to) = Cardinality(from)
  BY <1>2, <1>6, FS_Bijection DEF ExistsBijection
<1>8. Cardinality(Places(s, P) \ {1})
        = IF 1 \in Places(s, P) THEN Cardinality(Places(s, P)) - 1 ELSE Cardinality(Places(s, P))
  BY <1>2, FS_RemoveElement
<1> QED BY <1>2, <1>5, <1>7, <1>8 DEF HowMany, to, from, t
=============================================================================
