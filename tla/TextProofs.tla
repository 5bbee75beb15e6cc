----------------------------- MODULE TextProofs -----------------------------
(***************************************************************************)
(* Proofs about what becomes of the text that arrives.                     *)
(*                                                                         *)
(* Decoder, for any bytes cut into any chunks: what the cuts do to the     *)
(* text is nothing.                                                        *)
(*                                                                         *)
(* AnsiColor, for any numbers and any length of a sequence: the loop over  *)
(* the numbers of a colour sequence leaves the colours _decode means.      *)
(*                                                                         *)
(* AnsiControl, for a screen of any size, a terminal of any height and     *)
(* input of any lines: how _output_end can stray from the end of the       *)
(* output, that moving up and down keeps the column, and that nothing      *)
(* changes but in its place.                                               *)
(***************************************************************************)
EXTENDS Decoder, AnsiColor, AnsiControl, SeqOrderProofs
-----------------------------------------------------------------------------
(* The decoder: what is left of a sequence.                                *)

\* What Only's recursive function is.
IsOnly(f, s, kept) ==
  /\ f[0] = <<>>
  /\ \A n \in 1..Len(s) : f[n] = IF n \in kept THEN Append(f[n - 1], s[n]) ELSE f[n - 1]

(* The function that Only is defined by exists.                            *)
LEMMA OnlyIs ==
  ASSUME NEW A, NEW s \in Seq(A), NEW kept
  PROVE  \E f \in [0..Len(s) -> Seq(A)] : IsOnly(f, s, kept) /\ Only(s, kept) = f[Len(s)]
<1> DEFINE n == Len(s)
           More(q, i) == IF i \in kept THEN Append(q, s[i]) ELSE q
           Body(f, i) == IF i = 0 THEN <<>> ELSE More(f[i - 1], i)
           F == CHOOSE f : f = [i \in 0..n |-> Body(f, i)]
<1>1. Only(s, kept) = F[n]
  BY DEF Only
<1>2. n \in Nat /\ \A i \in 1..n : s[i] \in A
  BY LenProperties, ElementOfSeq
<1>3. \A q \in Seq(A), i \in 1..n : More(q, i) \in Seq(A)
  BY <1>2, AppendProperties
<1>4. <<>> \in Seq(A)
  BY EmptySeq
<1> HIDE DEF More
<1> DEFINE step == [p \in Seq(A) \X (1..n) |-> More(p[1], p[2])]
<1>5. /\ step \in [Seq(A) \X (1..n) -> Seq(A)]
      /\ \A q \in Seq(A), i \in 1..n : step[<<q, i>>] = More(q, i)
  BY <1>3
<1> DEFINE Texts == Seq(A)
           empty == <<>>
<1>6. PICK f \in [0..n -> Texts] :
        f[0] = empty /\ \A i \in 1..n : f[i] = step[<<f[i - 1], i>>]
  <2>1. n \in Nat
    BY <1>2
  <2>2. empty \in Texts
    BY <1>4
  <2>3. step \in [Texts \X (1..n) -> Texts]
    BY <1>5
  <2> HIDE DEF step, Texts, n, empty
  <2>4. PICK f \in [0..n -> Texts] : Recursive(f, empty, step, n)
    BY <2>1, <2>2, <2>3, PrimitiveRecursion
  <2> QED BY <2>4 DEF Recursive
<1> HIDE DEF step
<1>7. \A i \in 1..n : i - 1 \in 0..n /\ f[i - 1] \in Seq(A)
  <2>1. \A i \in 1..n : i - 1 \in 0..n
    BY <1>2
  <2> HIDE DEF Texts, n
  <2>2. \A i \in 1..n : f[i - 1] \in Texts
    BY <1>6, <2>1
  <2> QED BY <2>1, <2>2 DEF Texts
<1>8. \A i \in 1..n : f[i] = More(f[i - 1], i)
  BY <1>5, <1>6, <1>7
<1>9. f[0] = <<>> /\ f \in [0..n -> Seq(A)]
  BY <1>6
<1>10. \A i \in 0..n : f[i] = Body(f, i)
  <2> TAKE i \in 0..n
  <2>1. i = 0 \/ i \in 1..n
    BY <1>2
  <2> QED BY <1>8, <1>9, <2>1, <1>2
<1>11. \A g : g = [i \in 0..n |-> Body(g, i)] => g = f
  <2> SUFFICES ASSUME NEW g, g = [i \in 0..n |-> Body(g, i)] PROVE g = f
    OBVIOUS
  <2>1. g[0] = <<>> /\ \A i \in 1..n : g[i] = More(g[i - 1], i)
    <3>1. 0 \in 0..n /\ \A i \in 1..n : i \in 0..n /\ i # 0
      BY <1>2
    <3>2. \A i \in 0..n : g[i] = Body(g, i)
      <4> HIDE DEF Body
      <4> QED OBVIOUS
    <3> QED BY <3>1, <3>2
  <2> DEFINE S == {i \in Nat : i <= n => g[i] = f[i]}
  <2>2. 0 \in S
    BY <1>9, <2>1
  <2>3. ASSUME NEW i \in S PROVE i + 1 \in S
    <3> SUFFICES ASSUME i + 1 <= n PROVE g[i + 1] = f[i + 1]
      OBVIOUS
    <3>1. i + 1 \in 1..n /\ (i + 1) - 1 = i /\ g[i] = f[i]
      BY <1>2
    <3> QED BY <1>8, <2>1, <3>1
  <2>4. S = Nat
    <3>1. S \in SUBSET Nat
      OBVIOUS
    <3> HIDE DEF S
    <3> QED BY <2>2, <2>3, <3>1, SetInduction
  <2>5. \A i \in 0..n : g[i] = f[i]
    <3> TAKE i \in 0..n
    <3>1. i \in Nat /\ i <= n
      BY <1>2
    <3>2. i \in S
      BY <2>4, <3>1
    <3> QED BY <3>1, <3>2
  <2>6. g = [i \in 0..n |-> g[i]] /\ f = [i \in 0..n |-> f[i]]
    <3>1. DOMAIN g = 0..n
      <4> HIDE DEF Body
      <4> QED OBVIOUS
    <3>2. g = [i \in DOMAIN g |-> g[i]]
      <4> HIDE DEF Body
      <4> QED OBVIOUS
    <3> QED BY <1>9, <3>1, <3>2
  <2> QED BY <2>5, <2>6
<1>12. f = [i \in 0..n |-> Body(f, i)]
  <2>1. f = [i \in 0..n |-> f[i]]
    BY <1>9
  <2> QED BY <1>10, <2>1
<1>13. F = f
  BY <1>11, <1>12
<1>14. IsOnly(f, s, kept)
  BY <1>8, <1>9 DEF IsOnly, More
<1> QED BY <1>1, <1>9, <1>13, <1>14

\* Two texts and what is kept of them agree up to the place m.
AgreeUpTo(s, t, kept, keep, m) ==
  /\ m <= Len(s) /\ m <= Len(t)
  /\ \A i \in 1..m : s[i] = t[i] /\ (i \in kept <=> i \in keep)

(* How far the texts and what is kept of them agree, so do the results.    *)
LEMMA OnlyAgrees ==
  ASSUME NEW A, NEW s \in Seq(A), NEW t \in Seq(A), NEW kept, NEW keep, NEW f, NEW g,
         IsOnly(f, s, kept), IsOnly(g, t, keep),
         NEW m \in Nat, AgreeUpTo(s, t, kept, keep, m)
  PROVE  \A i \in 0..m : f[i] = g[i]
<1> DEFINE S == {i \in Nat : i <= m => f[i] = g[i]}
<1>1. 0 \in S
  BY DEF IsOnly
<1>2. ASSUME NEW i \in S PROVE i + 1 \in S
  <2> SUFFICES ASSUME i + 1 <= m PROVE f[i + 1] = g[i + 1]
    OBVIOUS
  <2>1. /\ i + 1 \in 1..m /\ (i + 1) - 1 = i /\ f[i] = g[i]
        /\ i + 1 \in 1..Len(s) /\ i + 1 \in 1..Len(t)
    BY LenProperties DEF AgreeUpTo
  <2>2. f[i + 1] = IF i + 1 \in kept THEN Append(f[i], s[i + 1]) ELSE f[i]
    BY <2>1 DEF IsOnly
  <2>3. g[i + 1] = IF i + 1 \in keep THEN Append(g[i], t[i + 1]) ELSE g[i]
    BY <2>1 DEF IsOnly
  <2> QED BY <2>1, <2>2, <2>3 DEF AgreeUpTo
<1>3. S = Nat
  <2>1. S \in SUBSET Nat
    OBVIOUS
  <2> HIDE DEF S
  <2> QED BY <1>1, <1>2, <2>1, SetInduction
<1> QED BY <1>3
-----------------------------------------------------------------------------
(* Norm, one letter at a time.                                             *)

\* v is u with some \r behind it; u does not end in one.
Crs(u, v) ==
  /\ Len(u) <= Len(v)
  /\ \A i \in 1..Len(u) : v[i] = u[i]
  /\ \A i \in 1..Len(v) : i > Len(u) => v[i] = "cr"
Ended(u) == u = <<>> \/ u[Len(u)] # "cr"
Trimmed(v, u) == Ended(u) /\ Crs(u, v)

(* Another \r behind it.                                                   *)
LEMMA CrsMore ==
  ASSUME NEW A, NEW u \in Seq(A), NEW v \in Seq(A), Crs(u, v), "cr" \in A
  PROVE  Crs(u, Append(v, "cr")) /\ Crs(u, u)
<1> DEFINE w == Append(v, "cr")
<1>1. /\ Len(w) = Len(v) + 1 /\ Len(u) \in Nat /\ Len(v) \in Nat
      /\ \A i \in 1..(Len(v) + 1) : w[i] = IF i <= Len(v) THEN v[i] ELSE "cr"
  BY AppendIs, LenProperties
<1> HIDE DEF w
<1>2. Crs(u, w)
  BY <1>1 DEF Crs
<1>3. Crs(u, u)
  BY <1>1 DEF Crs
<1> QED BY <1>2, <1>3 DEF w

(* There is only one text without its last \r.                             *)
LEMMA TrimmedOnce ==
  ASSUME NEW A, NEW u \in Seq(A), NEW v \in Seq(A), NEW w, Trimmed(w, u), Trimmed(w, v)
  PROVE  u = v
<1>1. Len(u) \in Nat /\ Len(v) \in Nat /\ Ended(u) /\ Ended(v) /\ Crs(u, w) /\ Crs(v, w)
  BY LenProperties DEF Trimmed
<1>2. ~(Len(u) < Len(v))
  <2> SUFFICES ASSUME Len(u) < Len(v) PROVE FALSE
    OBVIOUS
  <2>1. v # <<>> /\ Len(v) \in 1..Len(v)
    BY <1>1, EmptySeq
  <2>2. w[Len(v)] = v[Len(v)] /\ Len(v) \in 1..Len(w)
    BY <1>1, <2>1 DEF Crs
  <2>3. w[Len(v)] = "cr"
    BY <1>1, <2>2 DEF Crs
  <2> QED BY <1>1, <2>1, <2>2, <2>3 DEF Ended
<1>3. ~(Len(v) < Len(u))
  <2> SUFFICES ASSUME Len(v) < Len(u) PROVE FALSE
    OBVIOUS
  <2>1. u # <<>> /\ Len(u) \in 1..Len(u)
    BY <1>1, EmptySeq
  <2>2. w[Len(u)] = u[Len(u)] /\ Len(u) \in 1..Len(w)
    BY <1>1, <2>1 DEF Crs
  <2>3. w[Len(u)] = "cr"
    BY <1>1, <2>2 DEF Crs
  <2> QED BY <1>1, <2>1, <2>2, <2>3 DEF Ended
<1>4. Len(u) = Len(v)
  BY <1>1, <1>2, <1>3
<1>5. \A i \in 1..Len(u) : u[i] = v[i]
  BY <1>1, <1>4 DEF Crs
<1> QED BY <1>4, <1>5, SeqEqual

(* The last place that is no \r.                                           *)
LEMMA LastOther ==
  ASSUME NEW s, NEW n \in Nat
  PROVE  \E t \in 0..n : (t = 0 \/ s[t] # "cr") /\ \A i \in (t + 1)..n : s[i] = "cr"
<1> DEFINE S == {m \in Nat : m <= n /\ (m = n \/ s[n - m] # "cr")}
<1>1. S \in SUBSET Nat /\ n \in S
  OBVIOUS
<1>2. PICK m \in S : \A k \in S : m <= k
  <2> HIDE DEF S
  <2>1. S # {}
    BY <1>1
  <2> QED BY <1>1, <2>1, LeastNumber
<1>3. m \in Nat /\ m <= n /\ (m = n \/ s[n - m] # "cr")
  BY <1>2
<1>4. n - m \in 0..n /\ (n - m = 0 \/ s[n - m] # "cr")
  BY <1>3
<1>5. ASSUME NEW i \in ((n - m) + 1)..n PROVE s[i] = "cr"
  <2>1. n - i \in Nat /\ n - i < m /\ n - i <= n /\ n - i # n /\ n - (n - i) = i
    BY <1>3
  <2>2. n - i \notin S
    <3> HIDE DEF S
    <3> QED BY <1>2, <1>3, <2>1
  <2> QED BY <2>1, <2>2
<1> QED BY <1>4, <1>5

\* The places Norm keeps.
InRun(s, i) == \E j \in i..Len(s) : i < j /\ s[j] = "nl" /\ \A k \in i..(j - 1) : s[k] = "cr"
Stays(s) == {i \in 1..Len(s) : ~InRun(s, i)}

\* The Norm of x is that of s without its last \r, and a newline.
NewlineBehind(A, s, x) ==
  \E u \in Seq(A) : Trimmed(Norm(s), u) /\ Norm(x) = Append(u, "nl")

(* Norm with a letter more: a newline takes the \r before it away.         *)
LEMMA NormAppend ==
  ASSUME NEW A, NEW s \in Seq(A), NEW c \in A, "cr" \in A
  PROVE  /\ Norm(s) \in Seq(A)
         /\ c # "nl" => Norm(Append(s, c)) = Append(Norm(s), c)
         /\ c = "nl" => NewlineBehind(A, s, Append(s, c))
<1> DEFINE n == Len(s)
           x == Append(s, c)
<1>1. /\ n \in Nat /\ x \in Seq(A) /\ Len(x) = n + 1 /\ x[n + 1] = c
      /\ \A i \in 1..n : x[i] = s[i]
  BY AppendProperties, LenProperties
<1> HIDE DEF x
<1>2. PICK f \in [0..n -> Seq(A)] : IsOnly(f, s, Stays(s)) /\ Norm(s) = f[n]
  <2>1. Norm(s) = Only(s, Stays(s))
    BY DEF Norm, Stays, InRun
  <2> QED BY <2>1, OnlyIs
<1>3. PICK g \in [0..(n + 1) -> Seq(A)] : IsOnly(g, x, Stays(x)) /\ Norm(x) = g[n + 1]
  <2>1. Norm(x) = Only(x, Stays(x))
    BY DEF Norm, Stays, InRun
  <2> QED BY <1>1, <2>1, OnlyIs
<1>4. Norm(s) \in Seq(A)
  BY <1>1, <1>2
<1>5. g[n + 1] = Append(g[n], c)
  <2>1. n + 1 \in Stays(x)
    BY <1>1 DEF Stays, InRun
  <2>2. n + 1 \in 1..Len(x) /\ (n + 1) - 1 = n
    BY <1>1
  <2> QED BY <1>1, <1>3, <2>1, <2>2 DEF IsOnly
<1>6. ASSUME c # "nl" PROVE Norm(x) = Append(Norm(s), c)
  <2>1. ASSUME NEW i \in 1..n PROVE i \in Stays(s) <=> i \in Stays(x)
    <3>1. ASSUME InRun(s, i) PROVE InRun(x, i)
      <4>1. PICK j \in i..n : i < j /\ s[j] = "nl" /\ \A k \in i..(j - 1) : s[k] = "cr"
        BY <3>1 DEF InRun
      <4>2. j \in i..Len(x) /\ j \in 1..n /\ \A k \in i..(j - 1) : k \in 1..n
        BY <1>1
      <4> QED BY <1>1, <4>1, <4>2 DEF InRun
    <3>2. ASSUME InRun(x, i) PROVE InRun(s, i)
      <4>1. PICK j \in i..Len(x) : i < j /\ x[j] = "nl" /\ \A k \in i..(j - 1) : x[k] = "cr"
        BY <3>2 DEF InRun
      <4>2. j # n + 1
        BY <1>1, <1>6, <4>1
      <4>3. j \in i..n /\ j \in 1..n /\ \A k \in i..(j - 1) : k \in 1..n
        BY <1>1, <4>2
      <4> QED BY <1>1, <4>1, <4>3 DEF InRun
    <3>3. i \in 1..Len(s) /\ i \in 1..Len(x)
      BY <1>1
    <3> QED BY <3>1, <3>2, <3>3 DEF Stays
  <2>2. \A i \in 1..n : s[i] = x[i] /\ (i \in Stays(s) <=> i \in Stays(x))
    BY <1>1, <2>1
  <2>3. \A i \in 0..n : f[i] = g[i]
    <3>1. n <= Len(s) /\ n <= Len(x)
      BY <1>1
    <3>2. n \in Nat /\ s \in Seq(A) /\ x \in Seq(A) /\ IsOnly(f, s, Stays(s)) /\ IsOnly(g, x, Stays(x))
      BY <1>1, <1>2, <1>3
    <3>3. AgreeUpTo(s, x, Stays(s), Stays(x), n)
      BY <2>2, <3>1 DEF AgreeUpTo
    <3>4. \A k \in Nat : AgreeUpTo(s, x, Stays(s), Stays(x), k) => \A i \in 0..k : f[i] = g[i]
      BY <3>2, OnlyAgrees
    <3> QED BY <3>2, <3>3, <3>4
  <2>4. n \in 0..n
    BY <1>1
  <2> QED BY <1>2, <1>3, <1>5, <2>3, <2>4
<1>7. ASSUME c = "nl"
      PROVE  NewlineBehind(A, s, x)
  <2>1. PICK t \in 0..n : (t = 0 \/ s[t] # "cr") /\ \A i \in (t + 1)..n : s[i] = "cr"
    BY <1>1, LastOther
  <2>2. t \in Nat /\ t <= n
    BY <1>1
  <2>3. ASSUME NEW i \in 1..t PROVE i \in Stays(s) <=> i \in Stays(x)
    <3>0. s[t] # "cr" /\ t \in i..n /\ i \in Int /\ i <= t /\ i >= 1
      BY <2>1, <2>2
    <3>1. ASSUME InRun(s, i) PROVE InRun(x, i)
      <4>1. PICK j \in i..n : i < j /\ s[j] = "nl" /\ \A k \in i..(j - 1) : s[k] = "cr"
        BY <3>1 DEF InRun
      <4>2. j \in i..Len(x) /\ j \in 1..n /\ \A k \in i..(j - 1) : k \in 1..n
        BY <1>1, <3>0
      <4> QED BY <1>1, <4>1, <4>2 DEF InRun
    <3>2. ASSUME InRun(x, i) PROVE InRun(s, i)
      <4>1. PICK j \in i..Len(x) : i < j /\ x[j] = "nl" /\ \A k \in i..(j - 1) : x[k] = "cr"
        BY <3>2 DEF InRun
      <4>2. j <= t
        <5> SUFFICES ASSUME t < j PROVE FALSE
          BY <1>1, <2>2
        <5>1. t \in i..(j - 1) /\ t \in 1..n
          BY <1>1, <2>2, <3>0
        <5> QED BY <1>1, <3>0, <4>1, <5>1
      <4>3. j \in i..n /\ j \in 1..n /\ \A k \in i..(j - 1) : k \in 1..n
        BY <1>1, <2>2, <3>0, <4>2
      <4> QED BY <1>1, <4>1, <4>3 DEF InRun
    <3>3. i \in 1..Len(s) /\ i \in 1..Len(x)
      BY <1>1, <2>2
    <3> QED BY <3>1, <3>2, <3>3 DEF Stays
  <2>4. f[t] = g[t]
    <3>1. t <= Len(s) /\ t <= Len(x) /\ t \in 0..t /\ \A i \in 1..t : i \in 1..n
      BY <1>1, <2>2
    <3>2. \A i \in 1..t : s[i] = x[i] /\ (i \in Stays(s) <=> i \in Stays(x))
      BY <1>1, <2>3, <3>1
    <3>3. \A i \in 0..t : f[i] = g[i]
      <4>1. s \in Seq(A) /\ x \in Seq(A) /\ IsOnly(f, s, Stays(s)) /\ IsOnly(g, x, Stays(x))
        BY <1>1, <1>2, <1>3
      <4>2. AgreeUpTo(s, x, Stays(s), Stays(x), t)
        BY <3>1, <3>2 DEF AgreeUpTo
      <4> QED BY <2>2, <4>1, <4>2, OnlyAgrees
    <3> QED BY <3>1, <3>3
  <2>5. ASSUME NEW i \in (t + 1)..n
        PROVE  i \in Stays(s) /\ i \notin Stays(x) /\ i \in 1..n /\ s[i] = "cr"
    <3>1. i \in 1..n /\ s[i] = "cr" /\ i <= n /\ i \in Int
      BY <1>1, <2>1, <2>2
    <3>2. ~InRun(s, i)
      <4> SUFFICES ASSUME NEW j \in i..n, i < j, s[j] = "nl" PROVE FALSE
        BY DEF InRun
      <4>1. j \in (t + 1)..n
        BY <1>1, <2>2
      <4> QED BY <2>1, <4>1
    <3>3. InRun(x, i)
      <4>1. n + 1 \in i..Len(x) /\ i < n + 1 /\ (n + 1) - 1 = n
        BY <1>1, <3>1
      <4>2. \A k \in i..n : k \in (t + 1)..n /\ k \in 1..n
        BY <1>1, <2>2, <3>1
      <4>3. \A k \in i..((n + 1) - 1) : x[k] = "cr"
        BY <1>1, <2>1, <4>1, <4>2
      <4> QED BY <1>1, <1>7, <4>1, <4>3 DEF InRun
    <3> QED BY <3>1, <3>2, <3>3 DEF Stays
  <2> DEFINE u == f[t]
             S == {i \in Nat : t + i <= n => g[t + i] = u /\ Crs(u, f[t + i])}
  <2>6. u \in Seq(A)
    BY <1>2, <2>2
  <2>7. 0 \in S
    <3>1. Crs(u, u)
      BY LenProperties, <2>6 DEF Crs
    <3>2. t + 0 = t
      BY <2>2
    <3> QED BY <2>4, <3>1, <3>2
  <2>8. ASSUME NEW i \in S PROVE i + 1 \in S
    <3> SUFFICES ASSUME t + (i + 1) <= n PROVE g[t + (i + 1)] = u /\ Crs(u, f[t + (i + 1)])
      OBVIOUS
    <3> DEFINE p == t + (i + 1)
    <3>1. p \in (t + 1)..n /\ p - 1 = t + i /\ t + i \in 0..n /\ p \in 1..Len(s) /\ p \in 1..Len(x)
      BY <1>1, <2>2
    <3>2. g[t + i] = u /\ Crs(u, f[t + i])
      BY <1>1, <2>2, <3>1
    <3> HIDE DEF p, u
    <3>3. p \in Stays(s) /\ p \notin Stays(x) /\ s[p] = "cr"
      BY <2>5, <3>1
    <3>4. g[p] = u
      BY <1>3, <3>1, <3>2, <3>3 DEF IsOnly
    <3>5. f[p] = Append(f[t + i], "cr")
      BY <1>2, <3>1, <3>3 DEF IsOnly
    <3>6. f[t + i] \in Seq(A)
      BY <1>2, <3>1
    <3>7. Crs(u, f[p])
      BY <2>6, <3>2, <3>5, <3>6, CrsMore
    <3> QED BY <3>4, <3>7 DEF p
  <2>9. S = Nat
    <3>1. S \in SUBSET Nat
      OBVIOUS
    <3> HIDE DEF S
    <3> QED BY <2>7, <2>8, <3>1, SetInduction
  <2>10. g[n] = u /\ Crs(u, f[n])
    <3>1. n - t \in Nat /\ t + (n - t) = n
      BY <1>1, <2>2
    <3>2. n - t \in S
      BY <2>9, <3>1
    <3> QED BY <3>1, <3>2
  <2>11. Ended(u)
    <3>1. CASE t = 0
      BY <1>2, <3>1 DEF IsOnly, Ended
    <3>2. CASE t # 0
      <4>1. s[t] # "cr" /\ t \in 1..Len(s) /\ t - 1 \in 0..n
        BY <1>1, <2>1, <2>2, <3>2
      <4>2. t \in Stays(s)
        <5>1. ~InRun(s, t)
          <6> SUFFICES ASSUME NEW j \in t..n, t < j, \A k \in t..(j - 1) : s[k] = "cr" PROVE FALSE
            BY DEF InRun
          <6>1. t \in t..(j - 1)
            BY <1>1, <2>2
          <6> QED BY <4>1, <6>1
        <5> QED BY <4>1, <5>1 DEF Stays
      <4>3. u = Append(f[t - 1], s[t])
        BY <1>2, <4>1, <4>2 DEF IsOnly
      <4>4. f[t - 1] \in Seq(A) /\ s[t] \in A
        BY <1>2, <4>1, ElementOfSeq
      <4> HIDE DEF u
      <4>5. Len(u) = Len(f[t - 1]) + 1 /\ u[Len(f[t - 1]) + 1] = s[t]
        BY <4>3, <4>4, AppendProperties
      <4> QED BY <4>1, <4>5 DEF Ended
    <3> QED BY <3>1, <3>2
  <2>12. Norm(x) = Append(u, c) /\ Trimmed(Norm(s), u)
    BY <1>2, <1>3, <1>5, <2>10, <2>11 DEF Trimmed
  <2> QED BY <1>7, <2>6, <2>12 DEF NewlineBehind
<1> QED BY <1>4, <1>6, <1>7 DEF x

(* Texts with the same Norm have the same with the same letter behind;     *)
(* and \r\n is \n.                                                          *)
LEMMA NormSame ==
  ASSUME NEW A, NEW s \in Seq(A), NEW t \in Seq(A), NEW c \in A, "cr" \in A,
         Norm(s) = Norm(t)
  PROVE  Norm(Append(s, c)) = Norm(Append(t, c))
<1>1. CASE c # "nl"
  <2>1. Norm(Append(s, c)) = Append(Norm(s), c) /\ Norm(Append(t, c)) = Append(Norm(t), c)
    BY <1>1, NormAppend
  <2> QED BY <2>1
<1>2. CASE c = "nl"
  <2>0. NewlineBehind(A, s, Append(s, c)) /\ NewlineBehind(A, t, Append(t, c))
    BY <1>2, NormAppend
  <2>1. PICK u \in Seq(A) : Trimmed(Norm(s), u) /\ Norm(Append(s, c)) = Append(u, "nl")
    BY <2>0 DEF NewlineBehind
  <2>2. PICK v \in Seq(A) : Trimmed(Norm(t), v) /\ Norm(Append(t, c)) = Append(v, "nl")
    BY <2>0 DEF NewlineBehind
  <2>3. u = v
    BY <2>1, <2>2, TrimmedOnce
  <2> QED BY <2>1, <2>2, <2>3
<1> QED BY <1>1, <1>2

(* A newline may come with its carriage return or without.                 *)
LEMMA NormCrNl ==
  ASSUME NEW A, NEW s \in Seq(A), "cr" \in A, "nl" \in A
  PROVE  Norm(Append(Append(s, "cr"), "nl")) = Norm(Append(s, "nl"))
<1> DEFINE x == Append(s, "cr")
<1>1. x \in Seq(A) /\ Norm(x) = Append(Norm(s), "cr") /\ Norm(s) \in Seq(A)
  BY NormAppend, AppendProperties
<1> HIDE DEF x
<1>2. PICK u \in Seq(A) : Trimmed(Norm(x), u) /\ Norm(Append(x, "nl")) = Append(u, "nl")
  <2>1. \A v \in Seq(A), c \in A : c = "nl" => NewlineBehind(A, v, Append(v, c))
    BY NormAppend
  <2> QED BY <1>1, <2>1 DEF NewlineBehind
<1>3. PICK v \in Seq(A) : Trimmed(Norm(s), v) /\ Norm(Append(s, "nl")) = Append(v, "nl")
  BY NormAppend DEF NewlineBehind
<1>4. Trimmed(Norm(x), v)
  BY <1>1, <1>3, CrsMore DEF Trimmed
<1>5. u = v
  BY <1>2, <1>4, TrimmedOnce
<1> QED BY <1>2, <1>3, <1>5 DEF x
-----------------------------------------------------------------------------
(* Characters of two bytes, one byte at a time.                            *)

(* What a byte more makes of a text that can be decoded.                   *)
LEMMA DecodableAppend ==
  ASSUME NEW A, NEW s \in Seq(A), NEW c \in A
  PROVE  /\ Decodable(Append(s, c)) <=>
              Decodable(s) /\ c # "bad" /\ (EndsInHalf(s) <=> c = "m2")
         /\ EndsInHalf(Append(s, c)) <=> c = "m1"
         /\ EndsInHalf(s) => Whole(s) \in Seq(A) /\ s = Append(Whole(s), "m1")
         /\ EndsInHalf(Append(s, c)) => Whole(Append(s, c)) = s
<1> DEFINE n == Len(s)
           x == Append(s, c)
<1>1. /\ n \in Nat /\ x \in Seq(A) /\ Len(x) = n + 1 /\ x[n + 1] = c
      /\ (\A i \in 1..n : x[i] = s[i]) /\ (s = <<>> <=> n = 0)
  BY AppendProperties, LenProperties, EmptySeq
<1> HIDE DEF x
<1>2. x # <<>> /\ (EndsInHalf(x) <=> c = "m1")
  <2>1. x # <<>>
    BY <1>1, EmptySeq
  <2> QED BY <1>1, <2>1 DEF EndsInHalf
<1>3. ASSUME Decodable(x) PROVE Decodable(s) /\ c # "bad" /\ (EndsInHalf(s) <=> c = "m2")
  <2>1. n + 1 \in 1..Len(x) /\ \A i \in 1..n : i \in 1..Len(x) /\ i < Len(x)
    BY <1>1
  <2>2. c # "bad" /\ (c = "m2" => n + 1 > 1 /\ x[(n + 1) - 1] = "m1")
    BY <1>1, <1>3, <2>1 DEF Decodable
  <2>3. c = "m2" => EndsInHalf(s)
    <3>1. c = "m2" => n \in 1..n /\ (n + 1) - 1 = n
      BY <1>1, <2>2
    <3> QED BY <1>1, <2>2, <3>1 DEF EndsInHalf
  <2>4. EndsInHalf(s) => c = "m2"
    <3>1. EndsInHalf(s) => n \in 1..n /\ s[n] = "m1"
      BY <1>1 DEF EndsInHalf
    <3> QED BY <1>1, <1>3, <2>1, <3>1 DEF Decodable
  <2>5. Decodable(s)
    <3> SUFFICES ASSUME NEW i \in 1..n
                 PROVE  /\ s[i] # "bad"
                        /\ s[i] = "m1" /\ i < n => s[i + 1] = "m2"
                        /\ s[i] = "m2" => i > 1 /\ s[i - 1] = "m1"
      BY DEF Decodable
    <3>1. /\ x[i] # "bad"
          /\ x[i] = "m1" /\ i < n + 1 => x[i + 1] = "m2"
          /\ x[i] = "m2" => i > 1 /\ x[i - 1] = "m1"
      BY <1>1, <1>3, <2>1 DEF Decodable
    <3>2. x[i] = s[i] /\ i \in Int /\ i < n + 1
      BY <1>1
    <3>3. (i < n => i + 1 \in 1..n) /\ (i > 1 => i - 1 \in 1..n)
      BY <1>1
    <3> QED BY <1>1, <3>1, <3>2, <3>3
  <2> QED BY <2>2, <2>3, <2>4, <2>5
<1>4. ASSUME Decodable(s), c # "bad", EndsInHalf(s) <=> c = "m2" PROVE Decodable(x)
  <2> SUFFICES ASSUME NEW i \in 1..(n + 1)
               PROVE  /\ x[i] # "bad"
                      /\ x[i] = "m1" /\ i < n + 1 => x[i + 1] = "m2"
                      /\ x[i] = "m2" => i > 1 /\ x[i - 1] = "m1"
    BY <1>1 DEF Decodable
  <2>1. CASE i = n + 1
    <3>1. c = "m2" => n >= 1 /\ s[n] = "m1" /\ n \in 1..n
      BY <1>1, <1>4 DEF EndsInHalf
    <3>2. i - 1 = n /\ ~(i < n + 1) /\ x[i] = c
      BY <1>1, <2>1
    <3>3. c = "m2" => i > 1
      BY <1>1, <2>1, <3>1
    <3> QED BY <1>1, <1>4, <3>1, <3>2, <3>3
  <2>2. CASE i # n + 1
    <3>1. i \in 1..n /\ x[i] = s[i]
      BY <1>1, <2>2
    <3>2. /\ s[i] # "bad"
          /\ s[i] = "m1" /\ i < n => s[i + 1] = "m2"
          /\ s[i] = "m2" => i > 1 /\ s[i - 1] = "m1"
      BY <1>4, <3>1 DEF Decodable
    <3>3. (i < n => i + 1 \in 1..n) /\ (i > 1 => i - 1 \in 1..n)
      BY <1>1, <3>1
    <3>4. i < n \/ i = n
      BY <1>1, <3>1
    <3>5. i = n /\ s[n] = "m1" => x[n + 1] = "m2"
      <4>1. i = n => n # 0
        BY <1>1, <3>1
      <4> QED BY <1>1, <1>4, <4>1 DEF EndsInHalf
    <3> QED BY <1>1, <3>1, <3>2, <3>3, <3>4, <3>5
  <2> QED BY <2>1, <2>2
<1>5. ASSUME EndsInHalf(s) PROVE Whole(s) \in Seq(A) /\ s = Append(Whole(s), "m1")
  <2>1. n >= 1 /\ s[n] = "m1" /\ Whole(s) = SubSeq(s, 1, n - 1) /\ n \in 1..n
    BY <1>1, <1>5 DEF EndsInHalf, Whole
  <2> DEFINE w == SubSeq(s, 1, n - 1)
  <2>2. w \in Seq(A) /\ Len(w) = n - 1 /\ \A i \in 1..(n - 1) : w[i] = s[i]
    <3>1. 1 \in 1..(Len(s) + 1) /\ n - 1 \in (1 - 1)..Len(s) /\ (n - 1) - 1 + 1 = n - 1
      BY <1>1, <2>1
    <3>2. \A i \in 1..(n - 1) : 1 + i - 1 = i
      OBVIOUS
    <3> QED BY <3>1, <3>2, PartOf
  <2> HIDE DEF w
  <2>3. s[n] \in A
    BY <2>1, ElementOfSeq
  <2> DEFINE y == Append(w, "m1")
  <2>4. /\ y \in Seq(A) /\ Len(y) = n
        /\ \A i \in 1..n : y[i] = IF i <= n - 1 THEN w[i] ELSE "m1"
    <3>1. "m1" \in A /\ (n - 1) + 1 = n
      BY <1>1, <2>1, <2>3
    <3> QED BY <2>2, <3>1, AppendIs
  <2> HIDE DEF y
  <2>5. \A i \in 1..n : y[i] = s[i]
    <3> TAKE i \in 1..n
    <3>1. (i <= n - 1 /\ i \in 1..(n - 1)) \/ (~(i <= n - 1) /\ i = n)
      BY <1>1
    <3> QED BY <2>1, <2>2, <2>4, <3>1
  <2>6. y = s
    BY <2>4, <2>5, SeqEqual
  <2> QED BY <2>1, <2>2, <2>6 DEF w, y
<1>6. ASSUME EndsInHalf(x) PROVE Whole(x) = s
  <2> DEFINE w == SubSeq(x, 1, n)
  <2>1. Whole(x) = w
    <3>1. (n + 1) - 1 = n
      BY <1>1
    <3> QED BY <1>1, <1>6, <3>1 DEF Whole
  <2>2. w \in Seq(A) /\ Len(w) = n /\ \A i \in 1..n : w[i] = x[i]
    <3>1. 1 \in 1..(Len(x) + 1) /\ n \in (1 - 1)..Len(x) /\ n - 1 + 1 = n
      BY <1>1
    <3>2. \A i \in 1..n : 1 + i - 1 = i
      OBVIOUS
    <3> QED BY <1>1, <3>1, <3>2, PartOf
  <2> HIDE DEF w
  <2>3. w = s
    BY <1>1, <2>2, SeqEqual
  <2> QED BY <2>1, <2>3
<1> QED BY <1>2, <1>3, <1>4, <1>5, <1>6 DEF x
-----------------------------------------------------------------------------
(* One chunk.                                                              *)

\* All the output so far, the text made of it with the byte the decoder holds,
\* and what the decoder was given last, agree.
Same(x, y, z) ==
  /\ Norm(x) = Norm(y)
  /\ Decodable(x) <=> Decodable(z)
  /\ EndsInHalf(x) <=> EndsInHalf(z)

(* They agree with another byte, and with \r\n for \n.                     *)
LEMMA SameAppend ==
  ASSUME NEW A, NEW x \in Seq(A), NEW y \in Seq(A), NEW z \in Seq(A), "cr" \in A, "nl" \in A,
         Same(x, y, z)
  PROVE  /\ \A c \in A : Same(Append(x, c), Append(y, c), Append(z, c))
         /\ Same(Append(Append(x, "cr"), "nl"), Append(y, "nl"), Append(z, "nl"))
<1>1. ASSUME NEW c \in A PROVE Same(Append(x, c), Append(y, c), Append(z, c))
  <2>1. Norm(Append(x, c)) = Norm(Append(y, c))
    BY NormSame DEF Same
  <2>2. Decodable(Append(x, c)) <=> Decodable(x) /\ c # "bad" /\ (EndsInHalf(x) <=> c = "m2")
    BY DecodableAppend
  <2>3. Decodable(Append(z, c)) <=> Decodable(z) /\ c # "bad" /\ (EndsInHalf(z) <=> c = "m2")
    BY DecodableAppend
  <2>4. (EndsInHalf(Append(x, c)) <=> c = "m1") /\ (EndsInHalf(Append(z, c)) <=> c = "m1")
    BY DecodableAppend
  <2> QED BY <2>1, <2>2, <2>3, <2>4 DEF Same
<1> DEFINE v == Append(x, "cr")
<1>2. v \in Seq(A)
  BY AppendProperties
<1>3. Decodable(v) <=> Decodable(x) /\ ~EndsInHalf(x)
  BY DecodableAppend
<1>4. ~EndsInHalf(v)
  BY DecodableAppend
<1>5. Norm(Append(v, "nl")) = Norm(Append(x, "nl"))
  BY NormCrNl
<1>6. Norm(Append(x, "nl")) = Norm(Append(y, "nl"))
  BY <1>1 DEF Same
<1> HIDE DEF v
<1>7. (Decodable(Append(v, "nl")) <=> Decodable(v)) /\ ~EndsInHalf(Append(v, "nl"))
  BY <1>2, <1>4, DecodableAppend
<1>8. (Decodable(Append(z, "nl")) <=> Decodable(z) /\ ~EndsInHalf(z)) /\ ~EndsInHalf(Append(z, "nl"))
  <2>1. Decodable(Append(z, "nl")) <=> Decodable(z) /\ ~EndsInHalf(z)
    <3>1. \A c \in A : Decodable(Append(z, c)) <=>
                       Decodable(z) /\ c # "bad" /\ (EndsInHalf(z) <=> c = "m2")
      BY DecodableAppend
    <3> QED BY <3>1
  <2>2. ~EndsInHalf(Append(z, "nl"))
    BY DecodableAppend
  <2> QED BY <2>1, <2>2
<1>9. Same(Append(v, "nl"), Append(y, "nl"), Append(z, "nl"))
  BY <1>3, <1>5, <1>6, <1>7, <1>8 DEF Same
<1> QED BY <1>1, <1>9 DEF v

(* A letter behind the second of two texts is behind both.                 *)
LEMMA ConcatAppend ==
  ASSUME NEW A, NEW s \in Seq(A), NEW t \in Seq(A), NEW c \in A
  PROVE  s \o t \in Seq(A) /\ s \o Append(t, c) = Append(s \o t, c) /\ s \o <<>> = s
  OBVIOUS

(* The beginnings of a chunk, a letter at a time.                          *)
LEMMA BeginningGrows ==
  ASSUME NEW A, NEW s \in Seq(A)
  PROVE  /\ SubSeq(s, 1, 0) = <<>> /\ SubSeq(s, 1, Len(s)) = s
         /\ \A n \in 0..Len(s) : SubSeq(s, 1, n) \in Seq(A)
         /\ \A n \in 1..Len(s) : SubSeq(s, 1, n) = Append(SubSeq(s, 1, n - 1), s[n])
<1>1. Len(s) \in Nat /\ \A n \in 1..Len(s) : s[n] \in A
  BY LenProperties, ElementOfSeq
<1>2. \A n \in 0..Len(s) : /\ SubSeq(s, 1, n) \in Seq(A) /\ Len(SubSeq(s, 1, n)) = n
                           /\ \A i \in 1..n : SubSeq(s, 1, n)[i] = s[i]
  BY <1>1
<1>3. SubSeq(s, 1, 0) = <<>>
  BY <1>1
<1>4. SubSeq(s, 1, Len(s)) = s
  <2> DEFINE w == SubSeq(s, 1, Len(s))
  <2>1. w \in Seq(A) /\ Len(w) = Len(s) /\ \A i \in 1..Len(s) : w[i] = s[i]
    BY <1>1, <1>2
  <2> HIDE DEF w
  <2>2. w = s
    BY <2>1, SeqEqual
  <2> QED BY <2>2 DEF w
<1>5. ASSUME NEW n \in 1..Len(s) PROVE SubSeq(s, 1, n) = Append(SubSeq(s, 1, n - 1), s[n])
  <2> DEFINE v == SubSeq(s, 1, n)
             w == SubSeq(s, 1, n - 1)
             y == Append(w, s[n])
  <2>1. n \in 0..Len(s) /\ n - 1 \in 0..Len(s) /\ (n - 1) + 1 = n
    BY <1>1
  <2>2. /\ v \in Seq(A) /\ Len(v) = n /\ (\A i \in 1..n : v[i] = s[i])
        /\ w \in Seq(A) /\ Len(w) = n - 1 /\ (\A i \in 1..(n - 1) : w[i] = s[i])
    BY <1>2, <2>1
  <2> HIDE DEF v, w
  <2>3. y \in Seq(A) /\ Len(y) = n /\ \A i \in 1..n : y[i] = IF i <= n - 1 THEN w[i] ELSE s[n]
    BY <1>1, <2>1, <2>2, AppendIs
  <2> HIDE DEF y
  <2>4. \A i \in 1..n : v[i] = y[i]
    <3> TAKE i \in 1..n
    <3>1. (i <= n - 1 /\ i \in 1..(n - 1)) \/ (~(i <= n - 1) /\ i = n)
      BY <1>1
    <3> QED BY <2>2, <2>3, <3>1
  <2>5. v = y
    BY <2>2, <2>3, <2>4, SeqEqual
  <2> QED BY <2>5 DEF v, w, y
<1> QED BY <1>2, <1>3, <1>4, <1>5

\* The places where replace() drops the \r of a \r\n.
Skipped(s, i) == s[i] = "cr" /\ i < Len(s) /\ s[i + 1] = "nl"

(* What one chunk adds, byte by byte, to output that agreed before.        *)
LEMMA ChunkAgrees ==
  ASSUME NEW A, NEW r \in Seq(A), NEW d \in Seq(A), NEW h \in Seq(A), NEW chunk \in Seq(A),
         chunk # <<>>, "cr" \in A, "nl" \in A, Same(r, d \o h, h)
  PROVE  LET b == Newlines(chunk)
         IN  /\ b \in Seq(A)
             /\ Same(r \o chunk, d \o (h \o b), h \o b)
             /\ Norm(Whole(r \o chunk)) = Norm(d \o Whole(h \o b))
<1> DEFINE n == Len(chunk)
           kept == {i \in 1..n : ~Skipped(chunk, i)}
           P(i) == SubSeq(chunk, 1, i)
<1>1. n \in Nat /\ n >= 1 /\ n \in 1..n /\ \A i \in 1..n : chunk[i] \in A
  BY LenProperties, EmptySeq, ElementOfSeq
<1>2. PICK f \in [0..n -> Seq(A)] : IsOnly(f, chunk, kept) /\ Newlines(chunk) = f[n]
  <2>1. Newlines(chunk) = Only(chunk, kept)
    BY DEF Newlines, Skipped
  <2> HIDE DEF kept
  <2> QED BY <2>1, OnlyIs
<1> DEFINE X(i) == r \o P(i)
           Z(i) == h \o f[i]
           Y(i) == d \o Z(i)
<1>3. X(0) = r /\ Z(0) = h /\ Y(0) = d \o h /\ X(n) = r \o chunk
  <2>1. P(0) = <<>> /\ f[0] = <<>> /\ P(n) = chunk
    BY <1>2, BeginningGrows DEF IsOnly
  <2>2. r \o <<>> = r /\ h \o <<>> = h
    OBVIOUS
  <2> HIDE DEF P
  <2> QED BY <2>1, <2>2
<1>4. \A i \in 0..n : X(i) \in Seq(A) /\ Z(i) \in Seq(A) /\ Y(i) \in Seq(A)
  <2> TAKE i \in 0..n
  <2>1. P(i) \in Seq(A) /\ f[i] \in Seq(A)
    BY <1>2, BeginningGrows
  <2> HIDE DEF P
  <2>2. X(i) \in Seq(A) /\ Z(i) \in Seq(A)
    BY <2>1
  <2> HIDE DEF Z
  <2>3. Y(i) \in Seq(A)
    BY <2>2
  <2> QED BY <2>2, <2>3
<1>5. \A i \in 1..n : X(i) = Append(X(i - 1), chunk[i])
  <2> TAKE i \in 1..n
  <2>1. P(i) = Append(P(i - 1), chunk[i]) /\ P(i - 1) \in Seq(A) /\ chunk[i] \in A
    <3>1. i - 1 \in 0..n
      BY <1>1
    <3> QED BY <1>1, <3>1, BeginningGrows
  <2> HIDE DEF P
  <2> QED BY <2>1, ConcatAppend
<1>6. \A i \in 1..n : /\ Skipped(chunk, i) => Z(i) = Z(i - 1) /\ Y(i) = Y(i - 1)
                      /\ ~Skipped(chunk, i) => /\ Z(i) = Append(Z(i - 1), chunk[i])
                                               /\ Y(i) = Append(Y(i - 1), chunk[i])
  <2> TAKE i \in 1..n
  <2>1. f[i] = IF Skipped(chunk, i) THEN f[i - 1] ELSE Append(f[i - 1], chunk[i])
    BY <1>2 DEF IsOnly
  <2>0. i - 1 \in 0..n
    BY <1>1
  <2>2. f[i - 1] \in Seq(A) /\ i - 1 \in 0..n /\ chunk[i] \in A
    BY <1>1, <1>2, <2>0
  <2>3. CASE Skipped(chunk, i)
    BY <2>1, <2>3
  <2>4. CASE ~Skipped(chunk, i)
    <3>0. \A q \in Seq(A), c \in A : h \o Append(q, c) = Append(h \o q, c)
      BY ConcatAppend
    <3>1. Z(i) = Append(Z(i - 1), chunk[i])
      BY <2>1, <2>2, <2>4, <3>0
    <3>2. Z(i - 1) \in Seq(A)
      BY <1>4, <2>2
    <3> HIDE DEF Z
    <3>4. \A q \in Seq(A), c \in A : d \o Append(q, c) = Append(d \o q, c)
      BY ConcatAppend
    <3>3. Y(i) = Append(Y(i - 1), chunk[i])
      BY <2>2, <3>1, <3>2, <3>4
    <3> QED BY <2>4, <3>1, <3>3
  <2> QED BY <2>3, <2>4
<1>7. f[n] = Newlines(chunk)
  BY <1>2
<1> HIDE DEF P, X, Y, Z, kept
<1> DEFINE Agree(i) == Same(X(i), Y(i), Z(i))
           At(i) == IF i > 0 /\ Skipped(chunk, i) THEN Agree(i - 1) ELSE Agree(i)
           S == {i \in Nat : i <= n => At(i)}
<1>8. 0 \in S
  <2>1. Agree(0)
    BY <1>3
  <2> HIDE DEF Agree
  <2> QED BY <2>1
<1>9. ASSUME NEW i \in S PROVE i + 1 \in S
  <2> SUFFICES ASSUME i + 1 <= n PROVE At(i + 1)
    OBVIOUS
  <2>1. /\ i \in Nat /\ i + 1 \in 1..n /\ (i + 1) - 1 = i /\ i \in 0..n /\ At(i)
        /\ i + 1 > 0 /\ (i > 0 => i \in 1..n /\ i - 1 \in 0..n)
    BY <1>1
  <2>2. chunk[i + 1] \in A /\ X(i) \in Seq(A) /\ Y(i) \in Seq(A) /\ Z(i) \in Seq(A)
    BY <1>1, <1>4, <2>1
  <2>3. CASE i > 0 /\ Skipped(chunk, i)
    <3>1. chunk[i] = "cr" /\ chunk[i + 1] = "nl" /\ i \in 1..n /\ i - 1 \in 0..n
      BY <2>1, <2>3 DEF Skipped
    <3>2. Agree(i - 1) /\ ~Skipped(chunk, i + 1)
      BY <2>1, <2>3, <3>1 DEF Skipped
    <3>3. /\ X(i + 1) = Append(Append(X(i - 1), "cr"), "nl")
          /\ Y(i + 1) = Append(Y(i - 1), "nl") /\ Z(i + 1) = Append(Z(i - 1), "nl")
      <4>1. X(i) = Append(X(i - 1), "cr") /\ X(i + 1) = Append(X(i), "nl")
        BY <1>5, <2>1, <3>1
      <4>2. Z(i) = Z(i - 1) /\ Y(i) = Y(i - 1)
        BY <1>6, <2>3, <3>1
      <4>3. Z(i + 1) = Append(Z(i), "nl") /\ Y(i + 1) = Append(Y(i), "nl")
        BY <1>6, <2>1, <3>1, <3>2
      <4> QED BY <4>1, <4>2, <4>3
    <3>4. X(i - 1) \in Seq(A) /\ Y(i - 1) \in Seq(A) /\ Z(i - 1) \in Seq(A)
      BY <1>4, <3>1
    <3>5. Agree(i + 1)
      BY <3>2, <3>3, <3>4, SameAppend
    <3> QED BY <3>2, <3>5
  <2>4. CASE ~(i > 0 /\ Skipped(chunk, i))
    <3>1. Agree(i)
      BY <2>1, <2>4
    <3>2. CASE Skipped(chunk, i + 1)
      BY <2>1, <3>1, <3>2
    <3>3. CASE ~Skipped(chunk, i + 1)
      <4>1. /\ X(i + 1) = Append(X(i), chunk[i + 1])
            /\ Y(i + 1) = Append(Y(i), chunk[i + 1]) /\ Z(i + 1) = Append(Z(i), chunk[i + 1])
        BY <1>5, <1>6, <2>1, <3>3
      <4>2. Agree(i + 1)
        BY <2>2, <3>1, <4>1, SameAppend
      <4> QED BY <3>3, <4>2
    <3> QED BY <3>2, <3>3
  <2> QED BY <2>3, <2>4
<1>10. \A i \in 0..n : At(i)
  <2>1. S = Nat
    <3>1. S \in SUBSET Nat
      OBVIOUS
    <3> HIDE DEF S
    <3> QED BY <1>8, <1>9, <3>1, SetInduction
  <2> TAKE i \in 0..n
  <2>2. i \in Nat /\ i <= n
    BY <1>1
  <2>3. i \in S
    BY <2>1, <2>2
  <2> QED BY <2>2, <2>3
<1>11. Agree(n) /\ n \in 0..n /\ n - 1 \in 0..n
  <2>1. ~Skipped(chunk, n) /\ n \in 0..n /\ n - 1 \in 0..n
    BY <1>1 DEF Skipped
  <2>2. At(n)
    BY <1>10, <2>1
  <2> QED BY <2>1, <2>2
<1>12. Norm(Whole(X(n))) = Norm(d \o Whole(Z(n)))
  <2>1. CASE EndsInHalf(X(n))
    <3>1. /\ X(n) = Append(X(n - 1), chunk[n]) /\ Z(n) = Append(Z(n - 1), chunk[n])
          /\ X(n - 1) \in Seq(A) /\ Z(n - 1) \in Seq(A) /\ chunk[n] \in A
      <4>1. ~Skipped(chunk, n)
        BY <1>1 DEF Skipped
      <4> QED BY <1>1, <1>4, <1>5, <1>6, <1>11, <4>1
    <3>0. \A v \in Seq(A), c \in A : /\ EndsInHalf(Append(v, c)) <=> c = "m1"
                                     /\ EndsInHalf(Append(v, c)) => Whole(Append(v, c)) = v
      BY DecodableAppend
    <3>2. chunk[n] = "m1"
      BY <2>1, <3>0, <3>1
    <3>3. EndsInHalf(Z(n))
      BY <1>11, <2>1 DEF Same
    <3>4. Whole(X(n)) = X(n - 1) /\ Whole(Z(n)) = Z(n - 1)
      BY <2>1, <3>0, <3>1, <3>3
    <3>5. Agree(n - 1)
      <4>1. ~(n - 1 > 0 /\ Skipped(chunk, n - 1))
        <5>1. (n - 1) + 1 = n
          BY <1>1
        <5> QED BY <3>2, <5>1 DEF Skipped
      <4> QED BY <1>10, <1>11, <4>1
    <3> QED BY <3>4, <3>5 DEF Same, Y
  <2>2. CASE ~EndsInHalf(X(n))
    <3>1. Whole(X(n)) = X(n) /\ Whole(Z(n)) = Z(n)
      BY <1>11, <2>2 DEF Same, Whole
    <3> QED BY <1>11, <3>1 DEF Same, Y
  <2> QED BY <2>1, <2>2
<1>13. Z(n) = h \o Newlines(chunk) /\ Y(n) = d \o (h \o Newlines(chunk))
  BY <1>7 DEF Y, Z
<1>14. Newlines(chunk) \in Seq(A)
  BY <1>2, <1>11
<1> QED BY <1>3, <1>11, <1>12, <1>13, <1>14
-----------------------------------------------------------------------------
(* The invariant.                                                          *)

\* The texts of the decoder: the box stands for a chunk that was given up.
OutTokens == Tokens \cup {"box"}

\* What the decoder holds.
Held == IF half THEN <<"m1">> ELSE <<>>

DcInv ==
  /\ raw \in Seq(Tokens) /\ decoded \in Seq(OutTokens)
  /\ half \in BOOLEAN /\ broken \in BOOLEAN
  /\ ErrorsAreReal
  /\ ~broken => (half <=> EndsInHalf(raw)) /\ Norm(decoded) = Norm(Whole(raw))

(* DcInv holds at the start.                                               *)
LEMMA DcStart == DcInit => DcInv
<1> SUFFICES ASSUME DcInit PROVE DcInv
  OBVIOUS
<1>1. raw = <<>> /\ half = FALSE /\ decoded = <<>> /\ broken = FALSE /\ Len(<<>>) = 0
  BY EmptySeq DEF DcInit
<1>2. Decodable(raw) /\ ~EndsInHalf(raw)
  BY <1>1 DEF Decodable, EndsInHalf
<1>3. Norm(decoded) = Norm(Whole(raw))
  BY <1>1, <1>2 DEF Whole
<1>4. raw \in Seq(Tokens) /\ decoded \in Seq(OutTokens)
  BY <1>1
<1> QED BY <1>1, <1>2, <1>3, <1>4 DEF DcInv, ErrorsAreReal

(* Bytes behind it do not mend what cannot be decoded.                     *)
LEMMA NeverMended ==
  ASSUME NEW A, NEW s \in Seq(A), NEW t \in Seq(A), Decodable(s \o t)
  PROVE  Decodable(s)
<1> DEFINE n == Len(s)
           x == s \o t
<1>1. n \in Nat /\ Len(t) \in Nat /\ Len(x) = n + Len(t) /\ \A i \in 1..n : x[i] = s[i]
  BY LenProperties, ConcatProperties
<1> HIDE DEF x
<1> SUFFICES ASSUME NEW i \in 1..n
             PROVE  /\ s[i] # "bad"
                    /\ s[i] = "m1" /\ i < n => s[i + 1] = "m2"
                    /\ s[i] = "m2" => i > 1 /\ s[i - 1] = "m1"
  BY DEF Decodable
<1>2. i \in 1..Len(x) /\ (i < n => i < Len(x) /\ i + 1 \in 1..n) /\ (i > 1 => i - 1 \in 1..n)
  BY <1>1
<1>3. /\ x[i] # "bad"
      /\ x[i] = "m1" /\ i < Len(x) => x[i + 1] = "m2"
      /\ x[i] = "m2" => i > 1 /\ x[i - 1] = "m1"
  BY <1>2 DEF Decodable, x
<1> QED BY <1>1, <1>2, <1>3

(* What the text, the byte the decoder holds and the output have in common *)
(* before a chunk.                                                         *)
LEMMA AgreeBefore ==
  ASSUME DcInv, ~broken
  PROVE  Held \in Seq(OutTokens) /\ Same(raw, decoded \o Held, Held)
<1> DEFINE A == OutTokens
<1>1. /\ raw \in Seq(A) /\ decoded \in Seq(A) /\ "m1" \in A /\ "cr" \in A
      /\ Decodable(raw) /\ (half <=> EndsInHalf(raw)) /\ Norm(decoded) = Norm(Whole(raw))
      /\ half \in BOOLEAN
  BY DEF DcInv, ErrorsAreReal, OutTokens, Tokens
<1> HIDE DEF A
<1>2. CASE half
  <2>1. Held = <<"m1">> /\ Held \in Seq(A) /\ Held = Append(<<>>, "m1")
    BY <1>1, <1>2 DEF Held
  <2>2. Decodable(Held) /\ EndsInHalf(Held)
    <3>1. Len(<<"m1">>) = 1 /\ <<"m1">>[1] = "m1" /\ <<"m1">> # <<>>
      OBVIOUS
    <3> QED BY <2>1, <3>1 DEF Decodable, EndsInHalf
  <2>3. decoded \o Held = Append(decoded, "m1")
    BY <1>1, <2>1
  <2>4. raw = Append(Whole(raw), "m1") /\ Whole(raw) \in Seq(A)
    BY <1>1, <1>2, DecodableAppend
  <2>5. Norm(Append(Whole(raw), "m1")) = Norm(Append(decoded, "m1"))
    BY <1>1, <2>4, NormSame
  <2> QED BY <1>1, <1>2, <2>1, <2>2, <2>3, <2>4, <2>5 DEF Same, A
<1>3. CASE ~half
  <2>1. Held = <<>> /\ Held \in Seq(A) /\ decoded \o Held = decoded
    BY <1>1, <1>3 DEF Held
  <2>2. Decodable(Held) /\ ~EndsInHalf(Held)
    <3>1. Len(<<>>) = 0
      BY EmptySeq
    <3> QED BY <2>1, <3>1 DEF Decodable, EndsInHalf
  <2>3. Whole(raw) = raw
    BY <1>1, <1>3 DEF Whole
  <2> QED BY <1>1, <1>3, <2>1, <2>2, <2>3 DEF Same, A
<1> QED BY <1>1, <1>2, <1>3

(* A read keeps DcInv.                                                     *)
LEMMA DcRead ==
  ASSUME DcInv, ReadChunk
  PROVE  DcInv'
<1> DEFINE A == OutTokens
<1>1. PICK n \in 1..(MaxBytes - Len(raw)) :
        \E chunk \in [1..n -> Tokens] : raw' = raw \o chunk /\ Decode(Newlines(chunk))
  BY DEF ReadChunk
<1>2. PICK chunk \in [1..n -> Tokens] : raw' = raw \o chunk /\ Decode(Newlines(chunk))
  BY <1>1
<1>3. /\ raw \in Seq(Tokens) /\ Len(raw) \in Nat /\ MaxBytes \in Nat /\ n \in Nat /\ n >= 1
      /\ decoded \in Seq(A) /\ half \in BOOLEAN /\ broken \in BOOLEAN
      /\ broken <=> ~Decodable(raw)
  BY BytesAssumption, LenProperties DEF DcInv, ErrorsAreReal
<1>4. chunk \in Seq(Tokens) /\ Len(chunk) = n /\ chunk # <<>>
  <2>1. chunk \in Seq(Tokens) /\ Len(chunk) = n
    BY <1>2, <1>3
  <2> QED BY <1>3, <2>1, EmptySeq
<1>5. raw \in Seq(A) /\ chunk \in Seq(A) /\ raw' \in Seq(Tokens) /\ "cr" \in A /\ "nl" \in A /\ "box" \in A
  BY <1>2, <1>3, <1>4 DEF OutTokens, Tokens
<1> DEFINE b == Newlines(chunk)
           all == Held \o b
<1>6. b \in Seq(A)
  <2> DEFINE kept == {i \in 1..Len(chunk) : ~(chunk[i] = "cr" /\ i < Len(chunk) /\ chunk[i + 1] = "nl")}
  <2>1. b = Only(chunk, kept)
    BY DEF Newlines
  <2> HIDE DEF kept, b
  <2>2. PICK f \in [0..Len(chunk) -> Seq(A)] : Only(chunk, kept) = f[Len(chunk)]
    BY <1>5, OnlyIs
  <2>3. Len(chunk) \in 0..Len(chunk)
    BY <1>3, <1>4
  <2> QED BY <2>1, <2>2, <2>3
<1> HIDE DEF b
<1>7. all = IF half THEN <<"m1">> \o b ELSE b
  BY <1>3, <1>6 DEF Held
<1>8. all \in Seq(A) /\ Whole(all) \in Seq(A)
  <2>0. "m1" \in A
    BY DEF OutTokens, Tokens
  <2>1. Held \in Seq(A)
    <3> HIDE DEF A
    <3> QED BY <2>0 DEF Held
  <2>2. all \in Seq(A)
    BY <1>6, <2>1
  <2> HIDE DEF all
  <2>3. Whole(all) \in Seq(A)
    BY <2>2, DecodableAppend DEF Whole
  <2> QED BY <2>2, <2>3
<1>9. IF Decodable(all)
        THEN decoded' = decoded \o Whole(all) /\ half' = EndsInHalf(all) /\ broken' = broken
        ELSE decoded' = Append(decoded, "box") /\ half' = FALSE /\ broken' = TRUE
  BY <1>2, <1>7 DEF Decode, b
<1> HIDE DEF all
<1>10. decoded' \in Seq(A) /\ half' \in BOOLEAN /\ broken' \in BOOLEAN
  <2>1. CASE Decodable(all)
    <3>1. decoded \o Whole(all) \in Seq(A) /\ EndsInHalf(all) \in BOOLEAN
      BY <1>3, <1>8 DEF EndsInHalf
    <3> QED BY <1>3, <1>9, <2>1, <3>1
  <2>2. CASE ~Decodable(all)
    <3>1. Append(decoded, "box") \in Seq(A)
      BY <1>3, <1>5, AppendProperties
    <3> QED BY <1>9, <2>2, <3>1
  <2> QED BY <2>1, <2>2
<1>11. CASE broken
  <2>1. ~Decodable(raw')
    BY <1>2, <1>3, <1>4, <1>11, NeverMended
  <2>2. broken'
    BY <1>9, <1>11
  <2> QED BY <1>5, <1>10, <2>1, <2>2 DEF DcInv, ErrorsAreReal
<1>12. CASE ~broken
  <2>1. Held \in Seq(A) /\ Same(raw, decoded \o Held, Held)
    BY <1>12, AgreeBefore
  <2>2. /\ Same(raw \o chunk, decoded \o (Held \o b), Held \o b)
        /\ Norm(Whole(raw \o chunk)) = Norm(decoded \o Whole(Held \o b))
    BY <1>3, <1>4, <1>5, <2>1, ChunkAgrees DEF b
  <2>3. /\ Decodable(raw') <=> Decodable(all)
        /\ EndsInHalf(raw') <=> EndsInHalf(all)
        /\ Norm(Whole(raw')) = Norm(decoded \o Whole(all))
    BY <1>2, <2>2 DEF Same, all
  <2>4. CASE Decodable(all)
    <3>1. decoded' = decoded \o Whole(all) /\ (half' <=> EndsInHalf(all)) /\ ~broken'
      BY <1>9, <1>12, <2>4
    <3> QED BY <1>5, <1>10, <2>3, <2>4, <3>1 DEF DcInv, ErrorsAreReal
  <2>5. CASE ~Decodable(all)
    <3>1. broken' = TRUE
      BY <1>9, <2>5
    <3> QED BY <1>5, <1>10, <2>3, <2>5, <3>1 DEF DcInv, ErrorsAreReal
  <2> QED BY <2>4, <2>5
<1> QED BY <1>11, <1>12

(* However the output is cut into reads, inside \r\n or inside a           *)
(* character, the text is that of the whole output, and a chunk is given   *)
(* up only if the whole cannot be decoded.                                 *)
THEOREM SplitsAlwaysInvisible == DcSpec => []SplitsAreInvisible
<1>1. DcInv /\ [DcNext]_dcVars => DcInv'
  <2>1. ASSUME DcInv, UNCHANGED dcVars PROVE DcInv'
    BY <2>1 DEF dcVars, DcInv, ErrorsAreReal
  <2> QED BY <2>1, DcRead DEF DcNext
<1>2. DcInv => SplitsAreInvisible
  BY DEF DcInv, SplitsAreInvisible, ChunksInvisible
<1> QED BY DcStart, <1>1, <1>2, PTL DEF DcSpec
-----------------------------------------------------------------------------
(* Colour sequences.                                                       *)

Flags == {Unset, 0, 1}
Colors == {Unset, None} \cup 0..255

\* The places of the sequence the loop is at, and what it has collected.
CoTypeInv ==
  /\ CoTypeOK
  /\ codes \in Seq(Numbers \cup {1}) /\ Len(codes) <= MaxNumbers /\ idx \in 1..(Len(codes) + 1)
  /\ change \in [bold : Flags, italic : Flags, underline : Flags, fg : Colors, bg : Colors]
  /\ style \in [bold : {0, 1}, italic : {0, 1}, underline : {0, 1},
                fg : Colors \ {Unset}, bg : Colors \ {Unset}]

(* The numbers of a sequence.                                              *)
LEMMA CodesAre ==
  ASSUME CoTypeInv
  PROVE  /\ Len(codes) \in Nat /\ MaxNumbers \in Nat /\ MaxSequences \in Nat
         /\ idx \in Nat /\ \A i \in 1..Len(codes) : codes[i] \in Int
<1>1. \A i \in 1..Len(codes) : codes[i] \in Numbers \cup {1}
  BY ElementOfSeq DEF CoTypeInv
<1>2. \A k \in Numbers \cup {1} : k \in Int
  BY NumbersAssumption DEF Blank
<1>3. Len(codes) \in Nat
  BY LenProperties DEF CoTypeInv
<1>4. idx \in 1..(Len(codes) + 1)
  BY DEF CoTypeInv
<1>5. idx \in Nat
  BY <1>3, <1>4
<1>6. \A i \in 1..Len(codes) : codes[i] \in Int
  BY <1>1, <1>2
<1> QED BY <1>3, <1>5, <1>6, ColorBoundsAssumption

(* An item gives flags and colours.                                        *)
LEMMA EffectTypes ==
  ASSUME CoTypeInv, Running
  PROVE  Effect \in [bold : Flags, italic : Flags, underline : Flags, fg : Colors, bg : Colors]
<1> DEFINE Changes == [bold : Flags, italic : Flags, underline : Flags, fg : Colors, bg : Colors]
<1>1. Item \in Int /\ change \in Changes
  BY CodesAre DEF Running, Item, CoTypeInv
<1>2. Default \in Changes
  BY DEF Default, Flags, Colors, None
<1>3. /\ [change EXCEPT !.bold = 1] \in Changes /\ [change EXCEPT !.italic = 1] \in Changes
      /\ [change EXCEPT !.underline = 1] \in Changes
  BY <1>1 DEF Flags
<1>4. \A d \in 0..9 : \A b \in BOOLEAN : Xterm(d, b) \in Colors
  BY DEF Xterm, Colors
<1>5. \A c \in Colors : [change EXCEPT !.fg = c] \in Changes /\ [change EXCEPT !.bg = c] \in Changes
  BY <1>1
<1>6. \A c, e \in Colors : [change EXCEPT !.fg = c, !.bg = e] \in Changes
  BY <1>1
<1>7. Bright \in BOOLEAN
  BY DEF Bright
<1>8. Xterm(0, Bright) \in Colors /\ Xterm(7, Bright) \in Colors
  BY <1>4, <1>7
<1>9. Xterm(Item % 10, Bright) \in Colors /\ Xterm(Item % 10, TRUE) \in Colors
  <2>1. Item % 10 \in 0..9
    BY <1>1
  <2> QED BY <2>1, <1>4, <1>7
<1> HIDE DEF Changes
<1>10. Effect \in Changes
  BY <1>1, <1>2, <1>3, <1>5, <1>6, <1>8, <1>9 DEF Effect
<1> QED BY <1>10 DEF Changes

(* CoTypeInv holds at the start.                                           *)
LEMMA CoTypeInit == CoInit => CoTypeInv
<1> SUFFICES ASSUME CoInit PROVE CoTypeInv
  OBVIOUS
<1>1. codes = <<>> /\ codes \in Seq(Numbers \cup {1}) /\ Len(codes) = 0
  BY DEF CoInit
<1>2. change \in [bold : Flags, italic : Flags, underline : Flags, fg : Colors, bg : Colors]
  BY DEF CoInit, NoChange, Flags, Colors
<1>3. style \in [bold : {0, 1}, italic : {0, 1}, underline : {0, 1},
                 fg : Colors \ {Unset}, bg : Colors \ {Unset}]
  BY DEF CoInit, Default, Colors, Unset, None
<1>4. /\ \A k \in {"bold", "italic", "underline"} : style[k] \in {0, 1}
      /\ \A g \in Grounds : style[g] \in {None} \cup 0..255
  BY DEF CoInit, Default, Grounds
<1>5. idx \in 1..(MaxNumbers + 1) /\ sequences \in 0..MaxSequences
  BY ColorBoundsAssumption DEF CoInit
<1>6. CoTypeOK
  BY <1>4, <1>5 DEF CoInit, CoTypeOK
<1> QED BY <1>1, <1>2, <1>3, <1>6, ColorBoundsAssumption DEF CoTypeInv, CoInit

(* A step of the loop leaves idx within the sequence.                      *)
LEMMA LoopTypes ==
  ASSUME CoTypeInv, UNCHANGED <<codes, style, sequences>>,
         decoding' \in {"idle", "loop", "raised"}, acted' \in BOOLEAN,
         idx' \in 1..(Len(codes) + 1),
         change' \in [bold : Flags, italic : Flags, underline : Flags, fg : Colors, bg : Colors]
  PROVE  CoTypeInv'
<1>1. Len(codes) \in Nat /\ MaxNumbers \in Nat /\ Len(codes) <= MaxNumbers
  BY CodesAre DEF CoTypeInv
<1>2. idx' \in 1..(MaxNumbers + 1)
  BY <1>1
<1>3. CoTypeOK'
  BY <1>2 DEF CoTypeInv, CoTypeOK
<1> QED BY <1>3 DEF CoTypeInv

(* Every step keeps CoTypeInv.                                             *)
LEMMA CoTypeStep == CoTypeInv /\ [CoNext]_coVars => CoTypeInv'
<1> SUFFICES ASSUME CoTypeInv, [CoNext]_coVars PROVE CoTypeInv'
  OBVIOUS
<1> DEFINE Changes == [bold : Flags, italic : Flags, underline : Flags, fg : Colors, bg : Colors]
<1>a. /\ Len(codes) \in Nat /\ idx \in 1..(Len(codes) + 1) /\ idx \in Nat
      /\ decoding \in {"idle", "loop", "raised"} /\ acted \in BOOLEAN /\ change \in Changes
      /\ \A i \in 1..Len(codes) : codes[i] \in Int
  BY CodesAre DEF CoTypeInv, CoTypeOK
<1>1. CASE FindSequence
  <2>1. PICK n \in 1..MaxNumbers : \E t \in [1..n -> Numbers] : codes' = Supported(t)
    BY <1>1 DEF FindSequence
  <2>2. n \in Nat /\ n <= MaxNumbers /\ MaxNumbers \in Nat
    BY <2>1, ColorBoundsAssumption
  <2>3. codes' \in Seq(Numbers \cup {1}) /\ Len(codes') \in 1..n
    <3>1. PICK t \in [1..n -> Numbers] : codes' = Supported(t)
      BY <2>1
    <3>2. t \in Seq(Numbers \cup {1}) /\ Len(t) = n
      BY <2>2
    <3>3. <<1>> \in Seq(Numbers \cup {1}) /\ Len(<<1>>) = 1
      OBVIOUS
    <3>4. codes' = t \/ codes' = <<1>>
      BY <3>1 DEF Supported
    <3>5. n \in 1..n /\ 1 \in 1..n
      BY <2>2
    <3> QED BY <3>2, <3>3, <3>4, <3>5
  <2>4. idx' = 1 /\ idx' \in 1..(Len(codes') + 1) /\ idx' \in 1..(MaxNumbers + 1)
    BY <1>1, <2>2, <2>3 DEF FindSequence
  <2>5. change' \in Changes
    BY <1>1 DEF FindSequence, NoChange, Flags, Colors
  <2>6. sequences' \in 0..MaxSequences
    BY <1>1, ColorBoundsAssumption DEF FindSequence, CoTypeInv, CoTypeOK
  <2>7. CoTypeOK'
    BY <1>1, <2>4, <2>6 DEF FindSequence, CoTypeInv, CoTypeOK
  <2> QED BY <1>1, <2>2, <2>3, <2>4, <2>5, <2>7 DEF FindSequence, CoTypeInv
<1>2. CASE DecodeItem
  <2>1. Running /\ idx' = idx + 1 /\ change' = Effect /\ UNCHANGED <<decoding, codes, style, sequences>>
    BY <1>2 DEF DecodeItem
  <2>2. idx' \in 1..(Len(codes) + 1)
    BY <2>1, <1>a DEF Running
  <2>3. acted' \in BOOLEAN
    BY <1>2 DEF DecodeItem, Resets, Acts
  <2>4. change' \in Changes
    BY <2>1, EffectTypes
  <2> QED BY <2>1, <2>2, <2>3, <2>4, <1>a, LoopTypes
<1>3. CASE DecodePalette
  <2>1. Running /\ ~Raises(idx) /\ codes[idx + 1] = 5
    BY <1>3 DEF DecodePalette
  <2>2. idx + 2 <= Len(codes) /\ codes[idx + 2] \in 0..255
    BY <2>1, <1>a DEF Raises
  <2>3. change' \in Changes
    BY <1>3, <2>2, <1>a DEF DecodePalette, Multi, Colors
  <2>4. idx' \in 1..(Len(codes) + 1)
    <3>1. idx' \in {idx + 2, idx + 3} /\ (idx' = idx + 3 => idx + 3 <= Len(codes))
      BY <1>3, <1>a DEF DecodePalette, Multi
    <3> QED BY <3>1, <2>2, <1>a
  <2> QED BY <1>3, <2>3, <2>4, <1>a, LoopTypes DEF DecodePalette, Multi
<1>4. CASE DecodeShortRgb
  <2>1. idx' = Len(codes) /\ Len(codes) >= 1
    BY <1>4, <1>a DEF DecodeShortRgb, Running
  <2>2. idx' \in 1..(Len(codes) + 1)
    BY <2>1, <1>a
  <2> QED BY <1>4, <2>2, <1>a, LoopTypes DEF DecodeShortRgb
<1>5. CASE DecodeNeither
  BY <1>5, <1>a, LoopTypes DEF DecodeNeither, coVars
<1>6. CASE DecodeRaises
  BY <1>6, <1>a, LoopTypes DEF DecodeRaises
<1>7. CASE ApplyStyle
  <2>1. style' \in [bold : {0, 1}, italic : {0, 1}, underline : {0, 1},
                    fg : Colors \ {Unset}, bg : Colors \ {Unset}]
    <3>1. CASE ~acted
      BY <1>7, <3>1 DEF ApplyStyle, CoTypeInv
    <3>2. CASE acted
      <4>1. style' = [k \in DOMAIN style |-> IF change[k] = Unset THEN style[k] ELSE change[k]]
        BY <1>7, <3>2 DEF ApplyStyle
      <4>2. DOMAIN style = {"bold", "italic", "underline", "fg", "bg"}
        BY DEF CoTypeInv
      <4>3. style' = [bold |-> IF change.bold = Unset THEN style.bold ELSE change.bold,
                      italic |-> IF change.italic = Unset THEN style.italic ELSE change.italic,
                      underline |-> IF change.underline = Unset THEN style.underline
                                    ELSE change.underline,
                      fg |-> IF change.fg = Unset THEN style.fg ELSE change.fg,
                      bg |-> IF change.bg = Unset THEN style.bg ELSE change.bg]
        BY <4>1, <4>2
      <4> QED BY <4>3 DEF CoTypeInv, Flags
    <3> QED BY <3>1, <3>2
  <2>2. CoTypeOK'
    <3>1. \A k \in {"bold", "italic", "underline"} : style'[k] \in {0, 1}
      BY <2>1
    <3>2. \A g \in Grounds : style'[g] \in {None} \cup 0..255
      BY <2>1 DEF Grounds, Colors
    <3> QED BY <1>7, <3>1, <3>2 DEF ApplyStyle, CoTypeInv, CoTypeOK
  <2> QED BY <1>7, <2>1, <2>2 DEF ApplyStyle, CoTypeInv
<1>8. CASE NextOutput
  BY <1>8, <1>a, LoopTypes DEF NextOutput
<1>9. CASE UNCHANGED coVars
  BY <1>9, <1>a, LoopTypes DEF coVars
<1> QED BY <1>1, <1>2, <1>3, <1>4, <1>5, <1>6, <1>7, <1>8, <1>9 DEF CoNext, Decode1

(* The loop stays within its sequence, and every style is one the view can *)
(* show: for any numbers and any length of sequences.                      *)
THEOREM CoTypeCorrect == CoSpec => []CoTypeOK
<1>1. CoTypeInv => CoTypeOK
  BY DEF CoTypeInv
<1> QED BY <1>1, CoTypeInit, CoTypeStep, PTL DEF CoSpec
-----------------------------------------------------------------------------
(* What the loop has read of a sequence without extended colours.          *)

\* Place i is the last one up to n with a number of kinds, or 0.
LastUpTo(i, n, kinds) ==
  /\ i \in 0..n /\ (i # 0 => codes[i] \in kinds)
  /\ \A j \in 1..n : j > i => codes[j] \notin kinds

Resetting == {0}
Foregrounds == {7} \cup Fg \cup BrightFg

BoldBetween(i, j) == \E k \in 1..Len(codes) : i < k /\ k < j /\ codes[k] = 1

\* The foreground if the last reset is at r and the last colour at c.
Shown(r, c) ==
  IF c <= r THEN None
  ELSE IF codes[c] = 7 THEN Xterm(0, BoldBetween(r, c))
  ELSE Xterm(codes[c] % 10, BoldBetween(r, c) \/ codes[c] \in BrightFg)

ReadTo(n, r, c) ==
  /\ LastUpTo(r, n, Resetting) /\ LastUpTo(c, n, Foregrounds)
  /\ change.bold = 1 <=> BoldBetween(r, n + 1)
  /\ change.fg # Unset => change.fg = Shown(r, c)

PlainTo(n) == \A i \in 1..n : codes[i] \notin {38, 48}

ReadInv ==
  decoding = "loop" /\ PlainTo(idx - 1) => \E r, c \in Nat : ReadTo(idx - 1, r, c)

\* The sequence ends with 38;5;n, and n is no item.
EndsInPalette ==
  LET k == Len(codes) - 2
  IN  Len(codes) >= 3 /\ codes[k] = 38 /\ codes[k + 1] = 5 /\ PlainTo(k - 1)
      /\ ~Acts(codes[k + 2])

PaletteInv ==
  decoding = "loop" /\ EndsInPalette =>
    \/ idx <= Len(codes) - 2
    \/ idx \in {Len(codes), Len(codes) + 1} /\ change.fg = codes[Len(codes)]

ColorInv == ReadInv /\ PaletteInv /\ PlainDoesNotRaise

(* ColorInv holds at the start.                                            *)
LEMMA ColorInit == CoInit => ColorInv
  BY DEF CoInit, ColorInv, ReadInv, PaletteInv, PlainDoesNotRaise

(* The branches of the loop's chain of ifs exclude each other.             *)
LEMMA EffectIs ==
  ASSUME CoTypeInv, Running
  PROVE  /\ Resets => Effect = Default
         /\ ~Resets /\ Item \notin Foregrounds =>
              /\ Effect.fg = change.fg
              /\ Effect.bold = IF Item = 1 THEN 1 ELSE change.bold
         /\ ~Resets /\ Item \in Foregrounds =>
              /\ Item = 7 => Effect.fg = Xterm(0, Bright)
              /\ Item \in Fg => Effect.fg = Xterm(Item % 10, Bright)
              /\ Item \in BrightFg => Effect.fg = Xterm(Item % 10, TRUE)
              /\ Effect.bold = change.bold
<1>1. Item \in Int
  BY CodesAre DEF Running, Item, CoTypeInv
<1>2. DOMAIN change = {"bold", "italic", "underline", "fg", "bg"}
  BY DEF CoTypeInv
<1>3. Resets => Effect = Default
  <2>1. Resets => Item \in {0, -1}
    BY DEF Resets, Blank
  <2>2. ASSUME Resets
        PROVE  /\ Item \notin {1, 3, 4, 7} /\ Item \notin Fg /\ Item \notin Bg
               /\ Item \notin BrightFg /\ Item \notin BrightBg
    BY <2>1, <2>2 DEF Fg, Bg, BrightFg, BrightBg
  <2> QED BY <2>2 DEF Effect
<1>4. Item \notin Foregrounds /\ ~Resets => Effect.fg = change.fg
  <2>1. /\ [change EXCEPT !.bold = 1].fg = change.fg
        /\ [change EXCEPT !.italic = 1].fg = change.fg
        /\ [change EXCEPT !.underline = 1].fg = change.fg
        /\ [change EXCEPT !.bg = Xterm(Item % 10, Bright)].fg = change.fg
        /\ [change EXCEPT !.bg = Xterm(Item % 10, TRUE)].fg = change.fg
    BY <1>2
  <2> QED BY <2>1 DEF Effect, Foregrounds
<1>5. Item \notin Foregrounds /\ ~Resets =>
        Effect.bold = IF Item = 1 THEN 1 ELSE change.bold
  BY <1>1, <1>2 DEF Effect, Foregrounds, Fg, Bg, BrightFg, BrightBg
<1>6. ~Resets /\ Item = 7 =>
        Effect = [change EXCEPT !.fg = Xterm(0, Bright), !.bg = Xterm(7, Bright)]
  BY <1>1 DEF Effect, Fg, Bg, BrightFg, BrightBg
<1>7. ~Resets /\ Item \in Fg => Effect = [change EXCEPT !.fg = Xterm(Item % 10, Bright)]
  BY <1>1 DEF Effect, Fg, Bg, BrightFg, BrightBg
<1>8. ~Resets /\ Item \in BrightFg => Effect = [change EXCEPT !.fg = Xterm(Item % 10, TRUE)]
  BY <1>1 DEF Effect, Fg, Bg, BrightFg, BrightBg
<1> QED BY <1>2, <1>3, <1>4, <1>5, <1>6, <1>7, <1>8 DEF Foregrounds

(* What an item does to the foreground, the bold flag and what was read.   *)
LEMMA ItemRead ==
  ASSUME CoTypeInv, Running, Item \notin {38, 48}, change' = Effect, codes' = codes,
         NEW p \in Nat, p = idx, NEW r \in Nat, NEW c \in Nat, ReadTo(p - 1, r, c)
  PROVE  \E s, d \in Nat : ReadTo(p, s, d)'
<1> DEFINE n == p - 1
           m == Len(codes)
<1>1. /\ m \in Nat /\ p \in 1..m /\ n \in Nat /\ p = n + 1 /\ n < m
      /\ \A i \in 1..m : codes[i] \in Int
      /\ codes[p] \in Int /\ Item = codes[p]
  BY CodesAre DEF Running, Item, CoTypeInv
<1>2. /\ r \in 0..n /\ (r # 0 => codes[r] = 0) /\ \A j \in 1..n : j > r => codes[j] # 0
      /\ c \in 0..n /\ (c # 0 => codes[c] \in Foregrounds)
      /\ \A j \in 1..n : j > c => codes[j] \notin Foregrounds
      /\ change.bold = 1 <=> BoldBetween(r, n + 1)
      /\ change.fg # Unset => change.fg = Shown(r, c)
  BY DEF ReadTo, LastUpTo, Resetting
<1>3. /\ change \in [bold : Flags, italic : Flags, underline : Flags, fg : Colors, bg : Colors]
      /\ \A i, j : BoldBetween(i, j)' <=> BoldBetween(i, j)
      /\ \A i, j : Shown(i, j)' = Shown(i, j)
  BY DEF CoTypeInv, BoldBetween, Shown
\* What is read, if s is the last reset and d the last colour.
<1>4. ASSUME NEW s \in Nat, NEW d \in Nat,
             s \in 0..p, s # 0 => codes[s] = 0, \A j \in 1..p : j > s => codes[j] # 0,
             d \in 0..p, d # 0 => codes[d] \in Foregrounds,
             \A j \in 1..p : j > d => codes[j] \notin Foregrounds,
             change'.bold = 1 <=> BoldBetween(s, p + 1),
             change'.fg # Unset => change'.fg = Shown(s, d)
      PROVE  \E t, e \in Nat : ReadTo(p, t, e)'
  <2>1. LastUpTo(s, p, Resetting)' /\ LastUpTo(d, p, Foregrounds)'
    BY <1>4 DEF LastUpTo, Resetting
  <2>2. ReadTo(p, s, d)'
    BY <2>1, <1>3, <1>4 DEF ReadTo
  <2> QED BY <2>2
<1>5. BoldBetween(r, p + 1) <=> BoldBetween(r, n + 1) \/ codes[p] = 1
  BY <1>1, <1>2 DEF BoldBetween
<1> HIDE DEF n, m
<1>6. CASE Resets
  <2>1. change' = Default
    BY <1>6, EffectIs
  <2>2. change'.bold = 0 /\ change'.fg = None
    BY <2>1 DEF Default
  <2>3. CASE Item = 0
    <3>1. ~BoldBetween(p, p + 1)
      BY <1>1 DEF BoldBetween
    <3>2. Shown(p, c) = None
      BY <1>1, <1>2 DEF Shown
    <3>3. 0 \notin Foregrounds
      BY DEF Foregrounds, Fg, BrightFg
    <3>4. /\ p \in Nat /\ p \in 0..p /\ codes[p] = 0 /\ c \in 0..p
          /\ \A j \in 1..p : j > p => codes[j] # 0
      BY <1>1, <1>2, <2>3
    <3>5. \A j \in 1..p : j > c => codes[j] \notin Foregrounds
      <4> SUFFICES ASSUME NEW j \in 1..p, j > c PROVE codes[j] \notin Foregrounds
        OBVIOUS
      <4>1. CASE j = p
        BY <4>1, <1>1, <2>3, <3>3
      <4>2. CASE j # p
        BY <4>2, <1>1, <1>2
      <4> QED BY <4>1, <4>2
    <3> QED BY <1>2, <1>4, <2>2, <3>1, <3>2, <3>4, <3>5
  <2>4. CASE Item # 0
    <3>1. m = 1 /\ codes[p] = Blank
      BY <1>1, <1>6, <2>4 DEF Resets, m
    <3>2. p = 1 /\ n = 0 /\ r = 0 /\ c = 0
      BY <1>1, <1>2, <3>1
    <3>3. codes[1] = -1 /\ codes[1] \notin Foregrounds
      BY <3>1, <3>2 DEF Blank, Foregrounds, Fg, BrightFg
    <3>4. ~BoldBetween(0, 2)
      BY <3>1, <3>3 DEF BoldBetween, m
    <3>5. Shown(0, 0) = None
      BY DEF Shown
    <3>6. /\ \A j \in 1..1 : j > 0 => codes[j] # 0
          /\ \A j \in 1..1 : j > 0 => codes[j] \notin Foregrounds
      BY <3>3
    <3> QED BY <1>4, <2>2, <3>2, <3>4, <3>5, <3>6
  <2> QED BY <2>3, <2>4
<1>7. CASE ~Resets /\ Item \notin Foregrounds
  <2>1. codes[p] # 0 /\ codes[p] \notin Foregrounds
    BY <1>1, <1>7 DEF Resets
  <2>2. change'.fg = change.fg
    BY <1>1, <1>3, <1>7, EffectIs
  <2>3. change'.bold = 1 <=> change.bold = 1 \/ codes[p] = 1
    BY <1>1, <1>3, <1>7, EffectIs
  <2>4. /\ r \in 0..p /\ c \in 0..p /\ \A j \in 1..p : j > r => codes[j] # 0
        /\ \A j \in 1..p : j > c => codes[j] \notin Foregrounds
    BY <1>1, <1>2, <2>1
  <2> QED BY <1>2, <1>4, <1>5, <2>2, <2>3, <2>4
<1>8. CASE ~Resets /\ Item \in Foregrounds
  <2>1. codes[p] # 0 /\ codes[p] # 1 /\ codes[p] \in Foregrounds
    BY <1>1, <1>8 DEF Foregrounds, Fg, BrightFg
  <2>2. Bright <=> BoldBetween(r, p)
    BY <1>1, <1>2 DEF Bright
  <2>3. Shown(r, p) = IF codes[p] = 7 THEN Xterm(0, BoldBetween(r, p))
                        ELSE Xterm(codes[p] % 10, BoldBetween(r, p) \/ codes[p] \in BrightFg)
    BY <1>1, <1>2 DEF Shown
  <2>4. change'.fg = Shown(r, p)
    <3>1. CASE Item = 7
      <4>1. change'.fg = Xterm(0, Bright)
        BY <1>8, <3>1, EffectIs
      <4>2. Xterm(0, Bright) = Xterm(0, BoldBetween(r, p))
        BY <2>2 DEF Xterm
      <4> QED BY <1>1, <2>3, <3>1, <4>1, <4>2
    <3>2. CASE Item \in Fg
      <4>1. change'.fg = Xterm(Item % 10, Bright)
        BY <1>8, <3>2, EffectIs
      <4>2. codes[p] # 7 /\ codes[p] \notin BrightFg
        BY <1>1, <3>2 DEF Fg, BrightFg
      <4> QED BY <1>1, <2>2, <2>3, <4>1, <4>2 DEF Xterm
    <3>3. CASE Item \in BrightFg
      <4>1. change'.fg = Xterm(Item % 10, TRUE)
        BY <1>8, <3>3, EffectIs
      <4>2. codes[p] # 7 /\ codes[p] \in BrightFg
        BY <1>1, <3>3 DEF BrightFg
      <4> QED BY <1>1, <2>3, <4>1, <4>2 DEF Xterm
    <3> QED BY <1>8, <3>1, <3>2, <3>3 DEF Foregrounds
  <2>5. change'.bold = change.bold
    BY <1>8, EffectIs
  <2>6. /\ r \in 0..p /\ p \in 0..p /\ p \in Nat
        /\ \A j \in 1..p : j > r => codes[j] # 0
        /\ \A j \in 1..p : j > p => codes[j] \notin Foregrounds
    BY <1>1, <1>2, <2>1
  <2> QED BY <1>2, <1>4, <1>5, <2>1, <2>4, <2>5, <2>6
<1> QED BY <1>6, <1>7, <1>8

(* The last place of a set, as the property finds it.                      *)
LEMMA LastPlaceIs ==
  ASSUME CoTypeInv, NEW kinds, NEW i \in Nat, LastUpTo(i, Len(codes), kinds)
  PROVE  LastPlace(codes, {j \in 1..Len(codes) : codes[j] \in kinds}) = i
<1> DEFINE n == Len(codes)
           S == {j \in 1..n : codes[j] \in kinds}
<1>1. n \in Nat /\ i \in 0..n /\ (i # 0 => codes[i] \in kinds) /\ \A j \in 1..n : j > i => j \notin S
  BY CodesAre DEF LastUpTo
<1>2. CASE i = 0
  <2>1. ~\E j \in 1..n : j \in S
    BY <1>1, <1>2
  <2> QED BY <1>2, <2>1 DEF LastPlace
<1>3. CASE i # 0
  <2>1. i \in 1..n /\ i \in S /\ \A j \in (i + 1)..n : j \notin S
    BY <1>1, <1>3
  <2>2. \A k \in 1..n : k \in S /\ (\A j \in (k + 1)..n : j \notin S) => k = i
    BY <1>1, <2>1
  <2> HIDE DEF S
  <2>3. LastPlace(codes, S) = CHOOSE k \in 1..n : k \in S /\ \A j \in (k + 1)..n : j \notin S
    BY <2>1 DEF LastPlace
  <2>4. LastPlace(codes, S) = i
    BY <2>1, <2>2, <2>3
  <2> QED BY <2>4 DEF S
<1> QED BY <1>2, <1>3

(* Every step keeps ReadInv.                                               *)
LEMMA ReadStep == CoTypeInv /\ ReadInv /\ [CoNext]_coVars => ReadInv'
<1> SUFFICES ASSUME CoTypeInv, ReadInv, [CoNext]_coVars, decoding' = "loop", PlainTo(idx - 1)'
             PROVE  \E r, c \in Nat : ReadTo(idx - 1, r, c)'
  BY DEF ReadInv
<1>1. Len(codes) \in Nat /\ idx \in Nat /\ idx \in 1..(Len(codes) + 1)
  BY CodesAre DEF CoTypeInv
<1>2. CASE FindSequence
  <2>1. idx' = 1 /\ change' = NoChange
    BY <1>2 DEF FindSequence
  <2>2. change'.bold # 1 /\ change'.fg = Unset
    BY <2>1 DEF NoChange, Unset
  <2>3. ~BoldBetween(0, 1)'
    BY DEF BoldBetween
  <2>4. idx' - 1 = 0
    BY <2>1
  <2>5. \A kinds : LastUpTo(0, 0, kinds)'
    BY DEF LastUpTo
  <2>6. ReadTo(0, 0, 0)'
    BY <2>2, <2>3, <2>5 DEF ReadTo
  <2>7. ReadTo(idx - 1, 0, 0)'
    BY <2>4, <2>6 DEF ReadTo
  <2> QED BY <2>7
<1>3. CASE DecodeItem
  <2>1. /\ Running /\ Item \notin {38, 48} /\ change' = Effect /\ codes' = codes
        /\ idx' = idx + 1 /\ decoding = "loop"
    BY <1>3 DEF DecodeItem, Running
  <2>2. PlainTo(idx - 1)
    <3>1. \A i \in 1..idx : codes[i] \notin {38, 48}
      BY <1>1, <2>1 DEF PlainTo
    <3> QED BY <1>1, <3>1 DEF PlainTo
  <2>3. PICK r \in Nat, c \in Nat : ReadTo(idx - 1, r, c)
    BY <2>1, <2>2 DEF ReadInv
  <2>4. \A p \in Nat : p = idx => \E s, d \in Nat : ReadTo(p, s, d)'
    BY <2>1, <2>3, ItemRead
  <2>5. \A p \in Nat : p = idx => p = idx' - 1
    BY <1>1, <2>1
  <2>6. ASSUME NEW p \in Nat, p = idx PROVE \E s, d \in Nat : ReadTo(idx - 1, s, d)'
    <3>1. PICK s \in Nat, d \in Nat : ReadTo(p, s, d)'
      BY <2>4, <2>6
    <3>2. p = idx' - 1
      BY <2>5, <2>6
    <3>3. ReadTo(idx - 1, s, d)'
      BY <3>1, <3>2 DEF ReadTo
    <3> QED BY <3>3
  <2> QED BY <1>1, <2>6
\* An extended colour is in what was read.
<1>4. CASE DecodePalette \/ DecodeShortRgb
  <2>1. Item \in {38, 48} /\ codes' = codes /\ ~Raises(idx) /\ Running
    BY <1>4 DEF DecodePalette, DecodeShortRgb, Multi
  <2>2. idx + 1 <= Len(codes)
    BY <2>1, <1>1 DEF Raises
  <2>3. idx' \in {idx + 2, idx + 3, Len(codes)}
    BY <1>4, <1>1 DEF DecodePalette, DecodeShortRgb, Multi
  <2>a. ASSUME idx' = Len(codes) PROVE idx \in 1..(idx' - 1)
    BY <1>1, <2>2, <2>a
  <2>b. ASSUME idx' # Len(codes) PROVE idx \in 1..(idx' - 1)
    <3>1. idx \in Nat /\ idx >= 1
      BY <1>1
    <3>2. idx' = idx + 2 \/ idx' = idx + 3
      BY <2>3, <2>b
    <3> QED BY <3>1, <3>2
  <2>4. idx \in 1..(idx' - 1)
    BY <2>a, <2>b
  <2> QED BY <2>1, <2>4 DEF PlainTo, Item
<1>5. CASE DecodeNeither \/ UNCHANGED coVars
  <2>1. UNCHANGED <<decoding, codes, idx, change>>
    BY <1>5 DEF DecodeNeither, coVars
  <2>2. PlainTo(idx - 1) /\ decoding = "loop"
    BY <2>1 DEF PlainTo
  <2>3. PICK r \in Nat, c \in Nat : ReadTo(idx - 1, r, c)
    BY <2>2 DEF ReadInv
  <2>4. ReadTo(idx - 1, r, c)'
    BY <2>1, <2>3 DEF ReadTo, LastUpTo, BoldBetween, Shown
  <2> QED BY <2>4
<1>6. CASE DecodeRaises \/ ApplyStyle \/ NextOutput
  BY <1>6 DEF DecodeRaises, ApplyStyle, NextOutput
<1> QED BY <1>2, <1>3, <1>4, <1>5, <1>6 DEF CoNext, Decode1

(* Every step keeps PaletteInv.                                            *)
LEMMA PaletteStep == CoTypeInv /\ PaletteInv /\ [CoNext]_coVars => PaletteInv'
<1> SUFFICES ASSUME CoTypeInv, PaletteInv, [CoNext]_coVars, decoding' = "loop", EndsInPalette'
             PROVE  \/ idx' <= Len(codes') - 2
                    \/ /\ idx' \in {Len(codes'), Len(codes') + 1}
                       /\ change'.fg = codes'[Len(codes')]
  BY DEF PaletteInv
<1> DEFINE k == Len(codes) - 2
<1>1. /\ Len(codes) \in Nat /\ idx \in Nat /\ idx \in 1..(Len(codes) + 1)
      /\ \A i \in 1..Len(codes) : codes[i] \in Int
      /\ change \in [bold : Flags, italic : Flags, underline : Flags, fg : Colors, bg : Colors]
  BY CodesAre DEF CoTypeInv
<1>2. CASE FindSequence
  <2>1. idx' = 1 /\ Len(codes') >= 3
    BY <1>2 DEF FindSequence, EndsInPalette
  <2>2. Len(codes') \in Nat
    BY CoTypeStep, CodesAre, LenProperties DEF CoTypeInv
  <2> QED BY <2>1, <2>2
<1>3. ASSUME UNCHANGED codes, decoding = "loop"
      PROVE  /\ EndsInPalette
             /\ Len(codes) >= 3 /\ codes[k] = 38 /\ codes[k + 1] = 5 /\ PlainTo(k - 1)
             /\ ~Acts(codes[k + 2]) /\ k + 2 = Len(codes) /\ k \in Nat
             /\ \/ idx <= k
                \/ idx \in {Len(codes), Len(codes) + 1} /\ change.fg = codes[Len(codes)]
  <2>1. EndsInPalette
    BY <1>3 DEF EndsInPalette, PlainTo
  <2> QED BY <1>1, <1>3, <2>1 DEF EndsInPalette, PaletteInv
<1>4. CASE DecodeItem
  <2>1. /\ Running /\ Item \notin {38, 48} /\ change' = Effect /\ codes' = codes
        /\ idx' = idx + 1 /\ decoding = "loop"
    BY <1>4 DEF DecodeItem, Running
  <2>2. /\ Len(codes) >= 3 /\ codes[k] = 38 /\ ~Acts(codes[k + 2]) /\ k + 2 = Len(codes)
        /\ k \in Nat
        /\ \/ idx <= k
           \/ idx \in {Len(codes), Len(codes) + 1} /\ change.fg = codes[Len(codes)]
    BY <1>3, <2>1
  <2>3. CASE idx <= k
    <3>1. idx # k
      BY <2>1, <2>2 DEF Item
    <3>2. idx + 1 <= k
      <4>1. idx \in Nat /\ k \in Nat
        BY <1>1, <2>2
      <4> HIDE DEF k
      <4> QED BY <2>3, <3>1, <4>1
    <3> QED BY <2>1, <3>2
  <2>4. CASE idx = Len(codes) /\ change.fg = codes[Len(codes)]
    <3>1. Item = codes[k + 2] /\ ~Acts(Item)
      BY <2>2, <2>4 DEF Item
    <3>2. Item # 0 /\ Item \notin Foregrounds
      BY <3>1 DEF Acts, Foregrounds
    <3>3. ~Resets
      BY <2>2, <3>2 DEF Resets
    <3>4. change'.fg = change.fg
      BY <2>1, <3>2, <3>3, EffectIs
    <3> QED BY <2>1, <2>4, <3>4
  <2>5. idx # Len(codes) + 1
    BY <1>1, <2>1 DEF Running
  <2> QED BY <2>2, <2>3, <2>4, <2>5
<1>5. CASE DecodePalette \/ DecodeShortRgb
  <2>1. /\ Item \in {38, 48} /\ codes' = codes /\ ~Raises(idx) /\ Running /\ decoding = "loop"
    BY <1>5 DEF DecodePalette, DecodeShortRgb, Multi, Running
  <2>2. idx + 1 <= Len(codes)
    BY <2>1, <1>1 DEF Raises
  <2>3. /\ codes[k] = 38 /\ codes[k + 1] = 5 /\ PlainTo(k - 1) /\ k + 2 = Len(codes)
        /\ k \in Nat /\ idx <= k
    BY <1>1, <1>3, <2>1, <2>2
  <2>4. idx = k
    <3> SUFFICES ASSUME idx # k PROVE FALSE
      OBVIOUS
    <3>1. idx \in 1..(k - 1)
      <4>1. idx \in Nat /\ idx >= 1
        BY <1>1
      <4>2. k \in Nat /\ idx <= k
        BY <2>3
      <4> HIDE DEF k
      <4> QED BY <4>1, <4>2
    <3> QED BY <2>1, <2>3, <3>1 DEF PlainTo, Item
  <2>5. DecodePalette
    BY <1>5, <2>3, <2>4 DEF DecodeShortRgb
  <2>6. /\ Item = 38 /\ change' = [change EXCEPT !.fg = codes[idx + 2]]
    BY <2>3, <2>4, <2>5 DEF DecodePalette, Multi, Item
  <2>7. change'.fg = codes[Len(codes)]
    BY <1>1, <2>3, <2>4, <2>6
  <2>8. idx' = idx + 2
    <3>1. ~(idx + 3 <= Len(codes))
      BY <1>1, <2>3, <2>4
    <3>2. idx' = IF idx + 3 <= Len(codes) /\ codes[idx + 3] = 0 THEN idx + 3 ELSE idx + 2
      BY <2>5 DEF DecodePalette, Multi
    <3> QED BY <3>1, <3>2
  <2> QED BY <2>1, <2>3, <2>4, <2>7, <2>8
<1>6. CASE DecodeNeither \/ UNCHANGED coVars
  <2>1. UNCHANGED <<decoding, codes, idx, change>>
    BY <1>6 DEF DecodeNeither, coVars
  <2> QED BY <1>3, <2>1
<1>7. CASE DecodeRaises \/ ApplyStyle \/ NextOutput
  BY <1>7 DEF DecodeRaises, ApplyStyle, NextOutput
<1> QED BY <1>2, <1>4, <1>5, <1>6, <1>7 DEF CoNext, Decode1

(* Only 38 and 48 raise.                                                   *)
LEMMA RaisesStep == CoTypeInv /\ PlainDoesNotRaise /\ [CoNext]_coVars => PlainDoesNotRaise'
<1> SUFFICES ASSUME CoTypeInv, PlainDoesNotRaise, [CoNext]_coVars, decoding' = "raised"
             PROVE  ~Plain(codes')
  BY DEF PlainDoesNotRaise
<1>1. CASE DecodeRaises
  <2>1. idx \in 1..Len(codes) /\ codes[idx] \in {38, 48} /\ codes' = codes
    BY <1>1, CodesAre DEF DecodeRaises, Running, Item, CoTypeInv
  <2> QED BY <2>1 DEF Plain
<1>2. CASE UNCHANGED coVars
  BY <1>2 DEF coVars, PlainDoesNotRaise, Plain
<1>3. CASE FindSequence \/ ApplyStyle \/ NextOutput
  BY <1>3 DEF FindSequence, ApplyStyle, NextOutput
<1>4. CASE DecodeItem \/ DecodePalette \/ DecodeShortRgb \/ DecodeNeither
  BY <1>4 DEF DecodeItem, DecodePalette, DecodeShortRgb, DecodeNeither, Multi, Running, coVars
<1> QED BY <1>1, <1>2, <1>3, <1>4 DEF CoNext, Decode1

(* At the end of the loop, what was read is what the properties ask for.   *)
LEMMA ColorsRead == CoTypeInv /\ ColorInv => ColorsAreRead
<1> SUFFICES ASSUME CoTypeInv, ColorInv PROVE ColorsAreRead
  OBVIOUS
<1>1. /\ Len(codes) \in Nat /\ idx \in Nat /\ idx \in 1..(Len(codes) + 1)
      /\ \A i \in 1..Len(codes) : codes[i] \in Int
  BY CodesAre DEF CoTypeInv
<1>2. ASSUME decoding = "loop", idx > Len(codes), Plain(codes), change.fg # Unset
      PROVE  change.fg = Foreground(codes)
  <2>1. idx - 1 = Len(codes) /\ PlainTo(Len(codes))
    BY <1>1, <1>2 DEF Plain, PlainTo
  <2>2. PICK r \in Nat, c \in Nat : ReadTo(idx - 1, r, c)
    BY <1>2, <2>1 DEF ColorInv, ReadInv
  <2>3. /\ LastUpTo(r, Len(codes), Resetting) /\ LastUpTo(c, Len(codes), Foregrounds)
        /\ change.fg = Shown(r, c)
    BY <1>2, <2>1, <2>2 DEF ReadTo
  <2>5. LastPlace(codes, {j \in 1..Len(codes) : codes[j] \in Resetting}) = r
    BY <2>3, LastPlaceIs
  <2>6. LastPlace(codes, {j \in 1..Len(codes) : codes[j] \in Foregrounds}) = c
    BY <2>3, LastPlaceIs
  <2>7. LastPlace(codes, {j \in 1..Len(codes) : codes[j] = 0}) = r
    BY <2>5 DEF Resetting
  <2>8. LastPlace(codes, {j \in 1..Len(codes) :
                            codes[j] \in {7} \cup Fg \cup BrightFg}) = c
    BY <2>6 DEF Foregrounds
  <2>9. (\E i \in (r + 1)..(c - 1) : codes[i] = 1) <=> BoldBetween(r, c)
    <3>1. r \in 0..Len(codes) /\ c \in 0..Len(codes)
      BY <2>3 DEF LastUpTo
    <3> QED BY <1>1, <3>1 DEF BoldBetween
  <2> QED BY <2>3, <2>7, <2>8, <2>9 DEF Foreground, Shown, Xterm
<1>3. LastColorDecides
  BY <1>2 DEF LastColorDecides
<1>4. PaletteStays
  <2> DEFINE k == Len(codes) - 2
  <2> SUFFICES ASSUME decoding = "loop", idx > Len(codes), Len(codes) >= 3,
                      codes[k] = 38, codes[k + 1] = 5, Plain(SubSeq(codes, 1, k - 1)),
                      ~Acts(codes[k + 2])
               PROVE  change.fg = codes[k + 2]
    BY DEF PaletteStays
  <2>1. k - 1 \in 0..Len(codes) /\ k + 2 = Len(codes)
    BY <1>1
  <2>2. /\ Len(SubSeq(codes, 1, k - 1)) = k - 1
        /\ \A i \in 1..(k - 1) : SubSeq(codes, 1, k - 1)[i] = codes[i]
    BY <1>1, <2>1 DEF CoTypeInv
  <2>3. PlainTo(k - 1)
    BY <2>2 DEF Plain, PlainTo
  <2>4. EndsInPalette
    BY <2>3 DEF EndsInPalette
  <2>5. ~(idx <= k)
    BY <1>1
  <2>6. change.fg = codes[Len(codes)]
    BY <2>4, <2>5 DEF ColorInv, PaletteInv
  <2> QED BY <2>1, <2>6
<1> QED BY <1>3, <1>4 DEF ColorsAreRead, ColorInv

(* For every sequence of numbers, of any length: in one without extended    *)
(* colours the last colour behind the last reset decides, as _decode        *)
(* understands colours and resets, a colour of the palette at its end stays *)
(* unless its number is an item, and nothing but an extended colour raises. *)
THEOREM ColorsAlwaysRead == CoSpec => []ColorsAreRead
<1>1. CoInit => CoTypeInv /\ ColorInv
  BY CoTypeInit, ColorInit
<1>2. CoTypeInv /\ ColorInv /\ [CoNext]_coVars => (CoTypeInv /\ ColorInv)'
  BY CoTypeStep, ReadStep, PaletteStep, RaisesStep DEF ColorInv
<1>3. CoTypeInv /\ ColorInv => ColorsAreRead
  BY ColorsRead
<1> QED BY <1>1, <1>2, <1>3, PTL DEF CoSpec
-----------------------------------------------------------------------------
(* The loop of _decode comes to its end, or stays where it is for ever.    *)

\* Numbers left to look at, with the step that applies the style.
CoLeft == IF decoding = "loop" THEN Len(codes) + 2 - idx ELSE 0

\* Every step that changes anything brings the loop nearer to its end.
CoRunsOut ==
  /\ Decode1 => CoLeft' < CoLeft
  /\ NextOutput => CoLeft' = CoLeft

\* An extended colour of neither kind: _decode_multi returns idx as it was.
CoStuck ==
  Running /\ Item \in {38, 48} /\ ~Raises(idx) /\ codes[idx + 1] \notin {2, 5}

(* The loop has at least the applying of the style before it.              *)
LEMMA CoLeftTypes ==
  ASSUME CoTypeInv
  PROVE  /\ CoLeft \in Nat /\ Len(codes) \in Nat /\ idx \in Nat /\ idx <= Len(codes) + 1
         /\ decoding = "loop" => CoLeft = Len(codes) + 2 - idx /\ CoLeft > 0
<1>1. Len(codes) \in Nat /\ idx \in Nat
  BY CodesAre
<1>2. idx <= Len(codes) + 1
  BY <1>1 DEF CoTypeInv
<1>3. decoding = "loop" => CoLeft = Len(codes) + 2 - idx
  BY DEF CoLeft
<1>4. decoding # "loop" => CoLeft = 0
  BY DEF CoLeft
<1> QED BY <1>1, <1>2, <1>3, <1>4

(* An item that does not raise has its kind behind it.                     *)
LEMMA KindIsThere ==
  ASSUME CoTypeInv, Running, ~Raises(idx)
  PROVE  idx + 1 <= Len(codes) /\ (codes[idx + 1] = 5 => idx + 2 <= Len(codes))
  BY CodesAre DEF Raises

(* Every step of the loop that changes anything brings it nearer to its     *)
(* end.                                                                     *)
LEMMA CoLeftStep ==
  ASSUME CoTypeInv, CoNext, coVars' # coVars
  PROVE  CoRunsOut /\ ~CoStuck
<1> DEFINE n == Len(codes)
<1>1. n \in Nat /\ idx \in Nat /\ idx <= n + 1 /\ CoLeft \in Nat
      /\ (decoding = "loop" => CoLeft = n + 2 - idx /\ CoLeft > 0)
  BY CoLeftTypes
<1>2. ASSUME DecodeItem PROVE CoLeft' < CoLeft
  <2>1. decoding = "loop" /\ decoding' = "loop" /\ codes' = codes /\ idx' = idx + 1
    BY <1>2 DEF DecodeItem, Running
  <2>2. CoLeft' = n + 2 - (idx + 1)
    BY <2>1 DEF CoLeft
  <2> QED BY <1>1, <2>1, <2>2
<1>3. ASSUME DecodePalette PROVE CoLeft' < CoLeft
  <2>1. decoding = "loop" /\ decoding' = "loop" /\ codes' = codes
        /\ (idx' = idx + 2 \/ idx' = idx + 3)
    BY <1>3 DEF DecodePalette, Multi, Running
  <2>2. CoLeft' = n + 2 - (idx + 2) \/ CoLeft' = n + 2 - (idx + 3)
    BY <2>1 DEF CoLeft
  <2>3. CoLeft = n + 2 - idx
    BY <1>1, <2>1
  <2> HIDE DEF n
  <2> QED BY <1>1, <2>2, <2>3
<1>4. ASSUME DecodeShortRgb PROVE CoLeft' < CoLeft
  <2>1. decoding = "loop" /\ decoding' = "loop" /\ codes' = codes /\ idx' = n
    BY <1>4 DEF DecodeShortRgb, Running
  <2>2. idx + 1 <= n
    BY <1>4, KindIsThere DEF DecodeShortRgb
  <2>3. CoLeft' = n + 2 - n
    BY <2>1 DEF CoLeft
  <2>4. CoLeft = n + 2 - idx
    BY <1>1, <2>1
  <2> HIDE DEF n
  <2> QED BY <1>1, <2>2, <2>3, <2>4
<1>5. ASSUME DecodeNeither PROVE FALSE
  BY <1>5 DEF DecodeNeither
<1>6. ASSUME DecodeRaises \/ ApplyStyle PROVE CoLeft' < CoLeft
  <2>1. decoding = "loop" /\ decoding' # "loop"
    BY <1>6 DEF DecodeRaises, ApplyStyle, Running
  <2>2. CoLeft' = 0
    BY <2>1 DEF CoLeft
  <2> QED BY <1>1, <2>1, <2>2
<1>7. ASSUME NextOutput PROVE CoLeft' = CoLeft
  <2>1. decoding # "loop" /\ decoding' # "loop"
    BY <1>7 DEF NextOutput
  <2> QED BY <2>1 DEF CoLeft
<1>8. CoRunsOut
  BY <1>2, <1>3, <1>4, <1>5, <1>6, <1>7 DEF CoRunsOut, Decode1
<1>9. ASSUME CoStuck PROVE FALSE
  <2>1. decoding = "loop" /\ idx <= n
    BY <1>9 DEF CoStuck, Running
  <2>2. Item \in {38, 48} /\ ~Raises(idx) /\ codes[idx + 1] \notin {2, 5}
    BY <1>9 DEF CoStuck
  <2>3. ~FindSequence /\ ~NextOutput
    BY <2>1 DEF FindSequence, NextOutput
  <2>4. ~DecodeItem /\ ~DecodePalette /\ ~DecodeShortRgb /\ ~DecodeRaises
    BY <2>2 DEF DecodeItem, DecodePalette, DecodeShortRgb, DecodeRaises
  <2>5. ~ApplyStyle
    BY <1>1, <2>1 DEF ApplyStyle
  <2> QED BY <1>5, <2>3, <2>4, <2>5 DEF CoNext, Decode1
<1> QED BY <1>8, <1>9

(* The loop over the numbers of a sequence ends after at most as many turns *)
(* as there are numbers, and one -- or it stands at a 38 or 48 that neither *)
(* 2 nor 5 follows, and then no step of anything leads out of it: the       *)
(* update thread is lost.                                                   *)
THEOREM ColorLoopRuns ==
  CoSpec => [](CoLeft \in Nat) /\ [][CoRunsOut /\ ~CoStuck]_coVars
<1>1. CoTypeInv => CoLeft \in Nat
  BY CoLeftTypes
<1>2. CoTypeInv /\ [CoNext]_coVars => [CoRunsOut /\ ~CoStuck]_coVars
  BY CoLeftStep
<1> QED BY <1>1, <1>2, CoTypeInit, CoTypeStep, PTL DEF CoSpec
-----------------------------------------------------------------------------
(* Screens, for the control sequences that draw on them.                   *)

Cell == Chars \cup {Blanks, NL} \cup Inputs
Screens == [text : Seq(Cell), end : Int, cur : Nat, strayed : BOOLEAN]

\* A line ends there, of the output or of the input.
Ends(c) == c \in {NL, InputNL}

\* _output_end is where the output ends.
Good(s) ==
  /\ s \in Screens /\ ~s.strayed /\ s.end \in 0..Len(s.text)
  /\ \A k \in 1..Len(s.text) : s.text[k] \in Inputs <=> k > s.end

\* Or it has strayed.
Kept(s) == s \in Screens /\ (~s.strayed => Good(s))

\* By insertions only.
Sound(s) == Kept(s) /\ s.end \in Nat

\* The input has no newline.
OneLineInput(s) == \A k \in 1..Len(s.text) : s.text[k] # InputNL
Simple(s) == Good(s) /\ OneLineInput(s)

\* And the cursor is in the output, or right behind it.
Placed(s) == Simple(s) /\ s.cur <= s.end

(* What a screen consists of.                                              *)
LEMMA ScreenIs ==
  ASSUME NEW s \in Screens
  PROVE  /\ s.text \in Seq(Cell) /\ Len(s.text) \in Nat /\ s.end \in Int /\ s.cur \in Nat
         /\ s.strayed \in BOOLEAN /\ CellsOf(s) = 1..Len(s.text)
         /\ NewlineAt(s) = {k \in 1..Len(s.text) : Ends(s.text[k])}
         /\ OutputLines(s) = {k \in 1..Len(s.text) : s.text[k] = NL}
<1>1. s.text \in Seq(Cell) /\ s.end \in Int /\ s.cur \in Nat /\ s.strayed \in BOOLEAN
  BY DEF Screens
<1>2. Len(s.text) \in Nat /\ DOMAIN s.text = 1..Len(s.text)
  BY <1>1, LenProperties
<1> QED BY <1>1, <1>2 DEF CellsOf, NewlineAt, OutputLines, Ends

(* Another cursor.                                                         *)
LEMMA CursorMoved ==
  ASSUME NEW s \in Screens, NEW c \in Nat
  PROVE  LET t == [s EXCEPT !.cur = c]
         IN  /\ t \in Screens /\ t.text = s.text /\ t.end = s.end /\ t.cur = c
             /\ t.strayed = s.strayed
             /\ (Good(s) => Good(t)) /\ (Simple(s) => Simple(t))
             /\ (Kept(s) => Kept(t)) /\ (Sound(s) => Sound(t))
<1> DEFINE t == [s EXCEPT !.cur = c]
<1>1. t \in Screens /\ t.text = s.text /\ t.end = s.end /\ t.cur = c /\ t.strayed = s.strayed
  BY DEF Screens
<1> HIDE DEF t
<1>2. Good(s) => Good(t)
  BY <1>1 DEF Good
<1>3. (Simple(s) => Simple(t)) /\ (Kept(s) => Kept(t)) /\ (Sound(s) => Sound(t))
  BY <1>1, <1>2 DEF Simple, OneLineInput, Kept, Sound
<1> QED BY <1>1, <1>2, <1>3 DEF t

(* A screen that is Good is Sound, and what it consists of.                *)
LEMMA GoodIs ==
  ASSUME NEW s, Good(s)
  PROVE  /\ Sound(s) /\ Kept(s) /\ s \in Screens /\ ~s.strayed
         /\ s.cur \in Nat /\ s.end \in Nat /\ s.end <= Len(s.text) /\ Len(s.text) \in Nat
<1>1. s \in Screens /\ ~s.strayed /\ s.end \in 0..Len(s.text)
  BY DEF Good
<1>2. s.cur \in Nat /\ Len(s.text) \in Nat
  BY <1>1, ScreenIs
<1>3. s.end \in Nat /\ s.end <= Len(s.text)
  BY <1>1, <1>2
<1> QED BY <1>1, <1>2, <1>3 DEF Sound, Kept

(* Places have a last one, and a first one.                                *)
LEMMA LastOf ==
  ASSUME NEW n \in Nat, NEW S \in SUBSET (1..n), S # {}
  PROVE  \E k \in S : \A j \in S : j <= k
<1> DEFINE T == {m \in Nat : n - m \in S}
<1>1. T \in SUBSET Nat /\ T # {}
  <2>1. PICK k \in S : TRUE
    OBVIOUS
  <2>2. n - k \in Nat /\ n - (n - k) = k
    BY <2>1
  <2> QED BY <2>1, <2>2
<1>2. PICK m \in T : \A k \in T : m <= k
  <2> HIDE DEF T
  <2> QED BY <1>1, LeastNumber
<1>3. ASSUME NEW j \in S PROVE j <= n - m
  <2>1. n - j \in Nat /\ n - (n - j) = j
    OBVIOUS
  <2>2. n - j \in T
    BY <2>1
  <2>3. m <= n - j /\ m \in Nat
    BY <1>2, <2>2
  <2> QED BY <2>1, <2>3
<1> QED BY <1>2, <1>3

(* So they do at the other end.                                            *)
LEMMA FirstOf ==
  ASSUME NEW n \in Nat, NEW S \in SUBSET (1..n), S # {}
  PROVE  \E k \in S : \A j \in S : k <= j
<1>1. S \in SUBSET Nat
  OBVIOUS
<1> QED BY <1>1, LeastNumber

\* Where a line begins: at the top, or behind a newline.
BeginsAt(s, p) == p = 0 \/ (p \in 1..Len(s.text) /\ Ends(s.text[p]))

(* _find_line_start.                                                       *)
LEMMA LineStartIs ==
  ASSUME NEW s \in Screens, NEW c \in Int
  PROVE  LET p == LineStart(s, c)
         IN  /\ p \in 0..Len(s.text) /\ (c >= 0 => p <= c) /\ BeginsAt(s, p)
             /\ \A k \in 1..Len(s.text) : k > p /\ k <= c => ~Ends(s.text[k])
<1> DEFINE before == {k \in NewlineAt(s) : k <= c}
           n == Len(s.text)
           p == LineStart(s, c)
<1>1. n \in Nat /\ before = {k \in 1..n : Ends(s.text[k]) /\ k <= c}
  BY ScreenIs
<1>2. CASE before = {}
  <2>1. p = 0
    BY <1>2 DEF LineStart
  <2> QED BY <1>1, <1>2, <2>1 DEF BeginsAt
<1>3. CASE before # {}
  <2>1. before \in SUBSET (1..n)
    BY <1>1
  <2> DEFINE last == CHOOSE k \in before : \A j \in before : j <= k
  <2>2. p = last
    BY <1>3 DEF LineStart
  <2>3. \E k \in before : \A j \in before : j <= k
    <3> HIDE DEF before, n
    <3> QED BY <1>1, <1>3, <2>1, LastOf
  <2>4. last \in before /\ \A j \in before : j <= last
    <3> HIDE DEF before
    <3> QED BY <2>3
  <2> QED BY <1>1, <2>2, <2>4 DEF BeginsAt
<1> QED BY <1>2, <1>3

(* There is one begin of the line of a position.                           *)
LEMMA LineStartOnce ==
  ASSUME NEW s \in Screens, NEW c \in Nat, NEW p \in Nat, p <= c, BeginsAt(s, p),
         \A k \in 1..Len(s.text) : k > p /\ k <= c => ~Ends(s.text[k])
  PROVE  LineStart(s, c) = p
<1> DEFINE q == LineStart(s, c)
<1>1. /\ q \in 0..Len(s.text) /\ q <= c /\ BeginsAt(s, q)
      /\ \A k \in 1..Len(s.text) : k > q /\ k <= c => ~Ends(s.text[k])
  BY LineStartIs
<1> HIDE DEF q
<1>2. Len(s.text) \in Nat /\ q \in Nat
  BY <1>1, ScreenIs
<1>3. ~(q < p)
  <2> SUFFICES ASSUME q < p PROVE FALSE
    OBVIOUS
  <2>1. p # 0
    BY <1>2
  <2> QED BY <1>1, <2>1 DEF BeginsAt
<1>4. ~(p < q)
  <2> SUFFICES ASSUME p < q PROVE FALSE
    OBVIOUS
  <2>1. q # 0
    BY <1>2
  <2> QED BY <1>1, <2>1 DEF BeginsAt
<1> QED BY <1>2, <1>3, <1>4 DEF q

(* _find_line_end: of the output, unless the input has lines.              *)
LEMMA LineEndIs ==
  ASSUME NEW s \in Screens, s.end \in Nat
  PROVE  LET e == LineEnd(s)
         IN  /\ e \in Nat /\ (s.cur <= s.end => s.cur <= e)
             /\ \A k \in 1..Len(s.text) : k > s.cur /\ k <= e => ~Ends(s.text[k])
             /\ HasLineEnd(s) => /\ e + 1 \in 1..Len(s.text) /\ s.cur <= e /\ BeginsAt(s, e + 1)
                                 /\ Simple(s) => e + 1 <= s.end
             /\ ~HasLineEnd(s) => e = s.end
             /\ Simple(s) => e <= s.end
<1> DEFINE after == {k \in NewlineAt(s) : k > s.cur}
           n == Len(s.text)
           e == LineEnd(s)
<1>1. /\ n \in Nat /\ after = {k \in 1..n : Ends(s.text[k]) /\ k > s.cur}
      /\ s.cur \in Nat /\ s.end \in Nat
  BY ScreenIs
<1>2. Simple(s) => \A k \in 1..n : Ends(s.text[k]) => k <= s.end
  <2> SUFFICES ASSUME Simple(s), NEW k \in 1..n, Ends(s.text[k]) PROVE k <= s.end
    OBVIOUS
  <2>1. s.text[k] # InputNL /\ (s.text[k] \in Inputs <=> k > s.end)
    BY DEF Simple, Good, OneLineInput
  <2>2. s.text[k] \notin Inputs
    BY <2>1 DEF Ends, Inputs, NL, Input, InputNL
  <2> QED BY <1>1, <2>1, <2>2
<1>3. HasLineEnd(s) <=> after # {}
  BY DEF HasLineEnd
<1>4. CASE after = {}
  <2>1. e = s.end
    BY <1>4 DEF LineEnd
  <2> QED BY <1>1, <1>3, <1>4, <2>1
<1>5. CASE after # {}
  <2>1. after \in SUBSET (1..n)
    BY <1>1
  <2> DEFINE first == CHOOSE k \in after : \A j \in after : k <= j
  <2>2. e = first - 1
    BY <1>5 DEF LineEnd
  <2>3. \E k \in after : \A j \in after : k <= j
    <3> HIDE DEF after, n
    <3> QED BY <1>1, <1>5, <2>1, FirstOf
  <2>4. first \in after /\ \A j \in after : first <= j
    <3> HIDE DEF after
    <3> QED BY <2>3
  <2> HIDE DEF first
  <2>5. first \in 1..n /\ Ends(s.text[first]) /\ first > s.cur /\ (Simple(s) => first <= s.end)
    BY <1>1, <1>2, <2>4
  <2>6. e + 1 = first /\ e \in Nat /\ s.cur <= e /\ (Simple(s) => e + 1 <= s.end /\ e <= s.end)
    BY <1>1, <2>2, <2>5
  <2>7. \A k \in 1..n : k > s.cur /\ k <= e => ~Ends(s.text[k])
    <3> SUFFICES ASSUME NEW k \in 1..n, k > s.cur, k <= e, Ends(s.text[k]) PROVE FALSE
      OBVIOUS
    <3>1. k \in after
      BY <1>1
    <3>2. first <= k
      BY <2>4, <3>1
    <3> QED BY <1>1, <2>5, <2>6, <3>2
  <2>8. BeginsAt(s, e + 1) /\ e + 1 \in 1..n
    BY <1>1, <2>5, <2>6 DEF BeginsAt
  <2> HIDE DEF e
  <2> QED BY <1>3, <1>5, <2>6, <2>7, <2>8 DEF e
<1> QED BY <1>4, <1>5
-----------------------------------------------------------------------------
(* Inserting and erasing.                                                  *)

PutIn(s, p, c) == SubSeq(s, 1, p) \o c \o SubSeq(s, p + 1, Len(s))

(* A sequence with another one put in behind place p.                      *)
LEMMA PutInIs ==
  ASSUME NEW S, NEW s \in Seq(S), NEW p \in 0..Len(s), NEW c \in Seq(S)
  PROVE  LET t == PutIn(s, p, c)
         IN  /\ t \in Seq(S) /\ Len(t) = Len(s) + Len(c)
             /\ \A i \in 1..(Len(s) + Len(c)) :
                  t[i] = IF i <= p THEN s[i] ELSE IF i <= p + Len(c) THEN c[i - p] ELSE s[i - Len(c)]
<1> DEFINE front == SubSeq(s, 1, p)
           back == SubSeq(s, p + 1, Len(s))
           n == Len(s)
           m == Len(c)
<1>1. n \in Nat /\ m \in Nat /\ p \in 0..n /\ p \in Nat
  BY LenProperties
<1>2. front \in Seq(S) /\ Len(front) = p /\ \A i \in 1..p : front[i] = s[i]
  BY <1>1
<1>3. back \in Seq(S) /\ Len(back) = n - p /\ \A i \in 1..(n - p) : back[i] = s[p + i]
  <2>1. n \in p..Len(s)
    BY <1>1
  <2> QED BY <2>1, PartBehind
<1>4. PutIn(s, p, c) = (front \o c) \o back
  BY DEF PutIn
<1> HIDE DEF front, back
<1> DEFINE h == front \o c
<1>5. /\ h \in Seq(S) /\ Len(h) = p + m
      /\ \A i \in 1..(p + m) : h[i] = IF i <= p THEN front[i] ELSE c[i - p]
  BY <1>1, <1>2, ConcatProperties
<1> HIDE DEF h
<1> DEFINE t == h \o back
<1>6. /\ t \in Seq(S) /\ Len(t) = (p + m) + (n - p)
      /\ \A i \in 1..((p + m) + (n - p)) : t[i] = IF i <= p + m THEN h[i] ELSE back[i - (p + m)]
  <2>1. /\ t \in Seq(S) /\ Len(t) = Len(h) + Len(back)
        /\ \A i \in 1..(Len(h) + Len(back)) : t[i] = IF i <= Len(h) THEN h[i] ELSE back[i - Len(h)]
    BY <1>3, <1>5, ConcatProperties
  <2> HIDE DEF t
  <2> QED BY <1>3, <1>5, <2>1
<1> HIDE DEF t
<1>7. (p + m) + (n - p) = n + m
  BY <1>1
<1>8. ASSUME NEW i \in 1..(n + m)
      PROVE  t[i] = IF i <= p THEN s[i] ELSE IF i <= p + m THEN c[i - p] ELSE s[i - m]
  <2>1. CASE i <= p
    <3>1. i \in 1..p /\ i <= p + m /\ i \in 1..(p + m)
      BY <1>1, <2>1
    <3> QED BY <1>2, <1>5, <1>6, <1>7, <2>1, <3>1
  <2>2. CASE ~(i <= p) /\ i <= p + m
    <3>1. i \in 1..(p + m)
      BY <1>1, <2>2
    <3> QED BY <1>5, <1>6, <1>7, <2>2, <3>1
  <2>3. CASE ~(i <= p + m)
    <3>1. /\ i - (p + m) \in 1..(n - p) /\ p + (i - (p + m)) = i - m /\ ~(i <= p)
      BY <1>1, <2>3
    <3> QED BY <1>3, <1>6, <1>7, <2>3, <3>1
  <2> QED BY <2>1, <2>2, <2>3
<1> QED BY <1>4, <1>6, <1>7, <1>8 DEF h, t

(* A position clipped to the text.                                         *)
LEMMA ClipToIs ==
  ASSUME NEW s \in Screens, NEW p \in Int
  PROVE  ClipTo(s, p) \in 0..Len(s.text) /\ (p \in 0..Len(s.text) => ClipTo(s, p) = p)
<1>1. Len(s.text) \in Nat
  BY ScreenIs
<1> QED BY <1>1 DEF ClipTo, Smaller

(* _insert_append.                                                         *)
LEMMA InsertedAtIs ==
  ASSUME NEW s \in Screens, NEW cells \in Seq(Cell)
  PROVE  LET t == InsertedAt(s, cells)
             p == ClipTo(s, s.cur)
             n == Len(cells)
         IN  /\ t \in Screens /\ t.end = s.end + n /\ t.cur = s.cur + n /\ n \in Nat
             /\ t.strayed = (s.strayed \/ (Ahead(s) /\ PendingInput(s)))
             /\ Len(t.text) = Len(s.text) + n
             /\ \A i \in 1..(Len(s.text) + n) :
                  t.text[i] = IF i <= p THEN s.text[i]
                              ELSE IF i <= p + n THEN cells[i - p] ELSE s.text[i - n]
<1> DEFINE t == InsertedAt(s, cells)
           p == ClipTo(s, s.cur)
           n == Len(cells)
           u == PutIn(s.text, p, cells)
           f == s.strayed \/ (Ahead(s) /\ PendingInput(s))
<1>1. n \in Nat /\ s.text \in Seq(Cell) /\ s.end \in Int /\ s.cur \in Nat /\ f \in BOOLEAN
  BY ScreenIs, LenProperties DEF Ahead, PendingInput
<1>2. p \in 0..Len(s.text)
  <2>1. s.cur \in Int
    BY <1>1
  <2> QED BY <2>1, ClipToIs
<1>3. t = [text |-> u, end |-> s.end + n, cur |-> s.cur + n, strayed |-> f]
  BY DEF InsertedAt, PutIn
<1> HIDE DEF p, f
<1>4. /\ u \in Seq(Cell) /\ Len(u) = Len(s.text) + n
      /\ \A i \in 1..(Len(s.text) + n) :
           u[i] = IF i <= p THEN s.text[i] ELSE IF i <= p + n THEN cells[i - p] ELSE s.text[i - n]
  BY <1>1, <1>2, PutInIs
<1> HIDE DEF u
<1>5. t \in Screens /\ t.text = u /\ t.end = s.end + n /\ t.cur = s.cur + n /\ t.strayed = f
  BY <1>1, <1>3, <1>4 DEF Screens
<1> HIDE DEF t
<1> QED BY <1>1, <1>4, <1>5 DEF t, p, f

\* A screen t with cells inserted at the cursor of s.
Inserts(t, s, cells) ==
  /\ t.end = s.end + Len(cells) /\ t.cur = s.cur + Len(cells)
  /\ Len(t.text) = Len(s.text) + Len(cells)
  /\ \A i \in 1..(Len(s.text) + Len(cells)) :
       t.text[i] = IF i <= s.cur THEN s.text[i]
                   ELSE IF i <= s.cur + Len(cells) THEN cells[i - s.cur]
                   ELSE s.text[i - Len(cells)]
IsOutput(cells) == \A i \in 1..Len(cells) : cells[i] \notin Inputs

(* Output inserted in the output is output.                                *)
LEMMA InsertedGood ==
  ASSUME NEW s, Good(s), NEW cells \in Seq(Cell), s.cur <= s.end, IsOutput(cells)
  PROVE  LET t == InsertedAt(s, cells)
         IN  /\ Good(t) /\ t.cur <= t.end /\ Inserts(t, s, cells)
             /\ Simple(s) => Placed(t)
<1> DEFINE t == InsertedAt(s, cells)
           n == Len(cells)
           c == s.cur
           len == Len(s.text)
<1>1. s \in Screens /\ ~s.strayed /\ c \in Nat /\ s.end \in 0..len /\ len \in Nat /\ n \in Nat
      /\ \A k \in 1..len : s.text[k] \in Inputs <=> k > s.end
  BY ScreenIs, LenProperties DEF Good
<1>2. ClipTo(s, s.cur) = c
  BY <1>1, ClipToIs
<1>3. /\ t \in Screens /\ ~t.strayed /\ t.end = s.end + n /\ t.cur = c + n /\ Len(t.text) = len + n
      /\ \A i \in 1..(len + n) :
           t.text[i] = IF i <= c THEN s.text[i] ELSE IF i <= c + n THEN cells[i - c] ELSE s.text[i - n]
  <2>1. ~Ahead(s)
    BY <1>1 DEF Ahead
  <2> QED BY <1>1, <1>2, <2>1, InsertedAtIs
<1> HIDE DEF t, n, c, len
<1>4. \A k \in 1..(len + n) : t.text[k] \in Inputs <=> k > s.end + n
  <2> TAKE k \in 1..(len + n)
  <2>0. c <= s.end /\ s.end \in Nat
    BY <1>1 DEF c
  <2>1. CASE k <= c
    <3>1. k \in 1..len /\ ~(k > s.end) /\ ~(k > s.end + n)
      BY <1>1, <2>0, <2>1
    <3> QED BY <1>1, <1>3, <2>1, <3>1
  <2>2. CASE ~(k <= c) /\ k <= c + n
    <3>1. k - c \in 1..n /\ ~(k > s.end + n)
      BY <1>1, <2>0, <2>2
    <3> QED BY <1>3, <2>2, <3>1 DEF n, IsOutput
  <2>3. CASE ~(k <= c + n)
    <3>1. k - n \in 1..len /\ (k > s.end + n <=> k - n > s.end) /\ ~(k <= c)
      BY <1>1, <2>0, <2>3
    <3> QED BY <1>1, <1>3, <2>3, <3>1
  <2> QED BY <2>1, <2>2, <2>3
<1>5. t.end \in 0..Len(t.text) /\ t.cur <= t.end
  <2>1. c <= s.end
    BY DEF c
  <2> QED BY <1>1, <1>3, <2>1
<1>6. Good(t)
  BY <1>3, <1>4, <1>5 DEF Good
<1>7. Simple(s) => OneLineInput(t)
  <2> SUFFICES ASSUME Simple(s), NEW k \in 1..(len + n), t.text[k] = InputNL PROVE FALSE
    BY <1>3 DEF OneLineInput
  <2>0. \A i \in 1..len : s.text[i] # InputNL
    BY DEF Simple, OneLineInput, len
  <2>1. CASE k <= c
    <3>1. k \in 1..len
      BY <1>1, <1>5, <2>1 DEF c
    <3> QED BY <1>3, <2>0, <2>1, <3>1
  <2>2. CASE ~(k <= c) /\ k <= c + n
    <3>1. k - c \in 1..n
      BY <1>1, <2>2
    <3> QED BY <1>3, <2>2, <3>1 DEF n, IsOutput, Inputs
  <2>3. CASE ~(k <= c + n)
    <3>1. k - n \in 1..len /\ ~(k <= c)
      BY <1>1, <2>3
    <3> QED BY <1>3, <2>0, <2>3, <3>1
  <2> QED BY <2>1, <2>2, <2>3
<1> QED BY <1>1, <1>3, <1>5, <1>6, <1>7 DEF t, n, c, len, Inserts, Placed, Simple

(* What is erased is gone, whatever it was.                                *)
LEMMA ErasedIs ==
  ASSUME NEW s \in Screens, NEW from \in Int, NEW to \in Int
  PROVE  LET t == Erased(s, from, to)
         IN  /\ t \in Screens /\ t.cur = s.cur
             /\ t.end = IF to <= from THEN s.end ELSE s.end - (to - from)
             /\ t.strayed = (s.strayed \/ (to > from /\ to > s.end))
<1> DEFINE f == ClipTo(s, from)
           u == ClipTo(s, to)
           t == Erased(s, from, to)
           x == SubSeq(s.text, 1, f) \o SubSeq(s.text, u + 1, Len(s.text))
<1>1. s.text \in Seq(Cell) /\ Len(s.text) \in Nat /\ s.end \in Int /\ s.cur \in Nat
      /\ s.strayed \in BOOLEAN
  BY ScreenIs
<1>2. f \in 0..Len(s.text) /\ u \in 0..Len(s.text)
  BY ClipToIs
<1> HIDE DEF f, u
<1>3. x \in Seq(Cell)
  <2>1. SubSeq(s.text, 1, f) \in Seq(Cell) /\ SubSeq(s.text, u + 1, Len(s.text)) \in Seq(Cell)
    BY <1>1, <1>2
  <2> QED BY <2>1
<1>4. CASE to <= from
  <2>1. t = s /\ ~(to > from)
    BY <1>4 DEF Erased
  <2> QED BY <1>1, <1>4, <2>1
<1>5. CASE ~(to <= from)
  <2> DEFINE e == s.end - (to - from)
             g == s.strayed \/ to > s.end
  <2>1. t = [s EXCEPT !.text = x, !.end = e, !.strayed = g]
    BY <1>5 DEF Erased, f, u, Screens
  <2>2. e \in Int /\ g \in BOOLEAN /\ to > from
    BY <1>1, <1>5
  <2> HIDE DEF x, e, g
  <2> HIDE DEF t
  <2>4. t \in Screens /\ t.cur = s.cur /\ t.end = e /\ t.strayed = g
    BY <1>1, <1>3, <2>1, <2>2 DEF Screens
  <2> QED BY <1>5, <2>2, <2>4 DEF t, e, g
<1> QED BY <1>4, <1>5

(* Output erased from the output.                                          *)
LEMMA ErasedGood ==
  ASSUME NEW s, Good(s), NEW from \in Nat, NEW to \in Int, to <= s.end
  PROVE  Good(Erased(s, from, to))
<1> DEFINE t == Erased(s, from, to)
           len == Len(s.text)
           d == to - from
<1>1. s \in Screens /\ ~s.strayed /\ len \in Nat /\ s.end \in 0..len /\ s.text \in Seq(Cell)
      /\ \A k \in 1..len : s.text[k] \in Inputs <=> k > s.end
  BY ScreenIs DEF Good
<1>2. CASE to <= from
  BY <1>2 DEF Erased
<1>3. CASE ~(to <= from)
  <2>1. from \in 0..len /\ to \in from..len /\ from \in Int /\ d \in Nat /\ to \in 0..len
    BY <1>1, <1>3
  <2>2. ClipTo(s, from) = from /\ ClipTo(s, to) = to
    BY <1>1, <2>1, ClipToIs
  <2> DEFINE x == CutOut(s.text, from, to)
  <2>3. t = [s EXCEPT !.text = x, !.end = s.end - d, !.strayed = FALSE]
    <3>1. (s.strayed \/ to > s.end) = FALSE
      BY <1>1
    <3> QED BY <1>1, <1>3, <2>2, <3>1 DEF Erased, CutOut, Screens
  <2>4. /\ x \in Seq(Cell) /\ Len(x) = len - d
        /\ \A i \in 1..(len - d) : x[i] = IF i <= from THEN s.text[i] ELSE s.text[i + d]
    <3>1. from \in 0..Len(s.text) /\ to \in from..Len(s.text) /\ s.text \in Seq(Cell)
      BY <1>1, <2>1
    <3>2. \A v \in Seq(Cell) : \A a \in 0..Len(v) : \A b \in a..Len(v) :
            /\ CutOut(v, a, b) \in Seq(Cell) /\ Len(CutOut(v, a, b)) = Len(v) - (b - a)
            /\ \A i \in 1..(Len(v) - (b - a)) :
                 CutOut(v, a, b)[i] = IF i <= a THEN v[i] ELSE v[i + (b - a)]
      BY CutOutIs
    <3> QED BY <3>1, <3>2
  <2> HIDE DEF x, d, len
  <2> DEFINE e == s.end - d
  <2>8. e \in Int
    BY <1>1, <2>1
  <2> HIDE DEF t, e
  <2>9. t = [s EXCEPT !.text = x, !.end = e, !.strayed = FALSE]
    BY <2>3 DEF e
  <2>5. t.text = x /\ t.end = s.end - d /\ t.cur = s.cur /\ t \in Screens /\ ~t.strayed
    <3>1. t.text = x /\ t.end = e /\ t.cur = s.cur /\ t \in Screens /\ ~t.strayed
      BY <1>1, <2>4, <2>8, <2>9 DEF Screens
    <3> QED BY <3>1 DEF e
  <2>6. ASSUME NEW k \in 1..(len - d) PROVE x[k] \in Inputs <=> k > s.end - d
    <3>0. to = from + d /\ to <= s.end
      BY <2>1 DEF d
    <3>1. CASE k <= from
      <4>1. k \in 1..len /\ ~(k > s.end) /\ ~(k > s.end - d)
        BY <1>1, <2>1, <3>0, <3>1
      <4> QED BY <1>1, <2>4, <3>1, <4>1
    <3>2. CASE ~(k <= from)
      <4>1. k + d \in 1..len /\ (k > s.end - d <=> k + d > s.end)
        BY <1>1, <2>1, <3>0, <3>2
      <4> QED BY <1>1, <2>4, <3>2, <4>1
    <3> QED BY <3>1, <3>2
  <2>7. s.end - d \in 0..(len - d)
    <3>1. to = from + d /\ to <= s.end
      BY <2>1 DEF d
    <3> QED BY <1>1, <2>1, <3>1
  <2> QED BY <2>4, <2>5, <2>6, <2>7 DEF Good, t
<1> QED BY <1>2, <1>3

(* Whatever is inserted, and wherever.                                     *)
LEMMA InsertedKept ==
  ASSUME NEW s, Kept(s), NEW cells \in Seq(Cell), IsOutput(cells)
  PROVE  Kept(InsertedAt(s, cells)) /\ (Sound(s) => Sound(InsertedAt(s, cells)))
<1> DEFINE n == Len(cells)
           len == Len(s.text)
           p == ClipTo(s, s.cur)
           t == InsertedAt(s, cells)
<1>1. s \in Screens /\ s.cur \in Nat /\ s.end \in Int /\ len \in Nat /\ s.strayed \in BOOLEAN
      /\ (~s.strayed => Good(s))
  BY ScreenIs DEF Kept
<1>2. p \in 0..len /\ (len <= s.cur => p = len)
  BY <1>1 DEF ClipTo, Smaller
<1>3. /\ t \in Screens /\ t.end = s.end + n /\ t.cur = s.cur + n /\ Len(t.text) = len + n /\ n \in Nat
      /\ t.strayed = (s.strayed \/ (Ahead(s) /\ PendingInput(s)))
      /\ \A i \in 1..(len + n) :
           t.text[i] = IF i <= p THEN s.text[i]
                       ELSE IF i <= p + n THEN cells[i - p] ELSE s.text[i - n]
  BY <1>1, InsertedAtIs
<1> HIDE DEF t, p
<1>4. ASSUME ~t.strayed PROVE Good(t)
  <2>1. Good(s) /\ (Ahead(s) => ~PendingInput(s))
    BY <1>1, <1>3, <1>4
  <2>2. CASE ~Ahead(s)
    <3>1. s.cur <= s.end
      BY <1>1, <2>2 DEF Ahead
    <3> QED BY <2>1, <3>1, InsertedGood DEF t
  <2>3. CASE Ahead(s)
    <3>1. s.end = len /\ s.end \in 0..len
      BY <1>1, <2>1, <2>3 DEF PendingInput, Good
    <3>2. p = len /\ t.end = len + n
      BY <1>1, <1>2, <1>3, <2>3, <3>1 DEF Ahead
    <3> HIDE DEF len, n
    <3>3. ASSUME NEW i \in 1..(len + n) PROVE t.text[i] \notin Inputs
      <4>1. CASE i <= p
        <5>1. i \in 1..len /\ ~(i > s.end)
          BY <1>1, <3>1, <3>2, <4>1
        <5> QED BY <1>3, <2>1, <4>1, <5>1 DEF Good, len
      <4>2. CASE ~(i <= p)
        <5>1. i - p \in 1..n /\ i <= p + n
          BY <1>1, <1>3, <3>2, <4>2
        <5> QED BY <1>3, <4>2, <5>1 DEF IsOutput, n
      <4> QED BY <4>1, <4>2
    <3>4. len + n \in 0..(len + n) /\ \A i \in 1..(len + n) : ~(i > len + n)
      BY <1>1, <1>3
    <3> QED BY <1>3, <1>4, <3>2, <3>3, <3>4 DEF Good
  <2> QED BY <2>2, <2>3
<1>5. Kept(t)
  BY <1>3, <1>4 DEF Kept
<1>6. Sound(s) => t.end \in Nat
  BY <1>3 DEF Sound
<1> QED BY <1>5, <1>6 DEF Sound, t

(* And whatever is erased.                                                 *)
LEMMA ErasedKept ==
  ASSUME NEW s, Good(s), NEW from \in Nat, NEW to \in Int
  PROVE  Kept(Erased(s, from, to))
<1>1. s \in Screens /\ s.end \in Nat
  BY GoodIs
<1>2. CASE to <= from
  <2>1. Erased(s, from, to) = s
    BY <1>2 DEF Erased
  <2> QED BY <2>1, GoodIs
<1>3. CASE ~(to <= from) /\ to > s.end
  <2>0. from \in Int /\ to > from
    BY <1>3
  <2>1. Erased(s, from, to) \in Screens /\ Erased(s, from, to).strayed
    BY <1>1, <1>3, <2>0, ErasedIs
  <2> QED BY <2>1 DEF Kept
<1>4. CASE to <= s.end
  BY <1>4, ErasedGood, GoodIs
<1> QED BY <1>1, <1>2, <1>3, <1>4
-----------------------------------------------------------------------------
(* Lines and columns.                                                      *)

(* The column is a number, at the start of a line 0.                       *)
LEMMA ColumnIs ==
  ASSUME NEW s \in Screens
  PROVE  Column(s) \in Nat /\ (BeginsAt(s, s.cur) => Column(s) = 0)
<1>1. s.cur \in Nat /\ s.cur \in Int
  BY ScreenIs
<1>2. LineStart(s, s.cur) \in 0..Len(s.text) /\ LineStart(s, s.cur) <= s.cur
  BY <1>1, LineStartIs
<1>3. Len(s.text) \in Nat
  BY ScreenIs
<1>4. BeginsAt(s, s.cur) => LineStart(s, s.cur) = s.cur
  <2> SUFFICES ASSUME BeginsAt(s, s.cur) PROVE LineStart(s, s.cur) = s.cur
    OBVIOUS
  <2>1. \A k \in 1..Len(s.text) : ~(k > s.cur /\ k <= s.cur)
    BY <1>1, <1>3
  <2>2. s.cur <= s.cur
    BY <1>1
  <2> QED BY <1>1, <2>1, <2>2, LineStartOnce
<1> QED BY <1>1, <1>2, <1>3, <1>4 DEF Column

(* _insert_space_to_offset: from the start of a line, it leads to the      *)
(* column asked for, with blanks where the line is too short.              *)
LEMMA ToColumnGood ==
  ASSUME NEW s, Simple(s), NEW column \in Nat
  PROVE  /\ Placed(ToColumn(s, column))
         /\ s.cur <= s.end /\ BeginsAt(s, s.cur) => Column(ToColumn(s, column)) = column
<1> DEFINE e == LineEnd(s)
           missing == s.cur + column - e
           t == ToColumn(s, column)
           c == s.cur + column
           p == s.cur
           len == Len(s.text)
<1>1. /\ Good(s) /\ s \in Screens /\ p \in Nat /\ s.end \in 0..len /\ len \in Nat /\ c \in Nat /\ p <= c
      /\ s.end \in Nat
  BY ScreenIs DEF Good, Simple
<1>2. /\ e \in 0..s.end /\ (p <= s.end => p <= e)
      /\ \A k \in 1..len : k > p /\ k <= e => ~Ends(s.text[k])
  <2>1. /\ e \in Nat /\ e <= s.end /\ (p <= s.end => p <= e)
        /\ \A k \in 1..len : k > p /\ k <= e => ~Ends(s.text[k])
    BY <1>1, LineEndIs
  <2> HIDE DEF e
  <2> QED BY <1>1, <2>1
<1> HIDE DEF e
<1>3. CASE missing > 0
  <2> DEFINE u == [s EXCEPT !.cur = e]
             blanks == [k \in 1..missing |-> Blanks]
  <2>1. e \in Nat /\ missing \in Nat /\ e <= s.end
    BY <1>1, <1>2, <1>3
  <2>2. Good(u) /\ Simple(u) /\ u.cur = e /\ u.end = s.end /\ u.text = s.text /\ u \in Screens
    BY <1>1, <2>1, CursorMoved
  <2>3. /\ blanks \in Seq(Cell) /\ Len(blanks) = missing
        /\ \A i \in 1..missing : blanks[i] = Blanks
    <3> HIDE DEF missing
    <3>1. Blanks \in Cell
      BY DEF Cell
    <3> QED BY <2>1, <3>1
  <2>4. Blanks \notin Inputs /\ ~Ends(Blanks)
    BY DEF Blanks, Inputs, Input, InputNL, Ends, NL
  <2>5. t = InsertedAt(u, blanks)
    BY <1>3 DEF ToColumn, e
  <2> HIDE DEF u, blanks, missing, t
  <2>6. /\ Placed(t) /\ t.cur = e + missing
        /\ Len(t.text) = len + missing
        /\ \A i \in 1..(len + missing) :
             t.text[i] = IF i <= e THEN s.text[i]
                         ELSE IF i <= e + missing THEN blanks[i - e] ELSE s.text[i - missing]
    <3>1. u.cur <= u.end /\ IsOutput(blanks)
      BY <2>1, <2>2, <2>3, <2>4 DEF IsOutput
    <3>2. Placed(t) /\ Inserts(t, u, blanks)
      BY <2>2, <2>3, <2>5, <3>1, InsertedGood
    <3> QED BY <2>2, <2>3, <3>2 DEF Inserts
  <2>7. e + missing = c
    BY <1>1, <2>1 DEF missing
  <2>8. ASSUME p <= s.end, BeginsAt(s, p) PROVE Column(t) = column
    <3>1. t \in Screens /\ t.cur = c
      BY <2>6, <2>7 DEF Placed, Simple, Good
    <3>2. p <= e
      BY <1>2, <2>8
    <3>3. BeginsAt(t, p)
      <4>1. CASE p = 0
        BY <4>1 DEF BeginsAt
      <4>2. CASE p # 0
        <5>1. p \in 1..len /\ Ends(s.text[p]) /\ p \in 1..(len + missing)
          BY <1>1, <2>1, <2>8, <4>2 DEF BeginsAt
        <5> QED BY <2>6, <3>2, <5>1 DEF BeginsAt
      <4> QED BY <4>1, <4>2
    <3>4. ASSUME NEW k \in 1..Len(t.text), k > p, k <= c PROVE ~Ends(t.text[k])
      <4>0. k \in 1..(len + missing) /\ k <= e + missing
        BY <2>6, <2>7, <3>4
      <4>1. CASE k <= e
        <5>1. k \in 1..len
          BY <1>1, <1>2, <2>1, <4>1
        <5> QED BY <1>2, <2>6, <3>4, <4>0, <4>1, <5>1
      <4>2. CASE ~(k <= e)
        <5>1. k - e \in 1..missing
          BY <2>1, <4>0, <4>2
        <5> QED BY <2>3, <2>4, <2>6, <4>0, <4>2, <5>1
      <4> QED BY <4>1, <4>2
    <3>5. LineStart(t, c) = p
      BY <1>1, <3>1, <3>3, <3>4, LineStartOnce
    <3>6. Column(t) = c - p
      BY <3>1, <3>5 DEF Column
    <3> QED BY <1>1, <3>6
  <2> QED BY <2>6, <2>8 DEF t
<1>4. CASE ~(missing > 0)
  <2>1. t = [s EXCEPT !.cur = c] /\ c <= e
    <3>1. c <= e
      BY <1>1, <1>2, <1>4
    <3>2. t = [s EXCEPT !.cur = c]
      BY <1>1, <1>4 DEF ToColumn, e, Screens
    <3> QED BY <3>1, <3>2
  <2>2. Simple(t) /\ t.cur = c /\ t.end = s.end /\ t.text = s.text /\ t \in Screens
    BY <1>1, <2>1, CursorMoved
  <2> HIDE DEF t, c
  <2>3. Placed(t)
    BY <1>1, <1>2, <2>1, <2>2 DEF Placed
  <2>4. ASSUME p <= s.end, BeginsAt(s, p) PROVE Column(t) = column
    <3>1. BeginsAt(t, p)
      BY <2>2, <2>4 DEF BeginsAt
    <3>2. \A k \in 1..Len(t.text) : k > p /\ k <= c => ~Ends(t.text[k])
      BY <1>1, <1>2, <2>1, <2>2
    <3>3. LineStart(t, c) = p
      BY <1>1, <2>2, <3>1, <3>2, LineStartOnce
    <3>4. Column(t) = c - p
      BY <2>2, <3>3 DEF Column
    <3> QED BY <1>1, <3>4 DEF c
  <2> QED BY <2>3, <2>4 DEF t
<1> QED BY <1>3, <1>4

(* The next line begins at its start, also if it is a new one.             *)
LEMMA NextLineGood ==
  ASSUME NEW s, Simple(s)
  PROVE  Placed(NextLine(s)) /\ BeginsAt(NextLine(s), NextLine(s).cur)
<1> DEFINE e == LineEnd(s)
           t == NextLine(s)
<1>1. /\ s \in Screens /\ s.end \in 0..Len(s.text) /\ Len(s.text) \in Nat /\ s.end \in Nat
  BY ScreenIs DEF Good, Simple
<1>2. /\ e \in Nat
      /\ HasLineEnd(s) => e + 1 <= s.end /\ BeginsAt(s, e + 1)
  BY <1>1, LineEndIs
<1> HIDE DEF e
<1>3. CASE HasLineEnd(s)
  <2>1. t = [s EXCEPT !.cur = e + 1] /\ e + 1 \in Nat
    BY <1>1, <1>2, <1>3 DEF NextLine, e
  <2>2. Simple(t) /\ t.cur = e + 1 /\ t.end = s.end /\ t.text = s.text
    BY <1>1, <2>1, CursorMoved
  <2> HIDE DEF t
  <2>3. BeginsAt(t, t.cur)
    BY <1>2, <1>3, <2>2 DEF BeginsAt
  <2>4. t.cur <= t.end
    BY <1>1, <1>2, <1>3, <2>2
  <2> QED BY <2>2, <2>3, <2>4 DEF Placed, t
<1>4. CASE ~HasLineEnd(s)
  <2> DEFINE u == [s EXCEPT !.cur = s.end]
             n == <<NL>>
  <2>1. s.end \in Nat
    BY <1>1
  <2>2. Good(u) /\ Simple(u) /\ u.cur = s.end /\ u.end = s.end /\ u.text = s.text
    BY <1>1, <2>1, CursorMoved DEF Simple
  <2>3. n \in Seq(Cell) /\ Len(n) = 1 /\ n[1] = NL /\ NL \notin Inputs /\ Ends(NL)
    BY DEF Cell, NL, Inputs, Input, InputNL, Ends
  <2>4. t = InsertedAt(u, n)
    BY <1>4 DEF NextLine
  <2> HIDE DEF u, n, t
  <2>5. /\ Placed(t) /\ t.cur = s.end + 1 /\ Len(t.text) = Len(s.text) + 1
        /\ \A i \in 1..(Len(s.text) + 1) :
             t.text[i] = IF i <= s.end THEN s.text[i]
                         ELSE IF i <= s.end + 1 THEN n[i - s.end] ELSE s.text[i - 1]
    <3>1. u.cur <= u.end /\ IsOutput(n)
      BY <2>1, <2>2, <2>3 DEF IsOutput
    <3>2. Placed(t) /\ Inserts(t, u, n)
      BY <2>2, <2>3, <2>4, <3>1, InsertedGood
    <3> QED BY <2>2, <2>3, <3>2 DEF Inserts
  <2>6. s.end + 1 \in 1..(Len(s.text) + 1) /\ ~(s.end + 1 <= s.end) /\ (s.end + 1) - s.end = 1
        /\ s.end + 1 <= s.end + 1
    BY <1>1
  <2>7. Ends(t.text[s.end + 1])
    BY <2>3, <2>5, <2>6
  <2> QED BY <2>5, <2>6, <2>7 DEF BeginsAt, t
<1> QED BY <1>3, <1>4

\* Screens from which the next line leads to more of them.
Downward(T) == T \subseteq Screens /\ \A t \in T : NextLine(t) \in T

(* The line n lines down, on one of these screens.                         *)
LEMMA BelowIs ==
  ASSUME NEW T, Downward(T), NEW s \in T, NEW n \in Nat
  PROVE  \E w \in T : /\ Down(s, n) = ToColumn(w, Column(s))
                      /\ n # 0 => \E v \in T : w = NextLine(v)
<1> DEFINE Body(f, k) == IF k = 0 THEN s ELSE NextLine(f[k - 1])
           F == CHOOSE f : f = [k \in 0..n |-> Body(f, k)]
           step == [p \in T \X (1..n) |-> NextLine(p[1])]
<1>1. \A t \in T : NextLine(t) \in T
  BY DEF Downward
<1>2. Down(s, n) = ToColumn(F[n], Column(s))
  BY DEF Down
<1>3. /\ step \in [T \X (1..n) -> T]
      /\ \A t \in T, k \in 1..n : step[<<t, k>>] = NextLine(t)
  BY <1>1
<1> HIDE DEF step
<1>4. PICK f \in [0..n -> T] : f[0] = s /\ \A k \in 1..n : f[k] = step[<<f[k - 1], k>>]
  <2>1. PICK f \in [0..n -> T] : Recursive(f, s, step, n)
    BY <1>1, <1>3, PrimitiveRecursion
  <2> QED BY <2>1 DEF Recursive
<1>5. \A k \in 1..n : k - 1 \in 0..n /\ f[k] = NextLine(f[k - 1])
  <2>1. \A k \in 1..n : k - 1 \in 0..n
    OBVIOUS
  <2> QED BY <1>3, <1>4, <2>1
<1>6. f = [k \in 0..n |-> Body(f, k)]
  <2>1. \A k \in 0..n : f[k] = Body(f, k)
    <3> TAKE k \in 0..n
    <3>1. k = 0 \/ k \in 1..n
      OBVIOUS
    <3> QED BY <1>4, <1>5, <3>1
  <2>2. f = [k \in 0..n |-> f[k]]
    BY <1>4
  <2> QED BY <2>1, <2>2
<1>7. F = [k \in 0..n |-> Body(F, k)]
  BY <1>6
<1> HIDE DEF F
<1>8. F[0] = s /\ \A k \in 1..n : F[k] = NextLine(F[k - 1])
  <2>1. 0 \in 0..n /\ \A k \in 1..n : k \in 0..n /\ k # 0
    OBVIOUS
  <2>2. \A k \in 0..n : F[k] = Body(F, k)
    <3> HIDE DEF Body
    <3> QED BY <1>7
  <2> QED BY <2>1, <2>2
<1> DEFINE S == {k \in Nat : k <= n => F[k] \in T}
<1>9. 0 \in S
  BY <1>1, <1>8
<1>10. ASSUME NEW k \in S PROVE k + 1 \in S
  <2> SUFFICES ASSUME k + 1 <= n PROVE F[k + 1] \in T
    OBVIOUS
  <2>1. k + 1 \in 1..n /\ (k + 1) - 1 = k /\ F[k] \in T
    OBVIOUS
  <2> QED BY <1>1, <1>8, <2>1
<1>11. \A k \in 0..n : F[k] \in T
  <2>1. S = Nat
    <3>1. S \in SUBSET Nat
      OBVIOUS
    <3> HIDE DEF S
    <3> QED BY <1>9, <1>10, <3>1, SetInduction
  <2> TAKE k \in 0..n
  <2>2. k \in S /\ k <= n
    BY <2>1
  <2> QED BY <2>2
<1>12. F[n] \in T
  <2>1. n \in 0..n
    OBVIOUS
  <2> QED BY <1>11, <2>1
<1>13. n # 0 => \E v \in T : F[n] = NextLine(v)
  <2> SUFFICES ASSUME n # 0 PROVE \E v \in T : F[n] = NextLine(v)
    OBVIOUS
  <2>1. n \in 1..n /\ n - 1 \in 0..n
    OBVIOUS
  <2> QED BY <1>8, <1>11, <2>1
<1> QED BY <1>2, <1>12, <1>13

(* The start of the n-th line above.                                       *)
LEMMA AboveIs ==
  ASSUME NEW s \in Screens, NEW n \in Nat
  PROVE  StartAbove(s, n) \in 0..s.cur /\ BeginsAt(s, StartAbove(s, n))
<1> DEFINE Body(f, k) == IF k = 0 THEN LineStart(s, s.cur) ELSE LineStart(s, f[k - 1] - 1)
           F == CHOOSE f : f = [k \in 0..n |-> Body(f, k)]
           T == {p \in 0..s.cur : BeginsAt(s, p)}
           first == LineStart(s, s.cur)
           step == [p \in T \X (1..n) |-> LineStart(s, p[1] - 1)]
<1>0. s.cur \in Nat /\ s.cur \in Int /\ Len(s.text) \in Nat
  BY ScreenIs
<1>1. first \in T
  <2>1. /\ first \in 0..Len(s.text) /\ first <= s.cur /\ BeginsAt(s, first)
    BY <1>0, LineStartIs
  <2> HIDE DEF first
  <2> QED BY <1>0, <2>1
<1>2. \A p \in T : LineStart(s, p - 1) \in T
  <2> TAKE p \in T
  <2>1. p \in 0..s.cur /\ p - 1 \in Int /\ p - 1 <= s.cur
    BY <1>0
  <2> DEFINE q == LineStart(s, p - 1)
  <2>2. /\ q \in 0..Len(s.text) /\ (p - 1 >= 0 => q <= p - 1) /\ BeginsAt(s, q)
        /\ \A k \in 1..Len(s.text) : k > q /\ k <= p - 1 => ~Ends(s.text[k])
    BY <2>1, LineStartIs
  <2>3. p = 0 => q = 0
    <3> SUFFICES ASSUME p = 0 PROVE q = 0
      OBVIOUS
    <3>1. {k \in NewlineAt(s) : k <= p - 1} = {}
      BY <1>0, ScreenIs
    <3> QED BY <3>1 DEF LineStart
  <2> HIDE DEF q
  <2>4. q \in 0..s.cur
    BY <1>0, <2>1, <2>2, <2>3
  <2> QED BY <2>2, <2>4 DEF q
<1>3. StartAbove(s, n) = F[n]
  BY DEF StartAbove
<1> HIDE DEF T, first
<1>4. /\ step \in [T \X (1..n) -> T]
      /\ \A p \in T, k \in 1..n : step[<<p, k>>] = LineStart(s, p - 1)
  BY <1>2
<1> HIDE DEF step
<1>5. PICK f \in [0..n -> T] : f[0] = first /\ \A k \in 1..n : f[k] = step[<<f[k - 1], k>>]
  <2>1. PICK f \in [0..n -> T] : Recursive(f, first, step, n)
    BY <1>1, <1>4, PrimitiveRecursion
  <2> QED BY <2>1 DEF Recursive
<1>6. \A k \in 1..n : k - 1 \in 0..n /\ f[k] = LineStart(s, f[k - 1] - 1)
  <2>1. \A k \in 1..n : k - 1 \in 0..n
    OBVIOUS
  <2> QED BY <1>4, <1>5, <2>1
<1>7. f = [k \in 0..n |-> Body(f, k)]
  <2>1. \A k \in 0..n : f[k] = Body(f, k)
    <3> TAKE k \in 0..n
    <3>1. k = 0 \/ k \in 1..n
      OBVIOUS
    <3> QED BY <1>5, <1>6, <3>1 DEF first
  <2>2. f = [k \in 0..n |-> f[k]]
    BY <1>5
  <2> QED BY <2>1, <2>2
<1>8. F = [k \in 0..n |-> Body(F, k)]
  BY <1>7
<1> HIDE DEF F
<1>9. F[0] = first /\ \A k \in 1..n : F[k] = LineStart(s, F[k - 1] - 1)
  <2>1. 0 \in 0..n /\ \A k \in 1..n : k \in 0..n /\ k # 0
    OBVIOUS
  <2>2. \A k \in 0..n : F[k] = Body(F, k)
    <3> HIDE DEF Body
    <3> QED BY <1>8
  <2> QED BY <2>1, <2>2 DEF first
<1> DEFINE S == {k \in Nat : k <= n => F[k] \in T}
<1>10. 0 \in S
  BY <1>1, <1>9
<1>11. ASSUME NEW k \in S PROVE k + 1 \in S
  <2> SUFFICES ASSUME k + 1 <= n PROVE F[k + 1] \in T
    OBVIOUS
  <2>1. k + 1 \in 1..n /\ (k + 1) - 1 = k /\ F[k] \in T
    OBVIOUS
  <2> QED BY <1>2, <1>9, <2>1
<1>12. F[n] \in T
  <2>1. S = Nat
    <3>1. S \in SUBSET Nat
      OBVIOUS
    <3> HIDE DEF S
    <3> QED BY <1>10, <1>11, <3>1, SetInduction
  <2>2. n \in S /\ n <= n
    BY <2>1
  <2> QED BY <2>2
<1> QED BY <1>3, <1>12 DEF T
-----------------------------------------------------------------------------
(* Movements.                                                              *)

\* The output a cursor is in has it still.
StaysIn(s, t) == s.cur <= s.end => t.cur <= t.end

(* Down is drawn with blanks and newlines, and keeps the column.           *)
LEMMA DownGood ==
  ASSUME NEW s, Simple(s), NEW n \in Nat
  PROVE  Placed(Down(s, n)) /\ (n # 0 => Column(Down(s, n)) = Column(s))
<1> DEFINE T == {t \in Screens : Simple(t)}
<1>0. Downward(T) /\ s \in T /\ \A t \in T : Simple(t)
  BY NextLineGood DEF Downward, Simple, Good, Placed
<1> HIDE DEF T
<1>1. PICK w \in T : /\ Down(s, n) = ToColumn(w, Column(s))
                     /\ n # 0 => \E v \in T : w = NextLine(v)
  BY <1>0, BelowIs
<1>2. Column(s) \in Nat
  BY ColumnIs DEF Simple, Good
<1> DEFINE c == Column(s)
<1> HIDE DEF c
<1>3. /\ Placed(ToColumn(w, c))
      /\ w.cur <= w.end /\ BeginsAt(w, w.cur) => Column(ToColumn(w, c)) = c
  BY <1>0, <1>2, ToColumnGood DEF c
<1>4. n # 0 => w.cur <= w.end /\ BeginsAt(w, w.cur)
  <2> SUFFICES ASSUME n # 0 PROVE w.cur <= w.end /\ BeginsAt(w, w.cur)
    OBVIOUS
  <2>1. PICK v \in T : w = NextLine(v)
    BY <1>1
  <2> QED BY <1>0, <2>1, NextLineGood DEF Placed
<1> QED BY <1>1, <1>3, <1>4 DEF c

(* Up, too.                                                                *)
LEMMA UpGood ==
  ASSUME NEW s, Simple(s), NEW n \in Nat
  PROVE  /\ Simple(Up(s, n)) /\ StaysIn(s, Up(s, n))
         /\ s.cur <= s.end /\ n <= Cardinality(LinesAbove(s)) => Column(Up(s, n)) = Column(s)
<1> DEFINE most == (Height - 1) - Cardinality(LinesBelow(s))
           moves == Smaller(n, most)
           many == Cardinality(LinesAbove(s))
           c == Column(s)
<1>1. s \in Screens /\ s.cur \in Nat /\ Len(s.text) \in Nat /\ c \in Nat /\ s.end \in Nat
  BY ScreenIs, ColumnIs DEF Simple, Good
<1>2. many \in Nat /\ Cardinality(LinesBelow(s)) \in Nat
  <2>1. /\ LinesAbove(s) \in SUBSET (1..Len(s.text))
        /\ LinesBelow(s) \in SUBSET (1..Len(s.text))
    BY <1>1, ScreenIs DEF LinesAbove, LinesBelow
  <2>2. IsFiniteSet(1..Len(s.text))
    <3>1. 1 \in Int /\ Len(s.text) \in Int
      BY <1>1
    <3> QED BY <3>1, FS_Interval
  <2>3. IsFiniteSet(LinesAbove(s)) /\ IsFiniteSet(LinesBelow(s))
    BY <2>1, <2>2, FS_Subset
  <2> QED BY <2>3, FS_CardinalityType
<1>3. moves \in Int /\ moves <= n
  <2> DEFINE below == Cardinality(LinesBelow(s))
  <2>1. below \in Nat /\ moves = Smaller(n, (Height - 1) - below)
    BY <1>2
  <2> HIDE DEF below, moves
  <2> QED BY <2>1, HeightAssumption DEF Smaller
<1>4. CASE moves < 1 \/ LinesAbove(s) = {}
  BY <1>4 DEF Up, StaysIn
<1>5. CASE ~(moves < 1 \/ LinesAbove(s) = {}) /\ moves > many
  <2>1. Up(s, n) = [s EXCEPT !.cur = 0]
    BY <1>5 DEF Up
  <2>2. ~(n <= many)
    <3> HIDE DEF moves, many
    <3> QED BY <1>2, <1>3, <1>5
  <2> DEFINE t == [s EXCEPT !.cur = 0]
  <2>3. Simple(t) /\ t.cur = 0 /\ t.end = s.end
    BY <1>1, CursorMoved
  <2> HIDE DEF t
  <2>4. StaysIn(s, t)
    BY <1>1, <2>3 DEF StaysIn
  <2> QED BY <2>1, <2>2, <2>3, <2>4 DEF t
<1>6. CASE ~(moves < 1 \/ LinesAbove(s) = {}) /\ ~(moves > many)
  <2> DEFINE p == StartAbove(s, moves)
             w == [s EXCEPT !.cur = p]
  <2>1. Up(s, n) = ToColumn(w, c)
    BY <1>6 DEF Up
  <2>2. p \in 0..s.cur /\ BeginsAt(s, p)
    <3>1. moves \in Nat
      BY <1>3, <1>6
    <3> HIDE DEF moves
    <3> QED BY <1>1, <3>1, AboveIs
  <2> HIDE DEF p
  <2>3. p \in Nat /\ p <= s.cur
    BY <1>1, <2>2
  <2>4. Simple(w) /\ w.cur = p /\ w.end = s.end /\ w.text = s.text
    BY <1>1, <2>3, CursorMoved
  <2> HIDE DEF w, c, many
  <2>5. BeginsAt(w, w.cur)
    BY <2>2, <2>4 DEF BeginsAt
  <2>6. s.cur <= s.end => w.cur <= w.end
    BY <1>1, <2>3, <2>4
  <2>7. /\ Placed(ToColumn(w, c))
        /\ w.cur <= w.end /\ BeginsAt(w, w.cur) => Column(ToColumn(w, c)) = c
    BY <1>1, <2>4, ToColumnGood
  <2> QED BY <2>1, <2>5, <2>6, <2>7 DEF Placed, StaysIn, c
<1> QED BY <1>4, <1>5, <1>6

(* Forward and backward, within a line.                                    *)
LEMMA AlongGood ==
  ASSUME NEW s, Simple(s), NEW n \in Nat
  PROVE  /\ Simple(Forward(s, n)) /\ StaysIn(s, Forward(s, n))
         /\ Simple(Backward(s, n)) /\ StaysIn(s, Backward(s, n))
         /\ Simple(CarriageReturn(s)) /\ StaysIn(s, CarriageReturn(s))
<1> DEFINE e == LineEnd(s)
           p == LineStart(s, s.cur)
           f == Smaller(s.cur + n, e)
           b == IF s.cur - n < p THEN p ELSE s.cur - n
<1>1. s \in Screens /\ s.cur \in Nat /\ s.end \in Nat /\ s.cur \in Int
  BY GoodIs DEF Simple
<1>2. e \in Nat /\ e <= s.end
  BY <1>1, LineEndIs
<1>3. p \in Nat /\ p <= s.cur
  <2>1. p \in 0..Len(s.text) /\ p <= s.cur
    BY <1>1, LineStartIs
  <2> HIDE DEF p
  <2> QED BY <1>1, <2>1, ScreenIs
<1>4. Forward(s, n) = [s EXCEPT !.cur = f] /\ CarriageReturn(s) = [s EXCEPT !.cur = p]
  BY DEF Forward, CarriageReturn
<1>5. Backward(s, n) = [s EXCEPT !.cur = b]
  BY <1>1 DEF Backward, Screens
<1> HIDE DEF e, p
<1>6. f \in Nat /\ f <= s.end /\ b \in Nat /\ b <= s.cur
  BY <1>1, <1>2, <1>3 DEF Smaller
<1> HIDE DEF f, b
<1>7. \A c \in Nat : c <= s.cur \/ c <= s.end =>
        Simple([s EXCEPT !.cur = c]) /\ StaysIn(s, [s EXCEPT !.cur = c])
  <2> TAKE c \in Nat
  <2> DEFINE t == [s EXCEPT !.cur = c]
  <2>1. Simple(t) /\ t.cur = c /\ t.end = s.end
    BY <1>1, CursorMoved
  <2> HIDE DEF t
  <2>2. c <= s.cur \/ c <= s.end => StaysIn(s, t)
    BY <1>1, <2>1 DEF StaysIn
  <2> QED BY <2>1, <2>2 DEF t
<1> QED BY <1>3, <1>4, <1>5, <1>6, <1>7

(* To a row and a column.                                                  *)
LEMMA CoordinateGood ==
  ASSUME NEW s, Simple(s), NEW y \in Nat, NEW x \in Nat
  PROVE  Placed(Coordinate(s, y, x))
<1> DEFINE top == [s EXCEPT !.cur = 0]
           row == IF y = 0 THEN top ELSE Down(top, y)
<1>1. Placed(top)
  <2>1. s \in Screens /\ s.end \in Nat /\ 0 \in Nat
    BY GoodIs DEF Simple
  <2>2. Simple(top) /\ top.cur = 0 /\ top.end = s.end
    BY <2>1, CursorMoved
  <2> HIDE DEF top
  <2> QED BY <2>1, <2>2 DEF Placed
<1> HIDE DEF top
<1>2. Placed(row)
  BY <1>1, DownGood DEF Placed
<1>3. Coordinate(s, y, x) = IF x = 0 THEN row ELSE Forward(row, x)
  BY DEF Coordinate, top
<1> HIDE DEF row
<1>4. Simple(Forward(row, x)) /\ StaysIn(row, Forward(row, x))
  BY <1>2, AlongGood DEF Placed
<1> QED BY <1>2, <1>3, <1>4 DEF Placed, StaysIn
-----------------------------------------------------------------------------
(* What is printed and erased.                                             *)

(* Characters, printed in the output or behind it.                         *)
LEMMA PrintedKept ==
  ASSUME NEW s, Good(s), NEW cells \in Seq(Cell), IsOutput(cells)
  PROVE  Kept(Printed(s, cells)) /\ (Simple(s) /\ ~Ahead(s) => Good(Printed(s, cells)))
<1> DEFINE n == Len(cells)
           e == LineEnd(s)
           t == Printed(s, cells)
           m == Smaller(e - s.cur, n)
           u == Erased(s, s.cur, s.cur + m)
<1>1. s \in Screens /\ s.cur \in Nat /\ s.end \in Nat /\ n \in Nat /\ Kept(s)
  BY GoodIs, LenProperties
<1>2. e \in Nat /\ (s.cur <= s.end => s.cur <= e) /\ (Simple(s) => e <= s.end)
  BY <1>1, LineEndIs
<1>3. CASE s.cur = s.end
  <2>1. t = InsertedAt(s, cells) /\ s.cur <= s.end
    BY <1>1, <1>3 DEF Printed
  <2> HIDE DEF t
  <2>2. Good(t)
    BY <2>1, InsertedGood
  <2> QED BY <2>2, GoodIs DEF t
<1>4. CASE s.cur # s.end
  <2>1. t = InsertedAt(u, cells)
    BY <1>4 DEF Printed, Overwritten
  <2> HIDE DEF e, n, t
  <2>2. m \in Int /\ s.cur + m \in Int
    BY <1>1, <1>2 DEF Smaller
  <2>3. Kept(u)
    <3> HIDE DEF m
    <3> QED BY <1>1, <2>2, ErasedKept
  <2>4. Kept(t)
    <3> HIDE DEF u
    <3> QED BY <2>1, <2>3, InsertedKept
  <2>5. ASSUME Simple(s), ~Ahead(s) PROVE Good(t)
    <3>1. m \in Nat /\ s.cur + m <= s.end /\ s.cur + m >= s.cur /\ s.cur < s.end
      BY <1>1, <1>2, <1>4, <2>5 DEF Smaller, Ahead
    <3> HIDE DEF m
    <3>2. Good(u)
      BY <1>1, <2>2, <3>1, ErasedGood
    <3>3. u.cur = s.cur /\ u.end = IF s.cur + m <= s.cur THEN s.end ELSE s.end - ((s.cur + m) - s.cur)
      BY <1>1, <2>2, ErasedIs
    <3>4. u.cur <= u.end
      BY <1>1, <3>1, <3>3
    <3> HIDE DEF u
    <3> QED BY <2>1, <3>2, <3>4, InsertedGood
  <2> QED BY <2>4, <2>5 DEF t
<1> QED BY <1>3, <1>4

(* The line and the display, erased.                                       *)
LEMMA LineErasedKept ==
  ASSUME NEW s, Good(s), NEW mode \in 0..2
  PROVE  LET t == LineErased(s, mode)
         IN  Kept(t) /\ (Simple(s) /\ ~Ahead(s) => Good(t))
<1> DEFINE e == LineEnd(s)
           p == LineStart(s, s.cur)
           t == LineErased(s, mode)
<1>1. s \in Screens /\ s.cur \in Nat /\ s.cur \in Int /\ s.end \in Nat
      /\ (~Ahead(s) => s.cur <= s.end)
  BY GoodIs DEF Ahead
<1>2. e \in Int /\ (Simple(s) => e <= s.end)
  BY <1>1, LineEndIs
<1>3. p \in Nat
  <2>1. p \in 0..Len(s.text)
    BY <1>1, LineStartIs
  <2> HIDE DEF p
  <2> QED BY <1>1, <2>1, ScreenIs
<1>4. \A from \in Nat, to \in Int :
        Kept(Erased(s, from, to)) /\ (to <= s.end => Good(Erased(s, from, to)))
  BY ErasedKept, ErasedGood
<1> HIDE DEF e, p
<1>5. CASE mode = 0
  BY <1>1, <1>2, <1>4, <1>5 DEF LineErased, e
<1>6. CASE mode = 1
  BY <1>1, <1>3, <1>4, <1>6 DEF LineErased, p
<1>7. CASE mode = 2
  BY <1>2, <1>3, <1>4, <1>7 DEF LineErased, e, p
<1> QED BY <1>5, <1>6, <1>7

(* The display, too, unless input is pending.                              *)
LEMMA DisplayErasedKept ==
  ASSUME NEW s, Good(s), NEW mode \in 0..2
  PROVE  LET t == DisplayErased(s, mode)
         IN  Kept(t) /\ (~Ahead(s) /\ ~PendingInput(s) => Good(t))
<1> DEFINE n == Len(s.text)
           t == DisplayErased(s, mode)
<1>1. s \in Screens /\ s.cur \in Nat /\ s.cur \in Int /\ s.end \in Nat /\ n \in Int /\ 0 \in Nat
      /\ (~Ahead(s) => s.cur <= s.end) /\ (~PendingInput(s) => n <= s.end)
  BY GoodIs DEF Ahead, PendingInput
<1>2. \A from \in Nat, to \in Int :
        Kept(Erased(s, from, to)) /\ (to <= s.end => Good(Erased(s, from, to)))
  BY ErasedKept, ErasedGood
<1> HIDE DEF n
<1>3. CASE mode = 0
  BY <1>1, <1>2, <1>3 DEF DisplayErased, n
<1>4. CASE mode = 1
  BY <1>1, <1>2, <1>4 DEF DisplayErased
<1>5. CASE mode = 2
  BY <1>1, <1>2, <1>5 DEF DisplayErased, n
<1> QED BY <1>3, <1>4, <1>5

(* OutputLines, printed at the end of the output or in it.                    *)
LEMMA NewlineGood ==
  ASSUME NEW s, Good(s)
  PROVE  /\ s.cur = s.end => Good(InsertedAt(s, <<NL>>))
         /\ Simple(s) => Good(Down(CarriageReturn(s), 1))
<1>1. <<NL>> \in Seq(Cell) /\ IsOutput(<<NL>>)
  BY DEF Cell, IsOutput, NL, Inputs, Input, InputNL
<1>2. s.cur = s.end => s.cur <= s.end
  BY GoodIs
<1>3. s.cur = s.end => Good(InsertedAt(s, <<NL>>))
  BY <1>1, <1>2, InsertedGood
<1>4. Simple(s) => Simple(CarriageReturn(s))
  <2>1. 0 \in Nat
    OBVIOUS
  <2> QED BY <2>1, AlongGood
<1>5. ASSUME Simple(s) PROVE Good(Down(CarriageReturn(s), 1))
  <2>1. Placed(Down(CarriageReturn(s), 1))
    BY <1>4, <1>5, DownGood
  <2> QED BY <2>1 DEF Placed, Simple
<1> QED BY <1>3, <1>5

(* Nothing of the screen is input any more.                                *)
LEMMA TakenIs ==
  ASSUME Good(screen)
  PROVE  /\ Len(Taken) = Len(screen.text)
         /\ \A c \in Nat : /\ Good(AllOutput(c)) /\ AllOutput(c).text = Append(Taken, NL)
                           /\ \A k \in 1..Len(screen.text) : screen.text[k] = NL => Taken[k] = NL
                           /\ Taken \in Seq(Cell)
<1> DEFINE n == Len(screen.text)
           new == Append(Taken, NL)
<1>1. n \in Nat /\ CellsOf(screen) = 1..n /\ screen.text \in Seq(Cell) /\ screen \in Screens
      /\ ~screen.strayed /\ screen.strayed \in BOOLEAN
  BY ScreenIs, GoodIs
<1>2. /\ Taken \in Seq(Cell) /\ Len(Taken) = n /\ \A i \in 1..n : Taken[i] \notin Inputs
      /\ \A k \in 1..n : screen.text[k] = NL => Taken[k] = NL
  <2> DEFINE Put(c) == IF c = Input THEN "a" ELSE IF c = InputNL THEN NL ELSE c
  <2>1. Taken = [k \in 1..n |-> Put(screen.text[k])]
    <3>1. Input # InputNL
      BY DEF Input, InputNL
    <3>2. \A x : (CASE x = Input -> "a" [] x = InputNL -> NL [] OTHER -> x) = Put(x)
      BY <3>1
    <3> HIDE DEF Put
    <3> QED BY <1>1, <3>2 DEF Taken
  <2>2. \A c \in Cell : Put(c) \in Cell /\ Put(c) \notin Inputs
    BY DEF Cell, Chars, Inputs, Input, InputNL, NL
  <2>3. \A k \in 1..n : screen.text[k] \in Cell
    BY <1>1, ElementOfSeq
  <2>4. Put(NL) = NL
    BY DEF NL, Input, InputNL
  <2> HIDE DEF n, Put
  <2>5. /\ Taken = [k \in 1..n |-> Put(screen.text[k])]
        /\ \A k \in 1..n : Put(screen.text[k]) \in Cell /\ Put(screen.text[k]) \notin Inputs
    BY <2>1, <2>2, <2>3
  <2> QED BY <1>1, <2>4, <2>5
<1>3. NL \in Cell /\ NL \notin Inputs
  BY DEF Cell, NL, Inputs, Input, InputNL
<1>4. new \in Seq(Cell) /\ Len(new) = n + 1 /\ \A i \in 1..(n + 1) : new[i] \notin Inputs
  <2> HIDE DEF n, new
  <2>1. /\ new \in Seq(Cell) /\ Len(new) = n + 1 /\ new[n + 1] = NL
        /\ \A i \in 1..n : new[i] = Taken[i]
    BY <1>2, <1>3, AppendProperties DEF new
  <2>2. \A i \in 1..(n + 1) : i = n + 1 \/ i \in 1..n
    BY <1>1
  <2> QED BY <1>2, <1>3, <2>1, <2>2
<1>5. ASSUME NEW c \in Nat
      PROVE  Good(AllOutput(c)) /\ AllOutput(c).text = new
  <2> DEFINE t == AllOutput(c)
  <2>0. t = [screen EXCEPT !.text = new, !.end = n + 1, !.cur = c]
    BY <1>2 DEF AllOutput
  <2> HIDE DEF n, new, t
  <2>1. n + 1 \in Int /\ n + 1 \in 0..(n + 1) /\ \A i \in 1..(n + 1) : ~(i > n + 1)
    BY <1>1
  <2>2. t \in Screens /\ t.text = new /\ t.end = n + 1 /\ ~t.strayed
    BY <1>1, <1>4, <2>0, <2>1 DEF Screens
  <2>3. Good(t)
    BY <1>4, <2>1, <2>2 DEF Good
  <2> QED BY <2>2, <2>3 DEF t
<1> QED BY <1>2, <1>5

(* A character of the input, and its end.                                  *)
LEMMA TypedGood ==
  ASSUME NEW s, Good(s), NEW c \in Inputs
  PROVE  /\ Good([s EXCEPT !.text = Append(@, c)])
         /\ Good([s EXCEPT !.text = SubSeq(@, 1, s.end), !.cur = s.end])
<1> DEFINE n == Len(s.text)
           new == Append(s.text, c)
           part == SubSeq(s.text, 1, s.end)
           t == [s EXCEPT !.text = new]
           u == [s EXCEPT !.text = part, !.cur = s.end]
<1>1. s \in Screens /\ ~s.strayed /\ s.text \in Seq(Cell) /\ n \in Nat /\ s.end \in 0..n /\ s.end \in Nat
      /\ \A k \in 1..n : s.text[k] \in Inputs <=> k > s.end
  BY ScreenIs DEF Good
<1>2. Good(t)
  <2>1. new \in Seq(Cell) /\ Len(new) = n + 1
        /\ \A k \in 1..(n + 1) : new[k] = IF k <= n THEN s.text[k] ELSE c
    <3>1. c \in Cell
      BY DEF Cell
    <3>2. \A k \in 1..(n + 1) : k \in 1..n <=> k <= n
      BY <1>1
    <3>3. \A k \in 1..(n + 1) : k <= n \/ k = n + 1
      BY <1>1
    <3>4. ~(n + 1 <= n)
      BY <1>1
    <3> HIDE DEF n, new
    <3>5. /\ new \in Seq(Cell) /\ Len(new) = n + 1 /\ new[n + 1] = c
          /\ \A k \in 1..n : new[k] = s.text[k]
      BY <1>1, <3>1, AppendProperties DEF n, new
    <3> QED BY <3>2, <3>3, <3>4, <3>5
  <2>2. \A k \in 1..(n + 1) : (k <= n <=> k \in 1..n) /\ (~(k <= n) => k > s.end)
    BY <1>1
  <2>3. s.end \in 0..(n + 1)
    BY <1>1
  <2> HIDE DEF n, new
  <2>4. t.text = new /\ t.end = s.end /\ t \in Screens /\ ~t.strayed
    BY <1>1, <2>1 DEF Screens
  <2> HIDE DEF t
  <2> QED BY <1>1, <2>1, <2>2, <2>3, <2>4 DEF Good
<1>3. Good(u)
  <2>1. part \in Seq(Cell) /\ Len(part) = s.end /\ \A k \in 1..s.end : part[k] = s.text[k]
    BY <1>1
  <2>2. \A k \in 1..s.end : k \in 1..n /\ ~(k > s.end)
    BY <1>1
  <2>3. s.end \in 0..s.end
    BY <1>1
  <2> HIDE DEF n, part
  <2>4. u.text = part /\ u.end = s.end /\ u \in Screens /\ ~u.strayed
    BY <1>1, <2>1 DEF Screens
  <2> HIDE DEF u
  <2> QED BY <1>1, <2>1, <2>2, <2>3, <2>4 DEF Good
<1> QED BY <1>2, <1>3

(* The last of the output, kept.                                           *)
LEMMA ClearedGood ==
  ASSUME NEW s, Good(s), NEW kept \in Nat, kept <= s.end
  PROVE  Good([s EXCEPT !.text = SubSeq(@, s.end - kept + 1, s.end), !.end = kept])
<1> DEFINE n == Len(s.text)
           from == s.end - kept
           part == SubSeq(s.text, from + 1, s.end)
           t == [s EXCEPT !.text = part, !.end = kept]
<1>1. s \in Screens /\ ~s.strayed /\ s.text \in Seq(Cell) /\ n \in Nat /\ s.end \in 0..n /\ s.end \in Nat
      /\ \A k \in 1..n : s.text[k] \in Inputs <=> k > s.end
  BY ScreenIs DEF Good
<1>2. from \in Nat /\ s.end \in from..n /\ s.end - from = kept
  BY <1>1
<1> HIDE DEF from
<1>3. part \in Seq(Cell) /\ Len(part) = kept /\ \A k \in 1..kept : part[k] = s.text[from + k]
  <2>1. s.end \in from..Len(s.text)
    BY <1>2
  <2>2. part \in Seq(Cell) /\ Len(part) = s.end - from
        /\ \A k \in 1..(s.end - from) : part[k] = s.text[from + k]
    BY <1>1, <1>2, <2>1, PartBehind
  <2> QED BY <1>2, <2>2
<1>4. \A k \in 1..kept : from + k \in 1..n /\ ~(from + k > s.end) /\ ~(k > kept)
  BY <1>1, <1>2
<1>5. kept \in 0..kept /\ kept \in Int
  OBVIOUS
<1>6. Good(t)
  <2> HIDE DEF n, part
  <2>1. t.text = part /\ t.end = kept /\ t \in Screens /\ ~t.strayed
    BY <1>1, <1>3, <1>5 DEF Screens
  <2> HIDE DEF t
  <2> QED BY <1>1, <1>3, <1>4, <1>5, <2>1 DEF Good
<1> QED BY <1>1, <1>6 DEF from, Screens
-----------------------------------------------------------------------------
(* Cells that show something.                                              *)

Shows(c) == c \notin {Blanks, NL, InputNL}

\* What Visible's recursive function is.
IsVisible(f, s) ==
  /\ f[0] = <<>>
  /\ \A k \in 1..Len(s) : f[k] = IF Shows(s[k]) THEN Append(f[k - 1], s[k]) ELSE f[k - 1]

(* The function that Visible is defined by exists.                         *)
LEMMA VisibleIs ==
  ASSUME NEW s \in Seq(Cell)
  PROVE  \E f : IsVisible(f, s) /\ Visible(s) = f[Len(s)]
<1> DEFINE n == Len(s)
           More(q, k) == IF s[k] \in {Blanks, NL, InputNL} THEN q ELSE Append(q, s[k])
           Body(f, k) == IF k = 0 THEN <<>> ELSE More(f[k - 1], k)
           F == CHOOSE f : f = [k \in 0..n |-> Body(f, k)]
           T == Seq(Cell)
           step == [p \in T \X (1..n) |-> More(p[1], p[2])]
<1>1. Visible(s) = F[n]
  BY DEF Visible
<1>2. n \in Nat /\ \A k \in 1..n : s[k] \in Cell
  BY LenProperties, ElementOfSeq
<1>3. <<>> \in T /\ \A q \in T, k \in 1..n : More(q, k) \in T
  BY <1>2, AppendProperties, EmptySeq
<1> HIDE DEF More, T
<1>4. /\ step \in [T \X (1..n) -> T]
      /\ \A q \in T, k \in 1..n : step[<<q, k>>] = More(q, k)
  BY <1>3
<1> HIDE DEF step
<1>5. PICK f \in [0..n -> T] : f[0] = <<>> /\ \A k \in 1..n : f[k] = step[<<f[k - 1], k>>]
  <2>1. PICK f \in [0..n -> T] : Recursive(f, <<>>, step, n)
    BY <1>2, <1>3, <1>4, PrimitiveRecursion
  <2> QED BY <2>1 DEF Recursive
<1>6. \A k \in 1..n : k - 1 \in 0..n /\ f[k] = More(f[k - 1], k)
  <2>1. \A k \in 1..n : k - 1 \in 0..n
    BY <1>2
  <2> QED BY <1>4, <1>5, <2>1
<1>7. f = [k \in 0..n |-> Body(f, k)]
  <2>1. \A k \in 0..n : f[k] = Body(f, k)
    <3> TAKE k \in 0..n
    <3>1. k = 0 \/ k \in 1..n
      BY <1>2
    <3> QED BY <1>5, <1>6, <3>1
  <2>2. f = [k \in 0..n |-> f[k]]
    BY <1>5
  <2> QED BY <2>1, <2>2
<1>8. F = [k \in 0..n |-> Body(F, k)]
  BY <1>7
<1> HIDE DEF F
<1>9. F[0] = <<>> /\ \A k \in 1..n : F[k] = More(F[k - 1], k)
  <2>1. 0 \in 0..n /\ \A k \in 1..n : k \in 0..n /\ k # 0
    BY <1>2
  <2>2. \A k \in 0..n : F[k] = Body(F, k)
    <3> HIDE DEF Body
    <3> QED BY <1>8
  <2> QED BY <2>1, <2>2
<1>10. IsVisible(F, s)
  BY <1>9 DEF IsVisible, More, Shows
<1> QED BY <1>1, <1>10

\* t is s with m cells put in behind place p.
PutBetween(t, s, p, m) ==
  /\ Len(t) = Len(s) + m
  /\ \A i \in 1..(Len(s) + m) :
       /\ i <= p => t[i] = s[i]
       /\ i > p + m => t[i] = s[i - m]

\* And these show nothing.
BlankBetween(t, p, m) == \A i \in 1..Len(t) : i > p /\ i <= p + m => ~Shows(t[i])

(* Cells that show nothing may be put in anywhere.                         *)
LEMMA BlanksInvisible ==
  ASSUME NEW s \in Seq(Cell), NEW t \in Seq(Cell), NEW p \in 0..Len(s), NEW m \in Nat,
         PutBetween(t, s, p, m), BlankBetween(t, p, m)
  PROVE  Visible(t) = Visible(s)
<1> DEFINE n == Len(s)
           Source(i) == IF i <= p THEN i ELSE IF i <= p + m THEN p ELSE i - m
<1>1. n \in Nat /\ p \in 0..n /\ Len(t) = n + m
  BY LenProperties DEF PutBetween
<1>2. PICK f : IsVisible(f, s) /\ Visible(s) = f[n]
  BY VisibleIs
<1>3. PICK g : IsVisible(g, t) /\ Visible(t) = g[n + m]
  BY <1>1, VisibleIs
<1>4. /\ f[0] = <<>>
      /\ \A k \in 1..n : f[k] = IF Shows(s[k]) THEN Append(f[k - 1], s[k]) ELSE f[k - 1]
  BY <1>2 DEF IsVisible
<1>5. /\ g[0] = <<>>
      /\ \A k \in 1..(n + m) : g[k] = IF Shows(t[k]) THEN Append(g[k - 1], t[k]) ELSE g[k - 1]
  BY <1>1, <1>3 DEF IsVisible
<1>6. \A i \in 1..(n + m) : /\ i <= p => t[i] = s[i]
                            /\ i > p + m => t[i] = s[i - m]
                            /\ i > p /\ i <= p + m => ~Shows(t[i])
  BY <1>1 DEF PutBetween, BlankBetween
<1> DEFINE S == {i \in Nat : i <= n + m => g[i] = f[Source(i)]}
<1> HIDE DEF n
<1>7. 0 \in S
  <2>1. Source(0) = 0 /\ 0 \in Nat
    BY <1>1
  <2> HIDE DEF Source
  <2> QED BY <1>4, <1>5, <2>1
<1>8. ASSUME NEW i \in S PROVE i + 1 \in S
  <2> SUFFICES ASSUME i + 1 <= n + m PROVE g[i + 1] = f[Source(i + 1)]
    OBVIOUS
  <2>1. i \in Nat /\ i + 1 \in 1..(n + m) /\ (i + 1) - 1 = i /\ g[i] = f[Source(i)]
    <3>1. i <= n + m
      BY <1>1
    <3> QED BY <1>1, <3>1
  <2>2. g[i + 1] = IF Shows(t[i + 1]) THEN Append(g[i], t[i + 1]) ELSE g[i]
    BY <1>5, <2>1
  <2>3. CASE i + 1 <= p
    <3>1. Source(i) = i /\ Source(i + 1) = i + 1 /\ i + 1 \in 1..n
      BY <1>1, <2>1, <2>3
    <3>2. t[i + 1] = s[i + 1]
      BY <1>6, <2>1, <2>3
    <3> HIDE DEF Source
    <3> QED BY <1>4, <2>1, <2>2, <3>1, <3>2
  <2>4. CASE i + 1 > p /\ i + 1 <= p + m
    <3>1. Source(i) = p /\ Source(i + 1) = p
      BY <1>1, <2>1, <2>4
    <3>2. ~Shows(t[i + 1])
      BY <1>6, <2>1, <2>4
    <3> HIDE DEF Source
    <3> QED BY <2>1, <2>2, <3>1, <3>2
  <2>5. CASE i + 1 > p + m
    <3>1. /\ Source(i) = i - m /\ Source(i + 1) = (i + 1) - m
          /\ (i + 1) - m \in 1..n /\ ((i + 1) - m) - 1 = i - m
      <4>1. Source(i + 1) = (i + 1) - m
        BY <1>1, <2>1, <2>5
      <4>2. Source(i) = i - m
        BY <1>1, <2>1, <2>5
      <4>3. (i + 1) - m \in 1..n /\ ((i + 1) - m) - 1 = i - m
        BY <1>1, <2>1, <2>5
      <4> QED BY <4>1, <4>2, <4>3
    <3>2. t[i + 1] = s[(i + 1) - m]
      BY <1>6, <2>1, <2>5
    <3> HIDE DEF Source
    <3> QED BY <1>4, <2>1, <2>2, <3>1, <3>2
  <2> QED BY <1>1, <2>1, <2>3, <2>4, <2>5
<1>9. g[n + m] = f[n]
  <2>1. S = Nat
    <3>1. S \in SUBSET Nat
      OBVIOUS
    <3> HIDE DEF S
    <3> QED BY <1>7, <1>8, <3>1, SetInduction
  <2>2. n + m \in S /\ n + m <= n + m
    BY <1>1, <2>1
  <2>3. Source(n + m) = n
    BY <1>1
  <2> HIDE DEF Source
  <2> QED BY <2>2, <2>3
<1> QED BY <1>2, <1>3, <1>9 DEF n
-----------------------------------------------------------------------------
(* The newlines of the output.                                            *)

NewlineCount(s) == Cardinality(OutputLines(s))

(* Their number.                                                           *)
LEMMA NewlinesIs ==
  ASSUME NEW s \in Screens
  PROVE  NewlineCount(s) \in Nat /\ IsFiniteSet(OutputLines(s))
<1>1. OutputLines(s) \in SUBSET (1..Len(s.text)) /\ 1 \in Int /\ Len(s.text) \in Int
  BY ScreenIs
<1>2. IsFiniteSet(OutputLines(s))
  BY <1>1, FS_Interval, FS_Subset
<1> QED BY <1>2, FS_CardinalityType DEF NewlineCount

\* The newlines of s stand in t where f says, each at a place of its own.
Carries(f, s, t) ==
  /\ \A k \in OutputLines(s) : f[k] \in OutputLines(t)
  /\ \A j, k \in OutputLines(s) : f[j] = f[k] => j = k

(* So there are no fewer of them.                                          *)
LEMMA NoneLost ==
  ASSUME NEW s \in Screens, NEW t \in Screens, NEW f, Carries(f, s, t)
  PROVE  NewlineCount(s) <= NewlineCount(t)
<1> DEFINE g == [k \in OutputLines(s) |-> f[k]]
<1>1. g \in Injection(OutputLines(s), OutputLines(t))
  BY DEF Carries, Injection, IsInjective
<1>2. IsFiniteSet(OutputLines(t))
  BY NewlinesIs
<1> QED BY <1>1, <1>2, FS_Injection DEF NewlineCount

(* Nor by what is inserted.                                                *)
LEMMA InsertedLines ==
  ASSUME NEW s \in Screens, NEW cells \in Seq(Cell)
  PROVE  NewlineCount(s) <= NewlineCount(InsertedAt(s, cells))
<1> DEFINE t == InsertedAt(s, cells)
           n == Len(cells)
           len == Len(s.text)
           p == ClipTo(s, s.cur)
           f == [k \in 1..len |-> IF k <= p THEN k ELSE k + n]
<1>1. /\ t \in Screens /\ n \in Nat /\ Len(t.text) = len + n
      /\ \A i \in 1..(len + n) :
           t.text[i] = IF i <= p THEN s.text[i]
                       ELSE IF i <= p + n THEN cells[i - p] ELSE s.text[i - n]
  BY InsertedAtIs
<1>2. len \in Nat /\ p \in 0..len /\ OutputLines(s) = {k \in 1..len : s.text[k] = NL}
  BY ScreenIs, ClipToIs
<1> HIDE DEF t, p, len, n
<1>3. OutputLines(t) = {k \in 1..(len + n) : t.text[k] = NL}
  BY <1>1, ScreenIs
<1>4. ASSUME NEW k \in OutputLines(s) PROVE f[k] \in OutputLines(t)
  <2>1. k \in 1..len /\ s.text[k] = NL
    BY <1>2
  <2>2. CASE k <= p
    <3>1. f[k] = k /\ k \in 1..(len + n)
      BY <1>1, <1>2, <2>1, <2>2
    <3> QED BY <1>1, <1>3, <2>1, <2>2, <3>1
  <2>3. CASE ~(k <= p)
    <3>1. f[k] = k + n /\ k + n \in 1..(len + n) /\ ~(k + n <= p) /\ ~(k + n <= p + n)
          /\ (k + n) - n = k
      BY <1>1, <1>2, <2>1, <2>3
    <3> HIDE DEF f
    <3> QED BY <1>1, <1>3, <2>1, <3>1
  <2> QED BY <2>2, <2>3
<1>5. ASSUME NEW j \in OutputLines(s), NEW k \in OutputLines(s), f[j] = f[k] PROVE j = k
  <2>1. j \in 1..len /\ k \in 1..len
    BY <1>2
  <2> QED BY <1>1, <1>2, <1>5, <2>1
<1> HIDE DEF f
<1>6. Carries(f, s, t)
  BY <1>4, <1>5 DEF Carries
<1> QED BY <1>1, <1>6, NoneLost DEF t

\* Places from + 1 to to of s, where no line ends.
OneLine(s, from, to) ==
  \A k \in 1..Len(s.text) : k > from /\ k <= to => s.text[k] # NL

(* Nor by what is erased within a line.                                    *)
LEMMA ErasedLines ==
  ASSUME NEW s \in Screens, NEW from \in Int, NEW to \in Int, OneLine(s, from, to)
  PROVE  NewlineCount(s) <= NewlineCount(Erased(s, from, to))
<1> DEFINE t == Erased(s, from, to)
           len == Len(s.text)
           a == ClipTo(s, from)
           b == ClipTo(s, to)
           d == b - a
           x == CutOut(s.text, a, b)
           f == [k \in 1..len |-> IF k <= a THEN k ELSE k - d]
<1>1. /\ s.text \in Seq(Cell) /\ len \in Nat /\ OutputLines(s) = {k \in 1..len : s.text[k] = NL}
      /\ t \in Screens
  BY ScreenIs, ErasedIs
<1>2. CASE to <= from
  <2>1. t = s /\ NewlineCount(s) \in Nat
    BY <1>2, NewlinesIs DEF Erased
  <2> QED BY <2>1
<1>3. CASE ~(to <= from)
  <2>1. t.text = x
    <3> DEFINE e == s.end - (to - from)
               g == s.strayed \/ to > s.end
    <3>1. t = [s EXCEPT !.text = x, !.end = e, !.strayed = g]
      BY <1>3 DEF Erased, CutOut, Screens
    <3> HIDE DEF x, e, g, t
    <3> QED BY <3>1 DEF Screens
  <2>2. /\ a \in 0..len /\ b \in a..len
        /\ \A k \in 1..len : k > a /\ k <= b => k > from /\ k <= to
    BY <1>1, <1>3 DEF ClipTo, Smaller
  <2>3. /\ x \in Seq(Cell) /\ Len(x) = len - d
        /\ \A i \in 1..(len - d) : x[i] = IF i <= a THEN s.text[i] ELSE s.text[i + d]
    <3> HIDE DEF a, b
    <3>1. \A v \in Seq(Cell) : \A y \in 0..Len(v) : \A z \in y..Len(v) :
            /\ CutOut(v, y, z) \in Seq(Cell) /\ Len(CutOut(v, y, z)) = Len(v) - (z - y)
            /\ \A i \in 1..(Len(v) - (z - y)) :
                 CutOut(v, y, z)[i] = IF i <= y THEN v[i] ELSE v[i + (z - y)]
      BY CutOutIs
    <3> QED BY <1>1, <2>2, <3>1
  <2>4. d \in Nat /\ a + d = b
    BY <1>1, <2>2
  <2> HIDE DEF t, a, b, d, x, len
  <2>5. OutputLines(t) = {k \in 1..(len - d) : x[k] = NL}
    BY <1>1, <2>1, <2>3, ScreenIs
  <2>6. ASSUME NEW k \in OutputLines(s) PROVE k \in 1..len /\ s.text[k] = NL /\ (k <= a \/ k > b)
    <3>1. k \in 1..len /\ s.text[k] = NL
      BY <1>1, <2>6
    <3>2. ~(k > a /\ k <= b)
      BY <2>2, <3>1 DEF OneLine, len
    <3> QED BY <2>2, <3>1, <3>2
  <2>7. ASSUME NEW k \in OutputLines(s) PROVE f[k] \in OutputLines(t)
    <3>1. CASE k <= a
      <4>1. f[k] = k /\ k \in 1..(len - d)
        BY <1>1, <2>2, <2>4, <2>6, <3>1
      <4> QED BY <2>3, <2>5, <2>6, <3>1, <4>1
    <3>2. CASE ~(k <= a)
      <4>1. f[k] = k - d /\ k - d \in 1..(len - d) /\ ~(k - d <= a) /\ (k - d) + d = k
        BY <1>1, <2>2, <2>4, <2>6, <3>2
      <4> HIDE DEF f
      <4> QED BY <2>3, <2>5, <2>6, <4>1
    <3> QED BY <3>1, <3>2
  <2>8. ASSUME NEW j \in OutputLines(s), NEW k \in OutputLines(s), f[j] = f[k] PROVE j = k
    <3>1. j \in 1..len /\ k \in 1..len /\ (j <= a \/ j > b) /\ (k <= a \/ k > b)
      BY <2>6
    <3> QED BY <1>1, <2>2, <2>4, <2>8, <3>1
  <2> HIDE DEF f
  <2>9. Carries(f, s, t)
    BY <2>7, <2>8 DEF Carries
  <2> QED BY <1>1, <2>9, NoneLost DEF t
<1> QED BY <1>2, <1>3
-----------------------------------------------------------------------------
(* Movements draw nothing.                                                 *)

\* t is s with blanks and newlines more.
Blanked(s, t) ==
  /\ Sound(s) /\ Sound(t) /\ Visible(t.text) = Visible(s.text)
  /\ Len(t.text) >= Len(s.text) /\ NewlineCount(s) <= NewlineCount(t)

(* Twice as well.                                                          *)
LEMMA BlankedTwice ==
  ASSUME NEW s, NEW t, NEW u, Blanked(s, t), Blanked(t, u)
  PROVE  Blanked(s, u)
<1>1. /\ Len(s.text) \in Nat /\ Len(t.text) \in Nat /\ Len(u.text) \in Nat
      /\ NewlineCount(s) \in Nat /\ NewlineCount(t) \in Nat /\ NewlineCount(u) \in Nat
  BY ScreenIs, NewlinesIs DEF Blanked, Sound, Kept
<1>2. /\ Len(t.text) >= Len(s.text) /\ NewlineCount(s) <= NewlineCount(t)
      /\ Len(u.text) >= Len(t.text) /\ NewlineCount(t) <= NewlineCount(u)
  BY DEF Blanked
<1>3. Len(u.text) >= Len(s.text) /\ NewlineCount(s) <= NewlineCount(u)
  BY <1>1, <1>2
<1> QED BY <1>3 DEF Blanked

(* Another cursor on the same text.                                        *)
LEMMA BlankedMoved ==
  ASSUME NEW s, Sound(s), NEW c \in Nat
  PROVE  Blanked(s, [s EXCEPT !.cur = c]) /\ Blanked(s, s)
<1> DEFINE t == [s EXCEPT !.cur = c]
<1>1. s \in Screens /\ t \in Screens /\ t.text = s.text /\ Sound(t)
  BY CursorMoved DEF Sound, Kept
<1> HIDE DEF t
<1>2. OutputLines(t) = OutputLines(s) /\ NewlineCount(s) \in Nat /\ Len(s.text) \in Nat
  BY <1>1, ScreenIs, NewlinesIs
<1>3. NewlineCount(t) = NewlineCount(s)
  BY <1>2 DEF NewlineCount
<1>4. Blanked(s, t) /\ Blanked(s, s)
  BY <1>1, <1>2, <1>3 DEF Blanked
<1> QED BY <1>4 DEF t

AllBlank(cells) == \A i \in 1..Len(cells) : ~Shows(cells[i])

(* Blanks and newlines, wherever.                                          *)
LEMMA BlankedInserted ==
  ASSUME NEW s, Sound(s), NEW cells \in Seq(Cell), IsOutput(cells), AllBlank(cells)
  PROVE  Blanked(s, InsertedAt(s, cells))
<1> DEFINE t == InsertedAt(s, cells)
           n == Len(cells)
           p == ClipTo(s, s.cur)
           len == Len(s.text)
<1>1. s \in Screens /\ s.text \in Seq(Cell) /\ len \in Nat /\ s.cur \in Int
  BY ScreenIs DEF Sound, Kept
<1>2. /\ t \in Screens /\ n \in Nat /\ Len(t.text) = len + n
      /\ \A i \in 1..(len + n) :
           t.text[i] = IF i <= p THEN s.text[i]
                       ELSE IF i <= p + n THEN cells[i - p] ELSE s.text[i - n]
  BY <1>1, InsertedAtIs
<1>3. Sound(t)
  BY InsertedKept DEF Sound
<1>4. t.text \in Seq(Cell)
  BY <1>2, ScreenIs
<1>5. NewlineCount(s) <= NewlineCount(t)
  BY <1>1, InsertedLines
<1>6. p \in 0..len
  BY <1>1, ClipToIs
<1> HIDE DEF t, n, p, len
<1>7. PutBetween(t.text, s.text, p, n)
  <2>1. \A i \in 1..(len + n) : i > p + n => ~(i <= p) /\ ~(i <= p + n)
    BY <1>1, <1>2, <1>6
  <2> QED BY <1>2, <2>1 DEF PutBetween, len
<1>8. BlankBetween(t.text, p, n)
  <2>1. \A i \in 1..(len + n) : i > p /\ i <= p + n => ~(i <= p) /\ i - p \in 1..n
    BY <1>1, <1>2, <1>6
  <2> QED BY <1>2, <2>1 DEF BlankBetween, AllBlank, n
<1>9. Visible(t.text) = Visible(s.text)
  BY <1>1, <1>2, <1>4, <1>6, <1>7, <1>8, BlanksInvisible DEF len
<1>10. Len(t.text) >= Len(s.text)
  BY <1>1, <1>2 DEF len
<1> QED BY <1>3, <1>5, <1>9, <1>10 DEF Blanked, t

(* To a column, on a line that is long enough or not.                      *)
LEMMA BlankedToColumn ==
  ASSUME NEW s, Sound(s), NEW column \in Nat
  PROVE  Blanked(s, ToColumn(s, column))
<1> DEFINE e == LineEnd(s)
           missing == s.cur + column - e
           t == ToColumn(s, column)
<1>1. s \in Screens /\ s.cur \in Nat /\ e \in Nat
  BY ScreenIs, LineEndIs DEF Sound, Kept
<1> HIDE DEF e
<1>2. CASE missing > 0
  <2> DEFINE u == [s EXCEPT !.cur = e]
             blanks == [k \in 1..missing |-> Blanks]
  <2>1. missing \in Nat
    BY <1>1, <1>2
  <2>2. Sound(u) /\ Blanked(s, u)
    BY <1>1, CursorMoved, BlankedMoved
  <2>3. blanks \in Seq(Cell) /\ IsOutput(blanks) /\ AllBlank(blanks)
    <3> HIDE DEF missing
    <3>1. Blanks \in Cell /\ Blanks \notin Inputs /\ ~Shows(Blanks)
      BY DEF Cell, Blanks, Inputs, Input, InputNL, Shows
    <3>2. blanks \in Seq(Cell) /\ Len(blanks) = missing /\ \A i \in 1..missing : blanks[i] = Blanks
      BY <2>1, <3>1
    <3> QED BY <3>1, <3>2 DEF IsOutput, AllBlank
  <2>4. t = InsertedAt(u, blanks)
    BY <1>2 DEF ToColumn, e
  <2> HIDE DEF u, blanks, missing, t
  <2>5. Blanked(u, t)
    BY <2>2, <2>3, <2>4, BlankedInserted
  <2> QED BY <2>2, <2>5, BlankedTwice DEF t
<1>3. CASE ~(missing > 0)
  <2> DEFINE c == s.cur + column
  <2>1. t = [s EXCEPT !.cur = c] /\ c \in Nat
    BY <1>1, <1>3 DEF ToColumn, e, Screens
  <2> HIDE DEF t, c
  <2> QED BY <2>1, BlankedMoved DEF t
<1> QED BY <1>2, <1>3

(* To the next line.                                                       *)
LEMMA BlankedNextLine ==
  ASSUME NEW s, Sound(s)
  PROVE  Blanked(s, NextLine(s))
<1> DEFINE e == LineEnd(s)
           t == NextLine(s)
<1>1. s \in Screens /\ s.end \in Nat /\ e + 1 \in Nat
  BY LineEndIs DEF Sound, Kept
<1>2. CASE HasLineEnd(s)
  <2>1. t = [s EXCEPT !.cur = e + 1]
    BY <1>2 DEF NextLine
  <2> HIDE DEF t, e
  <2> QED BY <1>1, <2>1, BlankedMoved DEF t
<1>3. CASE ~HasLineEnd(s)
  <2> DEFINE u == [s EXCEPT !.cur = s.end]
             n == <<NL>>
  <2>1. Sound(u) /\ Blanked(s, u)
    BY <1>1, CursorMoved, BlankedMoved
  <2>2. n \in Seq(Cell) /\ IsOutput(n) /\ AllBlank(n)
    BY DEF Cell, NL, Inputs, Input, InputNL, IsOutput, AllBlank, Shows
  <2>3. t = InsertedAt(u, n)
    BY <1>3 DEF NextLine
  <2> HIDE DEF u, n, t
  <2>4. Blanked(u, t)
    BY <2>1, <2>2, <2>3, BlankedInserted
  <2> QED BY <2>1, <2>4, BlankedTwice DEF t
<1> QED BY <1>2, <1>3

(* Down.                                                                   *)
LEMMA BlankedDown ==
  ASSUME NEW s, Sound(s), NEW n \in Nat
  PROVE  Blanked(s, Down(s, n))
<1> DEFINE T == {t \in Screens : Blanked(s, t)}
<1>1. Downward(T) /\ s \in T
  <2>1. s \in T
    <3>1. s \in Screens /\ s.cur \in Nat
      BY ScreenIs DEF Sound, Kept
    <3> QED BY <3>1, BlankedMoved
  <2>2. ASSUME NEW t \in T PROVE NextLine(t) \in T
    <3>1. Blanked(t, NextLine(t))
      BY BlankedNextLine DEF Blanked
    <3>2. Blanked(s, NextLine(t)) /\ NextLine(t) \in Screens
      BY <3>1, BlankedTwice DEF Blanked, Sound, Kept
    <3> QED BY <3>2
  <2> QED BY <2>1, <2>2 DEF Downward
<1> HIDE DEF T
<1>2. PICK w \in T : Down(s, n) = ToColumn(w, Column(s))
  BY <1>1, BelowIs
<1>3. Sound(w) /\ Blanked(s, w)
  BY DEF T, Blanked
<1>4. Column(s) \in Nat
  BY ColumnIs DEF Sound, Kept
<1>5. Blanked(w, Down(s, n))
  BY <1>2, <1>3, <1>4, BlankedToColumn
<1> QED BY <1>3, <1>5, BlankedTwice

(* Up.                                                                     *)
LEMMA BlankedUp ==
  ASSUME NEW s, Sound(s), NEW n \in Nat
  PROVE  Blanked(s, Up(s, n))
<1> DEFINE most == (Height - 1) - Cardinality(LinesBelow(s))
           moves == Smaller(n, most)
           many == Cardinality(LinesAbove(s))
           c == Column(s)
<1>1. s \in Screens /\ s.cur \in Nat /\ 0 \in Nat /\ c \in Nat
  BY ScreenIs, ColumnIs DEF Sound, Kept
<1>2. CASE moves < 1 \/ LinesAbove(s) = {}
  <2>1. Up(s, n) = s
    BY <1>2 DEF Up
  <2> QED BY <1>1, <2>1, BlankedMoved
<1>3. CASE ~(moves < 1 \/ LinesAbove(s) = {}) /\ moves > many
  <2>1. Up(s, n) = [s EXCEPT !.cur = 0]
    BY <1>3 DEF Up
  <2> QED BY <1>1, <2>1, BlankedMoved
<1>4. CASE ~(moves < 1 \/ LinesAbove(s) = {}) /\ ~(moves > many)
  <2> DEFINE p == StartAbove(s, moves)
             w == [s EXCEPT !.cur = p]
  <2>1. Up(s, n) = ToColumn(w, c)
    BY <1>4 DEF Up
  <2>2. p \in 0..s.cur
    <3>1. moves \in Nat
      <4>1. LinesBelow(s) \in SUBSET (1..Len(s.text)) /\ 1 \in Int /\ Len(s.text) \in Int
        BY <1>1, ScreenIs DEF LinesBelow
      <4>2. Cardinality(LinesBelow(s)) \in Nat
        BY <4>1, FS_Interval, FS_Subset, FS_CardinalityType
      <4> DEFINE below == Cardinality(LinesBelow(s))
      <4>3. below \in Nat /\ moves = Smaller(n, (Height - 1) - below)
        BY <4>2
      <4> HIDE DEF below, moves
      <4>4. ~(moves < 1)
        BY <1>4
      <4> QED BY <4>3, <4>4, HeightAssumption DEF Smaller
    <3> HIDE DEF moves
    <3> QED BY <1>1, <3>1, AboveIs
  <2> HIDE DEF p
  <2>3. p \in Nat
    BY <1>1, <2>2
  <2>4. Sound(w) /\ Blanked(s, w)
    BY <1>1, <2>3, CursorMoved, BlankedMoved
  <2> HIDE DEF w, c
  <2>5. Blanked(w, Up(s, n))
    BY <1>1, <2>1, <2>4, BlankedToColumn
  <2> QED BY <2>4, <2>5, BlankedTwice
<1> QED BY <1>2, <1>3, <1>4

(* Forward and backward.                                                   *)
LEMMA BlankedAlong ==
  ASSUME NEW s, Sound(s), NEW n \in Nat
  PROVE  /\ Blanked(s, Forward(s, n)) /\ Blanked(s, Backward(s, n))
         /\ Blanked(s, CarriageReturn(s))
<1> DEFINE e == LineEnd(s)
           p == LineStart(s, s.cur)
           f == Smaller(s.cur + n, e)
           b == IF s.cur - n < p THEN p ELSE s.cur - n
<1>1. s \in Screens /\ s.cur \in Nat /\ s.cur \in Int /\ s.end \in Nat
  BY ScreenIs DEF Sound, Kept
<1>2. e \in Nat
  BY <1>1, LineEndIs
<1>3. p \in Nat
  <2>1. p \in 0..Len(s.text)
    BY <1>1, LineStartIs
  <2> HIDE DEF p
  <2> QED BY <1>1, <2>1, ScreenIs
<1>4. Forward(s, n) = [s EXCEPT !.cur = f] /\ CarriageReturn(s) = [s EXCEPT !.cur = p]
  BY DEF Forward, CarriageReturn
<1>5. Backward(s, n) = [s EXCEPT !.cur = b]
  BY <1>1 DEF Backward, Screens
<1> HIDE DEF e, p
<1>6. f \in Nat /\ b \in Nat
  BY <1>1, <1>2, <1>3 DEF Smaller
<1> HIDE DEF f, b
<1> QED BY <1>3, <1>4, <1>5, <1>6, BlankedMoved

(* To a row and a column.                                                  *)
LEMMA BlankedCoordinate ==
  ASSUME NEW s, Sound(s), NEW y \in Nat, NEW x \in Nat
  PROVE  Blanked(s, Coordinate(s, y, x))
<1> DEFINE top == [s EXCEPT !.cur = 0]
           row == IF y = 0 THEN top ELSE Down(top, y)
           t == Coordinate(s, y, x)
<1>1. Blanked(s, top)
  <2>1. 0 \in Nat
    OBVIOUS
  <2> QED BY <2>1, BlankedMoved
<1> HIDE DEF top
<1>2. Sound(top)
  BY <1>1 DEF Blanked
<1>3. Blanked(s, row)
  BY <1>1, <1>2, BlankedDown, BlankedTwice
<1>4. t = IF x = 0 THEN row ELSE Forward(row, x)
  BY DEF Coordinate, top
<1> HIDE DEF row, t
<1>5. Sound(row)
  BY <1>3 DEF Blanked
<1>6. Blanked(row, Forward(row, x))
  BY <1>5, BlankedAlong
<1> QED BY <1>3, <1>4, <1>6, BlankedTwice DEF t
-----------------------------------------------------------------------------
(* What else leaves the newlines where they are.                           *)

(* Characters overwrite up to the end of the line.                         *)
LEMMA PrintedLines ==
  ASSUME NEW s, Good(s), NEW cells \in Seq(Cell)
  PROVE  NewlineCount(s) <= NewlineCount(Printed(s, cells))
<1> DEFINE n == Len(cells)
           e == LineEnd(s)
           m == Smaller(e - s.cur, n)
           u == Erased(s, s.cur, s.cur + m)
           t == Printed(s, cells)
<1>1. s \in Screens /\ s.cur \in Nat /\ s.cur \in Int /\ Len(s.text) \in Nat /\ n \in Nat
  BY ScreenIs, LenProperties DEF Good
<1>2. e \in Int /\ \A k \in 1..Len(s.text) : k > s.cur /\ k <= e => s.text[k] # NL
  <2>1. e \in Nat /\ \A k \in 1..Len(s.text) : k > s.cur /\ k <= e => ~Ends(s.text[k])
    BY <1>1, GoodIs, LineEndIs
  <2> HIDE DEF e
  <2> QED BY <2>1 DEF Ends
<1>3. CASE s.cur = s.end
  <2>1. t = InsertedAt(s, cells)
    BY <1>3 DEF Printed
  <2> HIDE DEF t
  <2> QED BY <1>1, <2>1, InsertedLines DEF t
<1>4. CASE s.cur # s.end
  <2>1. t = InsertedAt(u, cells)
    BY <1>4 DEF Printed, Overwritten
  <2> HIDE DEF e, n, t
  <2>2. s.cur + m \in Int /\ s.cur + m <= e
    BY <1>1, <1>2 DEF Smaller
  <2> HIDE DEF m
  <2>3. OneLine(s, s.cur, s.cur + m)
    BY <1>1, <1>2, <2>2 DEF OneLine
  <2>4. u \in Screens /\ NewlineCount(s) <= NewlineCount(u)
    BY <1>1, <2>2, <2>3, ErasedIs, ErasedLines
  <2> HIDE DEF u
  <2>5. NewlineCount(u) <= NewlineCount(t) /\ t \in Screens
    BY <2>1, <2>4, InsertedLines, InsertedAtIs
  <2>6. NewlineCount(s) \in Nat /\ NewlineCount(u) \in Nat /\ NewlineCount(t) \in Nat
    BY <1>1, <2>4, <2>5, NewlinesIs
  <2>7. NewlineCount(s) <= NewlineCount(t)
    BY <2>4, <2>5, <2>6
  <2> QED BY <2>7 DEF t
<1> QED BY <1>3, <1>4

(* A line is erased from its start to its end, at most.                    *)
LEMMA LineErasedLines ==
  ASSUME NEW s, Good(s), NEW mode \in 0..2
  PROVE  NewlineCount(s) <= NewlineCount(LineErased(s, mode))
<1> DEFINE e == LineEnd(s)
           p == LineStart(s, s.cur)
           t == LineErased(s, mode)
<1>1. s \in Screens /\ s.cur \in Int /\ Len(s.text) \in Nat
  BY ScreenIs DEF Good
<1>2. e \in Int /\ \A k \in 1..Len(s.text) : k > s.cur /\ k <= e => s.text[k] # NL
  <2>1. e \in Nat /\ \A k \in 1..Len(s.text) : k > s.cur /\ k <= e => ~Ends(s.text[k])
    BY <1>1, GoodIs, LineEndIs
  <2> HIDE DEF e
  <2> QED BY <2>1 DEF Ends
<1>3. p \in Int /\ \A k \in 1..Len(s.text) : k > p /\ k <= s.cur => s.text[k] # NL
  <2>1. p \in 0..Len(s.text) /\ \A k \in 1..Len(s.text) : k > p /\ k <= s.cur => ~Ends(s.text[k])
    BY <1>1, LineStartIs
  <2> HIDE DEF p
  <2> QED BY <1>1, <2>1 DEF Ends
<1> HIDE DEF e, p
<1>4. CASE mode = 0
  <2>1. t = Erased(s, s.cur, e)
    BY <1>4 DEF LineErased, e
  <2>2. OneLine(s, s.cur, e)
    BY <1>2 DEF OneLine
  <2> HIDE DEF t
  <2> QED BY <1>1, <1>2, <2>1, <2>2, ErasedLines DEF t
<1>5. CASE mode = 1
  <2>1. t = Erased(s, p, s.cur)
    BY <1>5 DEF LineErased, p
  <2>2. OneLine(s, p, s.cur)
    BY <1>3 DEF OneLine
  <2> HIDE DEF t
  <2> QED BY <1>1, <1>3, <2>1, <2>2, ErasedLines DEF t
<1>6. CASE mode = 2
  <2>1. t = Erased(s, p, e)
    BY <1>6 DEF LineErased, p, e
  <2>2. OneLine(s, p, e)
    <3>1. \A k \in 1..Len(s.text) : k > s.cur \/ k <= s.cur
      BY <1>1
    <3> QED BY <1>2, <1>3, <3>1 DEF OneLine
  <2> HIDE DEF t
  <2> QED BY <1>2, <1>3, <1>1, <2>1, <2>2, ErasedLines DEF t
<1> QED BY <1>4, <1>5, <1>6

\* t has the newlines of s at their places.
SameLines(s, t) ==
  /\ s \in Screens /\ t \in Screens
  /\ \A k \in 1..Len(s.text) : s.text[k] = NL => k \in 1..Len(t.text) /\ t.text[k] = NL

(* So it has no fewer.                                                     *)
LEMMA SameLinesKept ==
  ASSUME NEW s, NEW t, SameLines(s, t)
  PROVE  NewlineCount(s) <= NewlineCount(t)
<1> DEFINE f == [k \in 1..Len(s.text) |-> k]
<1>1. /\ OutputLines(s) = {k \in 1..Len(s.text) : s.text[k] = NL}
      /\ OutputLines(t) = {k \in 1..Len(t.text) : t.text[k] = NL}
  BY ScreenIs DEF SameLines
<1>2. Carries(f, s, t)
  BY <1>1 DEF Carries, SameLines
<1> QED BY <1>2, NoneLost DEF SameLines

(* What is typed, entered and restarted.                                   *)
LEMMA TypedLines ==
  ASSUME Good(screen)
  PROVE  LET rest == [screen EXCEPT !.text = SubSeq(@, 1, screen.end), !.cur = screen.end]
         IN  /\ \A c \in Inputs : NewlineCount(screen) <= NewlineCount([screen EXCEPT !.text = Append(@, c)])
             /\ NewlineCount(screen) <= NewlineCount(rest)
             /\ \A c \in Nat : NewlineCount(screen) <= NewlineCount(AllOutput(c))
<1> DEFINE n == Len(screen.text)
           part == SubSeq(screen.text, 1, screen.end)
           new == Append(Taken, NL)
<1>1. /\ screen \in Screens /\ screen.text \in Seq(Cell) /\ n \in Nat /\ screen.cur \in Nat
      /\ screen.end \in 0..n /\ screen.end \in Nat
      /\ \A k \in 1..n : screen.text[k] \in Inputs <=> k > screen.end
  BY ScreenIs DEF Good
<1>2. NL \notin Inputs /\ NL \in Cell /\ Inputs \subseteq Cell
  BY DEF NL, Inputs, Input, InputNL, Cell
<1>3. ASSUME NEW c \in Inputs
      PROVE  NewlineCount(screen) <= NewlineCount([screen EXCEPT !.text = Append(@, c)])
  <2> DEFINE longer == Append(screen.text, c)
             t == [screen EXCEPT !.text = longer]
  <2>1. longer \in Seq(Cell) /\ Len(longer) = n + 1 /\ \A k \in 1..n : longer[k] = screen.text[k]
    BY <1>1, <1>2, AppendProperties
  <2>2. \A k \in 1..n : k \in 1..(n + 1)
    BY <1>1
  <2> HIDE DEF longer, n
  <2>3. t \in Screens /\ t.text = longer
    BY <1>1, <2>1 DEF Screens
  <2> HIDE DEF t
  <2>4. SameLines(screen, t)
    BY <1>1, <2>1, <2>2, <2>3 DEF SameLines, n
  <2>5. NewlineCount(screen) <= NewlineCount(t)
    BY <2>4, SameLinesKept
  <2> QED BY <1>1, <2>5 DEF t, longer, Screens
<1>4. NewlineCount(screen) <= NewlineCount([screen EXCEPT !.text = part, !.cur = screen.end])
  <2> DEFINE t == [screen EXCEPT !.text = part, !.cur = screen.end]
  <2>1. part \in Seq(Cell) /\ Len(part) = screen.end
        /\ \A k \in 1..screen.end : part[k] = screen.text[k]
    BY <1>1
  <2>2. \A k \in 1..n : k > screen.end \/ k \in 1..screen.end
    BY <1>1
  <2> HIDE DEF part, n
  <2>3. t \in Screens /\ t.text = part
    BY <1>1, <2>1 DEF Screens
  <2> HIDE DEF t
  <2>4. SameLines(screen, t)
    BY <1>1, <1>2, <2>1, <2>2, <2>3 DEF SameLines, n
  <2> QED BY <2>4, SameLinesKept DEF t
<1>5. ASSUME NEW c \in Nat
      PROVE  NewlineCount(screen) <= NewlineCount(AllOutput(c))
  <2> DEFINE t == AllOutput(c)
  <2>1. /\ Taken \in Seq(Cell) /\ Len(Taken) = n /\ t.text = new /\ Good(t)
        /\ \A k \in 1..n : screen.text[k] = NL => Taken[k] = NL
    BY TakenIs
  <2> HIDE DEF t
  <2>2. new \in Seq(Cell) /\ Len(new) = n + 1 /\ \A k \in 1..n : new[k] = Taken[k]
    BY <1>2, <2>1, AppendProperties
  <2>3. \A k \in 1..n : k \in 1..(n + 1)
    BY <1>1
  <2>4. t \in Screens
    BY <2>1, GoodIs
  <2> HIDE DEF new, n
  <2>5. SameLines(screen, t)
    BY <1>1, <2>1, <2>2, <2>3, <2>4 DEF SameLines, n
  <2> QED BY <2>5, SameLinesKept DEF t
<1> QED BY <1>1, <1>3, <1>4, <1>5 DEF Screens
-----------------------------------------------------------------------------
(* What is printed replaces as much of its line.                           *)

\* The text t of s without the d cells behind place p.
TakesOut(t, s, p, d) ==
  /\ Len(t) = Len(s) - d
  /\ \A i \in 1..(Len(s) - d) : t[i] = IF i <= p THEN s[i] ELSE s[i + d]

(* Erasing output takes out nothing else.                                  *)
LEMMA ErasedText ==
  ASSUME NEW s, Good(s), NEW p \in Nat, NEW d \in Nat, p + d <= s.end
  PROVE  TakesOut(Erased(s, p, p + d).text, s.text, p, d)
<1> DEFINE t == Erased(s, p, p + d)
           len == Len(s.text)
<1>1. s \in Screens /\ s.text \in Seq(Cell) /\ len \in Nat /\ s.end \in 0..len
  BY ScreenIs DEF Good
<1>2. CASE d = 0
  <2>1. t = s
    BY <1>2 DEF Erased
  <2>2. len - d = len /\ \A i \in 1..len : i + d = i
    BY <1>1, <1>2
  <2> HIDE DEF t
  <2> QED BY <2>1, <2>2 DEF TakesOut, t
<1>3. CASE d # 0
  <2>1. p \in 0..len /\ p + d \in p..len /\ ~(p + d <= p) /\ (p + d) - p = d
        /\ p \in Int /\ p + d \in Int /\ p + d \in 0..len
    BY <1>1, <1>3
  <2>2. ClipTo(s, p) = p /\ ClipTo(s, p + d) = p + d
    BY <1>1, <2>1, ClipToIs
  <2> DEFINE x == CutOut(s.text, p, p + d)
             e == s.end - ((p + d) - p)
             g == s.strayed \/ p + d > s.end
  <2>3. t = [s EXCEPT !.text = x, !.end = e, !.strayed = g]
    BY <2>1, <2>2 DEF Erased, CutOut, Screens
  <2>4. /\ Len(x) = len - d
        /\ \A i \in 1..(len - d) : x[i] = IF i <= p THEN s.text[i] ELSE s.text[i + d]
    <3>1. \A v \in Seq(Cell) : \A a \in 0..Len(v) : \A b \in a..Len(v) :
            /\ Len(CutOut(v, a, b)) = Len(v) - (b - a)
            /\ \A i \in 1..(Len(v) - (b - a)) :
                 CutOut(v, a, b)[i] = IF i <= a THEN v[i] ELSE v[i + (b - a)]
      BY CutOutIs
    <3>2. /\ Len(x) = len - ((p + d) - p)
          /\ \A i \in 1..(len - ((p + d) - p)) :
               x[i] = IF i <= p THEN s.text[i] ELSE s.text[i + ((p + d) - p)]
      BY <1>1, <2>1, <3>1
    <3> QED BY <2>1, <3>2
  <2> HIDE DEF x, e, g, t
  <2>5. t.text = x
    BY <1>1, <2>3 DEF Screens
  <2> QED BY <2>4, <2>5 DEF TakesOut, t
<1> QED BY <1>2, <1>3

\* t is s with n cells for the d behind place p.
Replaces(t, s, p, n, d) ==
  /\ Len(t) = (Len(s) - d) + n
  /\ \A i \in 1..((Len(s) - d) + n) :
       /\ i <= p => t[i] = s[i]
       /\ i > p + n => t[i] = s[(i - n) + d]

(* Then what is before and behind them is the same.                        *)
LEMMA ReplacedParts ==
  ASSUME NEW s \in Seq(Cell), NEW t \in Seq(Cell), NEW p \in Nat, NEW n \in Nat, NEW d \in Nat,
         p + d <= Len(s), Replaces(t, s, p, n, d)
  PROVE  /\ SubSeq(t, 1, p) = SubSeq(s, 1, p)
         /\ SubSeq(t, p + n + 1, Len(t)) = SubSeq(s, p + d + 1, Len(s))
<1> DEFINE len == Len(s)
           all == (len - d) + n
<1>1. /\ len \in Nat /\ Len(t) = all
      /\ \A i \in 1..all : (i <= p => t[i] = s[i]) /\ (i > p + n => t[i] = s[(i - n) + d])
  BY LenProperties DEF Replaces
<1>2. SubSeq(t, 1, p) = SubSeq(s, 1, p)
  <2>1. p \in 0..len /\ p \in 0..Len(t) /\ \A i \in 1..p : i \in 1..all /\ i <= p
    BY <1>1
  <2>2. /\ SubSeq(t, 1, p) \in Seq(Cell) /\ Len(SubSeq(t, 1, p)) = p
        /\ \A i \in 1..p : SubSeq(t, 1, p)[i] = t[i]
    BY <2>1
  <2>3. /\ SubSeq(s, 1, p) \in Seq(Cell) /\ Len(SubSeq(s, 1, p)) = p
        /\ \A i \in 1..p : SubSeq(s, 1, p)[i] = s[i]
    BY <2>1
  <2>4. \A i \in 1..p : t[i] = s[i]
    BY <1>1, <2>1
  <2> DEFINE a == SubSeq(t, 1, p)
             b == SubSeq(s, 1, p)
  <2> HIDE DEF a, b
  <2>5. a = b
    BY <2>2, <2>3, <2>4, SeqEqual DEF a, b
  <2> QED BY <2>5 DEF a, b
<1>3. SubSeq(t, p + n + 1, Len(t)) = SubSeq(s, p + d + 1, len)
  <2> DEFINE a == SubSeq(t, (p + n) + 1, Len(t))
             b == SubSeq(s, (p + d) + 1, len)
             more == len - (p + d)
  <2>1. /\ p + n \in 0..Len(t) /\ Len(t) \in (p + n)..Len(t) /\ Len(t) - (p + n) = more
        /\ p + d \in 0..len /\ len \in (p + d)..len
    BY <1>1
  <2>2. a \in Seq(Cell) /\ Len(a) = more /\ \A i \in 1..more : a[i] = t[(p + n) + i]
    <3>1. \A v \in Seq(Cell) : \A y \in 0..Len(v) : \A z \in y..Len(v) :
            /\ SubSeq(v, y + 1, z) \in Seq(Cell) /\ Len(SubSeq(v, y + 1, z)) = z - y
            /\ \A i \in 1..(z - y) : SubSeq(v, y + 1, z)[i] = v[y + i]
      BY PartBehind
    <3>2. /\ a \in Seq(Cell) /\ Len(a) = Len(t) - (p + n)
          /\ \A i \in 1..(Len(t) - (p + n)) : a[i] = t[(p + n) + i]
      BY <2>1, <3>1
    <3> HIDE DEF a, more
    <3> QED BY <2>1, <3>2
  <2>3. b \in Seq(Cell) /\ Len(b) = more /\ \A i \in 1..more : b[i] = s[(p + d) + i]
    BY <2>1, PartBehind
  <2>4. ASSUME NEW i \in 1..more PROVE t[(p + n) + i] = s[(p + d) + i]
    <3>1. /\ (p + n) + i \in 1..all /\ (p + n) + i > p + n
          /\ (((p + n) + i) - n) + d = (p + d) + i
      BY <1>1, <2>1
    <3> QED BY <1>1, <3>1
  <2> HIDE DEF a, b, more
  <2>5. a = b
    BY <2>2, <2>3, <2>4, SeqEqual
  <2> QED BY <2>5 DEF a, b
<1> QED BY <1>2, <1>3

\* PrintReplaces of one line, by the length of what is printed.
PrintsInPlace(s, t, n) ==
  /\ t.cur = s.cur + n
  /\ SubSeq(t.text, 1, s.cur) = SubSeq(s.text, 1, s.cur)
  /\ LET rest == Smaller(Smaller(LineEnd(s), s.end), t.cur)
     IN  SubSeq(t.text, t.cur + 1, Len(t.text)) = SubSeq(s.text, rest + 1, Len(s.text))

(* So it is with all that is printed in the output.                        *)
LEMMA PrintedInPlace ==
  ASSUME NEW s, Good(s), NEW cells \in Seq(Cell), IsOutput(cells), s.cur <= s.end,
         ~Printed(s, cells).strayed
  PROVE  PrintsInPlace(s, Printed(s, cells), Len(cells))
<1> DEFINE n == Len(cells)
           e == LineEnd(s)
           p == s.cur
           d == IF p = s.end THEN 0 ELSE Smaller(e - p, n)
           u == Erased(s, p, p + d)
           t == Printed(s, cells)
           len == Len(s.text)
<1>1. /\ s \in Screens /\ p \in Nat /\ len \in Nat /\ n \in Nat /\ s.end \in 0..len
      /\ s.text \in Seq(Cell) /\ p <= s.end
  BY ScreenIs, LenProperties DEF Good
<1>2. e \in Nat /\ p <= e
  BY <1>1, LineEndIs
<1>4. t = InsertedAt(u, cells)
  <2>1. CASE p = s.end
    <3>1. u = s
      BY <1>1, <2>1 DEF Erased
    <3> QED BY <2>1, <3>1 DEF Printed
  <2>2. CASE p # s.end
    BY <2>2 DEF Printed, Overwritten
  <2> QED BY <2>1, <2>2
<1> HIDE DEF e, n
<1>0. d \in Nat /\ (p = s.end => d = 0)
  BY <1>1, <1>2 DEF Smaller
<1>13. p + d <= s.end
  <2> SUFFICES ASSUME ~(p + d <= s.end) PROVE FALSE
    OBVIOUS
  <2> HIDE DEF d
  <2>1. p + d > p /\ p + d > s.end /\ p \in Int /\ p + d \in Int
    BY <1>0, <1>1
  <2>2. u \in Screens /\ u.strayed
    BY <1>1, <2>1, ErasedIs
  <2> HIDE DEF u
  <2>3. InsertedAt(u, cells).strayed = (u.strayed \/ (Ahead(u) /\ PendingInput(u)))
    BY <2>2, InsertedAtIs
  <2> QED BY <1>4, <2>2, <2>3
<1>3. d \in Nat /\ p + d <= s.end /\ (p = s.end => d = 0)
      /\ p + d = Smaller(Smaller(e, s.end), p + n)
  BY <1>0, <1>1, <1>2, <1>13 DEF Smaller
<1> HIDE DEF d, t
<1>5. Good(u) /\ u.cur = p /\ u.end = s.end - d
  <2>1. p + d \in Int /\ p \in Int /\ (p + d <= p => d = 0) /\ (p + d) - p = d
    BY <1>1, <1>3
  <2>2. Good(u)
    BY <1>1, <1>3, <2>1, ErasedGood
  <2>3. u.cur = p /\ u.end = IF p + d <= p THEN s.end ELSE s.end - ((p + d) - p)
    BY <1>1, <2>1, ErasedIs
  <2> HIDE DEF u
  <2> QED BY <1>1, <1>3, <2>1, <2>2, <2>3
<1>6. TakesOut(u.text, s.text, p, d)
  BY <1>1, <1>3, ErasedText
<1> HIDE DEF u
<1>7. u.cur <= u.end
  BY <1>1, <1>3, <1>5
<1>8. Good(t) /\ Inserts(t, u, cells)
  BY <1>4, <1>5, <1>7, InsertedGood
<1>9. t.cur = p + n /\ t.text \in Seq(Cell)
  BY <1>5, <1>8, ScreenIs DEF Inserts, Good, n
<1>10. Replaces(t.text, s.text, p, n, d)
  <2> DEFINE part == len - d
  <2>1. /\ Len(t.text) = part + n
        /\ \A i \in 1..(part + n) :
             t.text[i] = IF i <= p THEN u.text[i]
                         ELSE IF i <= p + n THEN cells[i - p] ELSE u.text[i - n]
    BY <1>5, <1>6, <1>8 DEF Inserts, TakesOut, n
  <2>2. \A i \in 1..part : u.text[i] = IF i <= p THEN s.text[i] ELSE s.text[i + d]
    BY <1>6 DEF TakesOut
  <2>3. part \in Nat /\ p <= part
    BY <1>1, <1>3
  <2> HIDE DEF part
  <2>4. ASSUME NEW i \in 1..(part + n), i <= p PROVE t.text[i] = s.text[i]
    <3>1. i \in 1..part
      BY <1>1, <2>3, <2>4
    <3> QED BY <2>1, <2>2, <2>4, <3>1
  <2>5. ASSUME NEW i \in 1..(part + n), i > p + n PROVE t.text[i] = s.text[(i - n) + d]
    <3>1. i - n \in 1..part /\ ~(i <= p) /\ ~(i <= p + n) /\ ~(i - n <= p)
      BY <1>1, <2>3, <2>5
    <3> QED BY <2>1, <2>2, <3>1
  <2> QED BY <2>1, <2>4, <2>5 DEF Replaces, part
<1>11. p + d <= len
  BY <1>1, <1>3
<1>12. /\ SubSeq(t.text, 1, p) = SubSeq(s.text, 1, p)
       /\ SubSeq(t.text, p + n + 1, Len(t.text)) = SubSeq(s.text, p + d + 1, len)
  <2> DEFINE x == t.text
             y == s.text
  <2>1. x \in Seq(Cell) /\ y \in Seq(Cell) /\ Replaces(x, y, p, n, d) /\ p + d <= Len(y)
        /\ p \in Nat /\ n \in Nat /\ d \in Nat
    BY <1>1, <1>3, <1>9, <1>10, <1>11
  <2> HIDE DEF x, y, p
  <2>2. SubSeq(x, 1, p) = SubSeq(y, 1, p) /\ SubSeq(x, p + n + 1, Len(x)) = SubSeq(y, p + d + 1, Len(y))
    BY <2>1, ReplacedParts
  <2> QED BY <2>2 DEF x, y
<1> HIDE DEF p
<1>14. PrintsInPlace(s, t, n)
  BY <1>3, <1>9, <1>12 DEF PrintsInPlace, e, p
<1> QED BY <1>14 DEF t, n
-----------------------------------------------------------------------------
(* The invariant.                                                          *)

\* What _output_end is, it is until it strays.
AnInv == Kept(screen)

\* What Draw says of a step.
Drawn(t) == screen' = t /\ Good(screen)

(* The screen it starts from is Good.                                      *)
LEMMA DrawIs ==
  ASSUME AnInv, NEW t, Draw(t)
  PROVE  Drawn(t)
BY DEF AnInv, Kept, Draw, Drawn

(* Input without lines.                                                    *)
LEMMA SimpleIs ==
  ASSUME NEW s, Good(s), ~PendingLines(s)
  PROVE  Simple(s)
<1>1. CellsOf(s) = 1..Len(s.text)
  BY GoodIs, ScreenIs
<1> QED BY <1>1 DEF Simple, OneLineInput, PendingLines

(* A movement draws blanks and newlines, and stays in the output unless    *)
(* the input has lines.                                                    *)
LEMMA MoveIs ==
  ASSUME AnInv, Move
  PROVE  /\ Blanked(screen, screen')
         /\ Simple(screen) => Simple(screen') /\ StaysIn(screen, screen')
<1>1. 0..MaxMove \in SUBSET Nat
  BY AnsiBoundsAssumption
<1>2. PICK n \in 0..MaxMove :
        \/ Draw(Up(screen, n)) \/ Draw(Down(screen, n))
        \/ Draw(Forward(screen, n)) \/ Draw(Backward(screen, n))
        \/ \E m \in 0..MaxMove : Draw(Coordinate(screen, n, m))
  BY DEF Move
<1>3. n \in Nat /\ Sound(screen)
  <2>1. Good(screen)
    BY <1>2, DrawIs DEF Drawn
  <2> QED BY <1>1, <2>1, GoodIs
<1>4. CASE Draw(Up(screen, n))
  <2>1. screen' = Up(screen, n)
    BY <1>4, DrawIs DEF Drawn
  <2> QED BY <1>3, <2>1, BlankedUp, UpGood
<1>5. CASE Draw(Down(screen, n))
  <2>1. screen' = Down(screen, n)
    BY <1>5, DrawIs DEF Drawn
  <2> QED BY <1>3, <2>1, BlankedDown, DownGood DEF Placed, StaysIn
<1>6. CASE Draw(Forward(screen, n)) \/ Draw(Backward(screen, n))
  <2>1. screen' = Forward(screen, n) \/ screen' = Backward(screen, n)
    BY <1>6, DrawIs DEF Drawn
  <2> QED BY <1>3, <2>1, BlankedAlong, AlongGood
<1>7. CASE \E m \in 0..MaxMove : Draw(Coordinate(screen, n, m))
  <2>1. PICK m \in 0..MaxMove : Draw(Coordinate(screen, n, m))
    BY <1>7
  <2>2. screen' = Coordinate(screen, n, m) /\ m \in Nat
    BY <1>1, <2>1, DrawIs DEF Drawn
  <2> QED BY <1>3, <2>2, BlankedCoordinate, CoordinateGood DEF Placed, StaysIn
<1> QED BY <1>2, <1>4, <1>5, <1>6, <1>7

\* One or two characters of the output.
Printable == [1..1 -> Chars] \cup [1..2 -> Chars]

(* They are cells, and no input.                                           *)
LEMMA PrintableIs ==
  ASSUME NEW cells \in Printable
  PROVE  cells \in Seq(Cell) /\ IsOutput(cells) /\ Len(cells) \in 1..2
<1>1. \A c \in Chars : c \in Cell /\ c \notin Inputs
  BY DEF Cell, Chars, Inputs, Input, InputNL
<1>2. PICK k \in 1..2 : cells \in [1..k -> Chars]
  BY DEF Printable
<1>3. cells \in Seq(Chars) /\ Len(cells) = k
  BY <1>2
<1>4. cells \in Seq(Cell) /\ \A i \in 1..Len(cells) : cells[i] \in Chars
  BY <1>1, <1>3
<1> QED BY <1>1, <1>3, <1>4 DEF IsOutput

\* What may have made it stray.
Excused ==
  Ahead(screen) \/ PendingLines(screen) \/ (EraseDisplay /\ PendingInput(screen))

(* Every step keeps the invariant, and strays for one of three reasons.    *)
LEMMA AnStep ==
  ASSUME AnInv, AnNext
  PROVE  Kept(screen') /\ (Excused \/ Good(screen'))
<1>1. ASSUME Good(screen') PROVE Kept(screen') /\ (Excused \/ Good(screen'))
  BY <1>1, GoodIs
<1>2. ASSUME Good(screen), ~Excused PROVE Simple(screen) /\ ~Ahead(screen)
  BY <1>2, SimpleIs DEF Excused
<1>3. CASE Move
  <2>1. Kept(screen') /\ (Simple(screen) => Good(screen'))
    BY <1>3, MoveIs DEF Blanked, Sound, Simple
  <2>2. Good(screen)
    <3>1. PICK t : Draw(t)
      BY <1>3 DEF Move
    <3> QED BY <3>1, DrawIs DEF Drawn
  <2> QED BY <1>2, <2>1, <2>2
<1>4. CASE PrintChars
  <2>1. PICK cells \in Printable : Draw(Printed(screen, cells))
    BY <1>4 DEF PrintChars, Printable
  <2>2. screen' = Printed(screen, cells) /\ Good(screen)
    BY <2>1, DrawIs DEF Drawn
  <2>3. cells \in Seq(Cell) /\ IsOutput(cells)
    BY PrintableIs
  <2>4. Kept(screen') /\ (Simple(screen) /\ ~Ahead(screen) => Good(screen'))
    BY <2>2, <2>3, PrintedKept
  <2> QED BY <1>2, <2>2, <2>4
<1>5. CASE PrintNewline
  <2>1. Drawn(IF screen.cur = screen.end THEN InsertedAt(screen, <<NL>>)
              ELSE Down(CarriageReturn(screen), 1))
    BY <1>5, DrawIs DEF PrintNewline
  <2>2. Good(screen) /\ Sound(screen)
    BY <2>1, GoodIs DEF Drawn
  <2>3. CASE screen.cur = screen.end
    <3>1. Good(InsertedAt(screen, <<NL>>))
      BY <2>2, <2>3, NewlineGood
    <3> QED BY <1>1, <2>1, <2>3, <3>1 DEF Drawn
  <2>4. CASE screen.cur # screen.end
    <3>1. screen' = Down(CarriageReturn(screen), 1)
      BY <2>1, <2>4 DEF Drawn
    <3>2. 0 \in Nat /\ 1 \in Nat
      OBVIOUS
    <3>3. Sound(CarriageReturn(screen))
      BY <2>2, <3>2, BlankedAlong DEF Blanked
    <3>4. Kept(Down(CarriageReturn(screen), 1))
      BY <3>2, <3>3, BlankedDown DEF Blanked, Sound
    <3>5. Simple(screen) => Good(Down(CarriageReturn(screen), 1))
      BY <2>2, NewlineGood
    <3> QED BY <1>2, <2>2, <3>1, <3>4, <3>5
  <2> QED BY <2>3, <2>4
<1>6. CASE PrintReturn
  <2>1. Drawn(CarriageReturn(screen))
    BY <1>6, DrawIs DEF PrintReturn
  <2>2. Good(screen) /\ 0 \in Nat /\ Sound(screen)
    BY <2>1, GoodIs DEF Drawn
  <2>3. Kept(CarriageReturn(screen))
    BY <2>2, BlankedAlong DEF Blanked, Sound
  <2>4. Simple(screen) => Good(CarriageReturn(screen))
    BY <2>2, AlongGood DEF Simple
  <2> QED BY <1>2, <2>1, <2>2, <2>3, <2>4 DEF Drawn
<1>7. CASE EraseLine
  <2>1. PICK mode \in 0..2 : Draw(LineErased(screen, mode))
    BY <1>7 DEF EraseLine
  <2>2. screen' = LineErased(screen, mode) /\ Good(screen)
    BY <2>1, DrawIs DEF Drawn
  <2>3. Kept(screen') /\ (Simple(screen) /\ ~Ahead(screen) => Good(screen'))
    BY <2>2, LineErasedKept
  <2> QED BY <1>2, <2>2, <2>3
<1>8. CASE EraseDisplay
  <2>1. PICK mode \in 0..2 : Draw(DisplayErased(screen, mode))
    BY <1>8 DEF EraseDisplay
  <2>2. screen' = DisplayErased(screen, mode) /\ Good(screen)
    BY <2>1, DrawIs DEF Drawn
  <2>3. Kept(screen') /\ (~Ahead(screen) /\ ~PendingInput(screen) => Good(screen'))
    BY <2>2, DisplayErasedKept
  <2> QED BY <1>8, <2>3 DEF Excused
<1>9. CASE TypeChar
  <2>1. PICK c \in Inputs : Drawn([screen EXCEPT !.text = Append(@, c)])
    BY <1>9, DrawIs DEF TypeChar
  <2>2. Good([screen EXCEPT !.text = Append(@, c)])
    BY <2>1, TypedGood DEF Drawn
  <2> QED BY <1>1, <2>1, <2>2 DEF Drawn
<1>10. CASE TakeInput
  <2> DEFINE new == AllOutput(Len(Taken) + 1)
             rest == [screen EXCEPT !.text = SubSeq(@, 1, screen.end), !.cur = screen.end]
  <2>1. Drawn(new) \/ Drawn(rest)
    BY <1>10, DrawIs DEF TakeInput
  <2>2. Good(screen) /\ Len(screen.text) \in Nat
    BY <2>1, GoodIs DEF Drawn
  <2>3. Good(rest)
    BY <2>2, TypedGood DEF Inputs
  <2>4. Good(new)
    <3>1. Len(Taken) + 1 \in Nat
      BY <2>2, TakenIs
    <3> QED BY <2>2, <3>1, TakenIs
  <2> HIDE DEF new, rest
  <2> QED BY <1>1, <2>1, <2>3, <2>4 DEF Drawn
<1>11. CASE ClearScreen
  <2> DEFINE kept == IF screen.end < 2 THEN screen.end ELSE 2
             t == [screen EXCEPT !.text = SubSeq(@, screen.end - kept + 1, screen.end),
                                 !.end = kept]
  <2>1. Drawn(t)
    BY <1>11, DrawIs DEF ClearScreen
  <2>2. Good(screen)
    BY <2>1 DEF Drawn
  <2>3. kept \in Nat /\ kept <= screen.end
    BY <2>2, GoodIs
  <2> HIDE DEF kept
  <2>4. Good(t)
    BY <2>2, <2>3, ClearedGood
  <2> HIDE DEF t
  <2> QED BY <1>1, <2>1, <2>4 DEF Drawn
<1>12. CASE RestartScreen
  <2>1. Drawn(AllOutput(0))
    BY <1>12, DrawIs DEF RestartScreen
  <2>2. Good(screen) /\ 0 \in Nat
    BY <2>1 DEF Drawn
  <2>3. Good(AllOutput(0))
    BY <2>2, TakenIs
  <2> QED BY <1>1, <2>1, <2>3 DEF Drawn
<1> QED BY <1>3, <1>4, <1>5, <1>6, <1>7, <1>8, <1>9, <1>10, <1>11, <1>12 DEF AnNext

(* It holds at the start, and always.                                      *)
LEMMA AnInvHolds == AnSpec => []AnInv
<1>1. AnInit => AnInv
  <2> SUFFICES ASSUME AnInit PROVE AnInv
    OBVIOUS
  <2> DEFINE none == <<>>
  <2>1. none \in Seq(Cell) /\ Len(none) = 0
    OBVIOUS
  <2> HIDE DEF none
  <2>2. screen = [text |-> none, end |-> 0, cur |-> 0, strayed |-> FALSE]
    BY DEF AnInit, none
  <2>3. screen \in Screens /\ Good(screen)
    BY <2>1, <2>2 DEF Screens, Good
  <2> QED BY <2>3 DEF AnInv, Kept
<1>2. AnInv /\ [AnNext]_anVars => AnInv'
  BY AnStep DEF AnInv, anVars
<1> QED BY <1>1, <1>2, PTL DEF AnSpec

(* The types of the screen: cells of the six kinds, and two positions, of  *)
(* which only _output_end can become negative.                             *)
THEOREM AnTypeCorrect == AnSpec => []AnTypeOK
<1>1. AnInv => AnTypeOK
  BY DEF AnInv, Kept, Screens, Cell, AnTypeOK
<1> QED BY <1>1, AnInvHolds, PTL

(* The positions the controller keeps are those of the text, whatever the  *)
(* program draws, the user types or pastes and the commands do, on a       *)
(* screen of any size and a terminal of any height: _output_end is the end *)
(* of the output as long as it has not strayed, and moving up and down n   *)
(* lines keeps the column, unless the cursor or lines of the input are     *)
(* behind _output_end.  How it can stray, DrawingAlwaysLocal says.         *)
THEOREM ScreenAlwaysExact == AnSpec => []ScreenIsExact
<1>1. AnInv => EndIsExact
  <2> SUFFICES ASSUME AnInv, ~screen.strayed PROVE
        /\ screen.end \in 0..Len(screen.text)
        /\ \A k \in CellsOf(screen) : screen.text[k] \in Inputs <=> k > screen.end
    BY DEF EndIsExact
  <2>1. Good(screen)
    BY DEF AnInv, Kept
  <2>2. CellsOf(screen) = 1..Len(screen.text)
    BY <2>1, ScreenIs DEF Good
  <2> QED BY <2>1, <2>2 DEF Good
<1>2. AnInv => ColumnIsKept
  <2> SUFFICES ASSUME AnInv, ~screen.strayed, ~Ahead(screen), ~PendingLines(screen), NEW n \in 1..MaxMove
               PROVE  /\ Column(Down(screen, n)) = Column(screen)
                      /\ n <= Cardinality(LinesAbove(screen)) => Column(Up(screen, n)) = Column(screen)
    BY DEF ColumnIsKept
  <2>1. Good(screen) /\ Simple(screen)
    BY SimpleIs DEF AnInv, Kept
  <2>2. n \in Nat /\ n # 0
    BY AnsiBoundsAssumption
  <2>3. screen.cur <= screen.end
    BY <2>1, GoodIs DEF Ahead
  <2> QED BY <2>1, <2>2, <2>3, DownGood, UpGood
<1>3. AnInv => ScreenIsExact
  BY <1>1, <1>2 DEF ScreenIsExact
<1> QED BY <1>3, AnInvHolds, PTL
-----------------------------------------------------------------------------
(* No step changes more than its place.                                    *)

(* Only what erases the display takes newlines away.                       *)
LEMMA ScreenLinesStep ==
  ASSUME AnInv, AnNext, ~EraseDisplay, ~ClearScreen
  PROVE  NewlineCount(screen) <= NewlineCount(screen')
<1>1. CASE Move
  BY <1>1, MoveIs DEF Blanked
<1>2. CASE PrintChars
  <2>1. PICK cells \in Printable : Draw(Printed(screen, cells))
    BY <1>2 DEF PrintChars, Printable
  <2>2. cells \in Seq(Cell)
    BY PrintableIs
  <2>3. screen' = Printed(screen, cells) /\ Good(screen)
    BY <2>1, DrawIs DEF Drawn
  <2> QED BY <2>2, <2>3, PrintedLines
<1>3. CASE PrintNewline
  <2>1. Draw(IF screen.cur = screen.end THEN InsertedAt(screen, <<NL>>)
             ELSE Down(CarriageReturn(screen), 1))
    BY <1>3 DEF PrintNewline
  <2>2. Good(screen) /\ screen' = (IF screen.cur = screen.end THEN InsertedAt(screen, <<NL>>)
                                   ELSE Down(CarriageReturn(screen), 1))
    BY <2>1, DrawIs DEF Drawn
  <2>3. NewlineCount(screen) <= NewlineCount(InsertedAt(screen, <<NL>>))
    <3>1. screen \in Screens /\ <<NL>> \in Seq(Cell)
      BY <2>2 DEF Good, Cell
    <3> QED BY <3>1, InsertedLines
  <2>4. NewlineCount(screen) <= NewlineCount(Down(CarriageReturn(screen), 1))
    <3>1. 0 \in Nat /\ 1 \in Nat /\ Sound(screen)
      BY <2>2, GoodIs
    <3>2. Blanked(screen, CarriageReturn(screen))
      BY <3>1, BlankedAlong
    <3>3. Blanked(CarriageReturn(screen), Down(CarriageReturn(screen), 1))
      BY <3>1, <3>2, BlankedDown DEF Blanked
    <3> QED BY <3>2, <3>3, BlankedTwice DEF Blanked
  <2> QED BY <2>2, <2>3, <2>4
<1>4. CASE PrintReturn
  <2>1. screen' = CarriageReturn(screen) /\ Sound(screen) /\ 0 \in Nat
    BY <1>4, DrawIs, GoodIs DEF PrintReturn, Drawn
  <2>2. Blanked(screen, CarriageReturn(screen))
    BY <2>1, BlankedAlong
  <2> QED BY <2>1, <2>2 DEF Blanked
<1>5. CASE EraseLine
  <2>1. PICK mode \in 0..2 : Draw(LineErased(screen, mode))
    BY <1>5 DEF EraseLine
  <2>2. screen' = LineErased(screen, mode) /\ Good(screen)
    BY <2>1, DrawIs DEF Drawn
  <2> QED BY <2>2, LineErasedLines
<1>6. CASE TypeChar
  <2>1. PICK c \in Inputs : Drawn([screen EXCEPT !.text = Append(@, c)])
    BY <1>6, DrawIs DEF TypeChar
  <2> QED BY <2>1, TypedLines DEF Drawn
<1>7. CASE TakeInput
  <2> DEFINE new == AllOutput(Len(Taken) + 1)
             rest == [screen EXCEPT !.text = SubSeq(@, 1, screen.end), !.cur = screen.end]
  <2>1. Drawn(new) \/ Drawn(rest)
    BY <1>7, DrawIs DEF TakeInput
  <2>2. Good(screen) /\ Len(screen.text) \in Nat /\ (screen' = new \/ screen' = rest)
    BY <2>1, GoodIs DEF Drawn
  <2>3. Len(Taken) + 1 \in Nat
    BY <2>2, TakenIs
  <2>4. NewlineCount(screen) <= NewlineCount(new) /\ NewlineCount(screen) <= NewlineCount(rest)
    BY <2>2, <2>3, TypedLines
  <2> HIDE DEF new, rest
  <2> QED BY <2>2, <2>4
<1>8. CASE RestartScreen
  <2>1. Drawn(AllOutput(0)) /\ 0 \in Nat
    BY <1>8, DrawIs DEF RestartScreen
  <2> QED BY <2>1, TypedLines DEF Drawn
<1> QED BY <1>1, <1>2, <1>3, <1>4, <1>5, <1>6, <1>7, <1>8 DEF AnNext

(* What is printed in a line takes the place of as much of it.             *)
LEMMA PrintStep ==
  ASSUME AnInv, PrintChars, ~Ahead(screen), ~screen'.strayed
  PROVE  \E n \in 1..2 : PrintsInPlace(screen, screen', n)
<1>1. PICK cells \in Printable : Draw(Printed(screen, cells))
  BY DEF PrintChars, Printable
<1>2. cells \in Seq(Cell) /\ IsOutput(cells) /\ Len(cells) \in 1..2
  BY PrintableIs
<1>3. screen' = Printed(screen, cells) /\ Good(screen)
  BY <1>1, DrawIs DEF Drawn
<1>4. screen.cur <= screen.end
  BY <1>3, GoodIs DEF Ahead
<1>5. PrintsInPlace(screen, Printed(screen, cells), Len(cells))
  BY <1>2, <1>3, <1>4, PrintedInPlace
<1> QED BY <1>2, <1>3, <1>5

(* No control sequence changes more of the screen than its own place, on a *)
(* screen of any size, with input of any number of lines behind it.        *)
(* _output_end strays only with the cursor behind it, by the lines of the  *)
(* input, or by erasing the display over input; newlines of the output go  *)
(* only with the display; what is printed replaces as much of its line, as *)
(* long as _output_end does not stray; a movement shows nothing new, and   *)
(* stays in the output unless the input has lines.                         *)
THEOREM DrawingAlwaysLocal == AnSpec => DrawingIsLocal
<1>1. AnInv /\ [AnNext]_anVars =>
        [screen'.strayed =>
           Ahead(screen) \/ PendingLines(screen) \/ (EraseDisplay /\ PendingInput(screen))]_anVars
  BY AnStep, GoodIs DEF Excused
<1>2. AnInv /\ AnInv' /\ [AnNext]_anVars =>
        [Cardinality(OutputLines(screen')) < Cardinality(OutputLines(screen))
           => EraseDisplay \/ ClearScreen]_anVars
  <2> SUFFICES ASSUME AnInv, AnInv', AnNext, ~EraseDisplay, ~ClearScreen
               PROVE  ~(Cardinality(OutputLines(screen')) < Cardinality(OutputLines(screen)))
    OBVIOUS
  <2>1. screen \in Screens /\ screen' \in Screens
    BY DEF AnInv, Kept
  <2>2. NewlineCount(screen) \in Nat /\ NewlineCount(screen') \in Nat
    BY <2>1, NewlinesIs
  <2>3. NewlineCount(screen) <= NewlineCount(screen')
    BY ScreenLinesStep
  <2>4. ~(NewlineCount(screen') < NewlineCount(screen))
    BY <2>2, <2>3
  <2> QED BY <2>4 DEF NewlineCount
<1>3. AnInv /\ [AnNext]_anVars =>
        [PrintChars /\ ~Ahead(screen) /\ ~screen'.strayed =>
           \E n \in 1..2 :
             /\ screen'.cur = screen.cur + n
             /\ SubSeq(screen'.text, 1, screen.cur) = SubSeq(screen.text, 1, screen.cur)
             /\ LET rest == Smaller(Smaller(LineEnd(screen), screen.end), screen'.cur)
                IN  SubSeq(screen'.text, screen'.cur + 1, Len(screen'.text))
                      = SubSeq(screen.text, rest + 1, Len(screen.text))]_anVars
  BY PrintStep DEF PrintsInPlace
<1>4. AnInv /\ [AnNext]_anVars =>
        [Move => /\ Visible(screen'.text) = Visible(screen.text)
                 /\ Len(screen'.text) >= Len(screen.text)
                 /\ ~Ahead(screen) /\ ~PendingLines(screen) => ~Ahead(screen')]_anVars
  <2> SUFFICES ASSUME AnInv, Move
               PROVE  /\ Visible(screen'.text) = Visible(screen.text)
                      /\ Len(screen'.text) >= Len(screen.text)
                      /\ ~Ahead(screen) /\ ~PendingLines(screen) => ~Ahead(screen')
    OBVIOUS
  <2>1. Good(screen)
    <3>1. PICK t : Draw(t)
      BY DEF Move
    <3> QED BY <3>1, DrawIs DEF Drawn
  <2>2. ASSUME ~Ahead(screen), ~PendingLines(screen) PROVE ~Ahead(screen')
    <3>1. screen.cur <= screen.end
      BY <2>1, <2>2, GoodIs DEF Ahead
    <3>2. Good(screen') /\ screen'.cur <= screen'.end
      BY <2>1, <2>2, <3>1, SimpleIs, MoveIs DEF Simple, StaysIn
    <3> QED BY <3>2, GoodIs DEF Ahead
  <2> QED BY <2>2, MoveIs DEF Blanked
<1>5. AnSpec => StraysAreKnown
  BY <1>1, AnInvHolds, PTL DEF AnSpec, StraysAreKnown
<1>6. AnSpec => LinesStay
  BY <1>2, AnInvHolds, PTL DEF AnSpec, LinesStay
<1>7. AnSpec => PrintReplaces
  BY <1>3, AnInvHolds, PTL DEF AnSpec, PrintReplaces
<1>8. AnSpec => MovesDrawNothing
  BY <1>4, AnInvHolds, PTL DEF AnSpec, MovesDrawNothing
<1> QED BY <1>5, <1>6, <1>7, <1>8 DEF DrawingIsLocal
=============================================================================
