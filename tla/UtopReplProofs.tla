-------------------------- MODULE UtopReplProofs --------------------------
EXTENDS UtopRepl, SeqOrderProofs
-----------------------------------------------------------------------------
(* UtopRepl.                                                               *)

Requests == 1..MaxRequests

\* What is on its way to utop, and from it.
UtInputs == [key : {"input"}, data : Seq(Requests)]
Questions == [key : {"complete"}, data : {<<n>> : n \in Requests}]
Accepts == [key : {"accept"}, a : Nat, b : Nat, cells : SUBSET (Requests \X Int)]
Verdicts == Accepts \cup [key : {"continue"}]
CompletedWords == [key : {"completion-word"}, of : Requests]
ListItems == [key : {"completion"}, of : Requests]
ListEnds == [key : {"completion-stop"}]
Answers == CompletedWords \cup ListEnds
Stanzas == Verdicts \cup Answers \cup ListItems
           \cup [key : {"completion-start", "byte"}]

QueueTypes ==
  /\ toUtop \in Seq(UtInputs \cup Questions) /\ fromUtop \in Seq(Stanzas)
  /\ prefixOf = asks /\ (typist = "wait" => asks > 0)
  /\ phrase \in Seq(1..entered) /\ begins \in Seq(1..entered) /\ evaluated \in Seq(1..entered)
  /\ \A i \in 1..Len(toUtop) : toUtop[i].key = "input" => toUtop[i].data \in Seq(1..entered)

One(b) == IF b THEN 1 ELSE 0

\* Every input is answered once.
UnansweredCounts ==
  unanswered = One(typist = "send") + HowMany(toUtop, UtInputs)
               + HowMany(fromUtop, Verdicts) + One(stanza = "reset")

\* A list comes in one piece.
WholeLists(s) ==
  /\ \A i \in 1..Len(s) :
       s[i].key = "completion" => i < Len(s) /\ s[i + 1].key = "completion-stop"
  /\ \A i \in 2..Len(s) :
       /\ s[i].key = "completion" => s[i - 1].key = "completion-start"
       /\ s[i].key = "completion-stop" => s[i - 1].key = "completion"

\* The reader is behind the start of a list if it is before its item, and
\* behind its item if it is before its end.
HeadFits(s, list) ==
  s # <<>> =>
    /\ Head(s).key = "completion" => list = <<>>
    /\ Head(s).key = "completion-stop" => \E n \in Requests : list = <<n>>

\* The request an element of a queue belongs to.
Num(e) ==
  CASE e.key = "complete" -> {e.data[1]}
    [] e.key \in {"completion-word", "completion"} -> {e.of}
    [] OTHER -> {}

Coming(s) == UNION {Num(s[i]) : i \in 1..Len(s)}
InTurn(s) == \A i, j \in 1..Len(s) : i < j => Below(Num(s[i]), Num(s[j]))

\* The request of the list that is about to end.
ListedIn(s, list) ==
  IF s # <<>> THEN IF Head(s).key = "completion-stop" THEN Range(list) ELSE {} ELSE {}
Listed == ListedIn(fromUtop, gathered)

\* The least element of P lies below Q.
LeastBelow(P, Q) == \E n \in P : (\A k \in P : n <= k) /\ \A m \in Q : n < m

ToCome == Listed \cup Coming(fromUtop) \cup Coming(toUtop)

QueuesInTurn ==
  /\ InTurn(toUtop) /\ InTurn(fromUtop)
  /\ Below(Coming(fromUtop), Coming(toUtop))
  /\ Below(Listed, Coming(fromUtop) \cup Coming(toUtop))
  /\ ToCome \subseteq 1..asks

\* Answers g given and r ready, to requests up to n, before those in C: each
\* has a request of its own, the least it has a part of.
Given(g, r, C, n) ==
  /\ \A i \in 1..Len(g) : /\ g[i].parts \subseteq 1..g[i].ask /\ g[i].ask <= n
                         /\ LeastBelow(g[i].parts, C)
  /\ \A i \in 1..Len(r) : r[i] \subseteq 1..n /\ LeastBelow(r[i], C)
  /\ \A i, j \in 1..Len(g) : i < j => LeastBelow(g[i].parts, g[j].parts)
  /\ \A i \in 1..Len(g), j \in 1..Len(r) : LeastBelow(g[i].parts, r[j])
  /\ \A i, j \in 1..Len(r) : i < j => LeastBelow(r[i], r[j])

AnswersInTurn == QueuesInTurn /\ Given(got, ready, ToCome, asks)

\* Until a request times out, one is under way at most, and it is the last.
OneQuestion ==
  ~late =>
    /\ HowMany(toUtop, Questions) + HowMany(fromUtop, Answers) + Len(ready)
         = One(typist = "wait")
    /\ ToCome \subseteq {asks}
    /\ \A i \in 1..Len(ready) : ready[i] = {asks}
    /\ \A i \in 1..Len(got) : got[i].parts = {got[i].ask}

\* The lines from the first to the n-th.
UpToLine(n) == [i \in 1..n |-> i]

\* What utop has not evaluated is pending; it has evaluated everything.
LinesPending == evaluated \o phrase = UpToLine(entered) /\ begins = phrase
AllEvaluated == evaluated = UpToLine(entered)

\* Joined and TextOf, with the lengths of the lines as a parameter.
JoinedIn(w, lines) ==
  LET upTo[i \in 0..Len(lines)] ==
        IF i = 0 THEN <<>>
        ELSE upTo[i - 1] \o [k \in 1..(w[lines[i]] + 1) |-> <<lines[i], k - 1>>]
  IN  upTo[Len(lines)]
TextIn(w, cells) == {c \in cells : c[2] \in 0..(w[c[1]] - 1)}

\* The cells at the places from a + 1 to b.
Places2(t, a, b) == {t[x] : x \in (a + 1)..b}

\* An accept has a place in the phrase.
PlaceIn(e, w, lines) ==
  /\ e.a <= e.b /\ e.b < Len(JoinedIn(w, lines))
  /\ e.cells = TextIn(w, Places2(JoinedIn(w, lines), e.a, e.b))

\* While the user waits for the answers, one input is under way at most, and
\* its phrase is still there.
OneInput ==
  ~ahead =>
    /\ unanswered <= 1
    /\ unanswered = 0 \/ typist = "send" => LinesPending
    /\ \A i \in 1..Len(toUtop) :
         toUtop[i].key = "input" => LinesPending /\ toUtop[i].data = phrase
    /\ \A i \in 1..Len(fromUtop) :
         /\ fromUtop[i].key = "continue" => LinesPending
         /\ fromUtop[i].key = "accept" =>
              AllEvaluated /\ begins = phrase /\ PlaceIn(fromUtop[i], width, phrase)
    /\ stanza = "reset" => AllEvaluated /\ phrase = <<>>
    /\ TextIn(width, marks) = wrong

NoMarks == stanza # "reset" => marks = {} /\ wrong = {}

UtIInv ==
  /\ UtTypeOK /\ QueueTypes /\ UnansweredCounts
  /\ WholeLists(fromUtop) /\ HeadFits(fromUtop, gathered)
  /\ AnswersInTurn /\ OneQuestion /\ OneInput /\ NoMarks

Messages == UtInputs \cup Questions \cup Stanzas

(* What a message consists of.                                             *)
LEMMA MessageIs ==
  ASSUME NEW e \in Messages
  PROVE  /\ Num(e) \subseteq Requests
         /\ e \in UtInputs <=> e.key = "input"
         /\ e \in Questions <=> e.key = "complete"
         /\ e \in Verdicts <=> e.key \in {"accept", "continue"}
         /\ e \in Answers <=> e.key \in {"completion-word", "completion-stop"}
         /\ e.key = "input" => e.data \in Seq(Requests)
         /\ e.key = "complete" => e.data[1] \in Requests /\ Num(e) = {e.data[1]}
         /\ e.key = "accept" => /\ e.a \in Nat /\ e.b \in Nat
                               /\ e.cells \in SUBSET (Requests \X Int)
         /\ e.key \in {"completion-word", "completion"}
              => e.of \in Requests /\ Num(e) = {e.of}
         /\ e.key \notin {"complete", "completion-word", "completion"} => Num(e) = {}
         /\ e \in Stanzas <=> e.key \notin {"input", "complete"}
<1>1. CASE e \in UtInputs
  BY <1>1 DEF UtInputs, Questions, Stanzas, Verdicts, Accepts, Answers, CompletedWords, ListItems, ListEnds, Num
<1>2. CASE e \in Questions
  <2>1. PICK n \in Requests : e = [key |-> "complete", data |-> <<n>>]
    BY <1>2 DEF Questions
  <2> QED BY <2>1 DEF UtInputs, Questions, Stanzas, Verdicts, Accepts, Answers, CompletedWords, ListItems, ListEnds, Num
<1>3. CASE e \in Stanzas
  BY <1>3 DEF UtInputs, Questions, Stanzas, Verdicts, Accepts, Answers, CompletedWords, ListItems, ListEnds, Num
<1> QED BY <1>1, <1>2, <1>3 DEF Messages

(* The requests of a queue with a message more at its end.                 *)
LEMMA ComingAppend ==
  ASSUME NEW s \in Seq(Messages), NEW e \in Messages
  PROVE  /\ Append(s, e) \in Seq(Messages)
         /\ Coming(Append(s, e)) = Coming(s) \cup Num(e)
         /\ InTurn(s) /\ Below(Coming(s), Num(e)) => InTurn(Append(s, e))
<1> DEFINE t == Append(s, e)
<1>1. /\ t \in Seq(Messages) /\ Len(t) = Len(s) + 1 /\ Len(s) \in Nat
      /\ \A i \in 1..(Len(s) + 1) : t[i] = IF i <= Len(s) THEN s[i] ELSE e
  BY AppendIs, LenProperties
<1> HIDE DEF t
<1>2. Coming(t) = Coming(s) \cup Num(e)
  <2>1. ASSUME NEW i \in 1..Len(t) PROVE Num(t[i]) \subseteq Coming(s) \cup Num(e)
    <3>1. CASE i <= Len(s)
      <4>1. i \in 1..Len(s) /\ t[i] = s[i]
        BY <1>1, <3>1
      <4> QED BY <4>1 DEF Coming
    <3>2. CASE ~(i <= Len(s))
      BY <1>1, <3>2
    <3> QED BY <3>1, <3>2
  <2>2. \A i \in 1..Len(s) : i \in 1..Len(t) /\ t[i] = s[i]
    BY <1>1
  <2>3. Len(t) \in 1..Len(t) /\ t[Len(t)] = e
    BY <1>1
  <2>4. Coming(t) \subseteq Coming(s) \cup Num(e)
    BY <2>1 DEF Coming
  <2>5. Coming(s) \subseteq Coming(t)
    BY <2>2 DEF Coming
  <2>6. Num(e) \subseteq Coming(t)
    BY <2>3 DEF Coming
  <2> QED BY <2>4, <2>5, <2>6
<1>3. ASSUME InTurn(s), Below(Coming(s), Num(e)) PROVE InTurn(t)
  <2> SUFFICES ASSUME NEW i \in 1..Len(t), NEW j \in 1..Len(t), i < j
               PROVE  Below(Num(t[i]), Num(t[j]))
    BY DEF InTurn
  <2>1. i \in 1..Len(s) /\ t[i] = s[i]
    BY <1>1
  <2>2. CASE j <= Len(s)
    <3>1. j \in 1..Len(s) /\ t[j] = s[j]
      BY <1>1, <2>2
    <3> QED BY <1>3, <2>1, <3>1 DEF InTurn
  <2>3. CASE ~(j <= Len(s))
    <3>1. t[j] = e
      BY <1>1, <2>3
    <3>2. Num(s[i]) \subseteq Coming(s)
      BY <2>1 DEF Coming
    <3> QED BY <1>3, <2>1, <3>1, <3>2 DEF Below
  <2> QED BY <2>2, <2>3
<1> QED BY <1>1, <1>2, <1>3 DEF t

(* The requests of a queue without its first message.                      *)
LEMMA ComingTail ==
  ASSUME NEW s \in Seq(Messages), s # <<>>
  PROVE  /\ Head(s) \in Messages /\ Tail(s) \in Seq(Messages)
         /\ Coming(s) = Num(Head(s)) \cup Coming(Tail(s))
         /\ InTurn(s) => InTurn(Tail(s)) /\ Below(Num(Head(s)), Coming(Tail(s)))
<1> DEFINE t == Tail(s)
           n == Len(s)
<1>1. /\ Head(s) \in Messages /\ t \in Seq(Messages) /\ Len(t) = n - 1
      /\ \A i \in 1..(n - 1) : t[i] = s[i + 1]
  BY HeadTailProperties
<1>2. n \in Nat \ {0} /\ Head(s) = s[1]
  BY EmptySeq
<1> HIDE DEF t, n
<1>3. \A i \in 1..Len(t) : i + 1 \in 1..n /\ t[i] = s[i + 1]
  BY <1>1, <1>2
<1>4. \A i \in 1..n : i = 1 \/ (i - 1 \in 1..Len(t) /\ s[i] = t[i - 1])
  BY <1>1, <1>2
<1>5. Coming(s) = Num(Head(s)) \cup Coming(t)
  <2>1. \A i \in 1..n : Num(s[i]) \subseteq Num(Head(s)) \cup Coming(t)
    <3> TAKE i \in 1..n
    <3>1. CASE i = 1
      BY <1>2, <3>1
    <3>2. CASE i # 1
      <4>1. i - 1 \in 1..Len(t) /\ s[i] = t[i - 1]
        BY <1>4, <3>2
      <4> QED BY <4>1 DEF Coming
    <3> QED BY <3>1, <3>2
  <2>2. Coming(s) \subseteq Num(Head(s)) \cup Coming(t)
    BY <2>1 DEF Coming, n
  <2>3. \A i \in 1..Len(t) : Num(t[i]) \subseteq Coming(s)
    BY <1>3 DEF Coming, n
  <2>4. Coming(t) \subseteq Coming(s)
    BY <2>3 DEF Coming
  <2>5. Num(Head(s)) \subseteq Coming(s)
    BY <1>2 DEF Coming, n
  <2> QED BY <2>2, <2>4, <2>5
<1>6. ASSUME InTurn(s) PROVE InTurn(t) /\ Below(Num(Head(s)), Coming(t))
  <2>1. InTurn(t)
    <3> SUFFICES ASSUME NEW i \in 1..Len(t), NEW j \in 1..Len(t), i < j
                 PROVE  Below(Num(t[i]), Num(t[j]))
      BY DEF InTurn
    <3>1. /\ i + 1 \in 1..n /\ t[i] = s[i + 1] /\ j + 1 \in 1..n /\ t[j] = s[j + 1]
          /\ i + 1 < j + 1
      BY <1>3
    <3> QED BY <1>6, <3>1 DEF InTurn, n
  <2>2. \A i \in 1..Len(t) : Below(Num(Head(s)), Num(t[i]))
    <3> TAKE i \in 1..Len(t)
    <3>1. 1 \in 1..n /\ i + 1 \in 1..n /\ 1 < i + 1 /\ t[i] = s[i + 1]
      BY <1>2, <1>3
    <3> QED BY <1>2, <1>6, <3>1 DEF InTurn, n
  <2>3. Below(Num(Head(s)), Coming(t))
    BY <2>2 DEF Below, Coming
  <2> QED BY <2>1, <2>3
<1> QED BY <1>1, <1>5, <1>6 DEF t

(* Of no message comes no request.                                         *)
LEMMA ComingEmpty == Coming(<<>>) = {} /\ InTurn(<<>>)
<1>1. Len(<<>>) = 0
  BY EmptySeq
<1> QED BY <1>1 DEF Coming, InTurn

(* Lists stay whole when a message that is no part of one joins the queue, *)
(* or a whole one.                                                         *)
LEMMA ListsAppend ==
  ASSUME NEW s \in Seq(Messages), WholeLists(s), NEW e \in Messages,
         e.key \notin {"completion", "completion-stop"}
  PROVE  WholeLists(Append(s, e))
<1> DEFINE t == Append(s, e)
<1>1. /\ Len(t) = Len(s) + 1 /\ Len(s) \in Nat
      /\ \A i \in 1..(Len(s) + 1) : t[i] = IF i <= Len(s) THEN s[i] ELSE e
  BY AppendIs, LenProperties
<1> HIDE DEF t
<1>2. \A i \in 1..Len(t) : t[i].key \in {"completion", "completion-stop"}
                          => i \in 1..Len(s) /\ t[i] = s[i]
  BY <1>1
<1>3. \A i \in 1..Len(s) : t[i] = s[i]
  BY <1>1
<1>4. ASSUME NEW i \in 1..Len(t), t[i].key = "completion"
      PROVE  i < Len(t) /\ t[i + 1].key = "completion-stop"
  <2>1. i \in 1..Len(s) /\ s[i].key = "completion"
    BY <1>2, <1>4
  <2>2. i < Len(s) /\ s[i + 1].key = "completion-stop"
    BY <2>1 DEF WholeLists
  <2>3. i + 1 \in 1..Len(s) /\ i < Len(t)
    BY <1>1, <2>1, <2>2
  <2> QED BY <1>3, <2>2, <2>3
<1>5. ASSUME NEW i \in 2..Len(t), t[i].key \in {"completion", "completion-stop"}
      PROVE  /\ t[i].key = "completion" => t[i - 1].key = "completion-start"
             /\ t[i].key = "completion-stop" => t[i - 1].key = "completion"
  <2>1. i \in 1..Len(t)
    BY <1>1
  <2>2. i \in 1..Len(s) /\ t[i] = s[i]
    BY <1>2, <1>5, <2>1
  <2>3. i \in 2..Len(s) /\ i - 1 \in 1..Len(s)
    BY <1>1, <2>2
  <2> QED BY <1>3, <2>2, <2>3 DEF WholeLists
<1> QED BY <1>4, <1>5 DEF WholeLists, t

(* The three parts of a list, one by one.                                  *)
LEMMA ThreeMore ==
  ASSUME NEW S, NEW s \in Seq(S), NEW a \in S, NEW b \in S, NEW c \in S
  PROVE  /\ s \o <<a>> = Append(s, a)
         /\ s \o <<a, b, c>> = Append(Append(Append(s, a), b), c)
<1> DEFINE t == <<a, b, c>>
           u == s \o t
           v == Append(Append(Append(s, a), b), c)
           w == Append(Append(s, a), b)
           x == Append(s, a)
<1>1. t \in Seq(S) /\ Len(t) = 3 /\ t[1] = a /\ t[2] = b /\ t[3] = c
  OBVIOUS
<1>2. Len(s) \in Nat
  BY LenProperties
<1>3. /\ x \in Seq(S) /\ Len(x) = Len(s) + 1
      /\ \A i \in 1..(Len(s) + 1) : x[i] = IF i <= Len(s) THEN s[i] ELSE a
  BY AppendIs
<1> HIDE DEF x
<1>4. /\ w \in Seq(S) /\ Len(w) = Len(s) + 2
      /\ \A i \in 1..(Len(s) + 2) : w[i] = IF i <= Len(s) + 1 THEN x[i] ELSE b
  <2>1. /\ w \in Seq(S) /\ Len(w) = Len(x) + 1
        /\ \A i \in 1..(Len(x) + 1) : w[i] = IF i <= Len(x) THEN x[i] ELSE b
    BY <1>3, AppendIs
  <2> QED BY <1>2, <1>3, <2>1
<1> HIDE DEF w
<1>5. /\ v \in Seq(S) /\ Len(v) = Len(s) + 3
      /\ \A i \in 1..(Len(s) + 3) : v[i] = IF i <= Len(s) + 2 THEN w[i] ELSE c
  <2>0. v = Append(w, c)
    BY DEF w, x
  <2>1. /\ Append(w, c) \in Seq(S) /\ Len(Append(w, c)) = Len(w) + 1
        /\ \A i \in 1..(Len(w) + 1) : Append(w, c)[i] = IF i <= Len(w) THEN w[i] ELSE c
    BY <1>4, AppendIs
  <2> QED BY <1>2, <1>4, <2>0, <2>1
<1> HIDE DEF t, v
<1>6. /\ u \in Seq(S) /\ Len(u) = Len(s) + 3
      /\ \A i \in 1..(Len(s) + 3) : u[i] = IF i <= Len(s) THEN s[i] ELSE t[i - Len(s)]
  <2>1. /\ u \in Seq(S) /\ Len(u) = Len(s) + Len(t)
        /\ \A i \in 1..(Len(s) + Len(t)) : u[i] = IF i <= Len(s) THEN s[i] ELSE t[i - Len(s)]
    BY <1>1, ConcatProperties
  <2>2. Len(t) = 3
    BY <1>1
  <2> HIDE DEF u
  <2> QED BY <2>1, <2>2
<1> HIDE DEF u
<1>7. ASSUME NEW i \in 1..(Len(s) + 3) PROVE u[i] = v[i]
  <2>1. CASE i <= Len(s)
    BY <1>2, <1>3, <1>4, <1>5, <1>6, <2>1
  <2>2. CASE i = Len(s) + 1
    <3>1. u[i] = a /\ v[i] = w[i] /\ w[i] = x[i]
      <4>1. ~(i <= Len(s)) /\ i - Len(s) = 1 /\ i <= Len(s) + 1 /\ i <= Len(s) + 2
            /\ i \in 1..(Len(s) + 2)
        BY <1>2, <2>2
      <4>2. u[i] = a
        BY <1>1, <1>6, <4>1
      <4>3. v[i] = w[i]
        BY <1>5, <4>1
      <4>4. w[i] = x[i]
        BY <1>4, <4>1
      <4> QED BY <4>2, <4>3, <4>4
    <3> QED BY <1>2, <1>3, <2>2, <3>1
  <2>3. CASE i = Len(s) + 2
    <3>1. u[i] = b /\ v[i] = w[i]
      BY <1>1, <1>2, <1>5, <1>6, <2>3
    <3> QED BY <1>2, <1>4, <2>3, <3>1
  <2>4. CASE i = Len(s) + 3
    <3>1. u[i] = c /\ v[i] = c
      BY <1>1, <1>2, <1>5, <1>6, <2>4
    <3> QED BY <3>1
  <2> QED BY <1>2, <2>1, <2>2, <2>3, <2>4
<1>8. u = v
  <2>1. Len(u) = Len(v) /\ \A i \in 1..Len(u) : u[i] = v[i]
    BY <1>5, <1>6, <1>7
  <2> QED BY <1>5, <1>6, <2>1, SeqEqual
<1>9. s \o <<a>> = x
  BY AppendIsConcat DEF x
<1> QED BY <1>8, <1>9 DEF u, v, t, x

\* A whole list.
List(n) == <<[key |-> "completion-start"], [key |-> "completion", of |-> n],
             [key |-> "completion-stop"]>>

(* A whole list at the end of a queue.                                     *)
LEMMA ListAppended ==
  ASSUME NEW s \in Seq(Messages), NEW n \in Requests
  PROVE  LET u == s \o List(n) IN
         /\ u \in Seq(Messages) /\ Len(u) = Len(s) + 3
         /\ \A i \in 1..Len(s) : u[i] = s[i]
         /\ u[Len(s) + 1].key = "completion-start"
         /\ u[Len(s) + 2].key = "completion"
         /\ u[Len(s) + 3].key = "completion-stop"
         /\ Coming(u) = Coming(s) \cup {n}
         /\ InTurn(s) /\ Below(Coming(s), {n}) => InTurn(u)
         /\ WholeLists(s) => WholeLists(u)
         /\ HowMany(u, Verdicts) = HowMany(s, Verdicts)
         /\ HowMany(u, Answers) = HowMany(s, Answers) + 1
<1> DEFINE a == [key |-> "completion-start"]
           b == [key |-> "completion", of |-> n]
           c == [key |-> "completion-stop"]
           x == Append(s, a)
           w == Append(x, b)
           u == Append(w, c)
<1>1. a \in Messages /\ b \in Messages /\ c \in Messages
  BY DEF Messages, Stanzas, ListItems, ListEnds, Answers
<1>2. s \o List(n) = u
  BY <1>1, ThreeMore DEF List
<1>3. /\ a.key = "completion-start" /\ b.key = "completion" /\ c.key = "completion-stop"
      /\ b.of = n
  OBVIOUS
<1>4. Num(a) = {} /\ Num(b) = {n} /\ Num(c) = {}
  BY <1>3 DEF Num
<1>5. /\ a \notin Verdicts /\ b \notin Verdicts /\ c \notin Verdicts
      /\ a \notin Answers /\ b \notin Answers /\ c \in Answers
  BY <1>1, <1>3, MessageIs
<1> HIDE DEF a, b, c
<1>6. /\ x \in Seq(Messages) /\ Len(x) = Len(s) + 1 /\ Len(s) \in Nat
      /\ \A i \in 1..(Len(s) + 1) : x[i] = IF i <= Len(s) THEN s[i] ELSE a
  BY <1>1, AppendIs, LenProperties
<1>7. /\ Coming(x) = Coming(s) /\ (InTurn(s) => InTurn(x))
      /\ HowMany(x, Verdicts) = HowMany(s, Verdicts) + 0
      /\ HowMany(x, Answers) = HowMany(s, Answers) + 0
  <2>1. Below(Coming(s), Num(a))
    BY <1>4 DEF Below
  <2>2. Coming(x) = Coming(s) /\ (InTurn(s) => InTurn(x))
    BY <1>1, <1>4, <2>1, ComingAppend
  <2>3. HowMany(x, Verdicts) = HowMany(s, Verdicts) + 0
    BY <1>1, <1>5, HowManyAppend
  <2>4. HowMany(x, Answers) = HowMany(s, Answers) + 0
    BY <1>1, <1>5, HowManyAppend
  <2> QED BY <2>2, <2>3, <2>4
<1> HIDE DEF x
<1>8. /\ w \in Seq(Messages) /\ Len(w) = Len(x) + 1
      /\ \A i \in 1..(Len(x) + 1) : w[i] = IF i <= Len(x) THEN x[i] ELSE b
  BY <1>1, <1>6, AppendIs
<1>9. /\ Coming(w) = Coming(s) \cup {n}
      /\ InTurn(s) /\ Below(Coming(s), {n}) => InTurn(w)
      /\ HowMany(w, Verdicts) = HowMany(s, Verdicts) + 0 + 0
      /\ HowMany(w, Answers) = HowMany(s, Answers) + 0 + 0
  <2>1. /\ Coming(w) = Coming(x) \cup {n}
        /\ InTurn(x) /\ Below(Coming(x), {n}) => InTurn(w)
    BY <1>1, <1>4, <1>6, ComingAppend
  <2>2. HowMany(w, Verdicts) = HowMany(x, Verdicts) + 0
    BY <1>1, <1>5, <1>6, HowManyAppend
  <2>3. HowMany(w, Answers) = HowMany(x, Answers) + 0
    BY <1>1, <1>5, <1>6, HowManyAppend
  <2> QED BY <1>7, <2>1, <2>2, <2>3
<1> HIDE DEF w
<1>10. /\ u \in Seq(Messages) /\ Len(u) = Len(w) + 1
       /\ \A i \in 1..(Len(w) + 1) : u[i] = IF i <= Len(w) THEN w[i] ELSE c
  BY <1>1, <1>8, AppendIs
<1>11. /\ Coming(u) = Coming(w) /\ (InTurn(w) => InTurn(u))
       /\ HowMany(u, Verdicts) = HowMany(w, Verdicts) + 0
       /\ HowMany(u, Answers) = HowMany(w, Answers) + 1
  <2>1. Below(Coming(w), Num(c))
    BY <1>4 DEF Below
  <2>2. Coming(u) = Coming(w) /\ (InTurn(w) => InTurn(u))
    <3>1. Coming(u) = Coming(w) \cup Num(c)
      BY <1>1, <1>8, ComingAppend
    <3>2. InTurn(w) => InTurn(u)
      BY <1>1, <1>8, <2>1, ComingAppend
    <3> QED BY <1>4, <3>1, <3>2
  <2>3. HowMany(u, Verdicts) = HowMany(w, Verdicts) + 0
    BY <1>1, <1>5, <1>8, HowManyAppend
  <2>4. HowMany(u, Answers) = HowMany(w, Answers) + 1
    BY <1>1, <1>5, <1>8, HowManyAppend
  <2> QED BY <2>2, <2>3, <2>4
<1> HIDE DEF u
<1>12. /\ HowMany(s, Verdicts) \in Int /\ HowMany(s, Answers) \in Int
  BY HowManyIs
<1>13. /\ Len(u) = Len(s) + 3 /\ (\A i \in 1..Len(s) : u[i] = s[i])
       /\ u[Len(s) + 1] = a /\ u[Len(s) + 2] = b /\ u[Len(s) + 3] = c
  <2>1. Len(x) = Len(s) + 1 /\ Len(w) = Len(s) + 2 /\ Len(u) = Len(s) + 3
    BY <1>6, <1>8, <1>10
  <2>2. u[Len(s) + 3] = c
    BY <1>6, <1>10, <2>1
  <2>3. u[Len(s) + 2] = b
    BY <1>6, <1>8, <1>10, <2>1
  <2>4. u[Len(s) + 1] = a
    BY <1>6, <1>8, <1>10, <2>1
  <2>5. \A i \in 1..Len(s) : u[i] = s[i]
    BY <1>6, <1>8, <1>10, <2>1
  <2> QED BY <2>1, <2>2, <2>3, <2>4, <2>5
<1>14. ASSUME WholeLists(s) PROVE WholeLists(u)
  <2>1. \A i \in 1..Len(u) : i \in 1..Len(s) \/ i \in {Len(s) + 1, Len(s) + 2, Len(s) + 3}
    BY <1>6, <1>13
  <2>2. ASSUME NEW i \in 1..Len(u), u[i].key = "completion"
        PROVE  i < Len(u) /\ u[i + 1].key = "completion-stop"
    <3>1. CASE i \in 1..Len(s)
      <4>1. i < Len(s) /\ s[i + 1].key = "completion-stop"
        BY <1>13, <1>14, <2>2, <3>1 DEF WholeLists
      <4>2. i + 1 \in 1..Len(s) /\ i < Len(u)
        BY <1>6, <1>13, <3>1, <4>1
      <4> QED BY <1>13, <4>1, <4>2
    <3>2. CASE i = Len(s) + 2
      <4>1. i < Len(u) /\ i + 1 = Len(s) + 3
        BY <1>6, <1>13, <3>2
      <4> QED BY <1>3, <1>13, <4>1
    <3>3. CASE i \in {Len(s) + 1, Len(s) + 3}
      BY <1>3, <1>13, <2>2, <3>3
    <3> QED BY <2>1, <3>1, <3>2, <3>3
  <2>3. ASSUME NEW i \in 2..Len(u)
        PROVE  /\ u[i].key = "completion" => u[i - 1].key = "completion-start"
               /\ u[i].key = "completion-stop" => u[i - 1].key = "completion"
    <3>1. CASE i \in 1..Len(s)
      <4>1. i \in 2..Len(s) /\ i - 1 \in 1..Len(s)
        BY <1>6, <3>1
      <4> QED BY <1>13, <1>14, <3>1, <4>1 DEF WholeLists
    <3>2. CASE i = Len(s) + 1
      BY <1>3, <1>13, <3>2
    <3>3. CASE i = Len(s) + 2
      <4>1. i - 1 = Len(s) + 1
        BY <1>6, <3>3
      <4> QED BY <1>3, <1>13, <3>3, <4>1
    <3>4. CASE i = Len(s) + 3
      <4>1. i - 1 = Len(s) + 2
        BY <1>6, <3>4
      <4> QED BY <1>3, <1>13, <3>4, <4>1
    <3>5. i \in 1..Len(u)
      BY <1>6, <1>13
    <3> QED BY <2>1, <3>1, <3>2, <3>3, <3>4, <3>5
  <2> QED BY <2>2, <2>3 DEF WholeLists
<1>15. /\ HowMany(u, Verdicts) = HowMany(s, Verdicts)
       /\ HowMany(u, Answers) = HowMany(s, Answers) + 1
  BY <1>9, <1>11, <1>12
<1> HIDE DEF List
<1> QED BY <1>2, <1>3, <1>9, <1>10, <1>11, <1>13, <1>14, <1>15

(* A queue of whole lists without its first message.                       *)
LEMMA ListsTail ==
  ASSUME NEW s \in Seq(Messages), s # <<>>, WholeLists(s)
  PROVE  /\ WholeLists(Tail(s))
         /\ Head(s).key = "completion"
              => Tail(s) # <<>> /\ Head(Tail(s)).key = "completion-stop"
         /\ Tail(s) # <<>> =>
              /\ Head(Tail(s)).key = "completion" => Head(s).key = "completion-start"
              /\ Head(Tail(s)).key = "completion-stop" => Head(s).key = "completion"
<1> DEFINE t == Tail(s)
           n == Len(s)
<1>1. /\ t \in Seq(Messages) /\ Len(t) = n - 1
      /\ \A i \in 1..(n - 1) : t[i] = s[i + 1]
  BY HeadTailProperties
<1>2. n \in Nat \ {0} /\ Head(s) = s[1]
  BY EmptySeq
<1>3. t # <<>> <=> n > 1
  <2>1. t = <<>> <=> Len(t) = 0
    BY <1>1, LenZero
  <2> QED BY <1>1, <1>2, <2>1
<1>4. t # <<>> => Head(t) = t[1] /\ t[1] = s[2]
  BY <1>1, <1>2, <1>3
<1> HIDE DEF t, n
<1>5. WholeLists(t)
  <2>1. ASSUME NEW i \in 1..Len(t), t[i].key = "completion"
        PROVE  i < Len(t) /\ t[i + 1].key = "completion-stop"
    <3>1. i + 1 \in 1..n /\ t[i] = s[i + 1]
      BY <1>1, <1>2
    <3>2. i + 1 < n /\ s[(i + 1) + 1].key = "completion-stop"
      BY <2>1, <3>1 DEF WholeLists, n
    <3>3. i < Len(t) /\ i + 1 \in 1..(n - 1)
      BY <1>1, <1>2, <3>1, <3>2
    <3> QED BY <1>1, <3>2, <3>3
  <2>2. ASSUME NEW i \in 2..Len(t)
        PROVE  /\ t[i].key = "completion" => t[i - 1].key = "completion-start"
               /\ t[i].key = "completion-stop" => t[i - 1].key = "completion"
    <3>1. /\ i + 1 \in 2..n /\ i \in 1..(n - 1) /\ i - 1 \in 1..(n - 1)
          /\ (i + 1) - 1 = i /\ (i - 1) + 1 = i
      BY <1>1, <1>2
    <3>2. t[i] = s[i + 1] /\ t[i - 1] = s[i]
      BY <1>1, <3>1
    <3>3. /\ s[i + 1].key = "completion" => s[(i + 1) - 1].key = "completion-start"
          /\ s[i + 1].key = "completion-stop" => s[(i + 1) - 1].key = "completion"
      BY <3>1 DEF WholeLists, n
    <3> QED BY <3>1, <3>2, <3>3
  <2> QED BY <2>1, <2>2 DEF WholeLists
<1>6. ASSUME Head(s).key = "completion" PROVE t # <<>> /\ Head(t).key = "completion-stop"
  <2>1. 1 \in 1..n
    BY <1>2
  <2>2. 1 < n /\ s[1 + 1].key = "completion-stop"
    BY <1>2, <1>6, <2>1 DEF WholeLists, n
  <2> QED BY <1>2, <1>3, <1>4, <2>2
<1>7. ASSUME t # <<>>
      PROVE  /\ Head(t).key = "completion" => Head(s).key = "completion-start"
             /\ Head(t).key = "completion-stop" => Head(s).key = "completion"
  <2>1. 2 \in 2..n /\ 2 - 1 = 1
    BY <1>2, <1>3, <1>7
  <2>2. /\ s[2].key = "completion" => s[2 - 1].key = "completion-start"
        /\ s[2].key = "completion-stop" => s[2 - 1].key = "completion"
    BY <2>1 DEF WholeLists, n
  <2> QED BY <1>2, <1>4, <1>7, <2>1, <2>2
<1> QED BY <1>5, <1>6, <1>7 DEF t
-----------------------------------------------------------------------------
(* The place of an error, by induction over the lines of the phrase.       *)

Places2D == Requests \X Int

\* A line with its newline, as cells.
LineCells(l) == [k \in 1..(width[l] + 1) |-> <<l, k - 1>>]

(* A phrase is its lines, one behind the other.                            *)
LEMMA JoinedIs ==
  ASSUME UtTypeOK, NEW lines \in Seq(1..entered)
  PROVE  \E J \in [0..Len(lines) -> Seq(Places2D)] :
           /\ J[0] = <<>> /\ Joined(lines) = J[Len(lines)]
           /\ \A i \in 1..Len(lines) : J[i] = J[i - 1] \o LineCells(lines[i])
<1> DEFINE Body(f, i) == IF i = 0 THEN <<>> ELSE f[i - 1] \o LineCells(lines[i])
           n == Len(lines)
           J == CHOOSE f : f = [i \in 0..n |-> Body(f, i)]
           S == Seq(Places2D)
<1>1. Joined(lines) = J[n]
  BY DEF Joined, LineCells
<1>2. n \in Nat /\ \A i \in 1..n : lines[i] \in 1..entered
  BY LenProperties, ElementOfSeq
<1>3. \A i \in 1..n : LineCells(lines[i]) \in S
  <2> TAKE i \in 1..n
  <2> DEFINE l == lines[i]
  <2>1. l \in 1..entered
    BY <1>2
  <2>2. l \in Requests /\ width[l] \in Nat
    <3>1. /\ width \in Seq(Widths) /\ Len(width) \in Nat /\ entered = Len(width)
          /\ entered <= MaxRequests
      BY LenProperties DEF UtTypeOK, entered
    <3>2. l \in 1..Len(width)
      BY <2>1, <3>1
    <3>3. width[l] \in Widths
      BY <3>1, <3>2, ElementOfSeq
    <3>4. width[l] \in Nat
      BY <3>3, WidthsAssumption
    <3>5. l \in Requests
      BY <3>1, <3>2, UtopBoundsAssumption DEF Requests
    <3> QED BY <3>4, <3>5
  <2> HIDE DEF l
  <2>3. width[l] + 1 \in Nat /\ \A k \in 1..(width[l] + 1) : <<l, k - 1>> \in Places2D
    BY <2>2 DEF Places2D
  <2>4. LineCells(l) \in Seq(Places2D)
    BY <2>3, IsASeq DEF LineCells
  <2> QED BY <2>4 DEF l
<1> HIDE DEF n, S
<1>4. \E f : f = [i \in 0..n |-> Body(f, i)]
  <2> DEFINE step == [p \in S \X (1..n) |-> p[1] \o LineCells(lines[p[2]])]
             empty == <<>>
  <2>1. \A q \in S, i \in 1..n : q \o LineCells(lines[i]) \in S
    BY <1>3, ConcatProperties DEF S
  <2>2. step \in [S \X (1..n) -> S]
    BY <2>1
  <2>3. \A q \in S, i \in 1..n : step[<<q, i>>] = q \o LineCells(lines[i])
    OBVIOUS
  <2>4. empty \in S
    BY EmptySeq DEF S
  <2>5. PICK f \in [0..n -> S] : f[0] = empty /\ \A i \in 1..n : f[i] = step[<<f[i - 1], i>>]
    <3> HIDE DEF step, empty
    <3>1. PICK f \in [0..n -> S] : Recursive(f, empty, step, n)
      BY <1>2, <2>2, <2>4, PrimitiveRecursion
    <3> QED BY <3>1 DEF Recursive
  <2> HIDE DEF step
  <2>6. \A i \in 1..n : i - 1 \in 0..n /\ i # 0 /\ f[i] = f[i - 1] \o LineCells(lines[i])
    <3> TAKE i \in 1..n
    <3>1. i - 1 \in 0..n /\ i # 0
      BY <1>2
    <3>2. f[i - 1] \in S
      BY <2>5, <3>1
    <3> QED BY <2>3, <2>5, <3>1, <3>2
  <2>7. \A i \in 0..n : f[i] = Body(f, i)
    <3> TAKE i \in 0..n
    <3>1. i = 0 \/ i \in 1..n
      BY <1>2
    <3>2. CASE i = 0
      BY <2>5, <3>2
    <3>3. CASE i \in 1..n
      BY <2>6, <3>3
    <3> QED BY <3>1, <3>2, <3>3
  <2>8. f = [i \in 0..n |-> f[i]]
    BY <2>5
  <2>9. f = [i \in 0..n |-> Body(f, i)]
    <3> HIDE DEF Body
    <3> QED BY <2>7, <2>8
  <2> QED BY <2>9
<1>5. J = [i \in 0..n |-> Body(J, i)]
  BY <1>4
<1> HIDE DEF J
<1>6. J[0] = <<>> /\ \A i \in 1..n : J[i] = J[i - 1] \o LineCells(lines[i])
  <2>1. 0 \in 0..n /\ \A i \in 1..n : i \in 0..n /\ i # 0
    BY <1>2
  <2>2. \A i \in 0..n : J[i] = Body(J, i)
    <3> HIDE DEF Body
    <3> QED BY <1>5
  <2> QED BY <2>1, <2>2
<1> DEFINE Typed == {k \in Nat : k <= n => J[k] \in S}
<1>7. 0 \in Typed
  BY <1>6, EmptySeq DEF S
<1>8. ASSUME NEW k \in Typed PROVE k + 1 \in Typed
  <2> SUFFICES ASSUME k + 1 <= n PROVE J[k + 1] \in S
    OBVIOUS
  <2>1. k + 1 \in 1..n /\ (k + 1) - 1 = k /\ J[k] \in S
    BY <1>2
  <2>2. J[k + 1] = J[k] \o LineCells(lines[k + 1])
    BY <1>6, <2>1
  <2>3. J[k] \o LineCells(lines[k + 1]) \in S
    BY <1>3, <2>1, ConcatProperties DEF S
  <2> QED BY <2>2, <2>3
<1>9. Typed = Nat
  <2>1. Typed \in SUBSET Nat
    OBVIOUS
  <2> HIDE DEF Typed
  <2> QED BY <1>7, <1>8, <2>1, SetInduction
<1>10. J \in [0..n -> S]
  <2>1. \A i \in 0..n : J[i] \in S
    BY <1>2, <1>9
  <2>2. J = [i \in 0..n |-> J[i]]
    <3> HIDE DEF Body
    <3>1. \A i \in 0..n : J[i] = Body(J, i)
      BY <1>5
    <3> QED BY <1>5, <3>1
  <2> QED BY <2>1, <2>2
<1> QED BY <1>1, <1>6, <1>10 DEF n, S

\* What compose_highlights has found so far, and what a line adds to it.
Found == [a : Int, b : Int, over : BOOLEAN, cells : SUBSET Places2D]
Further(h, l) ==
  IF h.over THEN h
  ELSE IF h.a < width[l] /\ h.b <= width[l]
  THEN [h EXCEPT !.over = TRUE, !.cells = @ \cup Region(l, h.a, h.b)]
  ELSE [a |-> IF h.a > width[l] THEN h.a - width[l] - 1 ELSE 0,
        b |-> h.b - width[l] - 1, over |-> FALSE,
        cells |-> h.cells \cup IF h.a < width[l] THEN Region(l, h.a, width[l]) ELSE {}]

(* What a line adds is in the view.                                        *)
LEMMA FurtherType ==
  ASSUME UtTypeOK, NEW h \in Found, NEW l \in 1..entered
  PROVE  width[l] \in Nat /\ l \in Requests /\ Further(h, l) \in Found
<1>1. /\ width \in Seq(Widths) /\ Len(width) \in Nat /\ entered = Len(width)
      /\ entered <= MaxRequests
  BY LenProperties DEF UtTypeOK, entered
<1>2. width[l] \in Nat
  BY <1>1, ElementOfSeq, WidthsAssumption
<1>3. l \in Requests
  BY <1>1, UtopBoundsAssumption DEF Requests
<1>4. h.a \in Int /\ h.b \in Int /\ h.over \in BOOLEAN /\ h.cells \subseteq Places2D
  BY DEF Found
<1>5. \A x, y \in Int : Region(l, x, y) \subseteq Places2D
  BY <1>3 DEF Region, Places2D
<1>6. CASE h.over
  BY <1>2, <1>3, <1>6 DEF Further
<1>7. CASE ~h.over /\ h.a < width[l] /\ h.b <= width[l]
  <2>1. Further(h, l) = [h EXCEPT !.over = TRUE, !.cells = @ \cup Region(l, h.a, h.b)]
    BY <1>7 DEF Further
  <2>2. h.cells \cup Region(l, h.a, h.b) \subseteq Places2D
    BY <1>4, <1>5
  <2> HIDE DEF Found
  <2>3. Further(h, l) \in Found
    BY <2>1, <2>2 DEF Found
  <2> QED BY <1>2, <1>3, <2>3
<1>8. CASE ~h.over /\ ~(h.a < width[l] /\ h.b <= width[l])
  <2> DEFINE x == IF h.a > width[l] THEN h.a - width[l] - 1 ELSE 0
             y == h.b - width[l] - 1
             c == h.cells \cup IF h.a < width[l] THEN Region(l, h.a, width[l]) ELSE {}
  <2>1. Further(h, l) = [a |-> x, b |-> y, over |-> FALSE, cells |-> c]
    BY <1>8 DEF Further
  <2>2. x \in Int /\ y \in Int
    BY <1>2, <1>4
  <2>3. c \subseteq Places2D
    BY <1>2, <1>4, <1>5
  <2> HIDE DEF x, y, c
  <2>4. Further(h, l) \in Found
    BY <2>1, <2>2, <2>3 DEF Found
  <2> QED BY <1>2, <1>3, <2>4
<1> QED BY <1>6, <1>7, <1>8

(* The highlights are found line by line.                                  *)
LEMMA HighlightedIs ==
  ASSUME UtTypeOK, phrase \in Seq(1..entered), begins = phrase, NEW a \in Nat, NEW b \in Nat
  PROVE  \E H \in [0..Len(phrase) -> Found] :
           /\ H[0] = [a |-> a, b |-> b, over |-> FALSE, cells |-> {}]
           /\ Highlighted(a, b) = H[Len(phrase)].cells
           /\ \A i \in 1..Len(phrase) : H[i] = Further(H[i - 1], phrase[i])
<1> DEFINE Body(f, i) ==
             IF i = 0 THEN [a |-> a, b |-> b, over |-> FALSE, cells |-> {}]
             ELSE LET h == f[i - 1]
                      w == width[phrase[i]]
                  IN  IF h.over \/ i > Len(begins) THEN h
                      ELSE IF h.a < w /\ h.b <= w
                      THEN [h EXCEPT !.over = TRUE, !.cells = @ \cup Region(begins[i], h.a, h.b)]
                      ELSE [a |-> IF h.a > w THEN h.a - w - 1 ELSE 0, b |-> h.b - w - 1,
                            over |-> FALSE,
                            cells |-> h.cells \cup IF h.a < w THEN Region(begins[i], h.a, w) ELSE {}]
           n == Len(phrase)
           H == CHOOSE f : f = [i \in 0..n |-> Body(f, i)]
           start == [a |-> a, b |-> b, over |-> FALSE, cells |-> {}]
<1>1. Highlighted(a, b) = H[n].cells
  BY DEF Highlighted
<1>2. n \in Nat /\ \A i \in 1..n : phrase[i] \in 1..entered
  BY LenProperties, ElementOfSeq
<1>3. \A h \in Found, i \in 1..n : Further(h, phrase[i]) \in Found
  BY <1>2, FurtherType
<1>4. \A f : \A i \in 1..n : Body(f, i) = Further(f[i - 1], phrase[i])
  <2> TAKE f
  <2> TAKE i \in 1..n
  <2>1. i # 0 /\ ~(i > Len(begins)) /\ begins[i] = phrase[i]
    BY <1>2
  <2> DEFINE h == f[i - 1]
  <2> HIDE DEF h
  <2> QED BY <2>1 DEF Further
<1>5. start \in Found /\ \A f : Body(f, 0) = start
  BY DEF Found
<1> HIDE DEF n, Body, start
<1>6. \E f : f = [i \in 0..n |-> Body(f, i)]
  <2> DEFINE step == [p \in Found \X (1..n) |-> Further(p[1], phrase[p[2]])]
  <2>1. step \in [Found \X (1..n) -> Found]
    BY <1>3
  <2>2. \A q \in Found, i \in 1..n : step[<<q, i>>] = Further(q, phrase[i])
    OBVIOUS
  <2>3. PICK f \in [0..n -> Found] : f[0] = start /\ \A i \in 1..n : f[i] = step[<<f[i - 1], i>>]
    <3> HIDE DEF step
    <3>1. PICK f \in [0..n -> Found] : Recursive(f, start, step, n)
      BY <1>2, <1>5, <2>1, PrimitiveRecursion
    <3> QED BY <3>1 DEF Recursive
  <2> HIDE DEF step
  <2>4. \A i \in 1..n : i - 1 \in 0..n /\ f[i] = Further(f[i - 1], phrase[i])
    <3> TAKE i \in 1..n
    <3>1. i - 1 \in 0..n
      BY <1>2
    <3>2. f[i - 1] \in Found
      BY <2>3, <3>1
    <3> QED BY <2>2, <2>3, <3>1, <3>2
  <2>5. \A i \in 0..n : f[i] = Body(f, i)
    <3> TAKE i \in 0..n
    <3>1. i = 0 \/ i \in 1..n
      BY <1>2
    <3>2. CASE i = 0
      BY <1>5, <2>3, <3>2
    <3>3. CASE i \in 1..n
      BY <1>4, <2>4, <3>3
    <3> QED BY <3>1, <3>2, <3>3
  <2>6. f = [i \in 0..n |-> f[i]]
    BY <2>3
  <2>7. f = [i \in 0..n |-> Body(f, i)]
    BY <2>5, <2>6
  <2> QED BY <2>7
<1>7. H = [i \in 0..n |-> Body(H, i)]
  BY <1>6
<1> HIDE DEF H
<1>8. H[0] = start /\ \A i \in 1..n : H[i] = Further(H[i - 1], phrase[i])
  <2>1. 0 \in 0..n /\ \A i \in 1..n : i \in 0..n
    BY <1>2
  <2>2. \A i \in 0..n : H[i] = Body(H, i)
    BY <1>7
  <2> QED BY <1>4, <1>5, <2>1, <2>2
<1> DEFINE Typed == {k \in Nat : k <= n => H[k] \in Found}
<1>9. 0 \in Typed
  BY <1>5, <1>8
<1>10. ASSUME NEW k \in Typed PROVE k + 1 \in Typed
  <2> SUFFICES ASSUME k + 1 <= n PROVE H[k + 1] \in Found
    OBVIOUS
  <2>1. k + 1 \in 1..n /\ (k + 1) - 1 = k /\ H[k] \in Found
    BY <1>2
  <2> QED BY <1>3, <1>8, <2>1
<1>11. Typed = Nat
  <2>1. Typed \in SUBSET Nat
    OBVIOUS
  <2> HIDE DEF Typed
  <2> QED BY <1>9, <1>10, <2>1, SetInduction
<1>12. H \in [0..n -> Found]
  <2>1. \A i \in 0..n : H[i] \in Found
    BY <1>2, <1>11
  <2>2. \A i \in 0..n : H[i] = Body(H, i)
    BY <1>7
  <2>3. H = [i \in 0..n |-> H[i]]
    BY <1>7, <2>2
  <2> QED BY <2>1, <2>3
<1> QED BY <1>1, <1>8, <1>12 DEF n, start

\* The part of s that lies at the places from a on and before b.
Piece(s, a, b) == {s[x] : x \in {y \in 1..Len(s) : a < y /\ y <= b}}

\* Cells of a line.
OnLine(l, K) == {<<l, k>> : k \in K}

\* What has been found fits the lines s: a and b are counted from their end,
\* and what lies in them is highlighted.
Fits(h, s, a, b) ==
  /\ ~h.over => /\ h.a = IF a > Len(s) THEN a - Len(s) ELSE 0
                /\ h.b = b - Len(s)
  /\ h.over => b <= Len(s)
  /\ TextOf(h.cells) = TextOf(Piece(s, a, b))

(* The text among cells of one line.                                       *)
LEMMA LineText ==
  /\ \A X, Y : TextOf(X \cup Y) = TextOf(X) \cup TextOf(Y)
  /\ \A l : \A K \in SUBSET Int :
       TextOf(OnLine(l, K)) = OnLine(l, K \cap (0..(width[l] - 1)))
  /\ TextOf({}) = {}
<1>1. \A X, Y : TextOf(X \cup Y) = TextOf(X) \cup TextOf(Y)
  BY DEF TextOf
<1>2. ASSUME NEW l, NEW K \in SUBSET Int
      PROVE  TextOf(OnLine(l, K)) = OnLine(l, K \cap (0..(width[l] - 1)))
  <2> DEFINE R == OnLine(l, K)
  <2>1. \A c : c \in R <=> \E k \in K : c = <<l, k>>
    BY DEF OnLine
  <2>2. \A k : <<l, k>>[1] = l /\ <<l, k>>[2] = k
    OBVIOUS
  <2> HIDE DEF R
  <2>3. ASSUME NEW c \in TextOf(R) PROVE c \in OnLine(l, K \cap (0..(width[l] - 1)))
    <3>1. c \in R /\ c[2] \in 0..(width[c[1]] - 1)
      BY DEF TextOf
    <3>2. PICK k \in K : c = <<l, k>>
      BY <2>1, <3>1
    <3>3. k \in 0..(width[l] - 1)
      BY <2>2, <3>1, <3>2
    <3> QED BY <3>2, <3>3 DEF OnLine
  <2>4. ASSUME NEW c \in OnLine(l, K \cap (0..(width[l] - 1))) PROVE c \in TextOf(R)
    <3>1. PICK k \in K \cap (0..(width[l] - 1)) : c = <<l, k>>
      BY <2>4 DEF OnLine
    <3>2. c[1] = l /\ c[2] = k /\ c \in R
      BY <2>1, <2>2, <3>1
    <3> QED BY <3>1, <3>2 DEF TextOf
  <2> QED BY <2>3, <2>4 DEF R
<1>3. TextOf({}) = {}
  BY DEF TextOf
<1> QED BY <1>1, <1>2, <1>3

(* A line more.                                                            *)
LEMMA PieceConcat ==
  ASSUME NEW s \in Seq(Places2D), NEW l \in Requests, width[l] \in Nat,
         NEW a \in Nat, NEW b \in Nat
  PROVE  /\ Len(s \o LineCells(l)) = Len(s) + width[l] + 1
         /\ Piece(s \o LineCells(l), a, b)
              = Piece(s, a, b) \cup OnLine(l, {j \in 0..width[l] :
                                               a <= Len(s) + j /\ Len(s) + j < b})
<1> DEFINE L == LineCells(l)
           u == s \o L
           w == width[l]
           n == Len(s)
           K == {j \in 0..w : a <= n + j /\ n + j < b}
<1>0. /\ width[l] + 1 \in Nat /\ \A k \in 1..(width[l] + 1) : <<l, k - 1>> \in Places2D
  BY DEF Places2D
<1>1. L \in Seq(Places2D)
  BY <1>0, IsASeq DEF LineCells
<1>2. Len(L) = w + 1 /\ \A k \in 1..(w + 1) : L[k] = <<l, k - 1>>
  BY <1>0 DEF LineCells
<1> HIDE DEF L, w
<1>3. n \in Nat /\ w \in Nat
  BY LenProperties DEF w
<1>4. /\ u \in Seq(Places2D) /\ Len(u) = n + (w + 1)
      /\ \A i \in 1..(n + (w + 1)) : u[i] = IF i <= n THEN s[i] ELSE L[i - n]
  <2>1. /\ u \in Seq(Places2D) /\ Len(u) = n + Len(L)
        /\ \A i \in 1..(n + Len(L)) : u[i] = IF i <= n THEN s[i] ELSE L[i - n]
    BY <1>1, ConcatProperties
  <2> HIDE DEF u, n
  <2> QED BY <1>2, <2>1
<1> HIDE DEF u, n
<1>5. ASSUME NEW x \in 1..Len(u), a < x, x <= b
      PROVE  u[x] \in Piece(s, a, b) \cup OnLine(l, K)
  <2>1. CASE x <= n
    <3>1. x \in 1..n /\ u[x] = s[x]
      BY <1>3, <1>4, <2>1
    <3> QED BY <1>5, <3>1 DEF Piece, n
  <2>2. CASE ~(x <= n)
    <3>1. x - n \in 1..(w + 1) /\ u[x] = L[x - n]
      BY <1>3, <1>4, <2>2
    <3>2. u[x] = <<l, (x - n) - 1>>
      BY <1>2, <3>1
    <3>3. (x - n) - 1 \in K
      <4> DEFINE y == (x - n) - 1
      <4>1. y \in 0..w /\ n + y = x - 1
        BY <1>3, <3>1
      <4>2. a <= x - 1 /\ x - 1 < b
        BY <1>5
      <4> HIDE DEF y
      <4>3. y \in K
        BY <4>1, <4>2
      <4> QED BY <4>3 DEF y
    <3> HIDE DEF K
    <3> QED BY <3>2, <3>3 DEF OnLine
  <2> QED BY <2>1, <2>2
<1>6. ASSUME NEW x \in 1..n, a < x, x <= b PROVE s[x] \in Piece(u, a, b)
  <2>1. x \in 1..Len(u) /\ u[x] = s[x]
    BY <1>3, <1>4
  <2> QED BY <1>6, <2>1 DEF Piece
<1>7. ASSUME NEW k \in K PROVE <<l, k>> \in Piece(u, a, b)
  <2> DEFINE x == n + k + 1
  <2>1. /\ x \in 1..Len(u) /\ a < x /\ x <= b /\ ~(x <= n) /\ x - n = k + 1
        /\ k + 1 \in 1..(w + 1) /\ (k + 1) - 1 = k
    BY <1>3, <1>4
  <2> HIDE DEF x
  <2>2. u[x] = L[k + 1]
    BY <1>4, <2>1
  <2>3. u[x] = <<l, k>>
    BY <1>2, <2>1, <2>2
  <2> QED BY <2>1, <2>3 DEF Piece
<1>8. Piece(u, a, b) \subseteq Piece(s, a, b) \cup OnLine(l, K)
  BY <1>5 DEF Piece
<1>9. Piece(s, a, b) \subseteq Piece(u, a, b)
  <2> HIDE DEF K
  <2>1. \A c \in Piece(s, a, b) : \E x \in 1..n : a < x /\ x <= b /\ c = s[x]
    BY DEF Piece, n
  <2> QED BY <1>6, <2>1
<1>10. OnLine(l, K) \subseteq Piece(u, a, b)
  <2> HIDE DEF K
  <2> QED BY <1>7 DEF OnLine
<1>11. Len(u) = n + w + 1
  BY <1>3, <1>4
<1>12. Piece(u, a, b) = Piece(s, a, b) \cup OnLine(l, K)
  <2> HIDE DEF K
  <2> QED BY <1>8, <1>9, <1>10
<1> QED BY <1>11, <1>12 DEF u, w, n, L

(* What is found for a line more fits the lines with it.                   *)
LEMMA FurtherFits ==
  ASSUME UtTypeOK, NEW h \in Found, NEW s \in Seq(Places2D), NEW l \in 1..entered,
         NEW a \in Nat, NEW b \in Nat, a <= b, Fits(h, s, a, b)
  PROVE  Fits(Further(h, l), s \o LineCells(l), a, b)
<1> DEFINE w == width[l]
           n == Len(s)
           u == s \o LineCells(l)
           K == {j \in 0..w : a <= n + j /\ n + j < b}
           g == Further(h, l)
<1>1. w \in Nat /\ l \in Requests /\ n \in Nat
  BY FurtherType, LenProperties
<1>2. Len(u) = n + w + 1 /\ Piece(u, a, b) = Piece(s, a, b) \cup OnLine(l, K)
  BY <1>1, PieceConcat
<1>3. K \in SUBSET Int
  BY <1>1
<1>4. TextOf(Piece(u, a, b))
        = TextOf(Piece(s, a, b)) \cup OnLine(l, K \cap (0..(w - 1)))
  <2>1. TextOf(OnLine(l, K)) = OnLine(l, K \cap (0..(w - 1)))
    <3> HIDE DEF K
    <3> QED BY <1>3, LineText DEF w
  <2> HIDE DEF K, u
  <2>2. TextOf(Piece(s, a, b) \cup OnLine(l, K)) = TextOf(Piece(s, a, b)) \cup TextOf(OnLine(l, K))
    BY LineText
  <2> QED BY <1>2, <2>1, <2>2
<1>5. h.a \in Int /\ h.b \in Int
  BY DEF Found
<1>6. \A x, y \in Int : TextOf(Region(l, x, y))
        = OnLine(l, ((x..(y - 1)) \cup (y..(x - 1))) \cap (0..(w - 1)))
  <2> TAKE x, y \in Int
  <2> DEFINE M == (x..(y - 1)) \cup (y..(x - 1))
  <2>1. Region(l, x, y) = OnLine(l, M)
    BY DEF Region, OnLine
  <2>2. M \in SUBSET Int
    OBVIOUS
  <2> HIDE DEF M
  <2>3. TextOf(OnLine(l, M)) = OnLine(l, M \cap (0..(w - 1)))
    BY <2>2, LineText DEF w
  <2> QED BY <2>1, <2>3 DEF M
<1>0. OnLine(l, {}) = {}
  BY DEF OnLine
<1> HIDE DEF w, u, n
<1>7. CASE h.over
  <2>1. g = h /\ b <= n
    BY <1>7 DEF Further, Fits, n
  <2>2. K \cap (0..(w - 1)) = {}
    BY <1>1, <2>1
  <2>3. b <= Len(u)
    BY <1>1, <1>2, <2>1
  <2>4. OnLine(l, K \cap (0..(w - 1))) = {}
    BY <1>0, <2>2
  <2>5. TextOf(h.cells) = TextOf(Piece(u, a, b))
    BY <1>4, <2>4 DEF Fits
  <2> HIDE DEF g
  <2>6. Fits(h, u, a, b)
    BY <1>7, <2>3, <2>5 DEF Fits
  <2> QED BY <2>1, <2>6 DEF g, u
<1>8. CASE ~h.over /\ h.a < w /\ h.b <= w
  <2>1. h.a = (IF a > n THEN a - n ELSE 0) /\ h.b = b - n
    BY <1>8 DEF Fits, n
  <2>2. g = [h EXCEPT !.over = TRUE, !.cells = @ \cup Region(l, h.a, h.b)]
    BY <1>8 DEF Further, w
  <2>3. g.over = TRUE /\ g.cells = h.cells \cup Region(l, h.a, h.b)
    BY <2>2 DEF Found
  <2>4. ((h.a..(h.b - 1)) \cup (h.b..(h.a - 1))) \cap (0..(w - 1)) = K \cap (0..(w - 1))
    <3>1. ASSUME NEW k \in 0..(w - 1)
          PROVE  k \in (h.a..(h.b - 1)) \cup (h.b..(h.a - 1)) <=> k \in K
      <4>1. CASE a > n
        BY <1>1, <1>8, <2>1, <4>1
      <4>2. CASE ~(a > n)
        BY <1>1, <1>8, <2>1, <4>2
      <4> QED BY <4>1, <4>2
    <3> HIDE DEF K
    <3> QED BY <3>1
  <2>5. TextOf(Region(l, h.a, h.b)) = OnLine(l, K \cap (0..(w - 1)))
    BY <1>5, <1>6, <2>4
  <2>6. TextOf(g.cells) = TextOf(Piece(u, a, b))
    <3>1. TextOf(g.cells) = TextOf(h.cells) \cup TextOf(Region(l, h.a, h.b))
      BY <2>3, LineText
    <3> HIDE DEF K, g
    <3> QED BY <1>4, <2>5, <3>1 DEF Fits
  <2>7. b <= Len(u)
    BY <1>1, <1>2, <1>8, <2>1
  <2> HIDE DEF g
  <2>8. Fits(g, u, a, b)
    BY <2>3, <2>6, <2>7 DEF Fits
  <2> QED BY <2>8 DEF g, u
<1>9. CASE ~h.over /\ ~(h.a < w /\ h.b <= w)
  <2>1. h.a = (IF a > n THEN a - n ELSE 0) /\ h.b = b - n
    BY <1>9 DEF Fits, n
  <2>2. g = [a |-> IF h.a > w THEN h.a - w - 1 ELSE 0, b |-> h.b - w - 1, over |-> FALSE,
             cells |-> h.cells \cup IF h.a < w THEN Region(l, h.a, w) ELSE {}]
    BY <1>9 DEF Further, w
  <2>3. /\ g.over = FALSE /\ g.b = h.b - w - 1
        /\ g.a = (IF h.a > w THEN h.a - w - 1 ELSE 0)
        /\ g.cells = h.cells \cup IF h.a < w THEN Region(l, h.a, w) ELSE {}
    BY <2>2
  <2>4. g.b = b - Len(u) /\ g.a = IF a > Len(u) THEN a - Len(u) ELSE 0
    BY <1>1, <1>2, <2>1, <2>3
  <2>5. TextOf(g.cells) = TextOf(h.cells) \cup OnLine(l, K \cap (0..(w - 1)))
    <3>1. CASE h.a < w
      <4>1. TextOf(g.cells) = TextOf(h.cells) \cup TextOf(Region(l, h.a, w))
        BY <2>3, <3>1, LineText
      <4>2. TextOf(Region(l, h.a, w))
              = OnLine(l, ((h.a..(w - 1)) \cup (w..(h.a - 1))) \cap (0..(w - 1)))
        BY <1>1, <1>5, <1>6
      <4>3. ((h.a..(w - 1)) \cup (w..(h.a - 1))) \cap (0..(w - 1)) = K \cap (0..(w - 1))
        <5>1. ASSUME NEW k \in 0..(w - 1)
              PROVE  k \in (h.a..(w - 1)) \cup (w..(h.a - 1)) <=> k \in K
          <6>1. CASE a > n
            BY <1>1, <1>9, <2>1, <3>1, <6>1
          <6>2. CASE ~(a > n)
            BY <1>1, <1>9, <2>1, <3>1, <6>2
          <6> QED BY <6>1, <6>2
        <5> HIDE DEF K
        <5> QED BY <5>1
      <4> HIDE DEF K, g
      <4> QED BY <4>1, <4>2, <4>3
    <3>2. CASE ~(h.a < w)
      <4>1. g.cells = h.cells \cup {}
        BY <2>3, <3>2
      <4>2. K \cap (0..(w - 1)) = {}
        BY <1>1, <2>1, <3>2
      <4>3. OnLine(l, K \cap (0..(w - 1))) = {}
        BY <1>0, <4>2
      <4> HIDE DEF K, g
      <4> QED BY <4>1, <4>3
    <3> QED BY <3>1, <3>2
  <2>6. TextOf(g.cells) = TextOf(Piece(u, a, b))
    <3> HIDE DEF K, g
    <3> QED BY <1>4, <2>5 DEF Fits
  <2> HIDE DEF g
  <2>7. Fits(g, u, a, b)
    BY <2>3, <2>4, <2>6 DEF Fits
  <2> QED BY <2>7 DEF g, u
<1> QED BY <1>7, <1>8, <1>9

(* What compose_highlights marks is what lies between a and b.             *)
LEMMA ErrorMarked ==
  ASSUME UtTypeOK, phrase \in Seq(1..entered), begins = phrase,
         NEW a \in Nat, NEW b \in Nat, a <= b, b < Len(Joined(phrase))
  PROVE  TextOf(Highlighted(a, b)) = TextOf({Joined(phrase)[x] : x \in (a + 1)..b})
<1> DEFINE n == Len(phrase)
<1>1. PICK J \in [0..n -> Seq(Places2D)] :
        /\ J[0] = <<>> /\ Joined(phrase) = J[n]
        /\ \A i \in 1..n : J[i] = J[i - 1] \o LineCells(phrase[i])
  BY JoinedIs
<1>2. PICK H \in [0..n -> Found] :
        /\ H[0] = [a |-> a, b |-> b, over |-> FALSE, cells |-> {}]
        /\ Highlighted(a, b) = H[n].cells
        /\ \A i \in 1..n : H[i] = Further(H[i - 1], phrase[i])
  BY HighlightedIs
<1>3. n \in Nat /\ \A i \in 1..n : phrase[i] \in 1..entered
  BY LenProperties, ElementOfSeq
<1> HIDE DEF n
<1> DEFINE Good == {k \in Nat : k <= n => Fits(H[k], J[k], a, b)}
<1>4. 0 \in Good
  <2>1. Len(<<>>) = 0
    BY EmptySeq
  <2>2. Piece(<<>>, a, b) = {}
    BY <2>1 DEF Piece
  <2>3. H[0].a = a /\ H[0].b = b /\ H[0].over = FALSE /\ H[0].cells = {}
    BY <1>2
  <2>4. /\ H[0].a = IF a > Len(J[0]) THEN a - Len(J[0]) ELSE 0
        /\ H[0].b = b - Len(J[0])
    BY <1>1, <2>1, <2>3
  <2>5. TextOf(H[0].cells) = TextOf(Piece(J[0], a, b))
    BY <1>1, <2>2, <2>3
  <2>6. Fits(H[0], J[0], a, b)
    BY <2>3, <2>4, <2>5 DEF Fits
  <2> QED BY <2>6
<1>5. ASSUME NEW k \in Good PROVE k + 1 \in Good
  <2> SUFFICES ASSUME k + 1 <= n PROVE Fits(H[k + 1], J[k + 1], a, b)
    OBVIOUS
  <2>1. k + 1 \in 1..n /\ (k + 1) - 1 = k /\ k \in 0..n /\ Fits(H[k], J[k], a, b)
    BY <1>3
  <2>2. H[k] \in Found /\ J[k] \in Seq(Places2D) /\ phrase[k + 1] \in 1..entered
    BY <1>1, <1>2, <1>3, <2>1
  <2>3. /\ H[k + 1] = Further(H[k], phrase[k + 1])
        /\ J[k + 1] = J[k] \o LineCells(phrase[k + 1])
    BY <1>1, <1>2, <2>1
  <2>4. Fits(Further(H[k], phrase[k + 1]), J[k] \o LineCells(phrase[k + 1]), a, b)
    BY <2>1, <2>2, FurtherFits
  <2> QED BY <2>3, <2>4
<1>6. Good = Nat
  <2>1. Good \in SUBSET Nat
    OBVIOUS
  <2> HIDE DEF Good
  <2> QED BY <1>4, <1>5, <2>1, SetInduction
<1>7. Fits(H[n], J[n], a, b)
  <2>1. n \in Good
    BY <1>3, <1>6
  <2>2. n <= n
    BY <1>3
  <2> QED BY <2>1, <2>2
<1>8. TextOf(Highlighted(a, b)) = TextOf(Piece(Joined(phrase), a, b))
  BY <1>1, <1>2, <1>7 DEF Fits
<1>9. Piece(Joined(phrase), a, b) = {Joined(phrase)[x] : x \in (a + 1)..b}
  <2> DEFINE t == Joined(phrase)
  <2>1. t \in Seq(Places2D) /\ Len(t) \in Nat
    BY <1>1, <1>3, LenProperties
  <2>2. b < Len(t)
    OBVIOUS
  <2> HIDE DEF t
  <2>3. {y \in 1..Len(t) : a < y /\ y <= b} = (a + 1)..b
    BY <2>1, <2>2
  <2>4. Piece(t, a, b) = {t[x] : x \in (a + 1)..b}
    BY <2>3 DEF Piece
  <2> QED BY <2>4 DEF t
<1> QED BY <1>8, <1>9
-----------------------------------------------------------------------------
(* What the steps do to a queue, in terms of the invariant.                *)

(* A message more at the end of a queue.                                   *)
LEMMA QueueMore ==
  ASSUME NEW s \in Seq(Messages), NEW e \in Messages
  PROVE  LET t == Append(s, e) IN
         /\ t \in Seq(Messages) /\ t # <<>> /\ Len(t) = Len(s) + 1 /\ Len(s) \in Nat
         /\ \A i \in 1..Len(t) : t[i] = e \/ (i \in 1..Len(s) /\ t[i] = s[i])
         /\ Coming(t) = Coming(s) \cup Num(e)
         /\ InTurn(s) /\ Below(Coming(s), Num(e)) => InTurn(t)
         /\ HowMany(t, UtInputs) = HowMany(s, UtInputs) + One(e.key = "input")
         /\ HowMany(t, Questions) = HowMany(s, Questions) + One(e.key = "complete")
         /\ HowMany(t, Verdicts) = HowMany(s, Verdicts) + One(e.key \in {"accept", "continue"})
         /\ HowMany(t, Answers)
              = HowMany(s, Answers) + One(e.key \in {"completion-word", "completion-stop"})
         /\ e.key \notin {"completion", "completion-stop"} =>
              /\ WholeLists(s) => WholeLists(t)
              /\ \A list : /\ HeadFits(s, list) => HeadFits(t, list)
                           /\ ListedIn(t, list) = ListedIn(s, list)
<1> DEFINE t == Append(s, e)
<1>1. /\ t \in Seq(Messages) /\ Len(t) = Len(s) + 1 /\ Len(s) \in Nat
      /\ \A i \in 1..(Len(s) + 1) : t[i] = IF i <= Len(s) THEN s[i] ELSE e
  BY AppendIs, LenProperties
<1>2. /\ Coming(t) = Coming(s) \cup Num(e)
      /\ InTurn(s) /\ Below(Coming(s), Num(e)) => InTurn(t)
  BY ComingAppend
<1>3. HowMany(t, UtInputs) = HowMany(s, UtInputs) + One(e.key = "input")
  BY HowManyAppend, MessageIs DEF One
<1>4. HowMany(t, Questions) = HowMany(s, Questions) + One(e.key = "complete")
  BY HowManyAppend, MessageIs DEF One
<1>5. HowMany(t, Verdicts) = HowMany(s, Verdicts) + One(e.key \in {"accept", "continue"})
  BY HowManyAppend, MessageIs DEF One
<1>6. HowMany(t, Answers)
        = HowMany(s, Answers) + One(e.key \in {"completion-word", "completion-stop"})
  BY HowManyAppend, MessageIs DEF One
<1>7. t # <<>> /\ Head(t) = t[1] /\ (s # <<>> => Head(s) = s[1] /\ Len(s) # 0)
      /\ (s = <<>> => Len(s) = 0)
  BY <1>1, LenZero
<1>8. Head(t) = IF s = <<>> THEN e ELSE Head(s)
  <2>1. CASE s = <<>>
    BY <1>1, <1>7, <2>1
  <2>2. CASE s # <<>>
    <3>1. 1 \in 1..(Len(s) + 1) /\ 1 <= Len(s)
      BY <1>1, <1>7, <2>2
    <3> QED BY <1>1, <1>7, <2>2, <3>1
  <2> QED BY <2>1, <2>2
<1>9. e.key \notin {"completion", "completion-stop"} => (WholeLists(s) => WholeLists(t))
  BY ListsAppend
<1> HIDE DEF t
<1>10. \A i \in 1..Len(t) : t[i] = e \/ (i \in 1..Len(s) /\ t[i] = s[i])
  BY <1>1
<1>11. ASSUME e.key \notin {"completion", "completion-stop"}, NEW list
       PROVE  /\ HeadFits(s, list) => HeadFits(t, list)
              /\ ListedIn(t, list) = ListedIn(s, list)
  BY <1>7, <1>8, <1>11 DEF HeadFits, ListedIn
<1> QED BY <1>1, <1>2, <1>3, <1>4, <1>5, <1>6, <1>7, <1>9, <1>10, <1>11 DEF t

(* A list more at its end.                                                 *)
LEMMA QueueList ==
  ASSUME NEW s \in Seq(Messages), NEW n \in Requests
  PROVE  LET t == s \o List(n) IN
         /\ \A list : /\ HeadFits(s, list) => HeadFits(t, list)
                      /\ ListedIn(t, list) = ListedIn(s, list)
         /\ \A i \in 1..Len(t) : t[i].key \in {"accept", "continue"}
                                => i \in 1..Len(s) /\ t[i] = s[i]
<1> DEFINE t == s \o List(n)
<1>1. /\ t \in Seq(Messages) /\ Len(t) = Len(s) + 3 /\ Len(s) \in Nat
      /\ \A i \in 1..Len(s) : t[i] = s[i]
      /\ t[Len(s) + 1].key = "completion-start"
      /\ t[Len(s) + 2].key = "completion"
      /\ t[Len(s) + 3].key = "completion-stop"
  <2>1. Len(s) \in Nat
    BY LenProperties
  <2>2. t \in Seq(Messages) /\ Len(t) = Len(s) + 3
    BY ListAppended
  <2>3. \A i \in 1..Len(s) : t[i] = s[i]
    BY ListAppended
  <2>4. t[Len(s) + 1].key = "completion-start" /\ t[Len(s) + 3].key = "completion-stop"
    BY ListAppended
  <2>5. t[Len(s) + 2].key = "completion"
    BY ListAppended
  <2> QED BY <2>1, <2>2, <2>3, <2>4, <2>5
<1> HIDE DEF t
<1>2. t # <<>> /\ Head(t) = t[1] /\ (s # <<>> => Head(s) = s[1] /\ Len(s) # 0)
      /\ (s = <<>> => Len(s) = 0)
  BY <1>1, LenZero
<1>3. IF s = <<>> THEN Head(t).key = "completion-start" ELSE Head(t) = Head(s)
  <2>1. CASE s = <<>>
    BY <1>1, <1>2, <2>1
  <2>2. CASE s # <<>>
    <3>1. 1 \in 1..Len(s)
      BY <1>1, <1>2, <2>2
    <3> QED BY <1>1, <1>2, <2>2, <3>1
  <2> QED BY <2>1, <2>2
<1>4. \A list : /\ HeadFits(s, list) => HeadFits(t, list)
                /\ ListedIn(t, list) = ListedIn(s, list)
  BY <1>2, <1>3 DEF HeadFits, ListedIn
<1>5. \A i \in 1..Len(t) : t[i].key \in {"accept", "continue"}
                          => i \in 1..Len(s) /\ t[i] = s[i]
  <2> SUFFICES ASSUME NEW i \in 1..Len(t), t[i].key \in {"accept", "continue"}
               PROVE  i \in 1..Len(s) /\ t[i] = s[i]
    OBVIOUS
  <2>1. i \in 1..Len(s) \/ i = Len(s) + 1 \/ i = Len(s) + 2 \/ i = Len(s) + 3
    BY <1>1
  <2> QED BY <1>1, <2>1
<1> QED BY <1>4, <1>5 DEF t

(* The first message less.                                                 *)
LEMMA QueueLess ==
  ASSUME NEW s \in Seq(Messages), s # <<>>
  PROVE  LET t == Tail(s)
             e == Head(s)
         IN
         /\ e \in Messages /\ t \in Seq(Messages) /\ e = s[1] /\ 1 \in 1..Len(s)
         /\ \A i \in 1..Len(t) : i + 1 \in 1..Len(s) /\ t[i] = s[i + 1]
         /\ Coming(s) = Num(e) \cup Coming(t)
         /\ InTurn(s) => InTurn(t) /\ Below(Num(e), Coming(t))
         /\ HowMany(t, UtInputs) = HowMany(s, UtInputs) - One(e.key = "input")
         /\ HowMany(t, Questions) = HowMany(s, Questions) - One(e.key = "complete")
         /\ HowMany(t, Verdicts) = HowMany(s, Verdicts) - One(e.key \in {"accept", "continue"})
         /\ HowMany(t, Answers)
              = HowMany(s, Answers) - One(e.key \in {"completion-word", "completion-stop"})
         /\ WholeLists(s) =>
              /\ WholeLists(t)
              /\ e.key # "completion" => \A list : ListedIn(t, list) = {}
              /\ e.key = "completion" => \A list : ListedIn(t, list) = Range(list)
              /\ e.key = "completion" => \A m \in Requests : HeadFits(t, <<m>>)
              /\ e.key = "completion-start" => HeadFits(t, <<>>)
              /\ e.key \notin {"completion-start", "completion"} => \A list : HeadFits(t, list)
<1> DEFINE t == Tail(s)
           e == Head(s)
<1>1. /\ e \in Messages /\ t \in Seq(Messages) /\ Len(t) = Len(s) - 1
      /\ \A i \in 1..(Len(s) - 1) : t[i] = s[i + 1]
  BY HeadTailProperties
<1>2. Len(s) \in Nat \ {0} /\ e = s[1]
  BY EmptySeq
<1>3. /\ Coming(s) = Num(e) \cup Coming(t)
      /\ InTurn(s) => InTurn(t) /\ Below(Num(e), Coming(t))
  BY ComingTail
<1>4. HowMany(t, UtInputs) = HowMany(s, UtInputs) - One(e.key = "input")
  BY <1>1, HowManyTail, MessageIs DEF One
<1>5. HowMany(t, Questions) = HowMany(s, Questions) - One(e.key = "complete")
  BY <1>1, HowManyTail, MessageIs DEF One
<1>6. HowMany(t, Verdicts) = HowMany(s, Verdicts) - One(e.key \in {"accept", "continue"})
  BY <1>1, HowManyTail, MessageIs DEF One
<1>7. HowMany(t, Answers)
        = HowMany(s, Answers) - One(e.key \in {"completion-word", "completion-stop"})
  BY <1>1, HowManyTail, MessageIs DEF One
<1>8. ASSUME WholeLists(s)
      PROVE  /\ WholeLists(t)
             /\ e.key # "completion" => \A list : ListedIn(t, list) = {}
             /\ e.key = "completion" => \A list : ListedIn(t, list) = Range(list)
             /\ e.key = "completion" => \A m \in Requests : HeadFits(t, <<m>>)
             /\ e.key = "completion-start" => HeadFits(t, <<>>)
             /\ e.key \notin {"completion-start", "completion"} => \A list : HeadFits(t, list)
  <2>1. /\ WholeLists(t)
        /\ e.key = "completion" => t # <<>> /\ Head(t).key = "completion-stop"
        /\ t # <<>> => /\ Head(t).key = "completion" => e.key = "completion-start"
                       /\ Head(t).key = "completion-stop" => e.key = "completion"
    BY <1>8, ListsTail
  <2> HIDE DEF t, e
  <2> QED BY <2>1 DEF HeadFits, ListedIn
<1> HIDE DEF t, e
<1>9. /\ 1 \in 1..Len(s)
      /\ \A i \in 1..Len(t) : i + 1 \in 1..Len(s) /\ t[i] = s[i + 1]
  BY <1>1, <1>2
<1> QED BY <1>1, <1>2, <1>3, <1>4, <1>5, <1>6, <1>7, <1>8, <1>9 DEF t, e

(* The queues consist of messages, of the kinds that go each way.          *)
LEMMA QueuesAre ==
  ASSUME QueueTypes
  PROVE  /\ toUtop \in Seq(Messages) /\ fromUtop \in Seq(Messages)
         /\ toUtop # <<>> => Head(toUtop) \in UtInputs \cup Questions
                             /\ Tail(toUtop) \in Seq(UtInputs \cup Questions)
         /\ fromUtop # <<>> => Head(fromUtop) \in Stanzas /\ Tail(fromUtop) \in Seq(Stanzas)
         /\ HowMany(toUtop, UtInputs) \in Nat /\ HowMany(toUtop, Questions) \in Nat
         /\ HowMany(fromUtop, Verdicts) \in Nat /\ HowMany(fromUtop, Answers) \in Nat
<1>1. toUtop \in Seq(UtInputs \cup Questions) /\ fromUtop \in Seq(Stanzas)
  BY DEF QueueTypes
<1>2. UtInputs \cup Questions \subseteq Messages /\ Stanzas \subseteq Messages
  BY DEF Messages
<1>3. toUtop \in Seq(Messages) /\ fromUtop \in Seq(Messages)
  BY <1>1, <1>2, SeqMonotonic
<1>4. /\ HowMany(toUtop, UtInputs) \in Nat /\ HowMany(toUtop, Questions) \in Nat
      /\ HowMany(fromUtop, Verdicts) \in Nat /\ HowMany(fromUtop, Answers) \in Nat
  BY <1>3, HowManyIs
<1> QED BY <1>1, <1>3, <1>4, HeadTailProperties

(* An answer more that is ready: the least request in it is one that was   *)
(* to come, and the others to come lie behind it.                          *)
LEMMA GivenReady ==
  ASSUME NEW G, NEW g \in Seq(G), NEW R, NEW r \in Seq(R), NEW C, NEW D, NEW n \in Nat,
         Given(g, r, C, n), C \subseteq Nat, D \subseteq C,
         NEW P \in R, P \subseteq 1..n,
         NEW m \in P, m \in C, \A k \in P : m <= k, \A x \in D : m < x
  PROVE  Given(g, Append(r, P), D, n)
<1> DEFINE t == Append(r, P)
<1>1. /\ Len(t) = Len(r) + 1 /\ Len(r) \in Nat
      /\ \A i \in 1..(Len(r) + 1) : t[i] = IF i <= Len(r) THEN r[i] ELSE P
  BY AppendIs, LenProperties
<1> HIDE DEF t
<1>2. \A i \in 1..Len(t) : (i \in 1..Len(r) /\ t[i] = r[i]) \/ (i = Len(r) + 1 /\ t[i] = P)
  BY <1>1
<1>3. LeastBelow(P, D)
  BY DEF LeastBelow
<1>4. ASSUME NEW S, S \subseteq Nat, LeastBelow(S, C) PROVE LeastBelow(S, D) /\ LeastBelow(S, P)
  <2>1. PICK l \in S : (\A k \in S : l <= k) /\ \A x \in C : l < x
    BY <1>4 DEF LeastBelow
  <2>2. \A x \in P : l < x
    <3> TAKE x \in P
    <3>1. l < m /\ m <= x /\ l \in Nat /\ m \in Nat /\ x \in Nat
      BY <1>4, <2>1
    <3> QED BY <3>1
  <2> QED BY <2>1, <2>2 DEF LeastBelow
<1>5. \A i \in 1..Len(g) : g[i].parts \subseteq Nat /\ LeastBelow(g[i].parts, C)
  BY DEF Given
<1>6. \A i \in 1..Len(r) : r[i] \subseteq Nat /\ LeastBelow(r[i], C)
  BY DEF Given
<1>7. \A i \in 1..Len(g) : LeastBelow(g[i].parts, D) /\ LeastBelow(g[i].parts, P)
  BY <1>4, <1>5
<1>8. \A i \in 1..Len(r) : LeastBelow(r[i], D) /\ LeastBelow(r[i], P)
  BY <1>4, <1>6
<1>9. \A i \in 1..Len(g) : /\ g[i].parts \subseteq 1..g[i].ask /\ g[i].ask <= n
                           /\ LeastBelow(g[i].parts, D)
  BY <1>7 DEF Given
<1>10. \A i \in 1..Len(t) : t[i] \subseteq 1..n /\ LeastBelow(t[i], D)
  BY <1>2, <1>3, <1>8 DEF Given
<1>11. \A i, j \in 1..Len(g) : i < j => LeastBelow(g[i].parts, g[j].parts)
  BY DEF Given
<1>12. \A i \in 1..Len(g), j \in 1..Len(t) : LeastBelow(g[i].parts, t[j])
  BY <1>2, <1>7 DEF Given
<1>13. ASSUME NEW i \in 1..Len(t), NEW j \in 1..Len(t), i < j PROVE LeastBelow(t[i], t[j])
  <2>1. i \in 1..Len(r) /\ t[i] = r[i]
    BY <1>1, <1>2, <1>13
  <2>2. CASE j \in 1..Len(r) /\ t[j] = r[j]
    BY <1>13, <2>1, <2>2 DEF Given
  <2>3. CASE t[j] = P
    BY <1>8, <2>1, <2>3
  <2> QED BY <1>2, <2>2, <2>3
<1> QED BY <1>9, <1>10, <1>11, <1>12, <1>13 DEF Given, t

(* The first answer that is ready is given to the last request.            *)
LEMMA GivenTaken ==
  ASSUME NEW G, NEW g \in Seq(G), NEW R, NEW r \in Seq(R), NEW C, NEW n \in Nat,
         Given(g, r, C, n), r # <<>>, [ask |-> n, parts |-> Head(r)] \in G
  PROVE  Given(Append(g, [ask |-> n, parts |-> Head(r)]), Tail(r), C, n)
<1> DEFINE e == [ask |-> n, parts |-> Head(r)]
           h == Append(g, e)
           t == Tail(r)
<1>1. /\ Len(h) = Len(g) + 1 /\ Len(g) \in Nat
      /\ \A i \in 1..(Len(g) + 1) : h[i] = IF i <= Len(g) THEN g[i] ELSE e
  BY AppendIs, LenProperties
<1>2. /\ Len(t) = Len(r) - 1 /\ Len(r) \in Nat \ {0} /\ Head(r) = r[1]
      /\ \A i \in 1..(Len(r) - 1) : t[i] = r[i + 1]
  BY HeadTailProperties, EmptySeq
<1>3. e.ask = n /\ e.parts = r[1]
  BY <1>2
<1> HIDE DEF h, t, e
<1>4. \A i \in 1..Len(h) : (i \in 1..Len(g) /\ h[i] = g[i]) \/ (i = Len(g) + 1 /\ h[i] = e)
  BY <1>1
<1>5. \A i \in 1..Len(t) : i + 1 \in 1..Len(r) /\ 1 < i + 1 /\ t[i] = r[i + 1]
  BY <1>2
<1>6. 1 \in 1..Len(r)
  BY <1>2
<1>7. e.parts \subseteq 1..n /\ LeastBelow(e.parts, C)
  BY <1>3, <1>6 DEF Given
<1>8. \A i \in 1..Len(g) : LeastBelow(g[i].parts, e.parts)
  BY <1>3, <1>6 DEF Given
<1>9. \A j \in 1..Len(t) : LeastBelow(e.parts, t[j])
  BY <1>3, <1>5, <1>6 DEF Given
<1>10. \A i \in 1..Len(h) : /\ h[i].parts \subseteq 1..h[i].ask /\ h[i].ask <= n
                            /\ LeastBelow(h[i].parts, C)
  <2> SUFFICES ASSUME NEW i \in 1..Len(h)
               PROVE  /\ h[i].parts \subseteq 1..h[i].ask /\ h[i].ask <= n
                      /\ LeastBelow(h[i].parts, C)
    OBVIOUS
  <2>1. CASE i \in 1..Len(g) /\ h[i] = g[i]
    BY <2>1 DEF Given
  <2>2. CASE h[i] = e
    BY <1>3, <1>7, <2>2
  <2> QED BY <1>4, <2>1, <2>2
<1>11. \A i \in 1..Len(t) : t[i] \subseteq 1..n /\ LeastBelow(t[i], C)
  BY <1>5 DEF Given
<1>12. ASSUME NEW i \in 1..Len(h), NEW j \in 1..Len(h), i < j
       PROVE  LeastBelow(h[i].parts, h[j].parts)
  <2>1. i \in 1..Len(g) /\ h[i] = g[i]
    BY <1>1, <1>4, <1>12
  <2>2. CASE j \in 1..Len(g) /\ h[j] = g[j]
    BY <1>12, <2>1, <2>2 DEF Given
  <2>3. CASE h[j] = e
    BY <1>8, <2>1, <2>3
  <2> QED BY <1>4, <2>2, <2>3
<1>13. ASSUME NEW i \in 1..Len(h), NEW j \in 1..Len(t) PROVE LeastBelow(h[i].parts, t[j])
  <2>1. CASE i \in 1..Len(g) /\ h[i] = g[i]
    BY <1>5, <2>1 DEF Given
  <2>2. CASE h[i] = e
    BY <1>9, <2>2
  <2> QED BY <1>4, <2>1, <2>2
<1>14. ASSUME NEW i \in 1..Len(t), NEW j \in 1..Len(t), i < j PROVE LeastBelow(t[i], t[j])
  <2>1. i + 1 < j + 1 /\ i + 1 \in 1..Len(r) /\ j + 1 \in 1..Len(r)
        /\ t[i] = r[i + 1] /\ t[j] = r[j + 1]
    BY <1>5, <1>14
  <2> QED BY <2>1 DEF Given
<1> QED BY <1>10, <1>11, <1>12, <1>13, <1>14 DEF Given, h, t, e

(* A request more, the last.                                               *)
LEMMA GivenAsked ==
  ASSUME NEW P, NEW g \in Seq([ask : Nat, parts : P]), NEW R, NEW r \in Seq(R), NEW C, NEW n \in Nat, Given(g, r, C, n)
  PROVE  Given(g, r, C \cup {n + 1}, n + 1)
<1>1. ASSUME NEW S, S \subseteq 1..n, LeastBelow(S, C) PROVE LeastBelow(S, C \cup {n + 1})
  <2>1. PICK l \in S : (\A k \in S : l <= k) /\ \A x \in C : l < x
    BY <1>1 DEF LeastBelow
  <2>2. l < n + 1
    BY <1>1
  <2> QED BY <2>1, <2>2 DEF LeastBelow
<1>2. ASSUME NEW i \in 1..Len(g)
      PROVE  /\ g[i].parts \subseteq 1..g[i].ask /\ g[i].ask <= n + 1
             /\ LeastBelow(g[i].parts, C \cup {n + 1})
  <2>1. g[i].parts \subseteq 1..g[i].ask /\ g[i].ask <= n /\ LeastBelow(g[i].parts, C)
    BY DEF Given
  <2>2. g[i].ask \in Nat
    <3>1. g[i] \in [ask : Nat, parts : P]
      BY ElementOfSeq
    <3> QED BY <3>1
  <2>3. LeastBelow(g[i].parts, C \cup {n + 1})
    <3>1. g[i].parts \subseteq 1..n
      BY <2>1, <2>2
    <3> QED BY <1>1, <2>1, <3>1
  <2> QED BY <2>1, <2>2, <2>3
<1>3. ASSUME NEW i \in 1..Len(r)
      PROVE  r[i] \subseteq 1..(n + 1) /\ LeastBelow(r[i], C \cup {n + 1})
  <2>1. r[i] \subseteq 1..n /\ LeastBelow(r[i], C)
    BY DEF Given
  <2>2. LeastBelow(r[i], C \cup {n + 1})
    BY <1>1, <2>1
  <2> QED BY <2>1, <2>2
<1> QED BY <1>2, <1>3 DEF Given
-----------------------------------------------------------------------------
(* The steps.                                                              *)

(* What utop answers to a phrase.                                          *)
LEMMA ReadsInput ==
  ASSUME UtIInv, UtopReadsInput
  PROVE  /\ toUtop # <<>> /\ Head(toUtop).key = "input" /\ toUtop' = Tail(toUtop)
         /\ UNCHANGED <<typist, stanza, marks, wrong>> /\ UNCHANGED editVars
         /\ UNCHANGED completionVars
         /\ Head(toUtop).data \in Seq(1..entered)
         /\ \E e \in Verdicts :
              /\ fromUtop' = Append(fromUtop, e)
              /\ \/ e.key = "continue" /\ evaluated' = evaluated
                 \/ /\ e.key = "accept" /\ evaluated' = evaluated \o Head(toUtop).data
                    /\ PlaceIn(e, width, Head(toUtop).data)
<1> DEFINE lines == Head(toUtop).data
           text == Joined(lines)
<1>1. /\ toUtop # <<>> /\ Head(toUtop).key = "input" /\ toUtop' = Tail(toUtop)
      /\ UNCHANGED <<typist, stanza, marks, wrong>> /\ UNCHANGED editVars
      /\ UNCHANGED completionVars
  BY DEF UtopReadsInput, Says
<1>2. toUtop \in Seq(Messages) /\ fromUtop \in Seq(Messages)
  BY QueuesAre DEF UtIInv
<1>3. lines \in Seq(1..entered)
  <2>1. Head(toUtop) = toUtop[1] /\ 1 \in 1..Len(toUtop)
    BY <1>1, <1>2, QueueLess
  <2> QED BY <1>1, <2>1 DEF UtIInv, QueueTypes
<1>4. fromUtop \in Seq(Stanzas)
  BY DEF UtIInv, QueueTypes
<1>5. \E e \in Verdicts :
        /\ fromUtop' = Append(fromUtop, e)
        /\ \/ e.key = "continue" /\ evaluated' = evaluated
           \/ /\ e.key = "accept" /\ evaluated' = evaluated \o lines
              /\ PlaceIn(e, width, lines)
  <2>1. CASE Says(<<[key |-> "continue"]>>) /\ UNCHANGED evaluated
    <3>1. fromUtop' = fromUtop \o <<[key |-> "continue"]>>
      BY <2>1 DEF Says
    <3>2. [key |-> "continue"] \in Verdicts
      BY DEF Verdicts
    <3>3. [key |-> "continue"] \in Stanzas
      BY <3>2 DEF Stanzas
    <3>4. fromUtop' = Append(fromUtop, [key |-> "continue"])
      BY <1>4, <3>1, <3>3, AppendIsConcat
    <3> QED BY <2>1, <3>2, <3>4
  <2>2. CASE /\ \E a, b \in 0..(Len(text) - 1) :
                  /\ a <= b
                  /\ Says(<<[key |-> "accept", a |-> a, b |-> b,
                             cells |-> TextOf({text[x] : x \in (a + 1)..b})]>>)
             /\ evaluated' = evaluated \o lines
    <3>1. PICK a, b \in 0..(Len(text) - 1) :
               /\ a <= b
               /\ Says(<<[key |-> "accept", a |-> a, b |-> b,
                          cells |-> TextOf({text[x] : x \in (a + 1)..b})]>>)
      BY <2>2
    <3> DEFINE K == TextOf({text[x] : x \in (a + 1)..b})
               e == [key |-> "accept", a |-> a, b |-> b, cells |-> K]
    <3>2. evaluated' = evaluated \o lines
      BY <2>2
    <3> HIDE DEF lines
    <3>3. text \in Seq(Places2D) /\ Len(text) \in Nat
      <4>1. PICK J \in [0..Len(lines) -> Seq(Places2D)] : text = J[Len(lines)]
        BY <1>3, JoinedIs DEF UtIInv
      <4>2. Len(lines) \in 0..Len(lines)
        BY <1>3, LenProperties
      <4> QED BY <4>1, <4>2, LenProperties
    <3>4. text = JoinedIn(width, lines)
      BY DEF Joined, JoinedIn
    <3> HIDE DEF text
    <3>5. K = TextIn(width, Places2(JoinedIn(width, lines), a, b))
      BY <3>4 DEF TextOf, TextIn, Places2
    <3>6. \A x \in (a + 1)..b : text[x] \in Places2D
      <4> TAKE x \in (a + 1)..b
      <4>1. x \in 1..Len(text)
        BY <3>3
      <4> QED BY <3>3, <4>1, ElementOfSeq
    <3>7. K \subseteq Requests \X Int
      BY <3>6 DEF TextOf, Places2D
    <3> HIDE DEF K
    <3>8. e \in Accepts /\ e.key = "accept" /\ e.a = a /\ e.b = b /\ e.cells = K
      BY <3>3, <3>7 DEF Accepts
    <3>9. a <= b /\ b < Len(text)
      BY <3>1, <3>3
    <3>10. fromUtop' = fromUtop \o <<e>>
      BY <3>1 DEF Says, K
    <3> HIDE DEF e
    <3>11. PlaceIn(e, width, lines)
      BY <3>4, <3>5, <3>8, <3>9 DEF PlaceIn
    <3>12. e \in Verdicts /\ e \in Stanzas
      BY <3>8 DEF Verdicts, Stanzas
    <3>13. fromUtop' = Append(fromUtop, e)
      BY <1>4, <3>10, <3>12, AppendIsConcat
    <3> QED BY <3>2, <3>8, <3>11, <3>12, <3>13
  <2> QED BY <2>1, <2>2 DEF UtopReadsInput
<1> QED BY <1>1, <1>3, <1>5

(* What utop answers to a request.                                         *)
LEMMA Completes ==
  ASSUME UtIInv, UtopCompletes
  PROVE  /\ toUtop # <<>> /\ Head(toUtop).key = "complete" /\ toUtop' = Tail(toUtop)
         /\ UNCHANGED <<typist, stanza, marks, wrong, evaluated>> /\ UNCHANGED editVars
         /\ UNCHANGED completionVars
         /\ \E n \in Requests :
              /\ Num(Head(toUtop)) = {n}
              /\ \/ \E e \in CompletedWords : e.of = n /\ fromUtop' = Append(fromUtop, e)
                 \/ fromUtop' = fromUtop \o List(n)
<1> DEFINE n == Head(toUtop).data[1]
<1>1. /\ toUtop # <<>> /\ Head(toUtop).key = "complete" /\ toUtop' = Tail(toUtop)
      /\ UNCHANGED <<typist, stanza, marks, wrong, evaluated>> /\ UNCHANGED editVars
      /\ UNCHANGED completionVars
  BY DEF UtopCompletes, Says
<1>2. toUtop \in Seq(Messages) /\ fromUtop \in Seq(Stanzas)
  BY QueuesAre DEF UtIInv, QueueTypes
<1>3. n \in Requests /\ Num(Head(toUtop)) = {n}
  <2>1. Head(toUtop) \in Messages
    BY <1>1, <1>2, QueueLess
  <2> QED BY <1>1, <2>1, MessageIs
<1> DEFINE w == [key |-> "completion-word", of |-> n]
<1>4. fromUtop' = fromUtop \o <<w>> \/ fromUtop' = fromUtop \o List(n)
  BY DEF UtopCompletes, Says, List
<1> HIDE DEF n
<1>5. w \in CompletedWords /\ w.of = n
  BY <1>3 DEF CompletedWords
<1> HIDE DEF w
<1>6. w \in Stanzas
  BY <1>5 DEF Stanzas, Answers
<1>7. fromUtop' = fromUtop \o <<w>> => fromUtop' = Append(fromUtop, w)
  BY <1>2, <1>6, AppendIsConcat
<1> QED BY <1>1, <1>3, <1>4, <1>5, <1>7

(* A byte that no character has.                                           *)
LEMMA PrintsByte ==
  ASSUME UtIInv, UtopPrintsByte
  PROVE  /\ UNCHANGED <<toUtop, evaluated, typist, stanza, marks, wrong>>
         /\ UNCHANGED editVars /\ UNCHANGED completionVars
         /\ \E e \in Stanzas : e.key = "byte" /\ fromUtop' = Append(fromUtop, e)
<1> DEFINE e == [key |-> "byte"]
<1>1. /\ fromUtop' = fromUtop \o <<e>>
      /\ UNCHANGED <<toUtop, evaluated, typist, stanza, marks, wrong>>
      /\ UNCHANGED editVars /\ UNCHANGED completionVars
  BY DEF UtopPrintsByte, Says
<1>2. e \in Stanzas /\ e.key = "byte"
  BY DEF Stanzas
<1> HIDE DEF e
<1>3. fromUtop' = Append(fromUtop, e)
  BY <1>1, <1>2, AppendIsConcat DEF UtIInv, QueueTypes
<1> QED BY <1>1, <1>2, <1>3

(* What goes to utop and comes from it stays of its kind, and of the inputs *)
(* not one gets lost.                                                      *)
LEMMA CountsStep ==
  ASSUME UtIInv, UtNext
  PROVE  /\ toUtop' \in Seq(UtInputs \cup Questions) /\ fromUtop' \in Seq(Stanzas)
         /\ UnansweredCounts' /\ unanswered' \in Nat
<1> DEFINE A == UtInputs \cup Questions
           c == HowMany(toUtop, UtInputs)
           d == HowMany(fromUtop, Verdicts)
<1>1. /\ toUtop \in Seq(A) /\ fromUtop \in Seq(Stanzas)
      /\ unanswered \in Nat /\ typist \in {"idle", "send", "wait"}
      /\ stanza \in {"read", "reset", "ended"}
      /\ phrase \in Seq(Requests) /\ asks \in 0..MaxRequests /\ MaxRequests \in Nat
  BY UtopBoundsAssumption DEF UtIInv, UtTypeOK, QueueTypes, Requests
<1>2. /\ toUtop \in Seq(Messages) /\ fromUtop \in Seq(Messages)
      /\ toUtop # <<>> => Tail(toUtop) \in Seq(A)
      /\ fromUtop # <<>> => Tail(fromUtop) \in Seq(Stanzas)
      /\ c \in Nat /\ d \in Nat
  BY QueuesAre DEF UtIInv
<1>3. unanswered = One(typist = "send") + c + d + One(stanza = "reset")
  BY DEF UtIInv, UnansweredCounts
<1>4. A \subseteq Messages /\ Stanzas \subseteq Messages
  BY DEF Messages
<1> DEFINE Good == /\ toUtop' \in Seq(A) /\ fromUtop' \in Seq(Stanzas)
                   /\ unanswered' = One(typist' = "send") + HowMany(toUtop', UtInputs)
                                    + HowMany(fromUtop', Verdicts) + One(stanza' = "reset")
<1>5. ASSUME AppendLines PROVE Good
  <2>1. UNCHANGED <<toUtop, fromUtop, stanza>> /\ typist = "idle" /\ typist' = "send"
        /\ unanswered' = unanswered + 1
    BY <1>5 DEF AppendLines
  <2> QED BY <1>1, <1>2, <1>3, <2>1 DEF One
<1>6. ASSUME SendPhrase PROVE Good
  <2> DEFINE e == [key |-> "input", data |-> phrase]
  <2>1. /\ UNCHANGED <<fromUtop, stanza, unanswered>> /\ typist = "send" /\ typist' = "idle"
        /\ toUtop' = Append(toUtop, e)
    BY <1>6 DEF SendPhrase, editVars
  <2>2. e \in UtInputs /\ e \in A /\ e.key = "input"
    BY <1>1 DEF UtInputs
  <2> HIDE DEF e
  <2>3. HowMany(toUtop', UtInputs) = c + 1
    <3>1. HowMany(toUtop', UtInputs) = c + One(e.key = "input")
      BY <1>2, <1>4, <2>1, <2>2, QueueMore
    <3> QED BY <2>2, <3>1 DEF One
  <2>4. toUtop' \in Seq(A)
    BY <1>1, <2>1, <2>2, AppendIs
  <2> QED BY <1>1, <1>2, <1>3, <2>1, <2>3, <2>4 DEF One
<1>7. ASSUME AskUtop PROVE Good
  <2> DEFINE e == [key |-> "complete", data |-> <<asks + 1>>]
  <2>1. /\ UNCHANGED <<fromUtop, stanza, unanswered>> /\ typist = "idle" /\ typist' = "wait"
        /\ toUtop' = Append(toUtop, e) /\ entered + asks < MaxRequests
    BY <1>7 DEF AskUtop, editVars
  <2>2. asks + 1 \in Requests
    <3>1. entered \in Nat
      BY LenProperties DEF UtIInv, UtTypeOK, entered
    <3> QED BY <1>1, <2>1, <3>1 DEF Requests
  <2>3. e \in Questions /\ e \in A /\ e.key = "complete"
    BY <2>2 DEF Questions
  <2> HIDE DEF e
  <2>4. HowMany(toUtop', UtInputs) = c
    <3>1. HowMany(toUtop', UtInputs) = c + One(e.key = "input")
      BY <1>2, <1>4, <2>1, <2>3, QueueMore
    <3> QED BY <1>2, <2>3, <3>1 DEF One
  <2>5. toUtop' \in Seq(A)
    BY <1>1, <2>1, <2>3, AppendIs
  <2> QED BY <1>1, <1>2, <1>3, <2>1, <2>4, <2>5 DEF One
<1>8. ASSUME GetCompletion \/ CompletionTimesOut PROVE Good
  <2>1. UNCHANGED <<toUtop, fromUtop, stanza, unanswered>> /\ typist = "wait" /\ typist' = "idle"
    BY <1>8 DEF GetCompletion, CompletionTimesOut, editVars
  <2> QED BY <1>1, <1>2, <1>3, <2>1 DEF One
<1>9. ASSUME UtopReadsInput PROVE Good
  <2>1. /\ toUtop # <<>> /\ Head(toUtop).key = "input" /\ toUtop' = Tail(toUtop)
        /\ UNCHANGED <<typist, stanza, unanswered>>
    BY <1>9, ReadsInput DEF editVars
  <2>2. HowMany(toUtop', UtInputs) = c - 1
    <3>1. HowMany(toUtop', UtInputs) = c - One(Head(toUtop).key = "input")
      BY <1>2, <2>1, QueueLess
    <3> QED BY <2>1, <3>1 DEF One
  <2>3. PICK e \in Verdicts : fromUtop' = Append(fromUtop, e)
    BY <1>9, ReadsInput
  <2>4. e \in Stanzas /\ e \in Messages /\ e.key \in {"accept", "continue"}
    BY <1>4, MessageIs DEF Stanzas
  <2>5. HowMany(fromUtop', Verdicts) = d + 1 /\ fromUtop' \in Seq(Stanzas)
    <3>1. HowMany(fromUtop', Verdicts) = d + One(e.key \in {"accept", "continue"})
      BY <1>2, <2>3, <2>4, QueueMore
    <3>2. fromUtop' \in Seq(Stanzas)
      BY <1>1, <2>3, <2>4, AppendIs
    <3> QED BY <2>4, <3>1, <3>2 DEF One
  <2>6. toUtop' \in Seq(A) /\ fromUtop' \in Seq(Stanzas)
    BY <1>2, <2>1, <2>5
  <2> HIDE DEF c, d
  <2>7. unanswered' = One(typist' = "send") + HowMany(toUtop', UtInputs)
                      + HowMany(fromUtop', Verdicts) + One(stanza' = "reset")
    <3>1. /\ One(typist' = "send") = One(typist = "send")
          /\ One(stanza' = "reset") = One(stanza = "reset")
      BY <2>1
    <3>2. One(typist = "send") \in Nat /\ One(stanza = "reset") \in Nat
      BY DEF One
    <3> QED BY <1>2, <1>3, <2>1, <2>2, <2>5, <3>1, <3>2
  <2> QED BY <2>6, <2>7
<1>10. ASSUME UtopCompletes PROVE Good
  <2>1. /\ toUtop # <<>> /\ Head(toUtop).key = "complete" /\ toUtop' = Tail(toUtop)
        /\ UNCHANGED <<typist, stanza, unanswered>>
    BY <1>10, Completes DEF editVars
  <2>2. HowMany(toUtop', UtInputs) = c
    <3>1. HowMany(toUtop', UtInputs) = c - One(Head(toUtop).key = "input")
      BY <1>2, <2>1, QueueLess
    <3> QED BY <1>2, <2>1, <3>1 DEF One
  <2>3. PICK n \in Requests : \/ \E e \in CompletedWords : fromUtop' = Append(fromUtop, e)
                              \/ fromUtop' = fromUtop \o List(n)
    BY <1>10, Completes
  <2>4. HowMany(fromUtop', Verdicts) = d /\ fromUtop' \in Seq(Stanzas)
    <3>1. ASSUME NEW e \in CompletedWords, fromUtop' = Append(fromUtop, e)
          PROVE  HowMany(fromUtop', Verdicts) = d /\ fromUtop' \in Seq(Stanzas)
      <4>1. e \in Stanzas /\ e \in Messages /\ e.key = "completion-word"
        BY <1>4 DEF Stanzas, Answers, CompletedWords
      <4>2. HowMany(fromUtop', Verdicts) = d + One(e.key \in {"accept", "continue"})
        BY <1>2, <3>1, <4>1, QueueMore
      <4>3. fromUtop' \in Seq(Stanzas)
        BY <1>1, <3>1, <4>1, AppendIs
      <4> QED BY <1>2, <4>1, <4>2, <4>3 DEF One
    <3>2. CASE fromUtop' = fromUtop \o List(n)
      <4>1. HowMany(fromUtop', Verdicts) = d
        BY <1>2, <3>2, ListAppended
      <4>2. List(n) \in Seq(Stanzas)
        <5>1. /\ [key |-> "completion-start"] \in Stanzas
              /\ [key |-> "completion", of |-> n] \in Stanzas
              /\ [key |-> "completion-stop"] \in Stanzas
          BY DEF Stanzas, Answers, ListItems, ListEnds
        <5> QED BY <5>1 DEF List
      <4> QED BY <1>1, <3>2, <4>1, <4>2, ConcatProperties
    <3> QED BY <2>3, <3>1, <3>2
  <2> QED BY <1>1, <1>2, <1>3, <2>1, <2>2, <2>4 DEF One
<1>11. ASSUME UtopPrintsByte PROVE Good
  <2>1. UNCHANGED <<toUtop, typist, stanza, unanswered>>
    BY <1>11, PrintsByte DEF editVars
  <2>2. PICK e \in Stanzas : e.key = "byte" /\ fromUtop' = Append(fromUtop, e)
    BY <1>11, PrintsByte
  <2>3. HowMany(fromUtop', Verdicts) = d + One(e.key \in {"accept", "continue"})
    BY <1>2, <1>4, <2>2, QueueMore
  <2>4. HowMany(fromUtop', Verdicts) = d
    BY <1>2, <2>2, <2>3 DEF One
  <2>5. fromUtop' \in Seq(Stanzas)
    BY <1>1, <2>2, AppendIs
  <2> QED BY <1>1, <1>2, <1>3, <2>1, <2>4, <2>5 DEF One
<1>12. ASSUME NEW key, ReadStanza(key)
       PROVE  /\ toUtop' = toUtop /\ typist' = typist /\ fromUtop' \in Seq(Stanzas)
              /\ stanza = "read"
              /\ HowMany(fromUtop', Verdicts) = d - One(key \in {"accept", "continue"})
  <2>1. /\ fromUtop # <<>> /\ Head(fromUtop).key = key /\ fromUtop' = Tail(fromUtop)
        /\ UNCHANGED <<toUtop, typist>> /\ stanza = "read"
    BY <1>12 DEF ReadStanza
  <2>2. HowMany(fromUtop', Verdicts) = d - One(Head(fromUtop).key \in {"accept", "continue"})
    BY <1>2, <2>1, QueueLess
  <2> QED BY <1>2, <2>1, <2>2
<1>13. ASSUME ReadAccept PROVE Good
  <2>1. ReadStanza("accept") /\ stanza' = "reset" /\ unanswered' = unanswered
    BY <1>13 DEF ReadAccept
  <2>2. HowMany(fromUtop', Verdicts) = d - One("accept" \in {"accept", "continue"})
    BY <1>12, <2>1
  <2> QED BY <1>1, <1>2, <1>3, <1>12, <2>1, <2>2 DEF One
<1>14. ASSUME ResetBegins PROVE Good
  <2>1. /\ stanza = "reset" /\ stanza' = "read" /\ unanswered' = unanswered - 1
        /\ UNCHANGED <<typist, toUtop, fromUtop>>
    BY <1>14 DEF ResetBegins
  <2> QED BY <1>1, <1>2, <1>3, <2>1 DEF One
<1>15. ASSUME ReadContinue PROVE Good
  <2>1. ReadStanza("continue") /\ stanza' = stanza /\ unanswered' = unanswered - 1
    BY <1>15 DEF ReadContinue
  <2>2. HowMany(fromUtop', Verdicts) = d - One("continue" \in {"accept", "continue"})
    BY <1>12, <2>1
  <2>3. HowMany(fromUtop', Verdicts) = d - 1
    BY <2>2 DEF One
  <2>4. toUtop' = toUtop /\ fromUtop' \in Seq(Stanzas) /\ typist' = typist
    BY <1>12, <2>1
  <2>5. HowMany(toUtop', UtInputs) = c
    BY <2>4
  <2> HIDE DEF c, d
  <2>6. unanswered' = One(typist' = "send") + HowMany(toUtop', UtInputs)
                      + HowMany(fromUtop', Verdicts) + One(stanza' = "reset")
    BY <1>1, <1>2, <1>3, <2>1, <2>3, <2>4, <2>5 DEF One
  <2> QED BY <1>1, <2>4, <2>6
<1>16. ASSUME ReadCompletionStart \/ ReadCompletion \/ ReadCompletionStop \/ ReadCompletionWord PROVE Good
  <2>1. PICK key \in {"completion-start", "completion", "completion-stop", "completion-word"} :
          ReadStanza(key)
    BY <1>16 DEF ReadCompletionStart, ReadCompletion, ReadCompletionStop, ReadCompletionWord
  <2>2. UNCHANGED <<stanza, unanswered>>
    BY <1>16 DEF ReadCompletionStart, ReadCompletion, ReadCompletionStop, ReadCompletionWord
  <2>3. HowMany(fromUtop', Verdicts) = d - One(key \in {"accept", "continue"})
    BY <1>12, <2>1
  <2> QED BY <1>1, <1>2, <1>3, <1>12, <2>1, <2>2, <2>3 DEF One
<1>17. ASSUME ReadEnds PROVE Good
  <2>1. UNCHANGED <<toUtop, fromUtop, typist, unanswered>> /\ stanza = "read" /\ stanza' = "ended"
    BY <1>17 DEF ReadEnds, editVars
  <2> QED BY <1>1, <1>2, <1>3, <2>1 DEF One
<1>18. Good
  BY <1>5, <1>6, <1>7, <1>8, <1>9, <1>10, <1>11, <1>13, <1>14, <1>15, <1>16, <1>17
     DEF UtNext, UtRead
<1>19. toUtop' \in Seq(Messages) /\ fromUtop' \in Seq(Messages)
  BY <1>4, <1>18, SeqMonotonic
<1>20. HowMany(toUtop', UtInputs) \in Nat /\ HowMany(fromUtop', Verdicts) \in Nat
  BY <1>19, HowManyIs
<1> HIDE DEF c, d
<1>21. unanswered' \in Nat
  BY <1>18, <1>20 DEF One
<1> QED BY <1>18, <1>21 DEF UnansweredCounts

(* Every line that is on its way is one that was entered.                  *)
LEMMA LinesStep ==
  ASSUME UtIInv, UtNext
  PROVE  /\ width' \in Seq(Widths) /\ entered' <= MaxRequests
         /\ phrase' \in Seq(1..entered') /\ begins' \in Seq(1..entered')
         /\ evaluated' \in Seq(1..entered')
         /\ \A i \in 1..Len(toUtop') :
              toUtop'[i].key = "input" => toUtop'[i].data \in Seq(1..entered')
<1> DEFINE Fine(q, n) == \A i \in 1..Len(q) : q[i].key = "input" => q[i].data \in Seq(1..n)
<1>1. /\ width \in Seq(Widths) /\ entered <= MaxRequests /\ entered \in Nat
      /\ MaxRequests \in Nat /\ asks \in Nat
      /\ phrase \in Seq(1..entered) /\ begins \in Seq(1..entered) /\ evaluated \in Seq(1..entered)
      /\ Fine(toUtop, entered)
  BY UtopBoundsAssumption, LenProperties DEF UtIInv, UtTypeOK, QueueTypes, entered
<1>2. toUtop \in Seq(Messages) /\ fromUtop \in Seq(Messages)
  BY QueuesAre DEF UtIInv
<1> DEFINE Good == /\ width' \in Seq(Widths) /\ entered' <= MaxRequests
                   /\ phrase' \in Seq(1..entered') /\ begins' \in Seq(1..entered')
                   /\ evaluated' \in Seq(1..entered') /\ Fine(toUtop', entered')
<1>3. \A S : <<>> \in Seq(S)
  OBVIOUS
<1>4. ASSUME NEW e \in Messages, toUtop' = Append(toUtop, e),
             e.key = "input" => e.data \in Seq(1..entered)
      PROVE  Fine(toUtop', entered)
  <2>1. \A i \in 1..Len(toUtop') : toUtop'[i] = e \/ (i \in 1..Len(toUtop) /\ toUtop'[i] = toUtop[i])
    BY <1>2, <1>4, QueueMore
  <2> QED BY <1>1, <1>4, <2>1
<1>5. ASSUME toUtop # <<>>, toUtop' = Tail(toUtop)
      PROVE  Fine(toUtop', entered)
  <2>1. \A i \in 1..Len(toUtop') : i + 1 \in 1..Len(toUtop) /\ toUtop'[i] = toUtop[i + 1]
    BY <1>2, <1>5, QueueLess
  <2> QED BY <1>1, <2>1 DEF entered
<1>6. CASE AppendLines
  <2>0. PICK n \in 1..(MaxRequests - entered - asks) : \E widths \in [1..n -> Widths] :
          LET new == [i \in 1..n |-> entered + i]
          IN  phrase' = phrase \o new /\ begins' = begins \o new /\ width' = width \o widths
    BY <1>6 DEF AppendLines
  <2>1. PICK widths \in [1..n -> Widths] :
          LET new == [i \in 1..n |-> entered + i]
          IN  phrase' = phrase \o new /\ begins' = begins \o new /\ width' = width \o widths
    BY <2>0
  <2>2. UNCHANGED <<toUtop, evaluated>>
    BY <1>6 DEF AppendLines
  <2>3. n \in Nat /\ entered + n <= MaxRequests
    BY <1>1
  <2>4. width' \in Seq(Widths) /\ entered' = entered + n
    <3>1. widths \in Seq(Widths) /\ Len(widths) = n
      BY <2>3
    <3> QED BY <1>1, <2>1, <3>1, ConcatProperties DEF entered
  <2> DEFINE m == entered + n
             new == [i \in 1..n |-> entered + i]
  <2>5. new \in Seq(1..m)
    <3>1. \A i \in 1..n : entered + i \in 1..m
      BY <1>1, <2>3
    <3> HIDE DEF m
    <3> QED BY <2>3, <3>1
  <2>6. Seq(1..entered) \subseteq Seq(1..m)
    <3>1. 1..entered \subseteq 1..m
      BY <1>1, <2>3
    <3> HIDE DEF m
    <3> QED BY <3>1, SeqMonotonic
  <2>7. phrase' = phrase \o new /\ begins' = begins \o new
    BY <2>1
  <2> HIDE DEF m, new
  <2>8. phrase' \in Seq(1..m) /\ begins' \in Seq(1..m)
    BY <1>1, <2>5, <2>6, <2>7, ConcatProperties
  <2>9. entered' = m
    BY <2>4 DEF m
  <2>10. evaluated' \in Seq(1..m) /\ Fine(toUtop', m)
    BY <1>1, <2>2, <2>6
  <2> QED BY <2>3, <2>4, <2>8, <2>9, <2>10 DEF m
<1>7. CASE SendPhrase
  <2> DEFINE e == [key |-> "input", data |-> phrase]
  <2>1. toUtop' = Append(toUtop, e) /\ UNCHANGED <<width, phrase, begins, evaluated>>
    BY <1>7 DEF SendPhrase, editVars
  <2>2. e \in Messages
    BY DEF UtIInv, UtTypeOK, UtInputs, Messages, Requests
  <2>3. Fine(toUtop', entered)
    <3>1. e.key = "input" => e.data \in Seq(1..entered)
      BY <1>1
    <3> HIDE DEF e
    <3> QED BY <1>4, <2>1, <2>2, <3>1
  <2> QED BY <1>1, <2>1, <2>3 DEF entered
<1>8. CASE AskUtop
  <2> DEFINE e == [key |-> "complete", data |-> <<asks + 1>>]
  <2>1. /\ toUtop' = Append(toUtop, e) /\ UNCHANGED <<width, phrase, begins, evaluated>>
        /\ entered + asks < MaxRequests
    BY <1>8 DEF AskUtop, editVars
  <2>2. e \in Messages /\ e.key # "input"
    BY <1>1, <2>1 DEF Questions, Messages, Requests
  <2>3. Fine(toUtop', entered)
    <3> HIDE DEF e
    <3> QED BY <1>4, <2>1, <2>2
  <2> QED BY <1>1, <2>1, <2>3 DEF entered
<1>9. CASE UtopReadsInput
  <2>1. /\ toUtop # <<>> /\ toUtop' = Tail(toUtop)
        /\ UNCHANGED <<width, phrase, begins>>
        /\ evaluated' = evaluated \o Head(toUtop).data \/ evaluated' = evaluated
        /\ Head(toUtop).data \in Seq(1..entered)
    BY <1>9, ReadsInput DEF editVars
  <2>2. evaluated' \in Seq(1..entered)
    BY <1>1, <2>1, ConcatProperties
  <2> QED BY <1>1, <1>5, <2>1, <2>2 DEF entered
<1>10. CASE UtopCompletes
  <2>1. toUtop # <<>> /\ toUtop' = Tail(toUtop) /\ UNCHANGED <<width, phrase, begins, evaluated>>
    BY <1>10, Completes DEF editVars
  <2> QED BY <1>1, <1>5, <2>1 DEF entered
<1>11. CASE ReadAccept \/ ResetBegins
  <2>1. /\ phrase' \in {phrase, <<>>} /\ begins' \in {begins, <<>>}
        /\ UNCHANGED <<toUtop, width, evaluated>>
    BY <1>11 DEF ReadAccept, ResetBegins, ReadStanza
  <2>2. phrase' \in Seq(1..entered) /\ begins' \in Seq(1..entered)
    BY <1>1, <1>3, <2>1
  <2> QED BY <1>1, <2>1, <2>2 DEF entered
<1>12. CASE \/ GetCompletion \/ CompletionTimesOut \/ UtopPrintsByte \/ ReadContinue \/ ReadEnds
            \/ ReadCompletionStart \/ ReadCompletion \/ ReadCompletionStop \/ ReadCompletionWord
  <2>1. UNCHANGED <<toUtop, width, phrase, begins, evaluated>>
    BY <1>12 DEF GetCompletion, CompletionTimesOut, UtopPrintsByte, ReadContinue, ReadEnds,
         ReadCompletionStart, ReadCompletion, ReadCompletionStop, ReadCompletionWord,
         ReadStanza, Says, editVars
  <2> QED BY <1>1, <2>1 DEF entered
<1> QED BY <1>6, <1>7, <1>8, <1>9, <1>10, <1>11, <1>12 DEF UtNext, UtRead

(* The invariants of types.                                                *)
LEMMA TypesStep ==
  ASSUME UtIInv, UtNext
  PROVE  UtTypeOK' /\ QueueTypes'
<1> DEFINE M == MaxRequests
<1>1. /\ width' \in Seq(Widths) /\ entered' <= M /\ phrase' \in Seq(1..entered')
      /\ begins' \in Seq(1..entered') /\ evaluated' \in Seq(1..entered')
      /\ \A i \in 1..Len(toUtop') :
           toUtop'[i].key = "input" => toUtop'[i].data \in Seq(1..entered')
  BY LinesStep
<1>2. /\ toUtop' \in Seq(UtInputs \cup Questions) /\ fromUtop' \in Seq(Stanzas)
      /\ unanswered' \in Nat
  BY CountsStep
<1>3. /\ typist \in {"idle", "send", "wait"} /\ stanza \in {"read", "reset", "ended"}
      /\ asks \in 0..M /\ prefixOf = asks /\ (typist = "wait" => asks > 0)
      /\ gathered \in Seq(1..M) /\ ready \in Seq(SUBSET (1..M))
      /\ got \in Seq([ask : 1..M, parts : SUBSET (1..M)])
      /\ ahead \in BOOLEAN /\ late \in BOOLEAN /\ unanswered \in Nat
      /\ M \in Nat /\ entered \in Nat
  BY UtopBoundsAssumption, LenProperties DEF UtIInv, UtTypeOK, QueueTypes, entered
<1>4. typist' \in {"idle", "send", "wait"} /\ stanza' \in {"read", "reset", "ended"}
  BY <1>3 DEF UtNext, UtRead, AppendLines, SendPhrase, AskUtop, GetCompletion,
       CompletionTimesOut, UtopReadsInput, UtopCompletes, UtopPrintsByte, ReadAccept,
       ResetBegins, ReadContinue, ReadEnds, ReadCompletionStart, ReadCompletion,
       ReadCompletionStop, ReadCompletionWord, ReadStanza, Says, editVars, completionVars
<1>5. asks' \in 0..M /\ prefixOf' = asks' /\ (typist' = "wait" => asks' > 0)
  <2>1. CASE AskUtop
    BY <1>3, <2>1 DEF AskUtop
  <2>2. CASE ~AskUtop
    <3>1. UNCHANGED <<asks, prefixOf>> /\ (typist' = "wait" => typist = "wait")
      BY <1>3, <2>2 DEF UtNext, UtRead, AppendLines, SendPhrase, GetCompletion,
         CompletionTimesOut, UtopReadsInput, UtopCompletes, UtopPrintsByte, ReadAccept,
         ResetBegins, ReadContinue, ReadEnds, ReadCompletionStart, ReadCompletion,
         ReadCompletionStop, ReadCompletionWord, ReadStanza, Says, editVars, completionVars
    <3> QED BY <1>3, <3>1
  <2> QED BY <2>1, <2>2
<1>6. ahead' \in BOOLEAN
  <2>1. ahead' = ahead \/ ahead' = (ahead \/ unanswered > 0)
    BY DEF UtNext, UtRead, AppendLines, SendPhrase, AskUtop, GetCompletion,
       CompletionTimesOut, UtopReadsInput, UtopCompletes, UtopPrintsByte, ReadAccept,
       ResetBegins, ReadContinue, ReadEnds, ReadCompletionStart, ReadCompletion,
       ReadCompletionStop, ReadCompletionWord, ReadStanza, Says, editVars, completionVars
  <2> QED BY <1>3, <2>1
<1>7. late' \in BOOLEAN
  BY <1>3 DEF UtNext, UtRead, AppendLines, SendPhrase, AskUtop, GetCompletion,
       CompletionTimesOut, UtopReadsInput, UtopCompletes, UtopPrintsByte, ReadAccept,
       ResetBegins, ReadContinue, ReadEnds, ReadCompletionStart, ReadCompletion,
       ReadCompletionStop, ReadCompletionWord, ReadStanza, Says, editVars, completionVars
<1>8. /\ gathered' \in Seq(1..M) /\ ready' \in Seq(SUBSET (1..M))
      /\ got' \in Seq([ask : 1..M, parts : SUBSET (1..M)])
  <2>1. CASE GetCompletion
    <3>1. /\ typist = "wait" /\ ready # <<>> /\ ready' = Tail(ready) /\ gathered' = gathered
          /\ got' = Append(got, [ask |-> asks, parts |-> Head(ready)])
      BY <2>1 DEF GetCompletion
    <3>2. Tail(ready) \in Seq(SUBSET (1..M)) /\ Head(ready) \in SUBSET (1..M)
      BY <1>3, <3>1, HeadTailProperties
    <3>3. [ask |-> asks, parts |-> Head(ready)] \in [ask : 1..M, parts : SUBSET (1..M)]
      BY <1>3, <3>1, <3>2
    <3> QED BY <1>3, <3>1, <3>2, <3>3, AppendIs
  <2>2. ASSUME NEW key, ReadStanza(key),
               key \in {"completion", "completion-word"}
        PROVE  Head(fromUtop).of \in 1..M
    <3>1. Head(fromUtop) \in Messages /\ Head(fromUtop).key = key
      BY <2>2, QueuesAre, QueueLess DEF UtIInv, ReadStanza
    <3> QED BY <2>2, <3>1, MessageIs DEF Requests
  <2>3. CASE ReadCompletion
    <3>1. /\ ReadStanza("completion") /\ gathered' = Append(gathered, Head(fromUtop).of)
          /\ UNCHANGED <<ready, got>>
      BY <2>3 DEF ReadCompletion, ReadStanza
    <3>2. Head(fromUtop).of \in 1..M
      BY <2>2, <3>1
    <3> QED BY <1>3, <3>1, <3>2, AppendIs
  <2>4. CASE ReadCompletionStop
    <3>1. ready' = Append(ready, Range(gathered)) /\ UNCHANGED <<gathered, got>>
      BY <2>4 DEF ReadCompletionStop, ReadStanza
    <3>2. Range(gathered) \in SUBSET (1..M)
      BY <1>3, RangeInSet
    <3> QED BY <1>3, <3>1, <3>2, AppendIs
  <2>5. CASE ReadCompletionWord
    <3>1. /\ ReadStanza("completion-word") /\ UNCHANGED <<gathered, got>>
          /\ ready' = Append(ready, {Head(fromUtop).of, prefixOf})
      BY <2>5 DEF ReadCompletionWord, ReadStanza
    <3>2. Head(fromUtop).of \in 1..M
      BY <2>2, <3>1
    <3>3. asks > 0
      <4>1. /\ Head(fromUtop) \in Messages /\ Head(fromUtop).key = "completion-word"
            /\ Coming(fromUtop) = Num(Head(fromUtop)) \cup Coming(Tail(fromUtop))
        BY <3>1, QueuesAre, QueueLess DEF UtIInv, ReadStanza
      <4>2. Head(fromUtop).of \in Coming(fromUtop)
        BY <4>1, MessageIs
      <4>3. Coming(fromUtop) \subseteq 1..asks
        BY DEF UtIInv, AnswersInTurn, QueuesInTurn, ToCome
      <4>4. Head(fromUtop).of \in 1..asks
        BY <4>2, <4>3
      <4> QED BY <1>3, <4>4
    <3>4. {Head(fromUtop).of, prefixOf} \in SUBSET (1..M)
      BY <1>3, <3>2, <3>3
    <3> QED BY <1>3, <3>1, <3>4, AppendIs
  <2>6. CASE ReadCompletionStart
    <3>1. gathered' = <<>> /\ UNCHANGED <<ready, got>>
      BY <2>6 DEF ReadCompletionStart, ReadStanza
    <3>2. <<>> \in Seq(1..M)
      OBVIOUS
    <3> QED BY <1>3, <3>1, <3>2
  <2>7. CASE ~(GetCompletion \/ ReadCompletion \/ ReadCompletionStop
              \/ ReadCompletionWord \/ ReadCompletionStart)
    <3>1. UNCHANGED <<gathered, ready, got>>
      BY <2>7 DEF UtNext, UtRead, AppendLines, SendPhrase, AskUtop, CompletionTimesOut,
         UtopReadsInput, UtopCompletes, UtopPrintsByte, ReadAccept, ResetBegins,
         ReadContinue, ReadEnds, ReadStanza, Says, editVars, completionVars
    <3> QED BY <1>3, <3>1
  <2> QED BY <2>1, <2>3, <2>4, <2>5, <2>6, <2>7
<1>9. phrase' \in Seq(1..M) /\ begins' \in Seq(1..M) /\ evaluated' \in Seq(1..M)
  <2>1. entered' \in Nat
    BY <1>1, LenProperties DEF entered
  <2>2. 1..entered' \subseteq 1..M
    BY <1>1, <1>3, <2>1
  <2> QED BY <1>1, <2>2, SeqMonotonic
<1>10. UtTypeOK'
  BY <1>1, <1>2, <1>4, <1>5, <1>6, <1>7, <1>8, <1>9 DEF UtTypeOK
<1>11. QueueTypes'
  BY <1>1, <1>2, <1>5 DEF QueueTypes
<1> QED BY <1>10, <1>11

(* What reading a stanza does.                                             *)
LEMMA StanzaTaken ==
  ASSUME UtIInv, NEW key, ReadStanza(key)
  PROVE  LET e == Head(fromUtop) IN
         /\ fromUtop # <<>> /\ fromUtop' = Tail(fromUtop) /\ stanza = "read"
         /\ UNCHANGED <<width, typist, toUtop, evaluated, asks, got, ahead, late, prefixOf>>
         /\ e \in Messages /\ e \in Stanzas /\ e.key = key /\ e = fromUtop[1] /\ 1 \in 1..Len(fromUtop)
         /\ fromUtop' \in Seq(Messages)
         /\ \A i \in 1..Len(fromUtop') : i + 1 \in 1..Len(fromUtop) /\ fromUtop'[i] = fromUtop[i + 1]
         /\ Coming(fromUtop) = Num(e) \cup Coming(fromUtop')
         /\ InTurn(fromUtop') /\ Below(Num(e), Coming(fromUtop'))
         /\ HowMany(fromUtop', Answers)
              = HowMany(fromUtop, Answers) - One(key \in {"completion-word", "completion-stop"})
         /\ WholeLists(fromUtop')
         /\ key # "completion" => \A list : ListedIn(fromUtop', list) = {}
         /\ key = "completion" => \A list : ListedIn(fromUtop', list) = Range(list)
         /\ key = "completion" => \A m \in Requests : HeadFits(fromUtop', <<m>>)
         /\ key = "completion-start" => HeadFits(fromUtop', <<>>)
         /\ key \notin {"completion-start", "completion"} => \A list : HeadFits(fromUtop', list)
<1> DEFINE e == Head(fromUtop)
<1>1. /\ fromUtop # <<>> /\ fromUtop' = Tail(fromUtop) /\ stanza = "read" /\ e.key = key
      /\ UNCHANGED <<width, typist, toUtop, evaluated, asks, got, ahead, late, prefixOf>>
  BY DEF ReadStanza
<1>2. fromUtop \in Seq(Messages) /\ fromUtop \in Seq(Stanzas)
  BY QueuesAre DEF UtIInv, QueueTypes
<1>3. InTurn(fromUtop) /\ WholeLists(fromUtop)
  BY DEF UtIInv, AnswersInTurn, QueuesInTurn
<1>4. e \in Stanzas
  BY <1>1, <1>2, HeadTailProperties
<1>5. LET t == Tail(fromUtop) IN
      /\ e \in Messages /\ t \in Seq(Messages) /\ e = fromUtop[1] /\ 1 \in 1..Len(fromUtop)
      /\ \A i \in 1..Len(t) : i + 1 \in 1..Len(fromUtop) /\ t[i] = fromUtop[i + 1]
      /\ Coming(fromUtop) = Num(e) \cup Coming(t)
      /\ InTurn(t) /\ Below(Num(e), Coming(t))
      /\ HowMany(t, Answers)
           = HowMany(fromUtop, Answers) - One(e.key \in {"completion-word", "completion-stop"})
      /\ WholeLists(t)
      /\ e.key # "completion" => \A list : ListedIn(t, list) = {}
      /\ e.key = "completion" => \A list : ListedIn(t, list) = Range(list)
      /\ e.key = "completion" => \A m \in Requests : HeadFits(t, <<m>>)
      /\ e.key = "completion-start" => HeadFits(t, <<>>)
      /\ e.key \notin {"completion-start", "completion"} => \A list : HeadFits(t, list)
  BY <1>1, <1>2, <1>3, QueueLess
<1> HIDE DEF e
<1> QED BY <1>1, <1>2, <1>4, <1>5 DEF e

(* Before its item the list that is read is empty, behind it, it has it.   *)
LEMMA BeforeItem ==
  ASSUME UtIInv, ReadStanza("completion")
  PROVE  gathered = <<>> /\ \E m \in Requests : m = Head(fromUtop).of /\ Append(gathered, m) = <<m>>
<1>1. /\ fromUtop # <<>> /\ Head(fromUtop) \in Messages /\ Head(fromUtop).key = "completion"
  BY StanzaTaken
<1>2. gathered = <<>>
  BY <1>1 DEF UtIInv, HeadFits
<1>3. Head(fromUtop).of \in Requests
  BY <1>1, MessageIs
<1>4. \A m \in Requests : Append(<<>>, m) = <<m>>
  OBVIOUS
<1> QED BY <1>2, <1>3, <1>4

(* Lists stay whole.                                                       *)
LEMMA ListsStep ==
  ASSUME UtIInv, UtNext
  PROVE  WholeLists(fromUtop') /\ HeadFits(fromUtop', gathered')
<1>1. WholeLists(fromUtop) /\ HeadFits(fromUtop, gathered)
  BY DEF UtIInv
<1>2. fromUtop \in Seq(Messages)
  BY QueuesAre DEF UtIInv
<1>3. ASSUME NEW e \in Messages, e.key \notin {"completion", "completion-stop"},
             fromUtop' = Append(fromUtop, e), gathered' = gathered
      PROVE  WholeLists(fromUtop') /\ HeadFits(fromUtop', gathered')
  BY <1>1, <1>2, <1>3, QueueMore
<1>4. CASE AppendLines \/ SendPhrase \/ AskUtop \/ GetCompletion \/ CompletionTimesOut
           \/ ResetBegins \/ ReadEnds
  <2>1. UNCHANGED <<fromUtop, gathered>>
    BY <1>4 DEF AppendLines, SendPhrase, AskUtop, GetCompletion, CompletionTimesOut,
         ResetBegins, ReadEnds, completionVars
  <2> QED BY <1>1, <2>1
<1>5. CASE UtopReadsInput
  <2>1. PICK e \in Verdicts : fromUtop' = Append(fromUtop, e)
    BY <1>5, ReadsInput
  <2>2. e \in Messages /\ e.key \in {"accept", "continue"}
    BY <2>1, MessageIs DEF Messages, Stanzas
  <2>3. gathered' = gathered
    BY <1>5, ReadsInput DEF completionVars
  <2> QED BY <1>3, <2>1, <2>2, <2>3
<1>6. CASE UtopCompletes
  <2>1. PICK n \in Requests : \/ \E e \in CompletedWords : fromUtop' = Append(fromUtop, e)
                              \/ fromUtop' = fromUtop \o List(n)
    BY <1>6, Completes
  <2>2. gathered' = gathered
    BY <1>6, Completes DEF completionVars
  <2>3. ASSUME NEW e \in CompletedWords, fromUtop' = Append(fromUtop, e)
        PROVE  WholeLists(fromUtop') /\ HeadFits(fromUtop', gathered')
    <3>1. e \in Messages /\ e.key = "completion-word"
      BY DEF Messages, Stanzas, Answers, CompletedWords
    <3> QED BY <1>3, <2>2, <2>3, <3>1
  <2>4. CASE fromUtop' = fromUtop \o List(n)
    <3>1. WholeLists(fromUtop')
      BY <1>1, <1>2, <2>4, ListAppended
    <3>2. HeadFits(fromUtop', gathered')
      BY <1>1, <1>2, <2>2, <2>4, QueueList
    <3> QED BY <3>1, <3>2
  <2> QED BY <2>1, <2>3, <2>4
<1>7. CASE UtopPrintsByte
  <2>1. PICK e \in Stanzas : e.key = "byte" /\ fromUtop' = Append(fromUtop, e)
    BY <1>7, PrintsByte
  <2>2. gathered' = gathered
    BY <1>7, PrintsByte DEF completionVars
  <2> QED BY <1>3, <2>1, <2>2 DEF Messages
<1>8. CASE ReadAccept \/ ReadContinue \/ ReadCompletionStop \/ ReadCompletionWord
  <2>1. PICK key \in {"accept", "continue", "completion-stop", "completion-word"} : ReadStanza(key)
    BY <1>8 DEF ReadAccept, ReadContinue, ReadCompletionStop, ReadCompletionWord
  <2> QED BY <2>1, StanzaTaken
<1>9. CASE ReadCompletionStart
  <2>1. ReadStanza("completion-start") /\ gathered' = <<>>
    BY <1>9 DEF ReadCompletionStart
  <2> QED BY <2>1, StanzaTaken
<1>10. CASE ReadCompletion
  <2>1. ReadStanza("completion") /\ gathered' = Append(gathered, Head(fromUtop).of)
    BY <1>10 DEF ReadCompletion
  <2>2. PICK m \in Requests : gathered' = <<m>>
    BY <2>1, BeforeItem
  <2> QED BY <2>1, <2>2, StanzaTaken
<1> QED BY <1>4, <1>5, <1>6, <1>7, <1>8, <1>9, <1>10 DEF UtNext, UtRead

(* Answers stay in turn, and of the requests nothing comes anew.           *)
LEMMA TurnStep ==
  ASSUME UtIInv, UtNext
  PROVE  AnswersInTurn' /\ ToCome' \subseteq ToCome \cup {asks'}
<1> DEFINE F == Coming(fromUtop)
           T == Coming(toUtop)
           L == Listed
           C == ToCome
           R == SUBSET (1..MaxRequests)
           G == [ask : 1..MaxRequests, parts : R]
<1>1. /\ InTurn(toUtop) /\ InTurn(fromUtop) /\ Below(F, T) /\ Below(L, F \cup T)
      /\ C \subseteq 1..asks /\ Given(got, ready, C, asks) /\ C = L \cup F \cup T
  BY DEF UtIInv, AnswersInTurn, QueuesInTurn, ToCome
<1>2. /\ toUtop \in Seq(Messages) /\ fromUtop \in Seq(Messages)
  BY QueuesAre DEF UtIInv
<1>3. /\ asks \in 0..MaxRequests /\ prefixOf = asks /\ MaxRequests \in Nat /\ asks \in Nat
      /\ ready \in Seq(R) /\ got \in Seq(G) /\ (typist = "wait" => asks > 0)
  BY UtopBoundsAssumption DEF UtIInv, UtTypeOK, QueueTypes
<1>4. L = ListedIn(fromUtop, gathered) /\ Listed' = ListedIn(fromUtop', gathered')
  BY DEF Listed
<1>5. ToCome' = Listed' \cup Coming(fromUtop') \cup Coming(toUtop')
  BY DEF ToCome
<1> DEFINE Turn(s, t, l, c, n) ==
             /\ InTurn(t) /\ InTurn(s) /\ Below(Coming(s), Coming(t))
             /\ Below(l, Coming(s) \cup Coming(t)) /\ c \subseteq 1..n
<1>6. ASSUME Turn(fromUtop', toUtop', Listed', ToCome', asks'),
             Given(got', ready', ToCome', asks'), ToCome' \subseteq C \cup {asks'}
      PROVE  AnswersInTurn' /\ ToCome' \subseteq ToCome \cup {asks'}
  BY <1>6 DEF AnswersInTurn, QueuesInTurn
<1> HIDE DEF L, C
<1>7. CASE AppendLines \/ CompletionTimesOut \/ ResetBegins \/ ReadEnds
  <2>1. UNCHANGED <<toUtop, fromUtop, gathered, ready, got, asks>>
    BY <1>7 DEF AppendLines, CompletionTimesOut, ResetBegins, ReadEnds, completionVars
  <2>2. Listed' = L /\ ToCome' = C
    BY <1>1, <1>4, <1>5, <2>1
  <2> QED BY <1>1, <1>6, <2>1, <2>2
<1>8. CASE SendPhrase
  <2> DEFINE e == [key |-> "input", data |-> phrase]
  <2>1. toUtop' = Append(toUtop, e) /\ UNCHANGED <<fromUtop, gathered, ready, got, asks>>
    BY <1>8 DEF SendPhrase, completionVars
  <2>2. e \in Messages /\ Num(e) = {}
    <3>1. e \in Messages /\ e.key = "input"
      BY DEF UtIInv, UtTypeOK, UtInputs, Messages, Requests
    <3> HIDE DEF e
    <3> QED BY <3>1, MessageIs
  <2> HIDE DEF e
  <2>3. Coming(toUtop') = T /\ InTurn(toUtop')
    <3>1. Coming(toUtop') = T \cup Num(e)
      BY <1>2, <2>1, <2>2, QueueMore
    <3>2. InTurn(toUtop')
      <4>1. Below(T, Num(e))
        BY <2>2 DEF Below
      <4> QED BY <1>1, <1>2, <2>1, <2>2, <4>1, QueueMore
    <3> QED BY <2>2, <3>1, <3>2
  <2>4. Listed' = L /\ ToCome' = C
    BY <1>1, <1>4, <1>5, <2>1, <2>3
  <2> QED BY <1>1, <1>6, <2>1, <2>3, <2>4
<1>9. CASE AskUtop
  <2> DEFINE e == [key |-> "complete", data |-> <<asks + 1>>]
  <2>1. /\ toUtop' = Append(toUtop, e) /\ UNCHANGED <<fromUtop, gathered, ready, got>>
        /\ entered + asks < MaxRequests /\ asks' = asks + 1
    BY <1>9 DEF AskUtop
  <2>2. asks + 1 \in Requests
    <3>1. entered \in Nat
      BY LenProperties DEF UtIInv, UtTypeOK, entered
    <3> QED BY <1>3, <2>1, <3>1 DEF Requests
  <2>3. e \in Messages /\ Num(e) = {asks + 1}
    <3>1. e \in Messages /\ e.key = "complete" /\ e.data[1] = asks + 1
      BY <2>2 DEF Questions, Messages
    <3> HIDE DEF e
    <3> QED BY <3>1, MessageIs
  <2> HIDE DEF e
  <2>4. Below(C, {asks + 1})
    BY <1>1, <1>3 DEF Below
  <2>5. Coming(toUtop') = T \cup {asks + 1}
    BY <1>2, <2>1, <2>3, QueueMore
  <2>6. InTurn(toUtop')
    <3>1. Below(T, Num(e))
      BY <1>1, <2>3, <2>4 DEF Below
    <3> QED BY <1>1, <1>2, <2>1, <2>3, <3>1, QueueMore
  <2>7. Listed' = L /\ ToCome' = C \cup {asks + 1}
    BY <1>1, <1>4, <1>5, <2>1, <2>5
  <2>8. Below(F, T \cup {asks + 1}) /\ Below(L, F \cup T \cup {asks + 1})
    BY <1>1, <2>4 DEF Below
  <2>9. Given(got, ready, C \cup {asks + 1}, asks + 1)
    <3>1. got \in Seq([ask : Nat, parts : R])
      <4>1. G \subseteq [ask : Nat, parts : R]
        <5> HIDE DEF R
        <5> QED OBVIOUS
      <4> HIDE DEF G, R
      <4> QED BY <1>3, <4>1, SeqMonotonic
    <3> HIDE DEF R, G
    <3> QED BY <1>1, <1>3, <3>1, GivenAsked
  <2>10. C \cup {asks + 1} \subseteq 1..(asks + 1)
    BY <1>1, <1>3
  <2>11. L \subseteq C
    BY <1>1
  <2> QED BY <1>1, <1>6, <2>1, <2>5, <2>6, <2>7, <2>8, <2>9, <2>10
<1>10. CASE GetCompletion
  <2>1. /\ UNCHANGED <<toUtop, fromUtop, gathered, asks>> /\ typist = "wait" /\ ready # <<>>
        /\ ready' = Tail(ready) /\ got' = Append(got, [ask |-> asks, parts |-> Head(ready)])
    BY <1>10 DEF GetCompletion
  <2>2. Listed' = L /\ ToCome' = C
    BY <1>1, <1>4, <1>5, <2>1
  <2>3. [ask |-> asks, parts |-> Head(ready)] \in G
    <3>1. Head(ready) \in R /\ asks \in 1..MaxRequests
      BY <1>3, <2>1, HeadTailProperties
    <3> HIDE DEF R
    <3> QED BY <3>1
  <2>4. Given(got', ready', C, asks)
    <3> HIDE DEF G, R
    <3> QED BY <1>1, <1>3, <2>1, <2>3, GivenTaken
  <2> QED BY <1>1, <1>6, <2>1, <2>2, <2>4
<1>11. CASE UtopReadsInput
  <2>1. toUtop # <<>> /\ Head(toUtop).key = "input" /\ toUtop' = Tail(toUtop)
    BY <1>11, ReadsInput
  <2>2. UNCHANGED <<gathered, ready, got, asks>>
    BY <1>11, ReadsInput DEF completionVars
  <2>3. Coming(toUtop') = T /\ InTurn(toUtop')
    <3>1. /\ Head(toUtop) \in Messages
          /\ Coming(toUtop) = Num(Head(toUtop)) \cup Coming(toUtop') /\ InTurn(toUtop')
      BY <1>1, <1>2, <2>1, QueueLess
    <3>2. Num(Head(toUtop)) = {}
      BY <2>1, <3>1, MessageIs
    <3> QED BY <3>1, <3>2
  <2>4. PICK e \in Verdicts : fromUtop' = Append(fromUtop, e)
    BY <1>11, ReadsInput
  <2>5. e \in Messages /\ e.key \in {"accept", "continue"} /\ Num(e) = {}
    <3>1. e \in Messages /\ e.key \in {"accept", "continue"}
      BY <2>4, MessageIs DEF Messages, Stanzas
    <3> QED BY <3>1, MessageIs
  <2>6. Coming(fromUtop') = F \cup Num(e)
    BY <1>2, <2>4, <2>5, QueueMore
  <2>7. InTurn(fromUtop')
    <3>1. Below(F, Num(e))
      BY <2>5 DEF Below
    <3> QED BY <1>1, <1>2, <2>4, <2>5, <3>1, QueueMore
  <2>8. Listed' = L
    BY <1>2, <1>4, <2>2, <2>4, <2>5, QueueMore
  <2>9. Coming(fromUtop') = F /\ ToCome' = C
    BY <1>1, <1>5, <2>3, <2>5, <2>6, <2>8
  <2> QED BY <1>1, <1>6, <2>2, <2>3, <2>7, <2>8, <2>9
<1>12. CASE UtopCompletes
  <2>1. toUtop # <<>> /\ Head(toUtop).key = "complete" /\ toUtop' = Tail(toUtop)
    BY <1>12, Completes
  <2>2. UNCHANGED <<gathered, ready, got, asks>>
    BY <1>12, Completes DEF completionVars
  <2>3. PICK n \in Requests :
          /\ Num(Head(toUtop)) = {n}
          /\ \/ \E e \in CompletedWords : e.of = n /\ fromUtop' = Append(fromUtop, e)
             \/ fromUtop' = fromUtop \o List(n)
    BY <1>12, Completes
  <2>4. T = {n} \cup Coming(toUtop') /\ InTurn(toUtop') /\ Below({n}, Coming(toUtop'))
    BY <1>1, <1>2, <2>1, <2>3, QueueLess
  <2>5. Below(F, {n})
    BY <1>1, <2>4 DEF Below
  <2>6. Coming(fromUtop') = F \cup {n} /\ InTurn(fromUtop') /\ Listed' = L
    <3>1. ASSUME NEW e \in CompletedWords, e.of = n, fromUtop' = Append(fromUtop, e)
          PROVE  Coming(fromUtop') = F \cup {n} /\ InTurn(fromUtop') /\ Listed' = L
      <4>1. e \in Messages /\ e.key = "completion-word"
        BY DEF Messages, Stanzas, Answers, CompletedWords
      <4>2. Num(e) = {n}
        BY <3>1, <4>1, MessageIs
      <4>3. Coming(fromUtop') = F \cup Num(e)
        BY <1>2, <3>1, <4>1, QueueMore
      <4>4. InTurn(fromUtop')
        BY <1>1, <1>2, <2>5, <3>1, <4>1, <4>2, QueueMore
      <4>5. Listed' = L
        BY <1>2, <1>4, <2>2, <3>1, <4>1, QueueMore
      <4> QED BY <4>2, <4>3, <4>4, <4>5
    <3>2. CASE fromUtop' = fromUtop \o List(n)
      <4>1. Coming(fromUtop') = F \cup {n}
        <5>1. Coming(fromUtop \o List(n)) = Coming(fromUtop) \cup {n}
          BY <1>2, ListAppended
        <5> QED BY <3>2, <5>1
      <4>2. InTurn(fromUtop')
        BY <1>1, <1>2, <2>5, <3>2, ListAppended
      <4>3. Listed' = L
        BY <1>2, <1>4, <2>2, <3>2, QueueList
      <4> QED BY <4>1, <4>2, <4>3
    <3> QED BY <2>3, <3>1, <3>2
  <2>7. ToCome' = C
    BY <1>1, <1>5, <2>4, <2>6
  <2>8. Below(Coming(fromUtop'), Coming(toUtop')) /\ Below(L, Coming(fromUtop') \cup Coming(toUtop'))
    BY <1>1, <2>4, <2>6 DEF Below
  <2> QED BY <1>1, <1>6, <2>2, <2>4, <2>6, <2>7, <2>8
<1>13. CASE UtopPrintsByte
  <2>1. UNCHANGED <<toUtop, gathered, ready, got, asks>>
    BY <1>13, PrintsByte DEF completionVars
  <2>2. PICK e \in Stanzas : e.key = "byte" /\ fromUtop' = Append(fromUtop, e)
    BY <1>13, PrintsByte
  <2>3. e \in Messages /\ Num(e) = {}
    BY <2>2, MessageIs DEF Messages
  <2>4. Coming(fromUtop') = F \cup Num(e)
    BY <1>2, <2>2, <2>3, QueueMore
  <2>5. InTurn(fromUtop')
    <3>1. Below(F, Num(e))
      BY <2>3 DEF Below
    <3> QED BY <1>1, <1>2, <2>2, <2>3, <3>1, QueueMore
  <2>6. Listed' = L
    BY <1>2, <1>4, <2>1, <2>2, <2>3, QueueMore
  <2>7. Coming(fromUtop') = F /\ ToCome' = C
    BY <1>1, <1>5, <2>1, <2>3, <2>4, <2>6
  <2> QED BY <1>1, <1>6, <2>1, <2>5, <2>6, <2>7
<1>14. CASE ReadAccept \/ ReadContinue \/ ReadCompletionStart
  <2>1. PICK key \in {"accept", "continue", "completion-start"} : ReadStanza(key)
    BY <1>14 DEF ReadAccept, ReadContinue, ReadCompletionStart
  <2>2. UNCHANGED <<toUtop, ready, got, asks>>
    <3>1. ready' = ready
      BY <1>14 DEF ReadAccept, ReadContinue, ReadCompletionStart
    <3> QED BY <2>1, <3>1, StanzaTaken
  <2>3. /\ Head(fromUtop) \in Messages /\ Head(fromUtop).key = key /\ InTurn(fromUtop')
        /\ F = Num(Head(fromUtop)) \cup Coming(fromUtop') /\ fromUtop # <<>>
    BY <2>1, StanzaTaken
  <2>4. Num(Head(fromUtop)) = {}
    BY <2>3, MessageIs
  <2>5. Listed' = {} /\ L = {}
    <3>1. Listed' = {}
      BY <1>4, <2>1, StanzaTaken
    <3>2. L = {}
      BY <1>4, <2>3 DEF ListedIn
    <3> QED BY <3>1, <3>2
  <2>6. Coming(fromUtop') = F /\ ToCome' = C
    BY <1>1, <1>5, <2>2, <2>3, <2>4, <2>5
  <2> QED BY <1>1, <1>6, <2>2, <2>3, <2>5, <2>6
<1>15. CASE ReadCompletion
  <2>1. /\ ReadStanza("completion") /\ gathered' = Append(gathered, Head(fromUtop).of)
        /\ UNCHANGED <<ready, toUtop, got, asks>>
    BY <1>15 DEF ReadCompletion, ReadStanza
  <2>2. PICK m \in Requests : m = Head(fromUtop).of /\ gathered' = <<m>>
    BY <2>1, BeforeItem
  <2>3. /\ Head(fromUtop) \in Messages /\ Head(fromUtop).key = "completion" /\ InTurn(fromUtop')
        /\ F = Num(Head(fromUtop)) \cup Coming(fromUtop') /\ fromUtop # <<>>
        /\ Below(Num(Head(fromUtop)), Coming(fromUtop'))
        /\ ListedIn(fromUtop', gathered') = Range(gathered')
    BY <2>1, StanzaTaken
  <2>4. Num(Head(fromUtop)) = {m}
    BY <2>2, <2>3, MessageIs
  <2>5. Listed' = {m} /\ L = {}
    <3>1. Range(gathered') = {m}
      BY <2>2 DEF Range
    <3>2. L = {}
      BY <1>4, <2>3 DEF ListedIn
    <3> QED BY <1>4, <2>3, <3>1, <3>2
  <2>6. ToCome' = C
    BY <1>1, <1>5, <2>1, <2>3, <2>4, <2>5
  <2>7. Below(Coming(fromUtop'), T) /\ Below({m}, Coming(fromUtop') \cup T)
    BY <1>1, <2>3, <2>4 DEF Below
  <2> QED BY <1>1, <1>6, <2>1, <2>3, <2>5, <2>6, <2>7
<1>16. CASE ReadCompletionStop
  <2>1. /\ ReadStanza("completion-stop") /\ ready' = Append(ready, Range(gathered))
        /\ UNCHANGED <<gathered, toUtop, got, asks>>
    BY <1>16 DEF ReadCompletionStop, ReadStanza
  <2>2. /\ Head(fromUtop) \in Messages /\ Head(fromUtop).key = "completion-stop"
        /\ F = Num(Head(fromUtop)) \cup Coming(fromUtop') /\ fromUtop # <<>>
        /\ InTurn(fromUtop') /\ ListedIn(fromUtop', gathered') = {}
    BY <2>1, StanzaTaken
  <2>3. Num(Head(fromUtop)) = {}
    BY <2>2, MessageIs
  <2>4. PICK m \in Requests : gathered = <<m>>
    BY <2>2 DEF UtIInv, HeadFits
  <2>5. Range(gathered) = {m} /\ L = {m}
    <3>1. Range(gathered) = {m}
      BY <2>4 DEF Range
    <3> QED BY <1>4, <2>2, <3>1 DEF ListedIn
  <2>6. Listed' = {} /\ Coming(fromUtop') = F /\ ToCome' = F \cup T
    BY <1>4, <1>5, <2>1, <2>2, <2>3
  <2>7. Given(got, Append(ready, {m}), F \cup T, asks)
    <3>1. /\ {m} \in R /\ {m} \subseteq 1..asks /\ m \in C /\ F \cup T \subseteq C
          /\ \A k \in {m} : m <= k
      BY <1>1, <2>4, <2>5 DEF Requests
    <3>2. \A x \in F \cup T : m < x
      BY <1>1, <2>5 DEF Below
    <3>3. C \subseteq Nat /\ m \in {m}
      BY <1>1, <1>3
    <3> HIDE DEF R, G, F, T
    <3> QED BY <1>1, <1>3, <3>1, <3>2, <3>3, GivenReady
  <2>8. Below({}, F \cup T) /\ F \cup T \subseteq 1..asks
    BY <1>1 DEF Below
  <2> QED BY <1>1, <1>6, <2>1, <2>2, <2>5, <2>6, <2>7, <2>8
<1>17. CASE ReadCompletionWord
  <2> DEFINE m == Head(fromUtop).of
  <2>1. /\ ReadStanza("completion-word") /\ ready' = Append(ready, {m, asks})
        /\ UNCHANGED <<gathered, toUtop, got, asks>>
    BY <1>3, <1>17 DEF ReadCompletionWord, ReadStanza
  <2>2. /\ Head(fromUtop) \in Messages /\ Head(fromUtop).key = "completion-word"
        /\ F = Num(Head(fromUtop)) \cup Coming(fromUtop') /\ fromUtop # <<>>
        /\ InTurn(fromUtop') /\ ListedIn(fromUtop', gathered') = {}
        /\ Below(Num(Head(fromUtop)), Coming(fromUtop'))
    BY <2>1, StanzaTaken
  <2>3. Num(Head(fromUtop)) = {m} /\ m \in Requests
    BY <2>2, MessageIs
  <2>4. L = {}
    BY <1>4, <2>2 DEF ListedIn
  <2> DEFINE D == Coming(fromUtop') \cup T
  <2>5. Listed' = {} /\ ToCome' = D /\ F = {m} \cup Coming(fromUtop')
    BY <1>4, <1>5, <2>1, <2>2, <2>3
  <2>6. /\ m \in C /\ D \subseteq C /\ m \in 1..asks
    BY <1>1, <2>5
  <2> HIDE DEF m
  <2>7. \A x \in D : m < x
    BY <1>1, <2>2, <2>3, <2>5 DEF Below
  <2>8. Given(got, Append(ready, {m, asks}), D, asks)
    <3>1. /\ {m, asks} \in R /\ {m, asks} \subseteq 1..asks /\ \A k \in {m, asks} : m <= k
      BY <1>3, <2>6
    <3>2. C \subseteq Nat /\ m \in {m, asks}
      BY <1>1, <1>3
    <3> HIDE DEF R, G, D
    <3> QED BY <1>1, <1>3, <2>6, <2>7, <3>1, <3>2, GivenReady
  <2>9. Below(Coming(fromUtop'), T) /\ Below({}, D) /\ D \subseteq 1..asks
    BY <1>1, <2>5, <2>6 DEF Below
  <2> QED BY <1>1, <1>6, <2>1, <2>2, <2>5, <2>6, <2>8, <2>9
<1> QED BY <1>7, <1>8, <1>9, <1>10, <1>11, <1>12, <1>13, <1>14, <1>15, <1>16, <1>17
        DEF UtNext, UtRead

(* Nothing is to come when there is no question and no answer.             *)
LEMMA NothingComes ==
  ASSUME UtIInv, HowMany(toUtop, Questions) = 0, HowMany(fromUtop, Answers) = 0
  PROVE  ToCome = {}
<1>1. /\ toUtop \in Seq(UtInputs \cup Questions) /\ fromUtop \in Seq(Stanzas)
      /\ toUtop \in Seq(Messages) /\ fromUtop \in Seq(Messages)
  BY QueuesAre DEF UtIInv, QueueTypes
<1>2. \A i \in 1..Len(toUtop) : toUtop[i] \in UtInputs /\ toUtop[i] \in Messages
  <2> TAKE i \in 1..Len(toUtop)
  <2>1. toUtop[i] \notin Questions
    BY <1>1, HowManyIs
  <2>2. toUtop[i] \in UtInputs \cup Questions
    BY <1>1, ElementOfSeq
  <2> QED BY <2>1, <2>2 DEF Messages
<1>3. \A i \in 1..Len(toUtop) : Num(toUtop[i]) = {}
  <2> TAKE i \in 1..Len(toUtop)
  <2>1. toUtop[i].key = "input" /\ toUtop[i] \in Messages
    BY <1>2, MessageIs
  <2> QED BY <2>1, MessageIs
<1>4. \A i \in 1..Len(fromUtop) :
        /\ fromUtop[i] \in Messages
        /\ fromUtop[i].key \notin {"complete", "completion-word", "completion-stop"}
  <2> TAKE i \in 1..Len(fromUtop)
  <2>1. fromUtop[i] \notin Answers
    BY <1>1, HowManyIs
  <2>2. fromUtop[i] \in Stanzas /\ fromUtop[i] \in Messages
    BY <1>1, ElementOfSeq
  <2> QED BY <2>1, <2>2, MessageIs
<1>5. \A i \in 1..Len(fromUtop) : Num(fromUtop[i]) = {}
  <2> TAKE i \in 1..Len(fromUtop)
  <2>1. fromUtop[i].key # "completion"
    <3> SUFFICES ASSUME fromUtop[i].key = "completion" PROVE FALSE
      OBVIOUS
    <3>1. i < Len(fromUtop) /\ fromUtop[i + 1].key = "completion-stop"
      BY DEF UtIInv, WholeLists
    <3>2. i + 1 \in 1..Len(fromUtop)
      BY <1>1, <3>1, LenProperties
    <3> QED BY <1>4, <3>1, <3>2
  <2>2. /\ fromUtop[i] \in Messages
        /\ fromUtop[i].key \notin {"complete", "completion-word", "completion"}
    BY <1>4, <2>1
  <2> QED BY <2>2, MessageIs
<1>6. Coming(toUtop) = {} /\ Coming(fromUtop) = {}
  BY <1>3, <1>5 DEF Coming
<1>7. Listed = {}
  <2>1. fromUtop # <<>> => Head(fromUtop) = fromUtop[1] /\ 1 \in 1..Len(fromUtop)
    BY <1>1, QueueLess
  <2> QED BY <1>4, <2>1 DEF Listed, ListedIn
<1> QED BY <1>6, <1>7 DEF ToCome

(* Until a request times out, there is one at most.                        *)
LEMMA OneQuestionStep ==
  ASSUME UtIInv, UtNext
  PROVE  OneQuestion'
<1> SUFFICES ASSUME ~late'
             PROVE  /\ HowMany(toUtop', Questions) + HowMany(fromUtop', Answers) + Len(ready')
                         = One(typist' = "wait")
                    /\ ToCome' \subseteq {asks'}
                    /\ \A i \in 1..Len(ready') : ready'[i] = {asks'}
                    /\ \A i \in 1..Len(got') : got'[i].parts = {got'[i].ask}
  BY DEF OneQuestion
<1> DEFINE q == HowMany(toUtop, Questions)
           a == HowMany(fromUtop, Answers)
           P == HowMany(toUtop', Questions)
           Q == HowMany(fromUtop', Answers)
           R == SUBSET (1..MaxRequests)
           G == [ask : 1..MaxRequests, parts : R]
<1>1. ~late
  BY DEF UtNext, UtRead, AppendLines, SendPhrase, AskUtop, GetCompletion,
     CompletionTimesOut, UtopReadsInput, UtopCompletes, UtopPrintsByte, ReadAccept,
     ResetBegins, ReadContinue, ReadEnds, ReadCompletionStart, ReadCompletion,
     ReadCompletionStop, ReadCompletionWord, ReadStanza, Says, editVars, completionVars
<1>2. /\ q + a + Len(ready) = One(typist = "wait")
      /\ ToCome \subseteq {asks}
      /\ \A i \in 1..Len(ready) : ready[i] = {asks}
      /\ \A i \in 1..Len(got) : got[i].parts = {got[i].ask}
  BY <1>1 DEF UtIInv, OneQuestion
<1>3. /\ toUtop \in Seq(Messages) /\ fromUtop \in Seq(Messages) /\ q \in Nat /\ a \in Nat
  BY QueuesAre DEF UtIInv
<1>4. ToCome' \subseteq ToCome \cup {asks'}
  BY TurnStep
<1>5. /\ ready \in Seq(R) /\ got \in Seq(G) /\ Len(ready) \in Nat /\ prefixOf = asks
      /\ typist \in {"idle", "send", "wait"} /\ asks \in 0..MaxRequests
      /\ (typist = "wait" => asks > 0)
  BY LenProperties DEF UtIInv, UtTypeOK, QueueTypes
<1>6. ASSUME P + Q + Len(ready') = One(typist' = "wait"),
             UNCHANGED <<asks, got>>, \A i \in 1..Len(ready') : ready'[i] = {asks}
      PROVE  /\ P + Q + Len(ready') = One(typist' = "wait")
             /\ ToCome' \subseteq {asks'}
             /\ \A i \in 1..Len(ready') : ready'[i] = {asks'}
             /\ \A i \in 1..Len(got') : got'[i].parts = {got'[i].ask}
  BY <1>2, <1>4, <1>6
<1>7. CASE AppendLines \/ ResetBegins \/ ReadEnds
  <2>1. /\ UNCHANGED <<toUtop, fromUtop, ready, asks, got>>
        /\ (typist' = "wait") = (typist = "wait")
    BY <1>7 DEF AppendLines, ResetBegins, ReadEnds, completionVars
  <2> QED BY <1>2, <1>6, <2>1
<1>8. CASE SendPhrase
  <2> DEFINE e == [key |-> "input", data |-> phrase]
  <2>1. /\ toUtop' = Append(toUtop, e) /\ UNCHANGED <<fromUtop, ready, asks, got>>
        /\ typist # "wait" /\ typist' # "wait"
    BY <1>8 DEF SendPhrase, completionVars
  <2>2. e \in Messages /\ e.key = "input"
    BY DEF UtIInv, UtTypeOK, UtInputs, Messages, Requests
  <2> HIDE DEF e
  <2>3. P = q + One(e.key = "complete")
    BY <1>3, <2>1, <2>2, QueueMore
  <2>4. P = q
    BY <1>3, <2>2, <2>3 DEF One
  <2> QED BY <1>2, <1>6, <2>1, <2>4
<1>9. CASE AskUtop
  <2> DEFINE e == [key |-> "complete", data |-> <<asks + 1>>]
  <2>1. /\ toUtop' = Append(toUtop, e) /\ UNCHANGED <<fromUtop, ready, got>>
        /\ entered + asks < MaxRequests /\ asks' = asks + 1
        /\ typist = "idle" /\ typist' = "wait"
    BY <1>9 DEF AskUtop
  <2>2. e \in Messages /\ e.key = "complete"
    <3>1. entered \in Nat
      BY LenProperties DEF UtIInv, UtTypeOK, entered
    <3>2. asks + 1 \in Requests
      BY <1>5, <2>1, <3>1, UtopBoundsAssumption DEF Requests
    <3> QED BY <3>2 DEF Questions, Messages
  <2> HIDE DEF e
  <2>3. P = q + One(e.key = "complete")
    BY <1>3, <2>1, <2>2, QueueMore
  <2>4. P = q + 1 /\ Q = a
    BY <2>1, <2>2, <2>3 DEF One
  <2>5. q = 0 /\ a = 0 /\ Len(ready) = 0
    BY <1>2, <1>3, <1>5, <2>1 DEF One
  <2>6. ToCome = {}
    BY <2>5, NothingComes
  <2>7. P + Q + Len(ready') = One(typist' = "wait")
    BY <2>1, <2>4, <2>5 DEF One
  <2>8. \A i \in 1..Len(ready') : ready'[i] = {asks'}
    BY <2>1, <2>5
  <2> QED BY <1>2, <1>4, <2>1, <2>6, <2>7, <2>8
<1>10. CASE GetCompletion
  <2> DEFINE e == [ask |-> asks, parts |-> Head(ready)]
  <2>1. /\ UNCHANGED <<toUtop, fromUtop, asks>> /\ typist = "wait" /\ typist' = "idle"
        /\ ready # <<>> /\ ready' = Tail(ready) /\ got' = Append(got, e)
    BY <1>10 DEF GetCompletion
  <2>2. /\ Head(ready) = ready[1] /\ Len(ready) # 0 /\ Head(ready) \in R
        /\ Len(ready') = Len(ready) - 1
    <3> HIDE DEF R
    <3> QED BY <1>5, <2>1, HeadTailProperties, EmptySeq
  <2>3. Head(ready) = {asks}
    BY <1>2, <1>5, <2>2
  <2>4. Len(ready) = 1 /\ q = 0 /\ a = 0
    BY <1>2, <1>3, <1>5, <2>1, <2>2 DEF One
  <2>5. P + Q + Len(ready') = One(typist' = "wait") /\ Len(ready') = 0
    BY <2>1, <2>2, <2>4 DEF One
  <2>6. e \in G /\ e.ask = asks /\ e.parts = {asks}
    <3>1. asks \in 1..MaxRequests
      BY <1>5, <2>1
    <3> HIDE DEF R
    <3> QED BY <2>2, <2>3, <3>1
  <2> HIDE DEF e, G
  <2>7. \A i \in 1..Len(got') : got'[i].parts = {got'[i].ask}
    <3>1. /\ Len(got') = Len(got) + 1 /\ Len(got) \in Nat
          /\ \A i \in 1..(Len(got) + 1) : got'[i] = IF i <= Len(got) THEN got[i] ELSE e
      BY <1>5, <2>1, <2>6, AppendIs, LenProperties
    <3> TAKE i \in 1..Len(got')
    <3>2. CASE i <= Len(got)
      <4>1. i \in 1..Len(got) /\ got'[i] = got[i]
        BY <3>1, <3>2
      <4> QED BY <1>2, <4>1
    <3>3. CASE ~(i <= Len(got))
      <4>1. got'[i] = e
        BY <3>1, <3>3
      <4> QED BY <2>6, <4>1
    <3> QED BY <3>2, <3>3
  <2>8. \A i \in 1..Len(ready') : ready'[i] = {asks'}
    BY <2>5
  <2> QED BY <1>2, <1>4, <2>1, <2>5, <2>7, <2>8
<1>11. CASE CompletionTimesOut
  BY <1>11 DEF CompletionTimesOut
<1>12. CASE UtopReadsInput
  <2>1. /\ toUtop # <<>> /\ Head(toUtop).key = "input" /\ toUtop' = Tail(toUtop)
        /\ typist' = typist
    BY <1>12, ReadsInput
  <2>2. UNCHANGED <<ready, got, asks>>
    BY <1>12, ReadsInput DEF completionVars
  <2>3. P = q - One(Head(toUtop).key = "complete")
    BY <1>3, <2>1, QueueLess
  <2>4. PICK e \in Verdicts : fromUtop' = Append(fromUtop, e)
    BY <1>12, ReadsInput
  <2>5. e \in Messages /\ e.key \in {"accept", "continue"}
    BY <2>4, MessageIs DEF Messages, Stanzas
  <2>6. Q = a + One(e.key \in {"completion-word", "completion-stop"})
    BY <1>3, <2>4, <2>5, QueueMore
  <2>7. P = q /\ Q = a
    BY <1>3, <2>1, <2>3, <2>5, <2>6 DEF One
  <2> QED BY <1>2, <1>6, <2>1, <2>2, <2>7
<1>13. CASE UtopCompletes
  <2>1. /\ toUtop # <<>> /\ Head(toUtop).key = "complete" /\ toUtop' = Tail(toUtop)
        /\ typist' = typist
    BY <1>13, Completes
  <2>2. UNCHANGED <<ready, got, asks>>
    BY <1>13, Completes DEF completionVars
  <2>3. P = q - One(Head(toUtop).key = "complete")
    BY <1>3, <2>1, QueueLess
  <2>4. PICK n \in Requests : \/ \E e \in CompletedWords : fromUtop' = Append(fromUtop, e)
                              \/ fromUtop' = fromUtop \o List(n)
    BY <1>13, Completes
  <2>5. Q = a + 1
    <3>1. ASSUME NEW e \in CompletedWords, fromUtop' = Append(fromUtop, e)
          PROVE  Q = a + 1
      <4>1. e \in Messages /\ e.key = "completion-word"
        BY DEF Messages, Stanzas, Answers, CompletedWords
      <4>2. Q = a + One(e.key \in {"completion-word", "completion-stop"})
        BY <1>3, <3>1, <4>1, QueueMore
      <4> QED BY <4>1, <4>2 DEF One
    <3>2. CASE fromUtop' = fromUtop \o List(n)
      BY <1>3, <3>2, ListAppended
    <3> QED BY <2>4, <3>1, <3>2
  <2>6. P = q - 1
    BY <2>1, <2>3 DEF One
  <2>7. P + Q = q + a
    BY <1>3, <2>5, <2>6
  <2>8. P + Q + Len(ready') = One(typist' = "wait")
    <3> HIDE DEF P, Q, q, a
    <3> QED BY <1>2, <2>1, <2>2, <2>7
  <2> QED BY <1>2, <1>6, <2>2, <2>8
<1>14. CASE UtopPrintsByte
  <2>1. UNCHANGED <<toUtop, typist, ready, got, asks>>
    BY <1>14, PrintsByte DEF completionVars
  <2>2. PICK e \in Stanzas : e.key = "byte" /\ fromUtop' = Append(fromUtop, e)
    BY <1>14, PrintsByte
  <2>3. Q = a + One(e.key \in {"completion-word", "completion-stop"})
    BY <1>3, <2>2, QueueMore DEF Messages
  <2>4. Q = a
    BY <1>3, <2>2, <2>3 DEF One
  <2> QED BY <1>2, <1>6, <2>1, <2>4
<1>15. CASE ReadAccept \/ ReadContinue \/ ReadCompletionStart \/ ReadCompletion
  <2>1. PICK key \in {"accept", "continue", "completion-start", "completion"} : ReadStanza(key)
    BY <1>15 DEF ReadAccept, ReadContinue, ReadCompletionStart, ReadCompletion
  <2>2. UNCHANGED <<toUtop, typist, ready, asks, got>>
    <3>1. ready' = ready
      BY <1>15 DEF ReadAccept, ReadContinue, ReadCompletionStart, ReadCompletion
    <3> QED BY <2>1, <3>1, StanzaTaken
  <2>3. Q = a - One(key \in {"completion-word", "completion-stop"})
    BY <2>1, StanzaTaken
  <2>4. Q = a
    BY <1>3, <2>1, <2>3 DEF One
  <2> QED BY <1>2, <1>6, <2>2, <2>4
<1>16. ASSUME NEW key \in {"completion-word", "completion-stop"}, ReadStanza(key),
              ready' = Append(ready, {asks}), {asks} \in R
       PROVE  /\ P + Q + Len(ready') = One(typist' = "wait")
              /\ ToCome' \subseteq {asks'}
              /\ \A i \in 1..Len(ready') : ready'[i] = {asks'}
              /\ \A i \in 1..Len(got') : got'[i].parts = {got'[i].ask}
  <2>1. UNCHANGED <<toUtop, typist, asks, got>>
    BY <1>16, StanzaTaken
  <2>2. Q = a - One(key \in {"completion-word", "completion-stop"})
    BY <1>16, StanzaTaken
  <2>3. Q = a - 1
    BY <2>2 DEF One
  <2>4. /\ Len(ready') = Len(ready) + 1
        /\ \A i \in 1..(Len(ready) + 1) :
             ready'[i] = IF i <= Len(ready) THEN ready[i] ELSE {asks}
    <3> HIDE DEF R
    <3> QED BY <1>5, <1>16, AppendIs
  <2>5. \A i \in 1..Len(ready') : ready'[i] = {asks}
    BY <1>2, <1>5, <2>4
  <2>6. P + Q + Len(ready') = One(typist' = "wait")
    <3>1. P = q
      BY <2>1
    <3> HIDE DEF P, Q, q, a
    <3> QED BY <1>2, <1>3, <1>5, <2>1, <2>3, <2>4, <3>1
  <2> QED BY <1>6, <2>1, <2>5, <2>6
<1>17. CASE ReadCompletionStop
  <2>1. ReadStanza("completion-stop") /\ ready' = Append(ready, Range(gathered))
    BY <1>17 DEF ReadCompletionStop
  <2>2. Head(fromUtop).key = "completion-stop" /\ fromUtop # <<>>
    BY <2>1, StanzaTaken
  <2>3. PICK m \in Requests : gathered = <<m>>
    BY <2>2 DEF UtIInv, HeadFits
  <2>4. Range(gathered) = {m}
    BY <2>3 DEF Range
  <2>5. m \in ToCome
    BY <2>2, <2>4 DEF ToCome, Listed, ListedIn
  <2>6. m = asks
    BY <1>2, <2>5
  <2>7. {asks} \in R
    BY <2>3, <2>6 DEF Requests
  <2> QED BY <1>16, <2>1, <2>4, <2>6, <2>7
<1>18. CASE ReadCompletionWord
  <2> DEFINE m == Head(fromUtop).of
  <2>1. ReadStanza("completion-word") /\ ready' = Append(ready, {m, asks})
    BY <1>5, <1>18 DEF ReadCompletionWord
  <2>2. /\ Head(fromUtop).key = "completion-word" /\ Head(fromUtop) \in Messages
        /\ Coming(fromUtop) = Num(Head(fromUtop)) \cup Coming(fromUtop')
    BY <2>1, StanzaTaken
  <2>3. Num(Head(fromUtop)) = {m} /\ m \in Requests
    BY <2>2, MessageIs
  <2>4. m \in ToCome
    BY <2>2, <2>3 DEF ToCome
  <2> HIDE DEF m
  <2>5. m = asks
    BY <1>2, <2>4
  <2>6. {m, asks} = {asks} /\ {asks} \in R
    BY <2>3, <2>5 DEF Requests
  <2> QED BY <1>16, <2>1, <2>6
<1> QED BY <1>7, <1>8, <1>9, <1>10, <1>11, <1>12, <1>13, <1>14, <1>15, <1>17, <1>18
        DEF UtNext, UtRead

\* The n lines after the m-th.
NextLines(m, n) == [i \in 1..n |-> m + i]

(* How a phrase grows by the next lines.                                   *)
LEMMA LinesAdded ==
  ASSUME NEW m \in Nat, NEW n \in Nat, NEW D \in Seq(Nat), NEW p \in Seq(Nat),
         D \o p = UpToLine(m)
  PROVE  D \o (p \o NextLines(m, n)) = UpToLine(m + n)
<1> DEFINE new == NextLines(m, n)
           u == D \o (p \o new)
           v == UpToLine(m + n)
<1>1. /\ Len(D) \in Nat /\ Len(p) \in Nat /\ Len(new) = n /\ new \in Seq(Nat)
      /\ \A i \in 1..n : new[i] = m + i
  <2>1. Len(new) = n /\ new \in Seq(Nat) /\ \A i \in 1..n : new[i] = m + i
    BY DEF NextLines
  <2> QED BY <2>1, LenProperties
<1> HIDE DEF new
<1>2. /\ Len(D \o p) = Len(D) + Len(p)
      /\ \A i \in 1..(Len(D) + Len(p)) :
           (D \o p)[i] = IF i <= Len(D) THEN D[i] ELSE p[i - Len(D)]
  BY ConcatProperties
<1>3. /\ p \o new \in Seq(Nat) /\ Len(p \o new) = Len(p) + n
      /\ \A i \in 1..(Len(p) + n) :
           (p \o new)[i] = IF i <= Len(p) THEN p[i] ELSE new[i - Len(p)]
  BY <1>1, ConcatProperties
<1>4. /\ u \in Seq(Nat) /\ Len(u) = Len(D) + (Len(p) + n)
      /\ \A i \in 1..(Len(D) + (Len(p) + n)) :
           u[i] = IF i <= Len(D) THEN D[i] ELSE (p \o new)[i - Len(D)]
  <2> DEFINE q == p \o new
  <2>1. q \in Seq(Nat) /\ Len(q) = Len(p) + n
    BY <1>3
  <2> HIDE DEF q
  <2>2. /\ D \o q \in Seq(Nat) /\ Len(D \o q) = Len(D) + Len(q)
        /\ \A i \in 1..(Len(D) + Len(q)) :
             (D \o q)[i] = IF i <= Len(D) THEN D[i] ELSE q[i - Len(D)]
    BY <2>1, ConcatProperties
  <2> QED BY <2>1, <2>2 DEF q
<1>5. /\ Len(D) + Len(p) = m
      /\ \A i \in 1..m : i = IF i <= Len(D) THEN D[i] ELSE p[i - Len(D)]
  <2>1. Len(UpToLine(m)) = m /\ \A i \in 1..m : UpToLine(m)[i] = i
    BY DEF UpToLine
  <2> QED BY <1>2, <2>1
<1>6. v \in Seq(Nat) /\ Len(v) = m + n /\ \A i \in 1..(m + n) : v[i] = i
  BY DEF UpToLine
<1> HIDE DEF u, v
<1>7. ASSUME NEW i \in 1..(m + n) PROVE u[i] = i
  <2>1. i \in 1..(Len(D) + (Len(p) + n))
    BY <1>1, <1>5
  <2>2. CASE i <= Len(D)
    <3>1. i \in 1..m
      BY <1>1, <1>5, <2>2
    <3> QED BY <1>4, <1>5, <2>1, <2>2, <3>1
  <2>3. CASE ~(i <= Len(D)) /\ i <= m
    <3>1. i \in 1..m /\ i - Len(D) \in 1..(Len(p) + n) /\ i - Len(D) <= Len(p)
      BY <1>1, <1>5, <2>3
    <3>2. u[i] = p[i - Len(D)]
      BY <1>3, <1>4, <2>1, <2>3, <3>1
    <3> QED BY <1>5, <2>3, <3>1, <3>2
  <2>4. CASE ~(i <= m)
    <3>1. /\ ~(i <= Len(D)) /\ i - Len(D) \in 1..(Len(p) + n) /\ ~(i - Len(D) <= Len(p))
          /\ i - m \in 1..n /\ (i - Len(D)) - Len(p) = i - m
      <4> DEFINE a == Len(D)
                 b == Len(p)
      <4>1. a \in Nat /\ b \in Nat /\ a + b = m
        BY <1>1, <1>5
      <4> HIDE DEF a, b
      <4>2. /\ ~(i <= a) /\ i - a \in 1..(b + n) /\ ~(i - a <= b)
            /\ i - m \in 1..n /\ (i - a) - b = i - m
        BY <2>4, <4>1
      <4> QED BY <4>2 DEF a, b
    <3>2. u[i] = new[i - m]
      BY <1>3, <1>4, <2>1, <3>1
    <3>3. new[i - m] = m + (i - m)
      BY <1>1, <3>1
    <3> QED BY <3>2, <3>3
  <2> QED BY <2>2, <2>3, <2>4
<1>8. Len(u) = m + n
  <2> DEFINE a == Len(D)
             b == Len(p)
  <2>1. a \in Nat /\ b \in Nat /\ a + b = m /\ Len(u) = a + (b + n)
    BY <1>1, <1>4, <1>5
  <2> HIDE DEF a, b
  <2> QED BY <2>1
<1> QED BY <1>4, <1>6, <1>7, <1>8, SeqEqual DEF u, v, new

\* Is there a message with a key in K?
HasKey(s, K) == \E i \in 1..Len(s) : s[i].key \in K
Verdict == {"accept", "continue"}

(* When there is one input under way at most, it is in one place.          *)
LEMMA Exclusive ==
  ASSUME NEW s \in Seq(Messages), NEW t \in Seq(Messages),
         NEW w \in BOOLEAN, NEW z \in BOOLEAN,
         One(w) + HowMany(s, UtInputs) + HowMany(t, Verdicts) + One(z) <= 1
  PROVE  LET n == One(w) + HowMany(s, UtInputs) + HowMany(t, Verdicts) + One(z)
             i == HasKey(s, {"input"})
             v == HasKey(t, Verdict)
         IN  /\ n = 0 => ~w /\ ~i /\ ~v /\ ~z
             /\ n # 0 => w \/ i \/ v \/ z
             /\ w => ~i /\ ~v /\ ~z
             /\ i => ~v /\ ~z
             /\ v => ~z
<1> DEFINE c == HowMany(s, UtInputs)
           d == HowMany(t, Verdicts)
           i == HasKey(s, {"input"})
           v == HasKey(t, Verdict)
<1>1. c \in Nat /\ d \in Nat
  BY HowManyIs
<1>2. c = 0 <=> ~i
  <2>1. \A k \in 1..Len(s) : s[k] \in UtInputs <=> s[k].key \in {"input"}
    BY ElementOfSeq, MessageIs
  <2>2. c = 0 <=> \A k \in 1..Len(s) : s[k] \notin UtInputs
    BY HowManyIs
  <2> QED BY <2>1, <2>2 DEF HasKey
<1>3. d = 0 <=> ~v
  <2>1. \A k \in 1..Len(t) : t[k] \in Verdicts <=> t[k].key \in Verdict
    BY ElementOfSeq, MessageIs DEF Verdict
  <2>2. d = 0 <=> \A k \in 1..Len(t) : t[k] \notin Verdicts
    BY HowManyIs
  <2> QED BY <2>1, <2>2 DEF HasKey
<1>4. One(w) + c + d + One(z) <= 1
  OBVIOUS
<1>5. One(w) = (IF w THEN 1 ELSE 0) /\ One(z) = (IF z THEN 1 ELSE 0)
  BY DEF One
<1> HIDE DEF c, d, i, v
<1>6. LET n == One(w) + c + d + One(z)
      IN  /\ n = 0 => ~w /\ c = 0 /\ d = 0 /\ ~z
          /\ n # 0 => w \/ c # 0 \/ d # 0 \/ z
          /\ w => c = 0 /\ d = 0 /\ ~z
          /\ c # 0 => d = 0 /\ ~z
          /\ d # 0 => ~z
  <2>1. CASE w /\ z
    BY <1>1, <1>4, <1>5, <2>1
  <2>2. CASE w /\ ~z
    BY <1>1, <1>4, <1>5, <2>2
  <2>3. CASE ~w /\ z
    BY <1>1, <1>4, <1>5, <2>3
  <2>4. CASE ~w /\ ~z
    BY <1>1, <1>4, <1>5, <2>4
  <2> QED BY <2>1, <2>2, <2>3, <2>4
<1> QED BY <1>2, <1>3, <1>6 DEF c, d, i, v

(* The error is marked, with the lengths of the lines as a parameter.      *)
LEMMA ErrorMarkedIn ==
  ASSUME UtTypeOK, phrase \in Seq(1..entered), begins = phrase,
         NEW e \in Accepts, PlaceIn(e, width, phrase)
  PROVE  TextIn(width, Highlighted(e.a, e.b)) = e.cells
<1> DEFINE t == Joined(phrase)
           h == Highlighted(e.a, e.b)
<1>1. t = JoinedIn(width, phrase)
  BY DEF Joined, JoinedIn
<1>2. e.a \in Nat /\ e.b \in Nat
  BY DEF Accepts
<1>3. e.a <= e.b /\ e.b < Len(t) /\ e.cells = TextIn(width, Places2(t, e.a, e.b))
  BY <1>1 DEF PlaceIn
<1>4. TextOf(h) = TextOf({t[x] : x \in (e.a + 1)..e.b})
  BY <1>2, <1>3, ErrorMarked
<1> HIDE DEF t, h
<1>5. TextOf(h) = TextOf(Places2(t, e.a, e.b))
  BY <1>4 DEF Places2
<1>6. TextIn(width, h) = TextIn(width, Places2(t, e.a, e.b))
  BY <1>5 DEF TextOf, TextIn
<1> QED BY <1>3, <1>6 DEF h

(* While the user waits, there is one input at most, and its phrase is     *)
(* there.                                                                  *)
LEMMA OneInputStep ==
  ASSUME UtIInv, UtNext
  PROVE  OneInput' /\ NoMarks'
<1> DEFINE I == {"input"}
<1>1. /\ toUtop \in Seq(Messages) /\ fromUtop \in Seq(Messages)
      /\ toUtop' \in Seq(Messages) /\ fromUtop' \in Seq(Messages)
  <2>1. toUtop' \in Seq(UtInputs \cup Questions) /\ fromUtop' \in Seq(Stanzas)
    BY CountsStep
  <2>2. UtInputs \cup Questions \subseteq Messages /\ Stanzas \subseteq Messages
    BY DEF Messages
  <2>3. toUtop' \in Seq(Messages)
    BY <2>1, <2>2, SeqMonotonic
  <2>4. fromUtop' \in Seq(Messages)
    BY <2>1, <2>2, SeqMonotonic
  <2> QED BY <2>3, <2>4, QueuesAre DEF UtIInv
<1>2. /\ unanswered \in Nat /\ unanswered' \in Nat
      /\ typist \in {"idle", "send", "wait"} /\ stanza \in {"read", "reset", "ended"}
      /\ phrase \in Seq(1..entered) /\ begins \in Seq(1..entered)
      /\ evaluated \in Seq(1..entered) /\ width \in Seq(Widths)
  BY CountsStep DEF UtIInv, UtTypeOK, QueueTypes
<1>3. /\ unanswered = One(typist = "send") + HowMany(toUtop, UtInputs)
                      + HowMany(fromUtop, Verdicts) + One(stanza = "reset")
      /\ unanswered' = One(typist' = "send") + HowMany(toUtop', UtInputs)
                       + HowMany(fromUtop', Verdicts) + One(stanza' = "reset")
  BY CountsStep DEF UtIInv, UnansweredCounts
<1> DEFINE One1(u, w, s, t, z) ==
             /\ u = 0 => w # "send" /\ ~HasKey(s, I) /\ ~HasKey(t, Verdict) /\ z # "reset"
             /\ u # 0 => w = "send" \/ HasKey(s, I) \/ HasKey(t, Verdict) \/ z = "reset"
             /\ w = "send" => ~HasKey(s, I) /\ ~HasKey(t, Verdict) /\ z # "reset"
             /\ HasKey(s, I) => ~HasKey(t, Verdict) /\ z # "reset"
             /\ HasKey(t, Verdict) => z # "reset"
<1>4. unanswered <= 1 => One1(unanswered, typist, toUtop, fromUtop, stanza)
  BY <1>1, <1>3, Exclusive
<1>5. unanswered' <= 1 => One1(unanswered', typist', toUtop', fromUtop', stanza')
  BY <1>1, <1>3, Exclusive
<1>6. NoMarks
  BY DEF UtIInv
<1>7. ~ahead =>
        /\ unanswered <= 1
        /\ unanswered = 0 \/ typist = "send" => LinesPending
        /\ \A i \in 1..Len(toUtop) :
             toUtop[i].key = "input" => LinesPending /\ toUtop[i].data = phrase
        /\ \A i \in 1..Len(fromUtop) :
             /\ fromUtop[i].key = "continue" => LinesPending
             /\ fromUtop[i].key = "accept" =>
                  AllEvaluated /\ begins = phrase /\ PlaceIn(fromUtop[i], width, phrase)
        /\ stanza = "reset" => AllEvaluated /\ phrase = <<>>
        /\ TextIn(width, marks) = wrong
  BY DEF UtIInv, OneInput
<1> DEFINE Fine == /\ unanswered' <= 1
                   /\ unanswered' = 0 \/ typist' = "send" => LinesPending'
                   /\ \A i \in 1..Len(toUtop') :
                        toUtop'[i].key = "input" => LinesPending' /\ toUtop'[i].data = phrase'
                   /\ \A i \in 1..Len(fromUtop') :
                        /\ fromUtop'[i].key = "continue" => LinesPending'
                        /\ fromUtop'[i].key = "accept" =>
                             /\ AllEvaluated' /\ begins' = phrase'
                             /\ PlaceIn(fromUtop'[i], width', phrase')
                   /\ stanza' = "reset" => AllEvaluated' /\ phrase' = <<>>
                   /\ TextIn(width', marks') = wrong'
<1>8. (~ahead' => Fine) => OneInput'
  BY DEF OneInput
<1> HIDE DEF One1
<1>9. ASSUME UNCHANGED <<width, phrase, begins, evaluated, unanswered, ahead, marks, wrong>>,
             typist' = "send" => typist = "send", (stanza' = "reset") = (stanza = "reset"),
             \A i \in 1..Len(toUtop') : toUtop'[i].key = "input" =>
               \E j \in 1..Len(toUtop) : toUtop'[i] = toUtop[j],
             \A i \in 1..Len(fromUtop') : fromUtop'[i].key \in Verdict =>
               \E j \in 1..Len(fromUtop) : fromUtop'[i] = fromUtop[j]
      PROVE  OneInput' /\ NoMarks'
  <2>1. LinesPending' = LinesPending /\ AllEvaluated' = AllEvaluated
    BY <1>9 DEF LinesPending, AllEvaluated, entered
  <2>2. ASSUME ~ahead' PROVE Fine
    <3>1. ~ahead
      BY <1>9, <2>2
    <3>2. \A i \in 1..Len(toUtop') :
            toUtop'[i].key = "input" => LinesPending' /\ toUtop'[i].data = phrase'
      BY <1>7, <1>9, <2>1, <3>1
    <3>3. \A i \in 1..Len(fromUtop') :
            /\ fromUtop'[i].key = "continue" => LinesPending'
            /\ fromUtop'[i].key = "accept" =>
                 AllEvaluated' /\ begins' = phrase' /\ PlaceIn(fromUtop'[i], width', phrase')
      BY <1>7, <1>9, <2>1, <3>1 DEF Verdict
    <3> QED BY <1>7, <1>9, <2>1, <3>1, <3>2, <3>3
  <2>3. NoMarks'
    BY <1>6, <1>9 DEF NoMarks
  <2> QED BY <1>8, <2>2, <2>3
<1>10. CASE AppendLines
  <2>1. /\ typist = "idle" /\ typist' = "send" /\ ahead' = (ahead \/ unanswered > 0)
        /\ unanswered' = unanswered + 1
        /\ UNCHANGED <<toUtop, fromUtop, evaluated, stanza, marks, wrong>>
    BY <1>10 DEF AppendLines
  <2>2. NoMarks'
    BY <1>6, <2>1 DEF NoMarks
  <2>3. ASSUME ~ahead' PROVE Fine
    <3>1. ~ahead /\ unanswered = 0
      <4>1. ~ahead /\ ~(unanswered > 0)
        BY <2>1, <2>3, Zenon
      <4> QED BY <1>2, <4>1
    <3>2. /\ ~HasKey(toUtop, I) /\ ~HasKey(fromUtop, Verdict) /\ stanza # "reset" /\ LinesPending
      BY <1>4, <1>7, <3>1 DEF One1
    <3>3. marks = {} /\ wrong = {}
      BY <1>6, <3>2 DEF NoMarks
    <3>4. TextIn(width', marks') = wrong'
      BY <2>1, <3>3 DEF TextIn
    <3>5. LinesPending'
      <4>1. PICK n \in 1..(MaxRequests - entered - asks) : \E widths \in [1..n -> Widths] :
              LET new == [i \in 1..n |-> entered + i]
              IN  phrase' = phrase \o new /\ begins' = begins \o new /\ width' = width \o widths
        BY <1>10 DEF AppendLines
      <4>2. PICK widths \in [1..n -> Widths] :
              LET new == [i \in 1..n |-> entered + i]
              IN  phrase' = phrase \o new /\ begins' = begins \o new /\ width' = width \o widths
        BY <4>1
      <4> DEFINE new == [i \in 1..n |-> entered + i]
      <4>3. n \in Nat /\ entered \in Nat
        BY <1>2, LenProperties DEF entered
      <4>4. entered' = entered + n
        <5>1. widths \in Seq(Widths) /\ Len(widths) = n
          BY <4>3
        <5> QED BY <1>2, <4>2, <5>1, ConcatProperties DEF entered
      <4>6. phrase \in Seq(Nat) /\ evaluated \in Seq(Nat)
        <5>1. 1..entered \subseteq Nat
          BY <4>3
        <5> QED BY <1>2, <5>1, SeqMonotonic
      <4>7. evaluated \o phrase = UpToLine(entered) /\ begins = phrase
        BY <3>2 DEF LinesPending
      <4>8. evaluated \o (phrase \o new) = UpToLine(entered + n)
        <5>1. new = NextLines(entered, n)
          BY DEF NextLines
        <5>2. evaluated \o (phrase \o NextLines(entered, n)) = UpToLine(entered + n)
          BY <4>3, <4>6, <4>7, LinesAdded
        <5> QED BY <5>1, <5>2
      <4>9. phrase' = phrase \o new /\ begins' = begins \o new
        BY <4>2
      <4> HIDE DEF new
      <4> QED BY <2>1, <4>4, <4>7, <4>8, <4>9 DEF LinesPending
    <3> QED BY <2>1, <3>1, <3>2, <3>4, <3>5 DEF HasKey, Verdict
  <2> QED BY <1>8, <2>2, <2>3
<1>11. CASE SendPhrase
  <2> DEFINE e == [key |-> "input", data |-> phrase]
  <2>1. /\ typist = "send" /\ typist' = "idle" /\ toUtop' = Append(toUtop, e)
        /\ UNCHANGED <<width, phrase, begins, unanswered, ahead>>
        /\ UNCHANGED <<fromUtop, evaluated, stanza, marks, wrong>>
    BY <1>11 DEF SendPhrase, editVars
  <2>2. e \in Messages /\ e.key = "input" /\ e.data = phrase
    BY DEF UtIInv, UtTypeOK, UtInputs, Messages, Requests
  <2> HIDE DEF e
  <2>3. NoMarks'
    BY <1>6, <2>1 DEF NoMarks
  <2>4. ASSUME ~ahead' PROVE Fine
    <3>1. ~ahead /\ LinesPending /\ unanswered <= 1
      BY <1>7, <2>1, <2>4
    <3>2. ~HasKey(toUtop, I) /\ ~HasKey(fromUtop, Verdict) /\ stanza # "reset" /\ unanswered # 0
      BY <1>4, <2>1, <3>1 DEF One1
    <3>3. LinesPending'
      BY <2>1, <3>1 DEF LinesPending, entered
    <3>4. \A i \in 1..Len(toUtop') : toUtop'[i] = e \/ (i \in 1..Len(toUtop) /\ toUtop'[i] = toUtop[i])
      BY <1>1, <2>1, <2>2, QueueMore
    <3>5. \A i \in 1..Len(toUtop') :
            toUtop'[i].key = "input" => LinesPending' /\ toUtop'[i].data = phrase'
      BY <2>1, <2>2, <3>2, <3>3, <3>4 DEF HasKey
    <3>6. \A i \in 1..Len(fromUtop') : fromUtop'[i].key \notin Verdict
      BY <2>1, <3>2 DEF HasKey
    <3>7. TextIn(width', marks') = wrong'
      BY <1>7, <2>1, <3>1
    <3> QED BY <2>1, <3>1, <3>2, <3>3, <3>5, <3>6, <3>7 DEF Verdict
  <2> QED BY <1>8, <2>3, <2>4
<1>12. CASE UtopReadsInput
  <2> DEFINE h == Head(toUtop)
  <2>1. /\ toUtop # <<>> /\ h.key = "input" /\ toUtop' = Tail(toUtop)
        /\ UNCHANGED <<typist, stanza, marks, wrong>>
        /\ UNCHANGED <<width, phrase, begins, unanswered, ahead>>
    BY <1>12, ReadsInput DEF editVars
  <2>2. PICK e \in Verdicts :
          /\ fromUtop' = Append(fromUtop, e)
          /\ \/ e.key = "continue" /\ evaluated' = evaluated
             \/ /\ e.key = "accept" /\ evaluated' = evaluated \o h.data
                /\ PlaceIn(e, width, h.data)
    BY <1>12, ReadsInput
  <2>3. h = toUtop[1] /\ 1 \in 1..Len(toUtop) /\ HasKey(toUtop, I)
    <3>1. h = toUtop[1] /\ 1 \in 1..Len(toUtop)
      BY <1>1, <2>1, QueueLess
    <3> QED BY <2>1, <3>1 DEF HasKey
  <2>4. e \in Messages /\ e.key \in Verdict
    <3>1. e \in Messages
      BY DEF Messages, Stanzas
    <3> QED BY <3>1, MessageIs DEF Verdict
  <2>5. \A i \in 1..Len(fromUtop') : fromUtop'[i] = e \/ (i \in 1..Len(fromUtop) /\ fromUtop'[i] = fromUtop[i])
    BY <1>1, <2>2, <2>4, QueueMore
  <2>6. HasKey(fromUtop', Verdict)
    <3>1. Len(fromUtop') \in 1..Len(fromUtop') /\ fromUtop'[Len(fromUtop')] = e
      <4>1. /\ Len(fromUtop') = Len(fromUtop) + 1 /\ Len(fromUtop) \in Nat
            /\ \A i \in 1..(Len(fromUtop) + 1) :
                 fromUtop'[i] = IF i <= Len(fromUtop) THEN fromUtop[i] ELSE e
        BY <1>1, <2>2, <2>4, AppendIs, LenProperties
      <4> QED BY <4>1
    <3> QED BY <2>4, <3>1 DEF HasKey
  <2>7. NoMarks'
    BY <1>6, <2>1 DEF NoMarks
  <2>8. ASSUME ~ahead' PROVE Fine
    <3>1. ~ahead /\ LinesPending /\ h.data = phrase /\ unanswered <= 1 /\ unanswered' <= 1
      BY <1>7, <2>1, <2>3, <2>8
    <3>2. ~HasKey(fromUtop, Verdict) /\ stanza # "reset"
      BY <1>4, <2>3, <3>1 DEF One1
    <3>3. ~HasKey(toUtop', I) /\ typist' # "send" /\ unanswered' # 0
      BY <1>5, <2>6, <3>1 DEF One1
    <3>4. \A i \in 1..Len(toUtop') : toUtop'[i].key # "input"
      BY <3>3 DEF HasKey
    <3>5. \A i \in 1..Len(fromUtop') : fromUtop'[i].key \in Verdict => fromUtop'[i] = e
      BY <2>5, <3>2 DEF HasKey
    <3>6. TextIn(width', marks') = wrong'
      BY <1>7, <2>1, <3>1
    <3>7. \A i \in 1..Len(fromUtop') :
            /\ fromUtop'[i].key = "continue" => LinesPending'
            /\ fromUtop'[i].key = "accept" =>
                 AllEvaluated' /\ begins' = phrase' /\ PlaceIn(fromUtop'[i], width', phrase')
      <4>1. CASE e.key = "continue"
        <5>1. evaluated' = evaluated
          BY <2>2, <4>1
        <5>2. LinesPending'
          BY <2>1, <3>1, <5>1 DEF LinesPending, entered
        <5> QED BY <3>5, <4>1, <5>2 DEF Verdict
      <4>2. CASE e.key = "accept"
        <5>1. evaluated' = evaluated \o phrase /\ PlaceIn(e, width, phrase)
          BY <2>2, <3>1, <4>2
        <5>2. AllEvaluated' /\ begins' = phrase'
          BY <2>1, <3>1, <5>1 DEF LinesPending, AllEvaluated, entered
        <5>3. PlaceIn(e, width', phrase')
          BY <2>1, <5>1
        <5> QED BY <3>5, <4>2, <5>2, <5>3 DEF Verdict
      <4> QED BY <2>2, <4>1, <4>2
    <3> QED BY <2>1, <3>1, <3>2, <3>3, <3>4, <3>6, <3>7
  <2> QED BY <1>8, <2>7, <2>8
<1>13. CASE ReadAccept
  <2> DEFINE h == Head(fromUtop)
  <2>1. /\ ReadStanza("accept") /\ stanza' = "reset" /\ marks' = Highlighted(h.a, h.b)
        /\ wrong' = h.cells /\ phrase' = <<>> /\ UNCHANGED <<begins, unanswered>>
    BY <1>13 DEF ReadAccept
  <2>2. /\ UNCHANGED <<width, typist, toUtop, evaluated, ahead>> /\ h.key = "accept"
        /\ h \in Messages /\ h = fromUtop[1] /\ 1 \in 1..Len(fromUtop)
    BY <2>1, StanzaTaken
  <2>3. NoMarks'
    BY <2>1 DEF NoMarks
  <2>4. ASSUME ~ahead' PROVE Fine
    <3>1. /\ ~ahead /\ AllEvaluated /\ begins = phrase /\ unanswered <= 1 /\ unanswered' <= 1
          /\ PlaceIn(h, width, phrase)
      BY <1>7, <2>1, <2>2, <2>4
    <3>2. ~HasKey(toUtop', I) /\ typist' # "send" /\ unanswered' # 0 /\ ~HasKey(fromUtop', Verdict)
      BY <1>5, <2>1, <3>1 DEF One1
    <3>3. h \in Accepts
      <4>1. h \in Verdicts
        BY <2>2, MessageIs
      <4> QED BY <2>2, <4>1 DEF Verdicts
    <3>4. TextIn(width, Highlighted(h.a, h.b)) = h.cells
      BY <1>2, <3>1, <3>3, ErrorMarkedIn DEF UtIInv
    <3>5. TextIn(width', marks') = wrong'
      BY <2>1, <2>2, <3>4
    <3>6. AllEvaluated'
      BY <2>2, <3>1 DEF AllEvaluated, entered
    <3>7. /\ \A i \in 1..Len(toUtop') : toUtop'[i].key # "input"
          /\ \A i \in 1..Len(fromUtop') : fromUtop'[i].key \notin {"accept", "continue"}
      BY <3>2 DEF HasKey, Verdict
    <3> QED BY <2>1, <3>1, <3>2, <3>5, <3>6, <3>7
  <2> QED BY <1>8, <2>3, <2>4
<1>14. CASE ResetBegins
  <2>1. /\ stanza = "reset" /\ stanza' = "read" /\ begins' = <<>> /\ unanswered' = unanswered - 1
        /\ marks' = {} /\ wrong' = {}
        /\ UNCHANGED <<width, typist, phrase, toUtop, fromUtop, evaluated, ahead>>
    BY <1>14 DEF ResetBegins
  <2>2. NoMarks'
    BY <2>1 DEF NoMarks
  <2>3. ASSUME ~ahead' PROVE Fine
    <3>1. ~ahead /\ AllEvaluated /\ phrase = <<>> /\ unanswered <= 1
      BY <1>7, <2>1, <2>3
    <3>2. ~HasKey(toUtop, I) /\ typist # "send" /\ ~HasKey(fromUtop, Verdict)
      BY <1>4, <2>1, <3>1 DEF One1
    <3>3. LinesPending'
      <4>1. evaluated \o <<>> = evaluated
        BY <1>2, ConcatEmptySeq
      <4> QED BY <2>1, <3>1, <4>1 DEF LinesPending, AllEvaluated, entered
    <3>4. TextIn(width', marks') = wrong'
      BY <2>1 DEF TextIn
    <3>5. /\ \A i \in 1..Len(toUtop') : toUtop'[i].key # "input"
          /\ \A i \in 1..Len(fromUtop') : fromUtop'[i].key \notin {"accept", "continue"}
      BY <2>1, <3>2 DEF HasKey, Verdict
    <3>6. unanswered' <= 1
      BY <1>2, <2>1, <3>1
    <3> QED BY <2>1, <3>3, <3>4, <3>5, <3>6
  <2> QED BY <1>8, <2>2, <2>3
<1>15. CASE ReadContinue
  <2> DEFINE h == Head(fromUtop)
  <2>1. /\ ReadStanza("continue") /\ unanswered' = unanswered - 1
        /\ UNCHANGED <<stanza, marks, wrong, phrase, begins>>
    BY <1>15 DEF ReadContinue
  <2>2. /\ UNCHANGED <<width, typist, toUtop, evaluated, ahead>> /\ h.key = "continue"
        /\ h = fromUtop[1] /\ 1 \in 1..Len(fromUtop) /\ stanza = "read"
        /\ \A i \in 1..Len(fromUtop') : i + 1 \in 1..Len(fromUtop) /\ fromUtop'[i] = fromUtop[i + 1]
    BY <2>1, StanzaTaken
  <2>3. NoMarks'
    BY <1>6, <2>1 DEF NoMarks
  <2>4. ASSUME ~ahead' PROVE Fine
    <3>1. ~ahead /\ LinesPending /\ unanswered <= 1 /\ TextIn(width, marks) = wrong
      BY <1>7, <2>1, <2>2, <2>4
    <3>2. HasKey(fromUtop, Verdict)
      BY <2>2 DEF HasKey, Verdict
    <3>3. unanswered = 1
      BY <1>2, <1>4, <3>1, <3>2 DEF One1
    <3>4. ~HasKey(toUtop', I) /\ ~HasKey(fromUtop', Verdict) /\ unanswered' = 0
      BY <1>2, <1>5, <2>1, <3>3 DEF One1
    <3>5. LinesPending'
      BY <2>1, <2>2, <3>1 DEF LinesPending, entered
    <3>6. /\ \A i \in 1..Len(toUtop') : toUtop'[i].key # "input"
          /\ \A i \in 1..Len(fromUtop') : fromUtop'[i].key \notin {"accept", "continue"}
      BY <3>4 DEF HasKey, Verdict
    <3>7. TextIn(width', marks') = wrong' /\ stanza' # "reset"
      BY <2>1, <2>2, <3>1
    <3> QED BY <3>4, <3>5, <3>6, <3>7
  <2> QED BY <1>8, <2>3, <2>4
<1>16. CASE AskUtop
  <2> DEFINE e == [key |-> "complete", data |-> <<asks + 1>>]
  <2>1. /\ toUtop' = Append(toUtop, e) /\ typist' = "wait"
        /\ UNCHANGED <<fromUtop, evaluated, stanza, marks, wrong>>
        /\ UNCHANGED <<width, phrase, begins, unanswered, ahead>>
    BY <1>16 DEF AskUtop, editVars
  <2>2. e \in Messages /\ e.key # "input"
    <3>1. asks \in 0..MaxRequests /\ entered \in Nat /\ entered + asks < MaxRequests
      BY <1>2, <1>16, LenProperties DEF UtIInv, UtTypeOK, AskUtop, entered
    <3>2. asks + 1 \in Requests
      BY <3>1, UtopBoundsAssumption DEF Requests
    <3> QED BY <3>2 DEF Questions, Messages
  <2> HIDE DEF e
  <2>3. \A i \in 1..Len(toUtop') : toUtop'[i] = e \/ (i \in 1..Len(toUtop) /\ toUtop'[i] = toUtop[i])
    BY <1>1, <2>1, <2>2, QueueMore
  <2> QED BY <1>9, <2>1, <2>2, <2>3
<1>17. CASE GetCompletion \/ CompletionTimesOut \/ ReadEnds
  <2>1. /\ UNCHANGED <<toUtop, fromUtop, evaluated, marks, wrong>>
        /\ UNCHANGED <<width, phrase, begins, unanswered, ahead>>
        /\ typist' = "send" => typist = "send"
        /\ (stanza' = "reset") = (stanza = "reset")
    BY <1>17 DEF GetCompletion, CompletionTimesOut, ReadEnds, editVars
  <2> QED BY <1>9, <2>1
<1>18. CASE UtopCompletes
  <2>1. /\ toUtop # <<>> /\ toUtop' = Tail(toUtop)
        /\ UNCHANGED <<typist, stanza, marks, wrong, evaluated>>
        /\ UNCHANGED <<width, phrase, begins, unanswered, ahead>>
    BY <1>18, Completes DEF editVars
  <2>2. \A i \in 1..Len(toUtop') : i + 1 \in 1..Len(toUtop) /\ toUtop'[i] = toUtop[i + 1]
    BY <1>1, <2>1, QueueLess
  <2>3. PICK n \in Requests : \/ \E e \in CompletedWords : fromUtop' = Append(fromUtop, e)
                              \/ fromUtop' = fromUtop \o List(n)
    BY <1>18, Completes
  <2>4. \A i \in 1..Len(fromUtop') : fromUtop'[i].key \in Verdict =>
          \E j \in 1..Len(fromUtop) : fromUtop'[i] = fromUtop[j]
    <3>1. ASSUME NEW e \in CompletedWords, fromUtop' = Append(fromUtop, e)
          PROVE  \A i \in 1..Len(fromUtop') : fromUtop'[i].key \in Verdict =>
                   \E j \in 1..Len(fromUtop) : fromUtop'[i] = fromUtop[j]
      <4>1. e \in Messages /\ e.key = "completion-word"
        BY DEF Messages, Stanzas, Answers, CompletedWords
      <4>2. \A i \in 1..Len(fromUtop') : fromUtop'[i] = e \/ (i \in 1..Len(fromUtop) /\ fromUtop'[i] = fromUtop[i])
        BY <1>1, <3>1, <4>1, QueueMore
      <4> QED BY <4>1, <4>2 DEF Verdict
    <3>2. CASE fromUtop' = fromUtop \o List(n)
      <4>1. \A i \in 1..Len(fromUtop') : fromUtop'[i].key \in {"accept", "continue"}
                                        => i \in 1..Len(fromUtop) /\ fromUtop'[i] = fromUtop[i]
        BY <1>1, <3>2, QueueList
      <4> QED BY <4>1 DEF Verdict
    <3> QED BY <2>3, <3>1, <3>2
  <2> QED BY <1>9, <2>1, <2>2, <2>4
<1>19. CASE UtopPrintsByte
  <2>1. /\ UNCHANGED <<toUtop, evaluated, typist, stanza, marks, wrong>>
        /\ UNCHANGED <<width, phrase, begins, unanswered, ahead>>
    BY <1>19, PrintsByte DEF editVars
  <2>2. PICK e \in Stanzas : e.key = "byte" /\ fromUtop' = Append(fromUtop, e)
    BY <1>19, PrintsByte
  <2>3. \A i \in 1..Len(fromUtop') : fromUtop'[i] = e \/ (i \in 1..Len(fromUtop) /\ fromUtop'[i] = fromUtop[i])
    BY <1>1, <2>2, QueueMore DEF Messages
  <2>4. \A i \in 1..Len(fromUtop') : fromUtop'[i].key \in Verdict =>
          \E j \in 1..Len(fromUtop) : fromUtop'[i] = fromUtop[j]
    BY <2>2, <2>3 DEF Verdict
  <2> QED BY <1>9, <2>1, <2>4
<1>20. CASE ReadCompletionStart \/ ReadCompletion \/ ReadCompletionStop \/ ReadCompletionWord
  <2>1. PICK key : ReadStanza(key)
    BY <1>20 DEF ReadCompletionStart, ReadCompletion, ReadCompletionStop, ReadCompletionWord
  <2>2. UNCHANGED <<stanza, marks, wrong, phrase, begins, unanswered>>
    BY <1>20 DEF ReadCompletionStart, ReadCompletion, ReadCompletionStop, ReadCompletionWord
  <2>3. UNCHANGED <<width, typist, toUtop, evaluated, ahead>>
    BY <2>1, StanzaTaken
  <2>4. \A i \in 1..Len(fromUtop') : i + 1 \in 1..Len(fromUtop) /\ fromUtop'[i] = fromUtop[i + 1]
    BY <2>1, StanzaTaken
  <2> QED BY <1>9, <2>2, <2>3, <2>4
<1> QED BY <1>10, <1>11, <1>12, <1>13, <1>14, <1>15, <1>16, <1>17, <1>18, <1>19, <1>20
        DEF UtNext, UtRead

(* The invariant holds at the start.                                       *)
LEMMA UtopInit ==
  ASSUME UtInit
  PROVE  UtIInv
<1>1. /\ width = <<>> /\ typist = "idle" /\ phrase = <<>> /\ begins = <<>>
      /\ toUtop = <<>> /\ fromUtop = <<>> /\ evaluated = <<>>
      /\ stanza = "read" /\ marks = {} /\ wrong = {}
      /\ prefixOf = 0 /\ gathered = <<>> /\ ready = <<>> /\ asks = 0 /\ got = <<>>
      /\ unanswered = 0 /\ ahead = FALSE /\ late = FALSE
  BY DEF UtInit
<1>2. /\ \A S : <<>> \in Seq(S)
      /\ Len(<<>>) = 0 /\ MaxRequests \in Nat
  BY EmptySeq, UtopBoundsAssumption
<1>3. entered = 0
  BY <1>1, <1>2 DEF entered
<1>4. UtTypeOK
  <2>1. /\ width \in Seq(Widths) /\ phrase \in Seq(1..MaxRequests)
        /\ begins \in Seq(1..MaxRequests) /\ evaluated \in Seq(1..MaxRequests)
        /\ gathered \in Seq(1..MaxRequests) /\ ready \in Seq(SUBSET (1..MaxRequests))
    BY <1>1, <1>2
  <2>2. got \in Seq([ask : 1..MaxRequests, parts : SUBSET (1..MaxRequests)])
    BY <1>1, <1>2
  <2>3. /\ entered <= MaxRequests /\ asks \in 0..MaxRequests /\ prefixOf \in 0..MaxRequests
        /\ unanswered \in Nat
    BY <1>1, <1>2, <1>3
  <2> QED BY <1>1, <2>1, <2>2, <2>3 DEF UtTypeOK
<1>5. QueueTypes
  BY <1>1, <1>2 DEF QueueTypes
<1>6. UnansweredCounts
  <2>1. HowMany(toUtop, UtInputs) = 0
    BY <1>1, HowManyEmpty
  <2>2. HowMany(fromUtop, Verdicts) = 0
    BY <1>1, HowManyEmpty
  <2> QED BY <1>1, <2>1, <2>2 DEF UnansweredCounts, One
<1>7. WholeLists(fromUtop) /\ HeadFits(fromUtop, gathered)
  BY <1>1, <1>2 DEF WholeLists, HeadFits
<1>8. ToCome = {} /\ Listed = {} /\ Coming(fromUtop) = {} /\ Coming(toUtop) = {}
  BY <1>1, ComingEmpty DEF ToCome, Listed, ListedIn
<1>9. AnswersInTurn
  <2>1. QueuesInTurn
    BY <1>1, <1>8, ComingEmpty DEF QueuesInTurn, Below
  <2>2. Given(got, ready, ToCome, asks)
    BY <1>1, <1>2 DEF Given
  <2> QED BY <2>1, <2>2 DEF AnswersInTurn
<1>10. OneQuestion
  <2>1. HowMany(toUtop, Questions) = 0
    BY <1>1, HowManyEmpty
  <2>2. HowMany(fromUtop, Answers) = 0
    BY <1>1, HowManyEmpty
  <2> QED BY <1>1, <1>2, <1>8, <2>1, <2>2 DEF OneQuestion, One
<1>11. OneInput
  <2>1. LinesPending
    <3>1. UpToLine(0) = <<>>
      BY DEF UpToLine
    <3>2. <<>> \o <<>> = <<>>
      OBVIOUS
    <3> QED BY <1>1, <1>3, <3>1, <3>2 DEF LinesPending
  <2>2. TextIn(width, marks) = wrong
    BY <1>1 DEF TextIn
  <2> QED BY <1>1, <1>2, <2>1, <2>2 DEF OneInput
<1>12. NoMarks
  BY <1>1 DEF NoMarks
<1> QED BY <1>4, <1>5, <1>6, <1>7, <1>9, <1>10, <1>11, <1>12 DEF UtIInv

(* Every step keeps the invariant.                                         *)
LEMMA UtopStep ==
  ASSUME UtIInv, [UtNext]_utVars
  PROVE  UtIInv'
<1>1. CASE UtNext
  <2>1. UtTypeOK' /\ QueueTypes'
    BY <1>1, TypesStep
  <2>2. UnansweredCounts'
    BY <1>1, CountsStep
  <2>3. WholeLists(fromUtop') /\ HeadFits(fromUtop', gathered')
    BY <1>1, ListsStep
  <2>4. AnswersInTurn'
    BY <1>1, TurnStep
  <2>5. OneQuestion'
    BY <1>1, OneQuestionStep
  <2>6. OneInput' /\ NoMarks'
    BY <1>1, OneInputStep
  <2> QED BY <2>1, <2>2, <2>3, <2>4, <2>5, <2>6 DEF UtIInv
<1>2. CASE UNCHANGED utVars
  <2>1. /\ UNCHANGED <<width, typist, phrase, begins, toUtop, fromUtop, evaluated, stanza>>
        /\ UNCHANGED <<marks, wrong, prefixOf, gathered, ready, asks, got, unanswered>>
        /\ UNCHANGED <<ahead, late>>
    BY <1>2 DEF utVars
  <2>2. UtTypeOK' /\ QueueTypes'
    BY <2>1 DEF UtIInv, UtTypeOK, QueueTypes, entered
  <2>3. UnansweredCounts' /\ WholeLists(fromUtop') /\ HeadFits(fromUtop', gathered') /\ NoMarks'
    BY <2>1 DEF UtIInv, UnansweredCounts, NoMarks
  <2>4. Listed' = Listed /\ ToCome' = ToCome
    BY <2>1 DEF Listed, ToCome
  <2>5. AnswersInTurn'
    BY <2>1, <2>4 DEF UtIInv, AnswersInTurn, QueuesInTurn
  <2>6. OneQuestion'
    BY <2>1, <2>4 DEF UtIInv, OneQuestion
  <2>7. LinesPending' = LinesPending /\ AllEvaluated' = AllEvaluated
    BY <2>1 DEF LinesPending, AllEvaluated, entered
  <2>8. OneInput'
    BY <2>1, <2>7 DEF UtIInv, OneInput
  <2> QED BY <2>2, <2>3, <2>5, <2>6, <2>8 DEF UtIInv
<1> QED BY <1>1, <1>2

(* The invariant says what the REPL owes its user.                         *)
LEMMA UtopSound ==
  ASSUME UtIInv
  PROVE  StanzasUnderstood
<1>1. LinesOnce
  <2> SUFFICES ASSUME ~ahead
               PROVE  /\ \A i \in 1..Len(evaluated) : evaluated[i] = i
                      /\ unanswered = 0 =>
                           evaluated \o phrase = [i \in 1..entered |-> i] /\ begins = phrase
    BY DEF LinesOnce
  <2>1. /\ evaluated \in Seq(1..entered) /\ phrase \in Seq(1..entered) /\ entered \in Nat
        /\ Len(evaluated) \in Nat /\ Len(phrase) \in Nat
    BY LenProperties DEF UtIInv, QueueTypes, UtTypeOK, entered
  <2>2. toUtop \in Seq(Messages) /\ fromUtop \in Seq(Messages)
    BY QueuesAre DEF UtIInv
  <2>3. /\ unanswered <= 1
        /\ unanswered = 0 \/ typist = "send" => LinesPending
        /\ \A i \in 1..Len(toUtop) : toUtop[i].key = "input" => LinesPending
        /\ \A i \in 1..Len(fromUtop) : /\ fromUtop[i].key = "continue" => LinesPending
                                       /\ fromUtop[i].key = "accept" => AllEvaluated
        /\ stanza = "reset" => AllEvaluated
    BY DEF UtIInv, OneInput
  <2>4. unanswered = One(typist = "send") + HowMany(toUtop, UtInputs)
                     + HowMany(fromUtop, Verdicts) + One(stanza = "reset")
    BY DEF UtIInv, UnansweredCounts
  <2>5. \/ unanswered = 0 \/ typist = "send" \/ stanza = "reset"
        \/ HasKey(toUtop, {"input"}) \/ HasKey(fromUtop, Verdict)
    BY <2>2, <2>3, <2>4, Exclusive
  <2>6. LinesPending \/ AllEvaluated
    BY <2>3, <2>5 DEF HasKey, Verdict
  <2>7. ASSUME LinesPending PROVE \A i \in 1..Len(evaluated) : evaluated[i] = i
    <3>1. /\ Len(evaluated \o phrase) = Len(evaluated) + Len(phrase)
          /\ \A i \in 1..(Len(evaluated) + Len(phrase)) :
               (evaluated \o phrase)[i] = IF i <= Len(evaluated) THEN evaluated[i]
                                          ELSE phrase[i - Len(evaluated)]
      BY <2>1, ConcatProperties
    <3>2. /\ Len(UpToLine(entered)) = entered
          /\ \A i \in 1..entered : UpToLine(entered)[i] = i
      BY <2>1 DEF UpToLine
    <3>3. evaluated \o phrase = UpToLine(entered)
      BY <2>7 DEF LinesPending
    <3>4. Len(evaluated) + Len(phrase) = entered
      BY <3>1, <3>2, <3>3
    <3> TAKE i \in 1..Len(evaluated)
    <3>5. i \in 1..(Len(evaluated) + Len(phrase)) /\ i \in 1..entered /\ i <= Len(evaluated)
      BY <2>1, <3>4
    <3> QED BY <3>1, <3>2, <3>3, <3>5
  <2>8. ASSUME AllEvaluated PROVE \A i \in 1..Len(evaluated) : evaluated[i] = i
    BY <2>1, <2>8 DEF AllEvaluated, UpToLine
  <2>9. unanswered = 0 => evaluated \o phrase = [i \in 1..entered |-> i] /\ begins = phrase
    BY <2>3 DEF LinesPending, UpToLine
  <2> QED BY <2>6, <2>7, <2>8, <2>9
<1>2. ErrorsAreMarked
  BY DEF ErrorsAreMarked, UtIInv, OneInput, TextIn, TextOf
<1>3. CompletionsAreOwn
  <2>1. ~late => \A i \in 1..Len(got) : got[i].parts = {got[i].ask}
    BY DEF UtIInv, OneQuestion
  <2>2. \A i \in 1..Len(got) : \A n \in got[i].parts : n <= got[i].ask
    <3>1. \A i \in 1..Len(got) : got[i].parts \subseteq 1..got[i].ask
      BY DEF UtIInv, AnswersInTurn, Given
    <3>2. \A i \in 1..Len(got) : got[i].ask \in 1..MaxRequests
      <4> TAKE i \in 1..Len(got)
      <4>1. got[i] \in [ask : 1..MaxRequests, parts : SUBSET (1..MaxRequests)]
        BY ElementOfSeq DEF UtIInv, UtTypeOK
      <4> QED BY <4>1
    <3> QED BY <3>1, <3>2, UtopBoundsAssumption
  <2>3. \A i, j \in 1..Len(got) :
          i < j => \E n \in got[i].parts : \A m \in got[j].parts : n < m
    <3>1. \A i, j \in 1..Len(got) : i < j => LeastBelow(got[i].parts, got[j].parts)
      BY DEF UtIInv, AnswersInTurn, Given
    <3> QED BY <3>1 DEF LeastBelow
  <2> QED BY <2>1, <2>2, <2>3 DEF CompletionsAreOwn
<1> QED BY <1>1, <1>2, <1>3 DEF StanzasUnderstood

(* The invariant is one of the specification.                              *)
LEMMA UtopAlways == UtSpec => []UtIInv
<1>1. UtInit => UtIInv
  BY UtopInit
<1>2. UtIInv /\ [UtNext]_utVars => UtIInv'
  BY UtopStep
<1> QED BY <1>1, <1>2, PTL DEF UtSpec

(* Main thread, reader and utop keep the state in shape, for every bound   *)
(* and all lengths of lines.                                               *)
THEOREM UtTypeCorrect == UtSpec => []UtTypeOK
<1>1. UtIInv => UtTypeOK
  BY DEF UtIInv
<1> QED BY <1>1, UtopAlways, PTL

(* For phrases of any number and length of lines: as long as the user      *)
(* waits for the answers, every line is evaluated once and in order, and   *)
(* the text compose_highlights marks is the text utop complains of; a      *)
(* completion belongs to the request that gets it, or, once one has timed  *)
(* out, to one request at most, and to none not yet made.                  *)
THEOREM StanzasAlwaysUnderstood == UtSpec => []StanzasUnderstood
<1>1. UtIInv => StanzasUnderstood
  BY UtopSound
<1> QED BY <1>1, UtopAlways, PTL
=============================================================================
