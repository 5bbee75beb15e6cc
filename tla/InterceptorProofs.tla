-------------------------- MODULE InterceptorProofs --------------------------
(***************************************************************************)
(* What holds of Interceptor for every number of tries, units and          *)
(* intercepted commands.                                                   *)
(***************************************************************************)
EXTENDS Interceptor, SeqOrderProofs

\* The unit in the reader's hands is the last one that arrived.
HandInv == Holding => held = received /\ held # 0

\* There is a try left while the UI thread collects.
TryInv == ui = "collect" => tries < Tries

TypeInv == TypeOK /\ HandInv /\ TryInv

(* TypeInv holds at the start.                                             *)
LEMMA TypeInit == Init => TypeInv
<1>1. <<>> \in Seq(1..MaxUnits) /\ Len(<<>>) = 0
  BY EmptySeq
<1>2. ASSUME Init PROVE TypeOK
  <2>1. /\ connected \in BOOLEAN /\ interceptRecv \in BOOLEAN
        /\ isCmd \in BOOLEAN
    BY <1>2 DEF Init
  <2>2. /\ sent \in 0..MaxUnits /\ received \in 0..sent
        /\ held \in 0..MaxUnits /\ tries \in 0..Tries
        /\ intercepts \in 0..MaxIntercepts
    BY <1>2, TriesAssumption, BoundsAssumption DEF Init
  <2>3. /\ returned \in Seq(Units) /\ recvQ \in Seq(Units)
        /\ answer \in Seq(Units) /\ Len(recvQ) <= QueueSize
    BY <1>1, <1>2 DEF Init, Units, QueueSize
  <2> QED BY <1>2, <2>1, <2>2, <2>3 DEF Init, TypeOK
<1>3. Init => HandInv /\ TryInv
  BY DEF Init, HandInv, TryInv, Holding
<1> QED BY <1>2, <1>3 DEF TypeInv

(* Every step keeps TypeInv.                                               *)
LEMMA TypeStep == TypeInv /\ [Next]_vars => TypeInv'
<1> SUFFICES ASSUME TypeInv, [Next]_vars PROVE TypeInv'
  OBVIOUS
<1> USE TriesAssumption, BoundsAssumption
    DEF TypeInv, TypeOK, HandInv, TryInv, Holding, QueueSize, Units
<1>0. <<>> \in Seq(1..MaxUnits) /\ Len(<<>>) = 0
  BY EmptySeq
<1>1. CASE RemoteSends
  BY <1>1 DEF RemoteSends, readerVars, uiVars
<1>2. CASE RemoteCloses
  BY <1>2 DEF RemoteCloses, readerVars, uiVars
<1>3. CASE Recv
  BY <1>3 DEF Recv, remoteVars, uiVars
<1>4. CASE RecvEnd
  BY <1>4 DEF RecvEnd, remoteVars, readerVars, uiVars
<1>5. CASE TestFlag
  <2>1. held \in 1..MaxUnits
    BY <1>5 DEF TestFlag
  <2>2. Append(returned, held) \in Seq(1..MaxUnits)
    BY <2>1, AppendProperties
  <2>3. returned' \in Seq(1..MaxUnits) /\ reader' \in {"put", "recv"}
        /\ (reader' = "put" => held = received /\ held # 0)
    BY <1>5, <2>2 DEF TestFlag
  <2> QED BY <1>5, <2>3 DEF TestFlag, remoteVars, uiVars
<1>6. CASE PutUnit
  <2>1. recvQ' \in Seq(1..MaxUnits) /\ Len(recvQ') <= 1
    BY <1>6, AppendProperties, LenProperties DEF PutUnit
  <2> QED BY <1>6, <2>1 DEF PutUnit, remoteVars, readerVars, uiVars
<1>7. CASE PutWait
  BY <1>7 DEF PutWait, remoteVars, readerVars, uiVars
<1>8. CASE Raise
  BY <1>8 DEF Raise, remoteVars, readerVars
<1>9. CASE WriteCommand
  BY <1>0, <1>9 DEF WriteCommand, remoteVars, readerVars
<1>10. ASSUME TakeAndNotify
       PROVE  /\ recvQ' = <<>> /\ Head(recvQ) \in 1..MaxUnits
              /\ reader' \in {"recv", "test", "put", "wait", "ended"}
              /\ (reader' \in {"test", "put", "wait"}
                    <=> reader \in {"test", "put", "wait"})
  <2>1. /\ Head(recvQ) \in 1..MaxUnits /\ Tail(recvQ) \in Seq(1..MaxUnits)
        /\ Len(Tail(recvQ)) = Len(recvQ) - 1 /\ Len(recvQ) \in Nat \ {0}
    BY <1>10, HeadTailProperties, EmptySeq DEF TakeAndNotify
  <2>2. Tail(recvQ) = <<>>
    BY <2>1, EmptySeq
  <2> QED BY <1>10, <2>1, <2>2 DEF TakeAndNotify
<1>11. CASE GetAnswer
  <2>1. answer' \in Seq(1..MaxUnits)
    BY <1>10, <1>11, AppendProperties DEF GetAnswer
  <2>2. tries' \in 0..Tries
        /\ ui' \in {"collect", "escape", "lower"}
        /\ (ui' = "collect" => tries' < Tries)
    BY <1>11 DEF GetAnswer, AfterTry
  <2> QED BY <1>0, <1>10, <1>11, <2>1, <2>2
          DEF GetAnswer, remoteVars, readerVars
<1>12. CASE GetTimesOut
  <2>1. tries' \in 0..Tries
        /\ ui' \in {"collect", "escape", "lower"}
        /\ (ui' = "collect" => tries' < Tries)
    BY <1>12 DEF GetTimesOut, AfterTry
  <2> QED BY <1>12, <2>1 DEF GetTimesOut, remoteVars, readerVars
<1>13. CASE WriteEscape
  BY <1>13 DEF WriteEscape, remoteVars, readerVars, uiVars
<1>14. CASE Lower
  BY <1>14 DEF Lower, remoteVars, readerVars, uiVars
<1>15. CASE Drain
  <2>1. UNCHANGED <<remoteVars, readerVars, interceptRecv, uiVars, swallowed>>
        /\ ui' = "wipe"
    BY <1>15 DEF Drain
  <2>2. CASE TakeAndNotify
    BY <1>0, <1>10, <2>1, <2>2 DEF remoteVars, readerVars, uiVars
  <2>3. CASE UNCHANGED <<recvQ, reader>>
    BY <2>1, <2>3 DEF remoteVars, readerVars, uiVars
  <2> QED BY <1>15, <2>2, <2>3 DEF Drain
<1>16. CASE Wipe
  BY <1>0, <1>16 DEF Wipe, remoteVars, readerVars, uiVars
<1>17. CASE UNCHANGED vars
  BY <1>17 DEF vars, remoteVars, readerVars, uiVars
<1> QED BY <1>1, <1>2, <1>3, <1>4, <1>5, <1>6, <1>7, <1>8, <1>9, <1>11, <1>12,
           <1>13, <1>14, <1>15, <1>16, <1>17 DEF Next, Reader, InterceptSteps

(* Every variable keeps its type, and _recv_Q never holds more than the one *)
(* unit it has room for.                                                   *)
THEOREM TypeCorrect == Spec => []TypeOK
<1>1. TypeInv => TypeOK
  BY DEF TypeInv
<1> QED BY <1>1, TypeInit, TypeStep, PTL DEF Spec
-----------------------------------------------------------------------------
(* The reader is always woken.                                             *)

FlagInv == interceptRecv <=> ui \in {"write", "collect", "escape", "lower"}

WakeInv == FlagInv /\ NoStuckReader /\ AtMostOneLeftBehind

\* The queue before and after a get.
LEMMA GetEmpties ==
  ASSUME TypeInv, TakeAndNotify
  PROVE  /\ recvQ # <<>> /\ recvQ' = <<>> /\ Len(recvQ) = 1 /\ Len(recvQ') = 0
         /\ Head(recvQ) \in Units /\ recvQ = <<Head(recvQ)>>
         /\ reader' = IF reader = "wait" THEN "put" ELSE reader
<1>1. recvQ \in Seq(Units) /\ Len(recvQ) <= 1 /\ recvQ # <<>>
  BY DEF TypeInv, TypeOK, QueueSize, TakeAndNotify
<1>2. Len(recvQ) = 1
  BY <1>1, LenAtMostOne
<1>3. Tail(recvQ) \in Seq(Units) /\ Len(Tail(recvQ)) = 0 /\ Head(recvQ) \in Units
  BY <1>1, <1>2, HeadTailProperties
<1>4. Tail(recvQ) = <<>>
  BY <1>3, EmptySeq
<1>5. recvQ = <<Head(recvQ)>>
  <2>1. <<Head(recvQ)>> \in Seq(Units) /\ Len(<<Head(recvQ)>>) = 1
    BY <1>3
  <2>2. recvQ = Append(<<>>, Head(recvQ)) /\ Append(<<>>, Head(recvQ)) = <<Head(recvQ)>>
    <3>1. Append(<<>>, Head(recvQ)) = <<Head(recvQ)>>
      OBVIOUS
    <3>2. Head(recvQ) = recvQ[1]
      BY <1>1, <1>2
    <3>3. \A i \in 1..Len(recvQ) : recvQ[i] = <<Head(recvQ)>>[i]
      BY <1>2, <3>2
    <3>4. recvQ = <<Head(recvQ)>>
      BY <1>1, <1>2, <2>1, <3>3, SeqEqual
    <3> QED BY <3>1, <3>4
  <2> QED BY <2>2
<1> QED BY <1>1, <1>2, <1>3, <1>4, <1>5 DEF TakeAndNotify

(* WakeInv holds at the start.                                             *)
LEMMA WakeInit == Init => WakeInv
<1>1. Len(<<>>) = 0
  OBVIOUS
<1> QED BY <1>1 DEF Init, WakeInv, FlagInv, NoStuckReader, AtMostOneLeftBehind,
                    QueueSize

(* Every step keeps WakeInv.                                               *)
LEMMA WakeStep == TypeInv /\ WakeInv /\ [Next]_vars => WakeInv'
<1> SUFFICES ASSUME TypeInv, WakeInv, [Next]_vars PROVE WakeInv'
  OBVIOUS
<1> USE DEF WakeInv, FlagInv, NoStuckReader, AtMostOneLeftBehind, QueueSize
<1>0. /\ Len(<<>>) = 0 /\ Len(recvQ) \in {0, 1}
      /\ (recvQ = <<>> <=> Len(recvQ) = 0)
      /\ reader \in {"recv", "test", "put", "wait", "ended"}
  <2>1. recvQ \in Seq(Units) /\ Len(recvQ) <= 1
    BY DEF TypeInv, TypeOK
  <2>2. Len(recvQ) \in {0, 1} /\ (recvQ = <<>> <=> Len(recvQ) = 0)
    BY <2>1, LenAtMostOne
  <2>3. Len(<<>>) = 0
    BY <2>1, EmptySeq
  <2> QED BY <2>2, <2>3 DEF TypeInv, TypeOK
<1>1. CASE RemoteSends \/ RemoteCloses
  BY <1>1 DEF RemoteSends, RemoteCloses
<1>2. CASE Recv
  BY <1>0, <1>2 DEF Recv
<1>3. CASE RecvEnd
  BY <1>0, <1>3 DEF RecvEnd
<1>4. CASE TestFlag
  \* Between two commands the flag is down, so the reader does not put.
  BY <1>0, <1>4 DEF TestFlag
<1>5. CASE PutUnit
  <2>1. recvQ' = Append(recvQ, held) /\ reader' = "recv" /\ Len(recvQ) = 0
        /\ UNCHANGED <<interceptRecv, ui>>
    BY <1>0, <1>5 DEF PutUnit
  <2>2. recvQ \in Seq(Units) /\ held \in Units
    BY <1>5 DEF PutUnit, TypeInv, TypeOK, HandInv, Holding, Units
  <2>3. Len(recvQ') = 1
    BY <2>1, <2>2, AppendProperties
  <2> QED BY <2>1, <2>3
<1>6. CASE PutWait
  \* A full queue and a put at once do not occur between two commands.
  <2>1. UNCHANGED <<recvQ, interceptRecv, ui>> /\ reader = "put"
        /\ Len(recvQ) = 1 /\ reader' = "wait"
    BY <1>0, <1>6 DEF PutWait
  <2>2. ui \notin {"wipe", "idle"}
    BY <2>1
  <2>3. ui \in {"write", "collect", "escape", "lower", "drain"}
    BY <2>2 DEF TypeInv, TypeOK
  <2> QED BY <1>0, <2>1, <2>3
<1>7. CASE Raise
  BY <1>0, <1>7 DEF Raise
<1>8. CASE WriteCommand
  <2>1. UNCHANGED <<recvQ, reader, interceptRecv>> /\ ui = "write"
        /\ ui' \in {"collect", "lower"}
    BY <1>8 DEF WriteCommand
  <2> QED BY <2>1
<1>9. CASE GetAnswer
  <2>1. TakeAndNotify /\ ui = "collect" /\ UNCHANGED interceptRecv
        /\ ui' \in {"collect", "escape", "lower"}
    BY <1>9 DEF GetAnswer, AfterTry
  <2> QED BY <1>0, <2>1, GetEmpties
<1>10. CASE GetTimesOut
  <2>1. UNCHANGED <<recvQ, reader, interceptRecv>> /\ ui = "collect"
        /\ ui' \in {"collect", "escape", "lower"}
    BY <1>10 DEF GetTimesOut, AfterTry
  <2> QED BY <2>1
<1>11. CASE WriteEscape
  BY <1>11 DEF WriteEscape
<1>12. CASE Lower
  BY <1>12 DEF Lower
<1>13. CASE Drain
  \* The get wakes a waiting reader and leaves it an empty queue.
  <2>1. ui' = "wipe" /\ ui = "drain" /\ UNCHANGED interceptRecv
    BY <1>13 DEF Drain
  <2>2. recvQ' = <<>> /\ reader' # "wait"
    BY <1>0, <1>13, GetEmpties DEF Drain
  <2> QED BY <1>0, <2>1, <2>2
<1>14. CASE Wipe
  BY <1>0, <1>14 DEF Wipe
<1>15. CASE UNCHANGED vars
  BY <1>15 DEF vars
<1> QED BY <1>1, <1>2, <1>3, <1>4, <1>5, <1>6, <1>7, <1>8, <1>9, <1>10, <1>11,
           <1>12, <1>13, <1>14, <1>15 DEF Next, Reader, InterceptSteps

(* Whenever the reader waits for room in _recv_Q, the UI thread still has a *)
(* get to do: the get_nowait of _intercept_cmd at the latest.              *)
THEOREM ReaderIsWoken == Spec => []NoStuckReader
<1>1. WakeInv => NoStuckReader
  BY DEF WakeInv
<1> QED BY <1>1, TypeInit, TypeStep, WakeInit, WakeStep, PTL DEF Spec

(* At most one late unit survives an intercepted command.                  *)
THEOREM OneLeftBehind == Spec => []AtMostOneLeftBehind
<1>1. WakeInv => AtMostOneLeftBehind
  BY DEF WakeInv
<1> QED BY <1>1, TypeInit, TypeStep, WakeInit, WakeStep, PTL DEF Spec
-----------------------------------------------------------------------------
(* Where the units go, and in which order.                                 *)

OrderInv ==
  /\ UnitsGoOneWay
  /\ Range(recvQ) \cup Range(answer) \subseteq swallowed
  /\ Ascending(returned) /\ Ascending(answer) /\ Ascending(recvQ)
  /\ ui = "collect" => Below(Range(answer), Range(recvQ))

(* OrderInv holds at the start.                                            *)
LEMMA OrderInit == Init => OrderInv
<1>1. Ascending(<<>>) /\ Range(<<>>) = {}
  BY EmptyAscending
<1>2. 1..0 = {}
  OBVIOUS
<1> QED BY <1>1, <1>2 DEF Init, OrderInv, UnitsGoOneWay, Holding, Below

\* What the invariant says of the unit in the reader's hands.
LEMMA HeldIsLast ==
  ASSUME TypeInv, OrderInv, Holding
  PROVE  /\ held \in Units /\ held = received /\ held <= sent
         /\ Below(Range(returned), {held}) /\ Below(swallowed, {held})
<1>1. held \in Units /\ held = received /\ received \in Nat /\ held <= sent
  BY BoundsAssumption DEF TypeInv, TypeOK, HandInv, Units
<1>2. \A n \in Range(returned) \cup swallowed : n \in 1..received /\ n # received
  BY <1>1 DEF OrderInv, UnitsGoOneWay
<1> QED BY <1>1, <1>2 DEF Below

(* queue.get leaves the reader with the unit it had, or without one.        *)
LEMMA GetKeepsHolding == TakeAndNotify => (Holding' <=> Holding)
  BY DEF TakeAndNotify, Holding

(* Every step keeps OrderInv.                                              *)
LEMMA OrderStep == TypeInv /\ OrderInv /\ [Next]_vars => OrderInv'
<1> SUFFICES ASSUME TypeInv, OrderInv, [Next]_vars PROVE OrderInv'
  OBVIOUS
<1>0. /\ returned \in Seq(Units) /\ recvQ \in Seq(Units)
      /\ answer \in Seq(Units) /\ Units \subseteq Nat /\ received \in Nat
  BY BoundsAssumption DEF TypeInv, TypeOK, Units
<1>e. Ascending(<<>>) /\ Range(<<>>) = {}
  BY EmptyAscending
<1>1. CASE RemoteSends \/ RemoteCloses
  BY <1>1 DEF RemoteSends, RemoteCloses, readerVars, uiVars, OrderInv,
              UnitsGoOneWay, Holding
<1>2. CASE Recv
  <2>1. /\ reader = "recv" /\ reader' = "test"
        /\ received' = received + 1 /\ held' = received + 1
        /\ UNCHANGED <<returned, recvQ, ui, answer, swallowed>>
    BY <1>2 DEF Recv, uiVars
  <2>2. 1..received' = 1..received \cup {held'} /\ held' \notin 1..received
    BY <1>0, <2>1
  <2>3. 1..received = Range(returned) \cup swallowed
    BY <2>1 DEF OrderInv, UnitsGoOneWay, Holding
  <2>4. UnitsGoOneWay'
    BY <2>1, <2>2, <2>3 DEF OrderInv, UnitsGoOneWay, Holding
  <2> QED BY <2>1, <2>4 DEF OrderInv
<1>3. CASE RecvEnd
  BY <1>3 DEF RecvEnd, readerVars, uiVars, OrderInv, UnitsGoOneWay, Holding
<1>4. CASE TestFlag
  <2>1. /\ reader = "test" /\ Holding
        /\ UNCHANGED <<received, held, recvQ, ui, answer, swallowed>>
    BY <1>4 DEF TestFlag, uiVars, Holding
  <2>2. CASE interceptRecv
    BY <1>4, <2>1, <2>2 DEF TestFlag, OrderInv, UnitsGoOneWay, Holding
  <2>3. CASE ~interceptRecv
    <3>1. returned' = Append(returned, held) /\ ~Holding'
      BY <1>4, <2>3 DEF TestFlag, Holding
    <3>2. Range(returned') = Range(returned) \cup {held} /\ Ascending(returned')
      <4>1. held \in Units /\ Below(Range(returned), {held}) /\ Ascending(returned)
        BY <2>1, HeldIsLast DEF OrderInv
      <4> QED BY <1>0, <3>1, <4>1, AppendAscending, ZenonT(40)
    <3>3. UnitsGoOneWay'
      BY <2>1, <3>1, <3>2 DEF OrderInv, UnitsGoOneWay
    <3> QED BY <2>1, <3>2, <3>3 DEF OrderInv
  <2> QED BY <2>2, <2>3
<1>5. CASE PutUnit
  <2>1. /\ Holding /\ ~Holding' /\ recvQ' = Append(recvQ, held)
        /\ swallowed' = swallowed \cup {held}
        /\ UNCHANGED <<received, held, returned, ui, answer>>
    BY <1>5 DEF PutUnit, readerVars, uiVars, Holding
  <2>2. Below(Range(recvQ), {held}) /\ Below(Range(answer), {held})
    BY <2>1, HeldIsLast DEF OrderInv, Below
  <2>3. Range(recvQ') = Range(recvQ) \cup {held} /\ Ascending(recvQ')
    <3>1. held \in Units /\ Ascending(recvQ)
      BY <2>1, HeldIsLast DEF OrderInv
    <3> QED BY <1>0, <2>1, <2>2, <3>1, AppendAscending, ZenonT(40)
  <2>4. UnitsGoOneWay'
    BY <2>1 DEF OrderInv, UnitsGoOneWay
  <2>5. ui = "collect" => Below(Range(answer), Range(recvQ) \cup {held})
    BY <2>2 DEF OrderInv, Below
  <2> QED BY <2>1, <2>3, <2>4, <2>5 DEF OrderInv
<1>6. CASE PutWait
  BY <1>6 DEF PutWait, readerVars, uiVars, OrderInv, UnitsGoOneWay, Holding
<1>7. CASE Raise
  BY <1>7 DEF Raise, readerVars, OrderInv, UnitsGoOneWay, Holding
<1>8. CASE WriteCommand
  BY <1>e, <1>8 DEF WriteCommand, readerVars, OrderInv, UnitsGoOneWay, Holding,
                    Below
\* The actions that take from the queue leave UnitsGoOneWay alone.
<1>9. ASSUME UNCHANGED <<readerVars, swallowed>>, Holding' <=> Holding
      PROVE  UnitsGoOneWay'
  BY <1>9 DEF readerVars, OrderInv, UnitsGoOneWay
<1>10. CASE GetAnswer
  <2>1. /\ TakeAndNotify /\ answer' = Append(answer, Head(recvQ))
        /\ ui = "collect" /\ UNCHANGED <<readerVars, swallowed>>
    BY <1>10 DEF GetAnswer
  <2>2. recvQ' = <<>> /\ Head(recvQ) \in Units /\ (Holding' <=> Holding)
    BY <2>1, GetEmpties, GetKeepsHolding
  <2>3. Head(recvQ) \in Range(recvQ)
    BY <1>0, <2>1, TailAscending DEF TakeAndNotify
  <2>4. Below(Range(answer), {Head(recvQ)})
    BY <2>1, <2>3 DEF OrderInv, Below
  <2>5. Range(answer') = Range(answer) \cup {Head(recvQ)} /\ Ascending(answer')
    <3>1. Ascending(answer)
      BY DEF OrderInv
    <3> QED BY <1>0, <2>1, <2>2, <2>4, <3>1, AppendAscending, ZenonT(40)
  <2>6. Below(Range(answer'), Range(recvQ'))
    BY <1>e, <2>2 DEF Below
  <2> QED BY <1>e, <1>9, <2>1, <2>2, <2>3, <2>5, <2>6 DEF OrderInv, readerVars
<1>11. CASE GetTimesOut
  BY <1>11 DEF GetTimesOut, readerVars, OrderInv, UnitsGoOneWay, Holding
<1>12. CASE WriteEscape
  BY <1>12 DEF WriteEscape, readerVars, uiVars, OrderInv, UnitsGoOneWay, Holding
<1>13. CASE Lower
  BY <1>13 DEF Lower, readerVars, uiVars, OrderInv, UnitsGoOneWay, Holding
<1>14. CASE Drain
  <2>1. ui' = "wipe" /\ UNCHANGED <<readerVars, answer, swallowed>>
    BY <1>14 DEF Drain, uiVars
  <2>2. ASSUME TakeAndNotify
        PROVE  recvQ' = <<>> /\ (Holding' <=> Holding)
    BY <2>2, GetEmpties, GetKeepsHolding
  <2>3. ASSUME recvQ = <<>>, UNCHANGED <<recvQ, reader>>
        PROVE  recvQ' = <<>> /\ (Holding' <=> Holding)
    BY <2>3 DEF Holding
  <2>4. recvQ' = <<>> /\ (Holding' <=> Holding)
    BY <1>14, <2>2, <2>3 DEF Drain
  <2> QED BY <1>e, <1>9, <2>1, <2>4 DEF OrderInv, readerVars
<1>15. CASE Wipe
  <2>1. /\ ui' = "idle" /\ recvQ' = <<>> /\ (Holding' <=> Holding)
        /\ UNCHANGED <<readerVars, answer, swallowed>>
    BY <1>15 DEF Wipe, uiVars, Holding
  <2> QED BY <1>e, <1>9, <2>1 DEF OrderInv, readerVars
<1>16. CASE UNCHANGED vars
  BY <1>16 DEF vars, readerVars, uiVars, OrderInv, UnitsGoOneWay, Holding
<1> QED BY <1>1, <1>2, <1>3, <1>4, <1>5, <1>6, <1>7, <1>8, <1>10, <1>11, <1>12,
           <1>13, <1>14, <1>15, <1>16 DEF Next, Reader, InterceptSteps

(* Nothing that arrives is lost or delivered twice: each unit goes to the   *)
(* view, or to the interceptor, or is in the reader's hands.               *)
THEOREM OneWay == Spec => []UnitsGoOneWay
<1>1. OrderInv => UnitsGoOneWay
  BY DEF OrderInv
<1> QED BY <1>1, TypeInit, TypeStep, OrderInit, OrderStep, PTL DEF Spec

(* An intercepted command collects its answer in the order it arrived.     *)
THEOREM AnswersOrdered == Spec => []AnswerInOrder
<1>1. TypeInv /\ OrderInv => AnswerInOrder
  <2> SUFFICES ASSUME TypeInv, OrderInv PROVE AnswerInOrder
    OBVIOUS
  <2>1. /\ answer \in Seq(Units) /\ recvQ \in Seq(Units) /\ <<>> \in Seq(Units)
        /\ Units \subseteq Nat
    BY BoundsAssumption, EmptySeq DEF TypeInv, TypeOK, Units
  <2>2. Ascending(<<>>) /\ Range(<<>>) = {}
    BY EmptyAscending
  <2>3. CASE ui = "collect"
    BY <2>1, <2>3, ConcatAscending DEF AnswerInOrder, OrderInv
  <2>4. CASE ui # "collect"
    <3>1. Below(Range(answer), Range(<<>>))
      BY <2>2 DEF Below
    <3>2. Ascending(answer \o <<>>)
      BY <2>1, <2>2, <3>1, ConcatAscending DEF OrderInv
    <3> QED BY <2>4, <3>2 DEF AnswerInOrder
  <2> QED BY <2>3, <2>4
<1> QED BY <1>1, TypeInit, TypeStep, OrderInit, OrderStep, PTL DEF Spec
-----------------------------------------------------------------------------
(* The interceptor implements OutputStream.                                *)

(* Seen from the view, the units that come out of _read_bytes are the       *)
(* remote side's output in order, each at most once, with the answers to    *)
(* intercepted commands left out for good.                                 *)
THEOREM ImplementsStream == Spec => StreamSpec
<1>1. Init => Stream!Init
  BY DEF Init, Stream!Init
<1>2. TypeInv /\ TypeInv' /\ OrderInv /\ OrderInv' /\ [Next]_vars
        => [Stream!Next]_(Stream!vars)
  <2> SUFFICES ASSUME TypeInv, TypeInv', OrderInv, OrderInv', [Next]_vars
               PROVE  Stream!Next \/ UNCHANGED <<sent, returned, swallowed>>
    BY DEF Stream!vars
  <2>1. CASE RemoteSends
    BY <2>1 DEF RemoteSends, readerVars, Stream!Next, Stream!Emit
  <2>2. CASE TestFlag /\ ~interceptRecv
    <3>1. returned' = Append(returned, held) /\ UNCHANGED <<sent, swallowed>>
          /\ Holding
      BY <2>2 DEF TestFlag, remoteVars, Holding
    <3>2. returned \in Seq(Units) /\ held \in Units
      BY <3>1, HeldIsLast DEF TypeInv, TypeOK
    <3>3. /\ Len(returned) <= Len(returned')
          /\ \A i \in 1..Len(returned) : returned'[i] = returned[i]
      BY <3>1, <3>2, AppendProperties, LenProperties
    <3>4. Ascending(returned') /\ Range(returned') \cap swallowed = {}
      BY <3>1 DEF OrderInv, UnitsGoOneWay
    <3>5. returned' \in Seq(1..sent)
      <4>1. Range(returned') \subseteq 1..sent
        <5>1. Range(returned') \subseteq 1..received'
          BY DEF OrderInv, UnitsGoOneWay
        <5>2. received' \in 0..sent' /\ sent' \in Nat
          BY BoundsAssumption DEF TypeInv, TypeOK
        <5> QED BY <3>1, <5>1, <5>2
      <4>2. returned' \in Seq(Units)
        BY DEF TypeInv, TypeOK
      <4>3. returned' \in Seq(Range(returned'))
        BY <4>2, SeqOfRange
      <4> QED BY <4>1, <4>3, SeqMonotonic
    <3> QED BY <3>1, <3>3, <3>4, <3>5 DEF Stream!Next, Stream!Show,
               Stream!Ascending, Stream!Range, Ascending, Range
  <2>3. CASE PutUnit
    <3>1. swallowed' = swallowed \cup {held} /\ UNCHANGED <<sent, returned>>
      BY <2>3 DEF PutUnit, remoteVars, readerVars
    <3>2. swallowed' \subseteq 1..sent /\ Range(returned) \cap swallowed' = {}
      <4>1. swallowed' \subseteq 1..received' /\ Range(returned') \cap swallowed' = {}
        BY DEF OrderInv, UnitsGoOneWay
      <4>2. received' \in 0..sent' /\ sent' \in Nat
        BY BoundsAssumption DEF TypeInv, TypeOK
      <4> QED BY <3>1, <4>1, <4>2
    <3> QED BY <3>1, <3>2 DEF Stream!Next, Stream!Discard, Stream!Range, Range
  <2>4. CASE TestFlag /\ interceptRecv
    BY <2>4 DEF TestFlag, remoteVars
  <2>5. CASE RemoteCloses \/ Recv \/ RecvEnd \/ PutWait
    BY <2>5 DEF RemoteCloses, Recv, RecvEnd, PutWait, remoteVars, readerVars
  <2>6. CASE Raise \/ InterceptSteps
    BY <2>6 DEF Raise, InterceptSteps, WriteCommand, GetAnswer, GetTimesOut,
                WriteEscape, Lower, Drain, Wipe, remoteVars, readerVars
  <2>7. CASE UNCHANGED vars
    BY <2>7 DEF vars, remoteVars, readerVars
  <2> QED BY <2>1, <2>2, <2>3, <2>4, <2>5, <2>6, <2>7 DEF Next, Reader
<1> QED BY <1>1, <1>2, TypeInit, TypeStep, OrderInit, OrderStep, PTL
        DEF Spec, StreamSpec, Stream!Spec
-----------------------------------------------------------------------------
(* Both threads come to the end of what they have to do.                   *)

\* The reader has a step to make: a unit, or the end of the stream, to take;
\* a unit in its hands.  A put that waits has none.
ReaderReady ==
  \/ reader = "recv" /\ (received < sent \/ ~connected)
  \/ reader \in {"test", "put"}

\* So has the UI thread until its command is over: a get has a timeout.
InterceptReady == ui # "idle"

\* How far the reader is from recv(), ...
ReaderSteps == [ended |-> 0, recv |-> 1, wait |-> 2, put |-> 3, test |-> 4]

\* ... the UI thread from the end of its command, ...
CommandSteps ==
  [idle |-> 0, wipe |-> 1, drain |-> 2, lower |-> 3, escape |-> 4,
   collect |-> 4 + (Tries - tries), write |-> 5 + Tries]

\* ... and both from having nothing to do.  A step of the command counts twice,
\* for a get sends a waiting put back by one.
Work == 4 * (sent - received) + ReaderSteps[reader] + 2 * CommandSteps[ui]

\* Every step of the two threads takes away from the work, and nothing adds to
\* it but a unit that comes and a command that is started, by so much each.
WorkRunsOut ==
  /\ (Reader \/ InterceptSteps) => Work' < Work
  /\ RemoteSends => (Work' = Work + 4)
  /\ RemoteCloses => (Work' = Work)
  /\ Raise => (Work' = Work + 2 * (5 + Tries))

(* The counts are natural numbers.                                         *)
LEMMA WorkTypes ==
  ASSUME TypeInv
  PROVE  /\ ReaderSteps[reader] \in 0..4 /\ CommandSteps[ui] \in 0..(5 + Tries)
         /\ sent - received \in Nat /\ Tries \in Nat \ {0} /\ tries \in 0..Tries
         /\ Work \in Nat
<1>1. Tries \in Nat \ {0} /\ tries \in 0..Tries /\ sent - received \in Nat
  BY TriesAssumption, BoundsAssumption DEF TypeInv, TypeOK
<1>2. ReaderSteps[reader] \in 0..4
  BY DEF TypeInv, TypeOK, ReaderSteps
<1>3. CommandSteps[ui] \in 0..(5 + Tries)
  BY <1>1 DEF TypeInv, TypeOK, CommandSteps
<1>4. Work \in Nat
  <2> DEFINE r == ReaderSteps[reader]
             c == CommandSteps[ui]
             u == sent - received
  <2>1. r \in Nat /\ c \in Nat /\ u \in Nat
    BY <1>1, <1>2, <1>3
  <2>2. Work = 4 * u + r + 2 * c
    BY DEF Work
  <2> HIDE DEF r, c, u
  <2> QED BY <2>1, <2>2
<1> QED BY <1>1, <1>2, <1>3, <1>4

(* The places of the two threads, by how far from the end they are.        *)
LEMMA PlacesOrdered ==
  /\ ReaderSteps["ended"] = 0 /\ ReaderSteps["recv"] = 1 /\ ReaderSteps["wait"] = 2
  /\ ReaderSteps["put"] = 3 /\ ReaderSteps["test"] = 4
  /\ CommandSteps["idle"] = 0 /\ CommandSteps["wipe"] = 1 /\ CommandSteps["drain"] = 2
  /\ CommandSteps["lower"] = 3 /\ CommandSteps["escape"] = 4
  /\ CommandSteps["collect"] = 4 + (Tries - tries)
  /\ CommandSteps["write"] = 5 + Tries
  BY DEF ReaderSteps, CommandSteps

(* A step of the reader brings it nearer to recv(), or takes a unit.       *)
LEMMA ReaderStepsDown ==
  ASSUME TypeInv, Reader
  PROVE  /\ UNCHANGED <<sent, CommandSteps[ui]>>
         /\ \/ received' = received /\ ReaderSteps[reader'] < ReaderSteps[reader]
            \/ received' = received + 1 /\ ReaderSteps[reader'] = ReaderSteps[reader] + 3
<1>1. UNCHANGED <<sent, ui, tries>>
  BY DEF Reader, Recv, RecvEnd, TestFlag, PutUnit, PutWait, remoteVars, uiVars
<1>2. UNCHANGED CommandSteps[ui]
  BY <1>1 DEF CommandSteps
<1>3. CASE Recv
  BY <1>1, <1>2, <1>3, PlacesOrdered DEF Recv
<1>4. CASE RecvEnd \/ TestFlag \/ PutUnit \/ PutWait
  BY <1>1, <1>2, <1>4, PlacesOrdered
     DEF RecvEnd, TestFlag, PutUnit, PutWait, readerVars
<1> QED BY <1>3, <1>4 DEF Reader

(* A get sends a put that waits one back, and no other step of the command  *)
(* touches the reader.                                                     *)
LEMMA CommandStepsDown ==
  ASSUME TypeInv, TypeInv', InterceptSteps
  PROVE  /\ UNCHANGED <<sent, received>>
         /\ CommandSteps[ui]' < CommandSteps[ui]
         /\ ReaderSteps[reader'] <= ReaderSteps[reader] + 1
<1>1. UNCHANGED <<sent, received>>
  BY DEF InterceptSteps, WriteCommand, GetAnswer, GetTimesOut, WriteEscape,
         Lower, Drain, Wipe, remoteVars, readerVars
<1>2. reader' = reader \/ (reader = "wait" /\ reader' = "put")
  BY DEF InterceptSteps, WriteCommand, GetAnswer, GetTimesOut, WriteEscape,
         Lower, Drain, Wipe, TakeAndNotify
<1>3. ReaderSteps[reader'] <= ReaderSteps[reader] + 1
  BY <1>2, WorkTypes, PlacesOrdered
<1>4. CommandSteps[ui]' < CommandSteps[ui]
  <2>1. Tries \in Nat \ {0} /\ tries \in 0..Tries /\ tries' \in 0..Tries
    BY WorkTypes, TriesAssumption DEF TypeInv, TypeOK
  <2>2. CASE WriteCommand
    BY <2>1, <2>2 DEF WriteCommand, CommandSteps
  <2>3. ASSUME ui = "collect", AfterTry PROVE CommandSteps[ui]' < CommandSteps[ui]
    <3>1. tries < Tries
      BY <2>3 DEF TypeInv, TryInv
    <3> QED BY <2>1, <2>3, <3>1 DEF AfterTry, CommandSteps
  <2>4. CASE GetAnswer \/ GetTimesOut
    BY <2>3, <2>4 DEF GetAnswer, GetTimesOut
  <2>5. CASE WriteEscape \/ Lower \/ Drain \/ Wipe
    BY <2>5 DEF WriteEscape, Lower, Drain, Wipe, CommandSteps
  <2> QED BY <2>2, <2>4, <2>5 DEF InterceptSteps
<1> QED BY <1>1, <1>3, <1>4

(* Arithmetic of the sum.                                                  *)
LEMMA SumFalls ==
  ASSUME NEW u \in Int, NEW r \in Int, NEW c \in Int,
         NEW u1 \in Int, NEW r1 \in Int, NEW c1 \in Int,
         \/ u1 = u /\ r1 < r /\ c1 = c
         \/ u1 = u - 1 /\ r1 = r + 3 /\ c1 = c
         \/ u1 = u /\ r1 <= r + 1 /\ c1 < c
  PROVE  4 * u1 + r1 + 2 * c1 < 4 * u + r + 2 * c
  OBVIOUS

(* Every step does to the work what WorkRunsOut says.                      *)
LEMMA WorkStep ==
  ASSUME TypeInv, TypeInv', Next
  PROVE  WorkRunsOut
<1> DEFINE r == ReaderSteps[reader]
           c == CommandSteps[ui]
           u == sent - received
<1>1. /\ r \in Int /\ c \in Int /\ u \in Int /\ Work = 4 * u + r + 2 * c
      /\ r' \in Int /\ c' \in Int /\ u' \in Int /\ Work' = 4 * u' + r' + 2 * c'
      /\ sent \in Int /\ received \in Int /\ Tries \in Nat
  <2>1. r \in Int /\ c \in Int /\ u \in Int
    BY WorkTypes
  <2>2. r' \in Int /\ c' \in Int /\ u' \in Int
    <3>1. ReaderSteps[reader'] \in 0..4
      <4>1. reader' \in {"recv", "test", "put", "wait", "ended"}
        BY DEF TypeInv, TypeOK
      <4> QED BY <4>1, PlacesOrdered
    <3>2. CommandSteps[ui]' \in Int
      <4>1. ui' \in {"idle", "write", "collect", "escape", "lower", "drain", "wipe"}
        BY DEF TypeInv, TypeOK
      <4>2. tries' \in 0..Tries /\ Tries \in Nat
        BY TriesAssumption DEF TypeInv, TypeOK
      <4> QED BY <4>1, <4>2 DEF CommandSteps
    <3>3. sent' \in Int /\ received' \in Int
      BY BoundsAssumption DEF TypeInv, TypeOK
    <3>4. r' = ReaderSteps[reader']
      BY DEF ReaderSteps
    <3> QED BY <3>1, <3>2, <3>3, <3>4
  <2>3. sent \in Int /\ received \in Int /\ Tries \in Nat
    BY TriesAssumption, BoundsAssumption DEF TypeInv, TypeOK
  <2> QED BY <2>1, <2>2, <2>3 DEF Work
<1>2. r' = ReaderSteps[reader'] /\ u' = sent' - received'
  BY DEF ReaderSteps
<1>3. ASSUME Reader PROVE Work' < Work
  <2>1. /\ sent' = sent /\ c' = c
        /\ \/ received' = received /\ r' < r
           \/ received' = received + 1 /\ r' = r + 3
    BY <1>2, <1>3, ReaderStepsDown
  <2>2. /\ c' = c
        /\ \/ u' = u /\ r' < r
           \/ u' = u - 1 /\ r' = r + 3
    BY <1>1, <1>2, <2>1
  <2> HIDE DEF r, c, u
  <2> QED BY <1>1, <2>2, SumFalls
<1>4. ASSUME InterceptSteps PROVE Work' < Work
  <2>1. u' = u /\ c' < c /\ r' <= r + 1
    BY <1>2, <1>4, CommandStepsDown
  <2> HIDE DEF r, c, u
  <2> QED BY <1>1, <2>1, SumFalls
<1>5. ASSUME RemoteSends PROVE Work' = Work + 4
  <2>1. sent' = sent + 1 /\ received' = received /\ reader' = reader /\ ui' = ui /\ tries' = tries
    BY <1>5 DEF RemoteSends, readerVars, uiVars
  <2>2. u' = u + 1 /\ r' = r /\ c' = c
    <3>1. c' = c
      BY <2>1 DEF CommandSteps
    <3> QED BY <1>1, <1>2, <2>1, <3>1
  <2> HIDE DEF r, c, u
  <2> QED BY <1>1, <2>2
<1>6. ASSUME RemoteCloses PROVE Work' = Work
  <2>1. sent' = sent /\ received' = received /\ reader' = reader /\ ui' = ui /\ tries' = tries
    BY <1>6 DEF RemoteCloses, readerVars, uiVars
  <2>2. u' = u /\ r' = r /\ c' = c
    <3>1. c' = c
      BY <2>1 DEF CommandSteps
    <3> QED BY <1>1, <1>2, <2>1, <3>1
  <2> HIDE DEF r, c, u
  <2> QED BY <1>1, <2>2
<1>7. ASSUME Raise PROVE Work' = Work + 2 * (5 + Tries)
  <2>1. /\ sent' = sent /\ received' = received /\ reader' = reader
        /\ ui = "idle" /\ ui' = "write"
    BY <1>7 DEF Raise, remoteVars, readerVars
  <2>2. u' = u /\ r' = r /\ c = 0 /\ c' = 5 + Tries
    <3>1. c = 0 /\ c' = 5 + Tries
      BY <2>1 DEF CommandSteps
    <3> QED BY <1>1, <1>2, <2>1, <3>1
  <2> HIDE DEF r, c, u
  <2> QED BY <1>1, <2>2
<1> QED BY <1>3, <1>4, <1>5, <1>6, <1>7 DEF WorkRunsOut

(* Neither thread spins: between two units, or two commands, they make a    *)
(* bounded number of steps, however they are scheduled -- also a put that   *)
(* is woken, finds the queue full again and waits once more.                *)
THEOREM ThreadsDoNotSpin == Spec => [](Work \in Nat) /\ [][WorkRunsOut]_vars
<1>1. TypeInv => Work \in Nat
  BY WorkTypes
<1>2. TypeInv /\ TypeInv' /\ [Next]_vars => [WorkRunsOut]_vars
  BY WorkStep
<1> QED BY <1>1, <1>2, TypeInit, TypeStep, PTL DEF Spec

\* The end of the stream is taken last.
EndedInv == reader = "ended" => ~connected /\ received = sent

\* Neither thread has anything to do: the reader has handed on all that came,
\* and the command is over.
QuietIsDone ==
  ~ReaderReady /\ ~InterceptReady =>
    /\ reader \in {"recv", "ended"}
    /\ 1..sent = Range(returned) \cup swallowed

(* Where the threads come to rest nothing is left over: no put waits, and   *)
(* every unit sent went to the view or to the interceptor.                  *)
THEOREM NothingLeftAtRest == Spec => []QuietIsDone
<1>1. Init => EndedInv
  BY DEF Init, EndedInv
<1>2. EndedInv /\ [Next]_vars => EndedInv'
  BY DEF EndedInv, Next, Reader, InterceptSteps, RemoteSends, RemoteCloses, Recv,
         RecvEnd, TestFlag, PutUnit, PutWait, Raise, WriteCommand, GetAnswer,
         GetTimesOut, WriteEscape, Lower, Drain, Wipe, TakeAndNotify, vars,
         remoteVars, readerVars
<1>3. TypeInv /\ WakeInv /\ OrderInv /\ EndedInv => QuietIsDone
  <2> SUFFICES ASSUME TypeInv, WakeInv, OrderInv, EndedInv,
                      ~ReaderReady, ~InterceptReady
               PROVE  /\ reader \in {"recv", "ended"}
                      /\ 1..sent = Range(returned) \cup swallowed
    BY DEF QuietIsDone
  <2>1. reader \in {"recv", "ended"}
    BY DEF TypeInv, TypeOK, WakeInv, NoStuckReader, ReaderReady, InterceptReady
  <2>2. received = sent
    BY <2>1, BoundsAssumption DEF TypeInv, TypeOK, EndedInv, ReaderReady
  <2> QED BY <2>1, <2>2 DEF OrderInv, UnitsGoOneWay, Holding
<1> QED BY <1>1, <1>2, <1>3, TypeInit, TypeStep, WakeInit, WakeStep,
           OrderInit, OrderStep, PTL DEF Spec
=============================================================================
