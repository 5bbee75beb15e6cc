--------------------------- MODULE ReplPumpProofs ---------------------------
(***************************************************************************)
(* Proofs about the way of the output.                                     *)
(*                                                                         *)
(* ReplPump, for every set of kinds of REPL and any number of units of     *)
(* output and signals: what travels from the program to the view.          *)
(***************************************************************************)
EXTENDS ReplPump, SeqOrderProofs
\* What travels through the queue.
Packets == Units \cup {None}

\* A unit in the reader's hands is the last one it took.
HandInv == reader = "putting" /\ held # None => held = taken

TypeInv == TypeOK /\ HandInv

(* Units and the marker None are numbers, None the largest.                *)
LEMMA PacketsAreNumbers ==
  /\ Packets \subseteq Nat /\ Units \subseteq Packets /\ None \in Packets
  /\ None \notin Units /\ \A x \in Packets : x <= None
  BY BoundsAssumption DEF Packets, Units, None

(* TypeInv holds at the start.                                             *)
LEMMA TypeInit == Init => TypeInv
<1> SUFFICES ASSUME Init PROVE TypeInv
  OBVIOUS
<1>1. /\ written \in 0..MaxOut /\ taken \in 0..written
      /\ signals \in 0..MaxSignals /\ held \in Units \cup {None}
  BY BoundsAssumption DEF Init
<1>2. /\ queue \in Seq(Units \cup {None}) /\ text \in Seq(Units)
      /\ shown \in Seq(Units)
  BY EmptySeq DEF Init
<1>3. /\ autoClose \in BOOLEAN /\ hungUp \in BOOLEAN /\ working \in BOOLEAN
      /\ onClose \in BOOLEAN /\ registered \in BOOLEAN /\ killed \in BOOLEAN
      /\ alive \in BOOLEAN /\ endLost \in BOOLEAN
  BY DEF Init
<1> QED BY <1>1, <1>2, <1>3 DEF Init, TypeInv, TypeOK, HandInv

\* The steps of the program and of the reader thread.
LEMMA TypeReader ==
  TypeInv /\ (ProgramWrites \/ ProgramEnds \/ Reader) => TypeInv'
<1> SUFFICES ASSUME TypeInv, ProgramWrites \/ ProgramEnds \/ Reader
             PROVE  TypeInv'
  OBVIOUS
<1> USE BoundsAssumption
    DEF TypeInv, TypeOK, HandInv, pumpVars, uiVars, flagVars, lossVars, fixedVars
<1>1. CASE ProgramWrites
  BY <1>1 DEF ProgramWrites, readerVars
<1>2. CASE ProgramEnds
  BY <1>2 DEF ProgramEnds, readerVars
<1>3. CASE ReadUnit
  BY <1>3 DEF ReadUnit, programVars, Units
<1>4. CASE ReadNothing
  BY <1>4 DEF ReadNothing, programVars
<1>5. CASE ReadRaises
  BY <1>5 DEF ReadRaises, programVars
<1>6. CASE Put
  <2>1. queue' \in Seq(Units \cup {None})
    BY <1>6, AppendProperties DEF Put
  <2> QED BY <1>6, <2>1 DEF Put, programVars
<1> QED BY <1>1, <1>2, <1>3, <1>4, <1>5, <1>6 DEF Reader

\* The steps of the update thread.
LEMMA TypePump == TypeInv /\ Pump => TypeInv'
<1> SUFFICES ASSUME TypeInv, Pump PROVE TypeInv'
  OBVIOUS
<1> USE BoundsAssumption
    DEF TypeInv, TypeOK, HandInv, programVars, readerVars, uiVars, flagVars,
        lossVars, fixedVars
<1>1. CASE CheckAlive
  BY <1>1 DEF CheckAlive
<1>2. CASE GetEmpty
  BY <1>2 DEF GetEmpty
<1>3. ASSUME queue # <<>>
      PROVE  /\ Tail(queue) \in Seq(Units \cup {None})
             /\ Head(queue) # None => Append(text, Head(queue)) \in Seq(Units)
  <2>1. /\ Tail(queue) \in Seq(Units \cup {None})
        /\ Head(queue) \in Units \cup {None}
    BY <1>3, HeadTailProperties
  <2>2. ASSUME Head(queue) # None PROVE Append(text, Head(queue)) \in Seq(Units)
    <3>1. Head(queue) \in Units /\ text \in Seq(Units)
      BY <2>1, <2>2
    <3> QED BY <3>1, AppendProperties
  <2> QED BY <2>1, <2>2
<1>4. CASE GetEnd
  <2>1. working' \in BOOLEAN
    BY <1>4 DEF GetEnd
  <2>2. queue' \in Seq(Units \cup {None})
    BY <1>3, <1>4 DEF GetEnd
  <2> QED BY <1>4, <2>1, <2>2 DEF GetEnd
<1>5. CASE GetUnit
  <2>1. /\ queue' \in Seq(Units \cup {None})
        /\ Append(text, Head(queue)) \in Seq(Units)
    BY <1>3, <1>5 DEF GetUnit
  <2>2. <<>> \in Seq(Units)
    BY EmptySeq
  <2>3. text' \in Seq(Units)
    BY <1>5, <2>1, <2>2 DEF GetUnit
  <2>4. shown \o Append(text, Head(queue)) \in Seq(Units)
    BY <2>1, ConcatProperties
  <2>5. shown' \in Seq(Units)
    BY <1>5, <2>4 DEF GetUnit
  <2> QED BY <1>5, <2>1, <2>3, <2>5 DEF GetUnit
<1>6. CASE GetList
  BY <1>3, <1>6 DEF GetList
<1>7. CASE Flush
  <2>1. shown' \in Seq(Units) /\ text' \in Seq(Units)
    BY <1>7, ConcatProperties, EmptySeq DEF Flush
  <2> QED BY <1>7, <2>1 DEF Flush
<1>8. CASE WriteBanner
  BY <1>8 DEF WriteBanner
<1>9. CASE AutoClose
  BY <1>9 DEF AutoClose
<1> QED BY <1>1, <1>2, <1>4, <1>5, <1>6, <1>7, <1>8, <1>9 DEF Pump

\* The steps of the UI thread.
LEMMA TypeUi == TypeInv /\ (UiContinues \/ User) => TypeInv'
<1> SUFFICES ASSUME TypeInv, UiContinues \/ User PROVE TypeInv'
  OBVIOUS
<1> USE BoundsAssumption
    DEF TypeInv, TypeOK, HandInv, programVars, readerVars, pumpVars, uiVars,
        flagVars, lossVars, fixedVars
<1>1. ASSUME BeginKill
      PROVE  killed' \in BOOLEAN /\ alive' \in BOOLEAN /\ ui' = "kill"
  BY <1>1 DEF BeginKill
<1>2. AfterKill \in {"deregister", "idle"}
  BY DEF AfterKill
<1>3. ASSUME MayDropAlive PROVE alive' \in BOOLEAN
  BY <1>3 DEF MayDropAlive
<1>4. CASE EndKill
  <2>1. hungUp' \in BOOLEAN /\ proc' \in {"running", "dead"}
    BY <1>4 DEF EndKill
  <2>2. ui' \in {"drop", "deregister", "idle"}
    BY <1>2, <1>4 DEF EndKill
  <2> QED BY <1>4, <2>1, <2>2 DEF EndKill
<1>5. CASE KillRaises
  <2>1. onClose' \in BOOLEAN
    BY <1>5 DEF KillRaises
  <2> QED BY <1>5, <2>1 DEF KillRaises
<1>6. CASE DropAlive
  <2>1. alive' \in BOOLEAN
    BY <1>6 DEF DropAlive
  <2> QED BY <1>2, <1>6, <2>1 DEF DropAlive
<1>7. CASE Deregister
  <2>1. registered' \in BOOLEAN /\ onClose' \in BOOLEAN
    BY <1>7 DEF Deregister
  <2> QED BY <1>7, <2>1 DEF Deregister
<1>8. CASE ClearQueue
  <2>1. Range(queue) \subseteq Units \cup {None}
    BY RangeInSet
  <2>2. lost' \in SUBSET Units /\ endLost' \in BOOLEAN
    BY <1>8, <2>1 DEF ClearQueue
  <2>3. queue' \in Seq(Units \cup {None})
    BY <1>8, EmptySeq DEF ClearQueue
  <2> QED BY <1>8, <2>2, <2>3 DEF ClearQueue
<1>9. CASE TypeSignal
  BY <1>3, <1>9 DEF TypeSignal
<1>10. CASE Kill
  BY <1>1, <1>10 DEF Kill
<1>11. CASE CloseView
  <2>1. killed' \in BOOLEAN /\ alive' \in BOOLEAN /\ ui' \in {"kill", "deregister"}
    BY <1>1, <1>11 DEF CloseView
  <2>2. onClose' \in BOOLEAN
    BY <1>11 DEF CloseView
  <2> QED BY <1>11, <2>1, <2>2 DEF CloseView
<1>12. CASE SendSignal
  <2>1. killed' \in BOOLEAN
    BY <1>12 DEF SendSignal
  <2>2. signals' \in 0..MaxSignals
    BY <1>12 DEF SendSignal
  <2> QED BY <1>12, <2>1, <2>2 DEF SendSignal
<1>13. CASE Enter
  BY <1>3, <1>13 DEF Enter
<1> QED BY <1>4, <1>5, <1>6, <1>7, <1>8, <1>9, <1>10, <1>11, <1>12, <1>13
        DEF UiContinues, User

(* Every step keeps TypeInv.                                               *)
LEMMA TypeStep == TypeInv /\ [Next]_vars => TypeInv'
<1>1. TypeInv /\ UNCHANGED vars => TypeInv'
  BY DEF TypeInv, TypeOK, HandInv, vars, programVars, readerVars, pumpVars,
         uiVars, flagVars, lossVars, fixedVars
<1> QED BY <1>1, TypeReader, TypePump, TypeUi DEF Next

(* Every variable keeps its type: in particular the end marker never gets   *)
(* among the text that is written into the view.                           *)
THEOREM TypeCorrect == Spec => []TypeOK
<1>1. TypeInv => TypeOK
  BY DEF TypeInv
<1> QED BY <1>1, TypeInit, TypeStep, PTL DEF Spec
-----------------------------------------------------------------------------
(* What nobody can reach any more has ended.                               *)

\* The program ended, or this side closed the channel to it.
Over == proc = "dead" \/ hungUp

\* A failed write took _alive down, and no kill() followed.
Dropped == kind = "ssh_paramiko" /\ ~alive /\ ~killed

\* on_close is between its kill() and call_on_close.
Closing == onClose /\ ui \in {"kill", "drop", "deregister"}

\* on_close deregisters only after it killed or found the REPL not alive;
\* _alive goes down in the middle of kill(), in a failed write, or when the
\* REPL is over; and once the view is closed, on_close gets to its end unless
\* the kill() of a Popen kind raises.
ForgottenInv ==
  /\ ~registered \/ ui = "deregister" => Over \/ Dropped
  /\ ~alive => Over \/ ui = "kill" \/ Dropped
  /\ kind = "ssh_paramiko" /\ killed => ~alive
  /\ ui = "drop" => hungUp
  /\ view = "closed" /\ registered
       => Closing \/ (kind \in PopenKinds /\ proc = "dead")

(* Every step keeps ForgottenInv.                                          *)
LEMMA ForgottenStep ==
  TypeOK /\ ForgottenInv /\ [Next]_vars => ForgottenInv'
<1> SUFFICES ASSUME TypeOK, ForgottenInv, [Next]_vars PROVE ForgottenInv'
  OBVIOUS
<1> USE DEF ForgottenInv, Over, Dropped, Closing
<1>1. proc \in {"running", "dead"} /\ registered \in BOOLEAN /\ alive \in BOOLEAN
      /\ hungUp \in BOOLEAN /\ killed \in BOOLEAN /\ onClose \in BOOLEAN
  BY DEF TypeOK
<1>2. ASSUME MayDropAlive
      PROVE  /\ ~alive' => ~alive \/ Over \/ kind = "ssh_paramiko"
             /\ alive' => alive
  <2>1. CASE kind = "ssh_paramiko"
    BY <1>2, <2>1 DEF MayDropAlive
  <2>2. CASE kind = "execnet" /\ alive' = (alive /\ proc = "running" /\ ~hungUp)
    BY <1>1, <2>2
  <2> QED BY <1>2, <2>1, <2>2 DEF MayDropAlive
<1>3. CASE UNCHANGED <<proc, hungUp, registered, alive, killed, ui, onClose,
                       view, kind>>
  BY <1>3
<1>4. CASE ProgramWrites
  BY <1>3, <1>4 DEF ProgramWrites, uiVars, flagVars, fixedVars
<1>5. CASE ProgramEnds
  BY <1>5 DEF ProgramEnds, uiVars, flagVars, fixedVars
<1>6. CASE Reader
  BY <1>3, <1>6 DEF Reader, ReadUnit, ReadNothing, ReadRaises, Put, programVars,
     uiVars, flagVars, fixedVars
<1>7. CASE Pump
  <2>1. CASE AutoClose
    BY <2>1 DEF AutoClose, programVars, uiVars, flagVars, fixedVars
  <2>2. CASE UNCHANGED <<programVars, view, uiVars, flagVars, fixedVars>>
    BY <1>3, <2>2 DEF programVars, uiVars, flagVars, fixedVars
  <2> QED BY <1>7, <2>1, <2>2 DEF Pump, CheckAlive, GetEmpty, GetEnd, GetUnit,
             GetList, Flush, WriteBanner
<1>8. CASE Kill
  BY <1>8 DEF Kill, BeginKill, programVars, fixedVars
<1>9. CASE CloseView
  <2>0. ui = "idle" /\ registered /\ onClose' /\ view' = "closed"
        /\ UNCHANGED <<kind, proc, hungUp, registered>>
    BY <1>9 DEF CloseView, programVars, fixedVars
  <2>1. CASE IsAlive
    <3>1. BeginKill
      BY <1>9, <2>1 DEF CloseView
    <3>2. ui' = "kill" /\ (kind = "ssh_paramiko" => ~alive')
      BY <3>1 DEF BeginKill
    <3> QED BY <2>0, <3>2
  <2>2. CASE ~IsAlive
    <3>1. Over \/ Dropped
      BY <1>1, <1>9, <2>2 DEF CloseView, IsAlive
    <3> QED BY <1>9, <2>2, <3>1 DEF CloseView, programVars, fixedVars
  <2> QED BY <2>1, <2>2
<1>10. CASE EndKill
  <2>1. Over'
    BY <1>1, <1>10 DEF EndKill
  <2>2. ui' = "drop" => hungUp'
    <3>1. ui' = "drop" => kind = "telnet"
      BY <1>10 DEF EndKill, AfterKill
    <3>2. kind = "telnet" => kind \notin PollKinds
      BY DEF PollKinds
    <3> QED BY <1>10, <3>1, <3>2 DEF EndKill
  <2>3. view' = "closed" /\ registered'
          => Closing' \/ (kind' \in PopenKinds /\ proc' = "dead")
    BY <1>10 DEF EndKill, AfterKill, fixedVars
  <2> QED BY <1>10, <2>1, <2>2, <2>3 DEF EndKill, fixedVars
<1>11. CASE KillRaises
  BY <1>11 DEF KillRaises, programVars, flagVars, fixedVars
<1>12. CASE DropAlive
  BY <1>12 DEF DropAlive, programVars, AfterKill, fixedVars
<1>13. CASE Deregister
  BY <1>13 DEF Deregister, programVars, flagVars, fixedVars
<1>14. CASE SendSignal
  BY <1>14 DEF SendSignal, programVars, fixedVars
<1>15. CASE ClearQueue
  BY <1>15 DEF ClearQueue, programVars, flagVars, fixedVars
<1>16. CASE TypeSignal
  <2>0. MayDropAlive /\ ui = "type" /\ ui' = "idle"
    BY <1>16 DEF TypeSignal
  <2>1. UNCHANGED <<proc, hungUp, killed, kind, registered, view, onClose>>
    BY <1>16 DEF TypeSignal, programVars, fixedVars
  <2> QED BY <1>1, <1>2, <2>0, <2>1
<1>17. CASE Enter
  <2>0. MayDropAlive /\ ui = "idle"
    BY <1>17 DEF Enter
  <2>1. UNCHANGED <<proc, hungUp, killed, kind, registered, view, onClose, ui>>
    BY <1>17 DEF Enter, programVars, uiVars, fixedVars
  <2> QED BY <1>1, <1>2, <2>0, <2>1
<1>18. CASE UNCHANGED vars
  BY <1>3, <1>18 DEF vars, programVars, uiVars, flagVars, fixedVars
<1> QED BY <1>4, <1>5, <1>6, <1>7, <1>8, <1>9, <1>10, <1>11, <1>12, <1>13,
           <1>14, <1>15, <1>16, <1>17, <1>18 DEF Next, UiContinues, User

(* No program runs on behind a REPL that left repl_views, whatever kind it  *)
(* is of, except behind an ssh connection whose _alive a failed write took  *)
(* down before; and a REPL whose view is closed does leave repl_views,      *)
(* except where kill() raised on the pipe of a dead process.                *)
THEOREM Forgotten == Spec => []ForgottenIsOver
<1>1. Init => ForgottenInv
  BY DEF Init, ForgottenInv, Over
<1>2. ForgottenInv => ForgottenIsOver
  BY DEF ForgottenInv, ForgottenIsOver, Over, Dropped, Closing
<1> QED BY <1>1, <1>2, TypeCorrect, ForgottenStep, PTL DEF Spec
-----------------------------------------------------------------------------
(* The order of what travels from the reader to the view.                  *)

\* Everything between the reader's hands and the eyes of the user.
Flow == Range(shown) \cup Range(text) \cup Range(queue)

OrderInv ==
  /\ Ascending(shown) /\ Ascending(text) /\ Ascending(queue)
  /\ Below(Range(shown), Range(text)) /\ Below(Range(shown), Range(queue))
  /\ Below(Range(text), Range(queue))

\* A unit comes from the reader, which holds the newest, and what clear_queue
\* dropped is gone.
TakenInv ==
  /\ \A x \in Flow \cup lost : x # None => x <= taken
  /\ lost \cap Flow = {}
  /\ reader = "putting" /\ held # None => held \notin Flow \cup lost

\* The end marker is the last thing put.
MarkerInv == None \in Range(queue) => reader = "ended"

FlowInv == OrderInv /\ TakenInv /\ MarkerInv

(* What is on the way are units, and the marker in the queue only.         *)
LEMMA FlowTypes ==
  ASSUME TypeInv
  PROVE  /\ Range(shown) \subseteq Units /\ Range(text) \subseteq Units
         /\ Range(queue) \subseteq Packets /\ lost \subseteq Units
         /\ shown \in Seq(Packets) /\ text \in Seq(Packets)
         /\ queue \in Seq(Packets) /\ held \in Packets
         /\ taken \in Nat /\ taken <= MaxOut
<1>1. /\ shown \in Seq(Units) /\ text \in Seq(Units) /\ queue \in Seq(Packets)
      /\ lost \subseteq Units /\ held \in Packets
  BY DEF TypeInv, TypeOK, Packets
<1>2. shown \in Seq(Packets) /\ text \in Seq(Packets)
  BY <1>1, SeqMonotonic, PacketsAreNumbers
<1>3. taken \in Nat /\ taken <= MaxOut
  BY BoundsAssumption DEF TypeInv, TypeOK
<1>4. Range(shown) \subseteq Units /\ Range(text) \subseteq Units
      /\ Range(queue) \subseteq Packets
  BY <1>1, RangeInSet
<1> QED BY <1>1, <1>2, <1>3, <1>4

(* The marker is no unit's number.                                         *)
LEMMA UnitBelowMarker == \A x \in Units : x < None /\ x \in Nat
  BY BoundsAssumption DEF Units, None

(* FlowInv holds at the start.                                             *)
LEMMA FlowInit == Init => FlowInv
<1> SUFFICES ASSUME Init PROVE FlowInv
  OBVIOUS
<1>1. /\ Range(shown) = {} /\ Range(text) = {} /\ Range(queue) = {}
      /\ Ascending(shown) /\ Ascending(text) /\ Ascending(queue)
  BY EmptyAscending DEF Init
<1>2. lost = {} /\ reader = "reading"
  BY DEF Init
<1> QED BY <1>1, <1>2 DEF FlowInv, OrderInv, TakenInv, MarkerInv, Flow, Below

\* What a unit newly read is compared with.
LEMMA FlowReadUnit == TypeInv /\ FlowInv /\ ReadUnit => FlowInv'
<1> SUFFICES ASSUME TypeInv, FlowInv, ReadUnit PROVE FlowInv'
  OBVIOUS
<1>1. /\ UNCHANGED <<shown, text, queue, lost>>
      /\ taken' = taken + 1 /\ held' = taken + 1 /\ reader' = "putting"
      /\ reader = "reading"
  BY DEF ReadUnit, pumpVars, lossVars
<1>2. Flow' = Flow
  BY <1>1 DEF Flow
<1>3. \A x \in Flow \cup lost : x \in Packets
  BY FlowTypes, PacketsAreNumbers DEF Flow
<1>4. TakenInv'
  <2>1. \A x \in Flow \cup lost : x \in Nat /\ (x # None => x <= taken)
    BY <1>3, PacketsAreNumbers DEF FlowInv, TakenInv
  <2>2. taken \in Nat
    BY FlowTypes
  <2>3. \A x \in Flow \cup lost : x # None => x <= taken + 1 /\ x # taken + 1
    BY <2>1, <2>2
  <2>4. lost \cap Flow = {}
    BY DEF FlowInv, TakenInv
  <2> QED BY <1>1, <1>2, <2>3, <2>4 DEF TakenInv
<1>5. OrderInv'
  BY <1>1 DEF FlowInv, OrderInv
<1>6. MarkerInv'
  BY <1>1 DEF FlowInv, MarkerInv
<1> QED BY <1>4, <1>5, <1>6 DEF FlowInv

(* ReplReader's put: the unit held joins the flow, and nothing else.       *)
LEMMA FlowPut ==
  TypeInv /\ FlowInv /\ Put => FlowInv' /\ Flow' = Flow \cup {held}
<1> SUFFICES ASSUME TypeInv, FlowInv, Put
             PROVE  FlowInv' /\ Flow' = Flow \cup {held}
  OBVIOUS
<1>1. /\ UNCHANGED <<shown, text, lost, taken, held>>
      /\ queue' = Append(queue, held) /\ reader = "putting"
      /\ reader' = IF held = None THEN "ended" ELSE "reading"
  BY DEF Put, pumpVars, lossVars
<1>2. None \notin Range(queue)
  BY <1>1 DEF FlowInv, MarkerInv
<1>3. held # None => held = taken /\ held \notin Flow \cup lost
  BY <1>1 DEF TypeInv, HandInv, FlowInv, TakenInv
<1>4. \A x \in Flow : x \in Units
  BY <1>2, FlowTypes DEF Flow, Packets
<1>5. Below(Flow, {held})
  <2>1. CASE held = None
    BY <1>4, <2>1, UnitBelowMarker DEF Below
  <2>2. CASE held # None
    <3>1. \A x \in Flow : x \in Nat /\ x <= taken /\ x # taken
      BY <1>3, <1>4, <2>2, UnitBelowMarker DEF FlowInv, TakenInv
    <3> QED BY <1>3, <2>2, <3>1, FlowTypes DEF Below
  <2> QED BY <2>1, <2>2
<1>6. /\ Range(queue') = Range(queue) \cup {held}
      /\ Ascending(queue')
  <2>1. Packets \subseteq Nat /\ queue \in Seq(Packets) /\ held \in Packets
    BY FlowTypes, PacketsAreNumbers
  <2>2. Ascending(queue) /\ Below(Range(queue), {held})
    BY <1>5 DEF FlowInv, OrderInv, Flow, Below
  <2> QED BY <1>1, <2>1, <2>2, AppendAscending, ZenonT(40)
<1>7. OrderInv'
  <2>1. Below(Range(shown), Range(queue')) /\ Below(Range(text), Range(queue'))
    BY <1>5, <1>6 DEF FlowInv, OrderInv, Flow, Below
  <2> QED BY <1>1, <1>6, <2>1 DEF FlowInv, OrderInv
<1>8. Flow' = Flow \cup {held}
  BY <1>1, <1>6 DEF Flow
<1>9. TakenInv'
  <2>1. held # None => held <= taken
    BY <1>3, FlowTypes
  <2>2. held \notin lost
    BY <1>3, FlowTypes, PacketsAreNumbers
  <2> QED BY <1>1, <1>8, <2>1, <2>2 DEF FlowInv, TakenInv
<1>10. MarkerInv'
  BY <1>1, <1>2, <1>6 DEF MarkerInv
<1> QED BY <1>7, <1>8, <1>9, <1>10 DEF FlowInv

\* What leaves the queue at its head.
LEMMA FlowHead ==
  ASSUME TypeInv, FlowInv, queue # <<>>
  PROVE  /\ Head(queue) \in Packets /\ Tail(queue) \in Seq(Packets)
         /\ Range(queue) = {Head(queue)} \cup Range(Tail(queue))
         /\ Ascending(Tail(queue)) /\ Below({Head(queue)}, Range(Tail(queue)))
<1>1. Packets \subseteq Nat /\ queue \in Seq(Packets)
  BY FlowTypes, PacketsAreNumbers
<1>2. Ascending(queue)
  BY DEF FlowInv, OrderInv
<1> QED BY <1>1, <1>2, TailAscending

\* A packet that is dropped from the head of the queue.
LEMMA FlowTail ==
  ASSUME TypeInv, FlowInv, queue # <<>>, queue' = Tail(queue),
         UNCHANGED <<shown, text, lost, taken, held, reader>>
  PROVE  FlowInv'
<1>1. Range(queue') \subseteq Range(queue) /\ Ascending(queue')
  BY FlowHead
<1>2. Flow' \subseteq Flow
  BY <1>1 DEF Flow
<1>3. OrderInv'
  BY <1>1 DEF FlowInv, OrderInv, Below
<1>4. TakenInv'
  BY <1>2 DEF FlowInv, TakenInv
<1>5. MarkerInv'
  BY <1>1 DEF FlowInv, MarkerInv
<1> QED BY <1>3, <1>4, <1>5 DEF FlowInv

\* A unit goes from the queue into text, and with text perhaps into the view.
LEMMA FlowGetUnit == TypeInv /\ FlowInv /\ GetUnit => FlowInv' /\ Flow' = Flow
<1> SUFFICES ASSUME TypeInv, FlowInv, GetUnit PROVE FlowInv' /\ Flow' = Flow
  OBVIOUS
<1> DEFINE h == Head(queue)
           more == Append(text, h)
<1>1. /\ UNCHANGED <<lost, taken, held, reader>>
      /\ queue # <<>> /\ queue' = Tail(queue)
      /\ \/ text' = more /\ shown' = shown
         \/ text' = <<>> /\ shown' = shown \o more
  BY DEF GetUnit, readerVars, lossVars
<1>2. /\ h \in Packets
      /\ Range(queue) = {h} \cup Range(queue')
      /\ Ascending(queue') /\ Below({h}, Range(queue'))
  BY <1>1, FlowHead
<1>3. /\ Below(Range(text), {h}) /\ Below(Range(shown), {h})
      /\ Ascending(text) /\ Ascending(shown)
  BY <1>2 DEF FlowInv, OrderInv, Below
<1>4. more \in Seq(Packets) /\ Range(more) = Range(text) \cup {h} /\ Ascending(more)
  <2>1. Packets \subseteq Nat /\ text \in Seq(Packets)
    BY FlowTypes, PacketsAreNumbers
  <2>2. h \in Packets /\ Ascending(text) /\ Below(Range(text), {h})
    BY <1>2, <1>3
  <2> HIDE DEF h
  <2> QED BY <2>1, <2>2, AppendAscending, ZenonT(40)
<1> HIDE DEF more
<1>5. /\ Below(Range(shown), Range(more)) /\ Below(Range(more), Range(queue'))
      /\ Below(Range(shown), Range(queue'))
  BY <1>2, <1>3, <1>4 DEF FlowInv, OrderInv, Below
<1>6. /\ Range(shown \o more) = Range(shown) \cup Range(more)
      /\ Ascending(shown \o more)
  <2>1. Packets \subseteq Nat /\ shown \in Seq(Packets)
    BY FlowTypes, PacketsAreNumbers
  <2> QED BY <1>3, <1>4, <1>5, <2>1, ConcatAscending, ZenonT(40)
<1>7. /\ Ascending(shown') /\ Ascending(text')
      /\ Below(Range(shown'), Range(text')) /\ Below(Range(shown'), Range(queue'))
      /\ Below(Range(text'), Range(queue'))
      /\ Range(shown') \cup Range(text') = Range(shown) \cup Range(text) \cup {h}
  <2>1. ASSUME text' = more, shown' = shown PROVE <1>7!:
    BY <1>3, <1>4, <1>5, <2>1
  <2>2. ASSUME text' = <<>>, shown' = shown \o more PROVE <1>7!:
    <3>1. Ascending(text') /\ Range(text') = {}
      BY <2>2, EmptyAscending
    <3>2. Range(shown') = Range(shown) \cup Range(text) \cup {h}
          /\ Ascending(shown')
      BY <1>4, <1>6, <2>2
    <3>3. Below(Range(shown'), Range(queue'))
      BY <1>4, <1>5, <3>2 DEF Below
    <3> QED BY <3>1, <3>2, <3>3 DEF Below
  <2> QED BY <1>1, <2>1, <2>2
<1>8. Flow' = Flow
  BY <1>2, <1>7 DEF Flow
<1>9. TakenInv' /\ MarkerInv'
  BY <1>1, <1>2, <1>8 DEF FlowInv, TakenInv, MarkerInv
<1> QED BY <1>2, <1>7, <1>8, <1>9 DEF FlowInv, OrderInv

\* text goes into the view.
LEMMA FlowFlush == TypeInv /\ FlowInv /\ Flush => FlowInv' /\ Flow' = Flow
<1> SUFFICES ASSUME TypeInv, FlowInv, Flush PROVE FlowInv' /\ Flow' = Flow
  OBVIOUS
<1>1. /\ UNCHANGED <<queue, lost, taken, held, reader>>
      /\ shown' = shown \o text /\ text' = <<>>
  BY DEF Flush, readerVars, lossVars
<1>2. /\ Packets \subseteq Nat /\ shown \in Seq(Packets) /\ text \in Seq(Packets)
  BY FlowTypes, PacketsAreNumbers
<1>3. /\ Ascending(shown) /\ Ascending(text) /\ Below(Range(shown), Range(text))
  BY DEF FlowInv, OrderInv
<1>4. Range(shown') = Range(shown) \cup Range(text) /\ Ascending(shown')
  BY <1>1, <1>2, <1>3, ConcatAscending
<1>5. Range(text') = {} /\ Ascending(text')
  BY <1>1, EmptyAscending
<1>6. Flow' = Flow
  BY <1>1, <1>4, <1>5 DEF Flow
<1>7. OrderInv'
  BY <1>1, <1>4, <1>5 DEF FlowInv, OrderInv, Below
<1>8. TakenInv' /\ MarkerInv'
  BY <1>1, <1>6 DEF FlowInv, TakenInv, MarkerInv
<1> QED BY <1>6, <1>7, <1>8 DEF FlowInv

\* What stood in the queue is dropped.
LEMMA FlowClear == TypeInv /\ FlowInv /\ ClearQueue => FlowInv'
<1> SUFFICES ASSUME TypeInv, FlowInv, ClearQueue PROVE FlowInv'
  OBVIOUS
<1>1. /\ UNCHANGED <<shown, text, taken, held, reader>>
      /\ lost' = lost \cup (Range(queue) \ {None}) /\ queue' = <<>>
  BY DEF ClearQueue, readerVars, pumpVars
<1>2. Range(queue') = {} /\ Ascending(queue')
  BY <1>1, EmptyAscending
<1>3. Flow' = Range(shown) \cup Range(text)
  BY <1>1, <1>2 DEF Flow
<1>4. OrderInv'
  BY <1>1, <1>2 DEF FlowInv, OrderInv, Below
<1>5. TakenInv'
  <2>1. \A x \in Range(shown) \cup Range(text) : x \in Units /\ x \in Nat
    BY FlowTypes, UnitBelowMarker
  <2>2. \A x \in Range(queue) : x \notin Range(shown) \cup Range(text)
    <3>1. Range(queue) \subseteq Nat
      BY FlowTypes, PacketsAreNumbers
    <3> QED BY <2>1, <3>1 DEF FlowInv, OrderInv, Below
  <2>3. Flow' \cup lost' \subseteq Flow \cup lost
    BY <1>1, <1>3 DEF Flow
  <2>4. lost' \cap Flow' = {}
    BY <1>1, <1>3, <2>2 DEF FlowInv, TakenInv, Flow
  <2> QED BY <1>1, <2>3, <2>4 DEF FlowInv, TakenInv
<1>6. MarkerInv'
  BY <1>2 DEF MarkerInv
<1> QED BY <1>4, <1>5, <1>6 DEF FlowInv

\* All other steps leave the flow alone, but for the reader's hands.
LEMMA FlowQuiet ==
  ASSUME FlowInv, UNCHANGED <<shown, text, queue, lost, taken>>,
         reader' = "ended" <=> reader = "ended",
         reader' = "putting" => held' = None \/ UNCHANGED <<reader, held>>
  PROVE  FlowInv' /\ Flow' = Flow
<1>1. Flow' = Flow
  BY DEF Flow
<1>2. OrderInv'
  BY DEF FlowInv, OrderInv
<1>3. TakenInv'
  BY <1>1 DEF FlowInv, TakenInv
<1>4. MarkerInv'
  BY DEF FlowInv, MarkerInv
<1> QED BY <1>1, <1>2, <1>3, <1>4 DEF FlowInv

\* The steps that FlowQuiet speaks of.
QuietStep == \/ ProgramWrites \/ ProgramEnds \/ ReadNothing \/ ReadRaises
             \/ CheckAlive \/ GetEmpty \/ WriteBanner \/ AutoClose
             \/ EndKill \/ KillRaises \/ DropAlive \/ Deregister \/ TypeSignal
             \/ User \/ UNCHANGED vars

(* Steps that move no output.                                              *)
LEMMA QuietSteps ==
  ASSUME TypeInv, QuietStep
  PROVE  /\ UNCHANGED <<shown, text, queue, lost, taken, working>>
         /\ reader' = "ended" <=> reader = "ended"
         /\ reader' = "putting" => held' = None \/ UNCHANGED <<reader, held>>
         /\ reader = "putting" => UNCHANGED <<reader, held>>
         /\ pump' = "crashed" <=> pump = "crashed"
<1> USE DEF programVars, readerVars, pumpVars, uiVars, flagVars, lossVars, fixedVars
<1>1. CASE ProgramWrites \/ ProgramEnds \/ ReadNothing \/ ReadRaises
  BY <1>1 DEF ProgramWrites, ProgramEnds, ReadNothing, ReadRaises
<1>2. CASE CheckAlive \/ GetEmpty \/ WriteBanner \/ AutoClose
  BY <1>2 DEF CheckAlive, GetEmpty, WriteBanner, AutoClose
<1>3. CASE EndKill \/ KillRaises \/ DropAlive \/ Deregister \/ TypeSignal
  BY <1>3 DEF EndKill, KillRaises, DropAlive, Deregister, TypeSignal
<1>4. CASE User
  BY <1>4 DEF User, Kill, CloseView, SendSignal, Enter
<1>5. CASE UNCHANGED vars
  BY <1>5 DEF vars
<1> QED BY <1>1, <1>2, <1>3, <1>4, <1>5 DEF QuietStep

\* Every step is one of them or one that moves a packet.
LEMMA StepCases ==
  [Next]_vars => \/ QuietStep \/ ReadUnit \/ Put \/ GetEnd \/ GetUnit \/ GetList
                 \/ Flush \/ ClearQueue
  BY DEF Next, Reader, Pump, UiContinues, QuietStep

(* Every step keeps FlowInv.                                               *)
LEMMA FlowStep == TypeInv /\ FlowInv /\ [Next]_vars => FlowInv'
<1> SUFFICES ASSUME TypeInv, FlowInv, [Next]_vars PROVE FlowInv'
  OBVIOUS
<1>1. CASE QuietStep
  BY <1>1, QuietSteps, FlowQuiet
<1>2. CASE GetEnd
  BY <1>2, FlowTail DEF GetEnd, readerVars, lossVars
<1>3. CASE GetList
  BY <1>3, FlowTail DEF GetList, readerVars, lossVars
<1> QED BY <1>1, <1>2, <1>3, StepCases, FlowReadUnit, FlowPut, FlowGetUnit,
           FlowFlush, FlowClear

(* TypeInv and FlowInv always hold.                                        *)
LEMMA FlowCorrect == Spec => [](TypeInv /\ FlowInv)
  BY TypeInit, FlowInit, TypeStep, FlowStep, PTL DEF Spec

\* The whole way of the output as one sequence.
LEMMA DeliveredFacts ==
  ASSUME TypeInv, FlowInv
  PROVE  /\ Delivered \in Seq(Packets) /\ Ascending(Delivered)
         /\ Range(Delivered) = Flow
<1>1. /\ Packets \subseteq Nat /\ shown \in Seq(Packets) /\ text \in Seq(Packets)
      /\ queue \in Seq(Packets)
  BY FlowTypes, PacketsAreNumbers
<1>2. OrderInv
  BY DEF FlowInv
<1>3. /\ shown \o text \in Seq(Packets) /\ Ascending(shown \o text)
      /\ Range(shown \o text) = Range(shown) \cup Range(text)
  <2>1. Ascending(shown) /\ Ascending(text) /\ Below(Range(shown), Range(text))
    BY <1>2 DEF OrderInv
  <2> QED BY <1>1, <2>1, ConcatAscending
<1> DEFINE front == shown \o text
<1>4. /\ front \in Seq(Packets) /\ Ascending(front) /\ Ascending(queue)
      /\ Below(Range(front), Range(queue)) /\ Range(front) \cup Range(queue) = Flow
  BY <1>2, <1>3 DEF OrderInv, Below, Flow
<1>5. Delivered = front \o queue
  BY DEF Delivered
<1> HIDE DEF front
<1>6. /\ front \o queue \in Seq(Packets) /\ Ascending(front \o queue)
      /\ Range(front \o queue) = Range(front) \cup Range(queue)
  BY <1>1, <1>4, ConcatAscending
<1> QED BY <1>4, <1>5, <1>6

\* With what the reader holds at its end.
Hand == IF reader = "putting" THEN {held} ELSE {}

(* Types of what is delivered and of what is held.                         *)
LEMMA HoldingFacts ==
  ASSUME TypeInv, FlowInv
  PROVE  /\ Delivered \o Holding \in Seq(Packets)
         /\ reader = "putting" =>
              Delivered \o Holding = Append(Delivered, held)
         /\ reader # "putting" => Delivered \o Holding = Delivered
         /\ Range(Delivered \o Holding) = Flow \cup Hand
<1>1. Packets \subseteq Nat /\ held \in Packets /\ Delivered \in Seq(Packets)
      /\ Range(Delivered) = Flow
  BY FlowTypes, PacketsAreNumbers, DeliveredFacts
<1>2. ASSUME reader = "putting"
      PROVE  /\ Delivered \o Holding = Append(Delivered, held)
             /\ Append(Delivered, held) \in Seq(Packets)
             /\ Range(Append(Delivered, held)) = Flow \cup Hand
  <2>1. Holding = <<held>> /\ Hand = {held}
    BY <1>2 DEF Holding, Hand
  <2>2. Append(Delivered, held) = Delivered \o <<held>>
    BY <1>1, AppendIsConcat
  <2>3. /\ Append(Delivered, held) \in Seq(Packets)
        /\ Range(Append(Delivered, held)) = Range(Delivered) \cup {held}
    BY <1>1, AppendAscending, ZenonT(40)
  <2> QED BY <1>1, <2>1, <2>2, <2>3
<1>3. ASSUME reader # "putting"
      PROVE  Delivered \o Holding = Delivered /\ Hand = {}
  <2>1. Holding = <<>> /\ Hand = {}
    BY <1>3 DEF Holding, Hand
  <2>2. Delivered \o <<>> = Delivered
    BY <1>1, ConcatEmptySeq
  <2> QED BY <2>1, <2>2
<1> QED BY <1>1, <1>2, <1>3

(* Output is shown in the order it was written and no unit twice, and the   *)
(* end marker comes once and last, in every interleaving of the reader, the *)
(* update thread and clear_queue.                                           *)
THEOREM Ordered == Spec => []OutputInOrder
<1>1. ASSUME TypeInv, FlowInv, reader = "putting"
      PROVE  Ascending(Append(Delivered, held))
  <2>1. Below(Flow, {held})
    <3>1. held # None => held = taken /\ held \notin Flow
      BY <1>1 DEF TypeInv, HandInv, FlowInv, TakenInv
    <3>2. None \notin Range(queue)
      BY <1>1 DEF FlowInv, MarkerInv
    <3>3. \A x \in Flow : x \in Units
      BY <1>1, <3>2, FlowTypes DEF Flow, Packets
    <3>4. CASE held = None
      BY <3>3, <3>4, UnitBelowMarker DEF Below
    <3>5. CASE held # None
      <4>1. \A x \in Flow : x \in Nat /\ x <= taken /\ x # taken
        BY <1>1, <3>1, <3>3, <3>5, UnitBelowMarker DEF FlowInv, TakenInv
      <4> QED BY <1>1, <3>1, <3>5, <4>1, FlowTypes DEF Below
    <3> QED BY <3>4, <3>5
  <2>2. /\ Packets \subseteq Nat /\ held \in Packets
        /\ Delivered \in Seq(Packets) /\ Ascending(Delivered)
        /\ Below(Range(Delivered), {held})
    BY <1>1, <2>1, FlowTypes, PacketsAreNumbers, DeliveredFacts
  <2> QED BY <2>2, AppendAscending
<1>2. TypeInv /\ FlowInv => OutputInOrder
  BY <1>1, DeliveredFacts, HoldingFacts DEF OutputInOrder
<1> QED BY <1>2, FlowCorrect, PTL

-----------------------------------------------------------------------------
(* Nothing gets lost on the way.                                           *)

SkipInv == pump # "crashed" => 1..taken \subseteq Flow \cup lost \cup Hand

(* Every step keeps SkipInv.                                               *)
LEMMA SkipStep ==
  TypeInv /\ FlowInv /\ SkipInv /\ [Next]_vars => SkipInv'
<1> SUFFICES ASSUME TypeInv, FlowInv, SkipInv, [Next]_vars, pump' # "crashed"
             PROVE  (1..taken \subseteq Flow \cup lost \cup Hand)'
  BY DEF SkipInv
<1>1. None \notin 1..taken
  BY BoundsAssumption, FlowTypes DEF None
<1>2. CASE QuietStep
  <2>1. /\ UNCHANGED <<lost, taken>> /\ pump # "crashed"
        /\ reader = "putting" => UNCHANGED <<reader, held>>
    BY <1>2, QuietSteps
  <2>2. Flow' = Flow
    BY <1>2, QuietSteps, FlowQuiet
  <2>3. Hand \subseteq Hand'
    BY <2>1 DEF Hand
  <2> QED BY <2>1, <2>2, <2>3 DEF SkipInv
<1>3. CASE ReadUnit
  <2>1. /\ UNCHANGED <<shown, text, queue, lost, pump>> /\ taken' = taken + 1
        /\ reader = "reading" /\ reader' = "putting" /\ held' = taken + 1
    BY <1>3 DEF ReadUnit, pumpVars, lossVars
  <2>2. Flow' = Flow /\ Hand = {} /\ Hand' = {taken + 1}
    BY <2>1 DEF Flow, Hand
  <2>3. 1..taken' \subseteq 1..taken \cup {taken + 1}
    BY <2>1, FlowTypes
  <2> QED BY <2>1, <2>2, <2>3 DEF SkipInv
<1>4. CASE Put
  <2>1. UNCHANGED <<lost, taken, pump>> /\ Hand \subseteq {held}
    BY <1>4 DEF Put, pumpVars, lossVars, Hand
  <2>2. Flow' = Flow \cup {held}
    BY <1>4, FlowPut
  <2> QED BY <2>1, <2>2 DEF SkipInv
<1>5. CASE GetEnd
  <2>1. UNCHANGED <<shown, text, lost, taken, reader, held>> /\ pump # "crashed"
        /\ queue # <<>> /\ queue' = Tail(queue) /\ Head(queue) = None
    BY <1>5 DEF GetEnd, readerVars, lossVars
  <2>2. Range(queue) = {None} \cup Range(queue')
    BY <2>1, FlowHead
  <2>3. Flow \subseteq Flow' \cup {None} /\ Hand' = Hand
    BY <2>1, <2>2 DEF Flow, Hand
  <2> QED BY <1>1, <2>1, <2>3 DEF SkipInv
<1>6. CASE GetUnit
  <2>1. UNCHANGED <<lost, taken, reader, held>> /\ pump # "crashed"
    BY <1>6 DEF GetUnit, readerVars, lossVars
  <2>2. Flow' = Flow /\ Hand' = Hand
    BY <1>6, <2>1, FlowGetUnit DEF Hand
  <2> QED BY <2>1, <2>2 DEF SkipInv
<1>7. CASE GetList
  BY <1>7 DEF GetList
<1>8. CASE Flush
  <2>1. UNCHANGED <<lost, taken, reader, held>> /\ pump # "crashed"
    BY <1>8 DEF Flush, readerVars, lossVars
  <2>2. Flow' = Flow /\ Hand' = Hand
    BY <1>8, <2>1, FlowFlush DEF Hand
  <2> QED BY <2>1, <2>2 DEF SkipInv
<1>9. CASE ClearQueue
  <2>1. /\ UNCHANGED <<shown, text, taken, reader, held, pump>>
        /\ lost' = lost \cup (Range(queue) \ {None})
    BY <1>9 DEF ClearQueue, readerVars, pumpVars
  <2>2. Flow \cup lost \subseteq Flow' \cup lost' \cup {None} /\ Hand' = Hand
    BY <2>1 DEF Flow, Hand
  <2> QED BY <1>1, <2>1, <2>2 DEF SkipInv
<1> QED BY <1>2, <1>3, <1>4, <1>5, <1>6, <1>7, <1>8, <1>9, StepCases

(* SkipInv holds at the start.                                             *)
LEMMA SkipInit == Init => SkipInv
<1>1. Init => 1..taken = {}
  BY DEF Init
<1> QED BY <1>1 DEF SkipInv

(* SkipInv always holds.                                                   *)
LEMMA SkipCorrect == Spec => []SkipInv
  BY SkipInit, SkipStep, FlowCorrect, PTL DEF Spec

(* No unit the reader took is lost but by clear_queue, as long as the       *)
(* update thread did not die of an apiv2 packet.                            *)
THEOREM NothingLost == Spec => []NothingSkipped
<1>1. TypeInv /\ FlowInv /\ SkipInv => NothingSkipped
  <2> SUFFICES ASSUME TypeInv, FlowInv, SkipInv PROVE NothingSkipped
    OBVIOUS
  <2>1. Range(Delivered \o Holding) = Flow \cup Hand
    BY HoldingFacts
  <2> QED BY <2>1 DEF SkipInv, NothingSkipped
<1> QED BY <1>1, FlowCorrect, SkipCorrect, PTL
-----------------------------------------------------------------------------
(* The closing banner.                                                     *)

\* A blocking read() gives None for one reason only.
EndInv ==
  kind \notin NonBlockingKinds
    /\ (reader = "ended" \/ (reader = "putting" /\ held = None)) =>
    Over /\ (~hungUp => taken = written)

\* How the update thread's place in the code goes with what it has seen.
PlaceInv ==
  /\ ~working => reader = "ended" /\ queue = <<>>
  /\ pump \in {"check", "get"} => working
  /\ pump \in {"banner", "close", "done"} => ~working /\ text = <<>>
  /\ banner # "none" <=> pump \in {"close", "done"}

(* Every step keeps EndInv.                                                *)
LEMMA EndStep == TypeInv /\ EndInv /\ [Next]_vars => EndInv'
<1> SUFFICES ASSUME TypeInv, EndInv, [Next]_vars PROVE EndInv'
  OBVIOUS
<1>1. proc \in {"running", "dead"} /\ held \in Units \cup {None}
      /\ taken \in Nat /\ written \in Nat /\ taken <= written /\ written <= MaxOut
  BY BoundsAssumption DEF TypeInv, TypeOK
<1> USE DEF EndInv, Over, fixedVars
<1>2. CASE ProgramWrites
  BY <1>2 DEF ProgramWrites, readerVars, flagVars
<1>3. CASE ProgramEnds
  BY <1>3 DEF ProgramEnds, readerVars, flagVars
<1>4. CASE ReadUnit
  <2>1. taken' # None
    BY <1>1, <1>4, BoundsAssumption DEF ReadUnit, None
  <2>2. reader' = "putting" /\ held' # None
    BY <1>4, <2>1 DEF ReadUnit
  <2> QED BY <2>2
<1>5. CASE ReadNothing
  BY <1>5 DEF ReadNothing, programVars, flagVars
<1>6. CASE ReadRaises
  BY <1>6 DEF ReadRaises
<1>7. CASE Put
  BY <1>7 DEF Put, programVars, flagVars
<1>8. CASE Pump
  BY <1>8 DEF Pump, CheckAlive, GetEmpty, GetEnd, GetUnit, GetList, Flush,
     WriteBanner, AutoClose, programVars, readerVars, flagVars
<1>9. CASE EndKill
  BY <1>9 DEF EndKill, readerVars
<1>10. CASE UiContinues /\ ~EndKill
  BY <1>10 DEF UiContinues, KillRaises, DropAlive, Deregister, ClearQueue,
     TypeSignal, programVars, readerVars, flagVars
<1>11. CASE User
  BY <1>11 DEF User, Kill, CloseView, SendSignal, Enter, programVars, readerVars,
     flagVars
<1>12. CASE UNCHANGED vars
  BY <1>12 DEF vars, programVars, readerVars, flagVars
<1> QED BY <1>2, <1>3, <1>4, <1>5, <1>6, <1>7, <1>8, <1>9, <1>10, <1>11, <1>12
        DEF Next, Reader

(* All steps but the update thread's leave it where it is.                 *)
LEMMA PumpUntouched ==
  [Next]_vars => Pump \/ (UNCHANGED pumpVars /\ UNCHANGED <<pump, working, banner>>)
<1>1. ProgramWrites \/ ProgramEnds \/ Reader => UNCHANGED pumpVars
  BY DEF ProgramWrites, ProgramEnds, Reader, ReadUnit, ReadNothing, ReadRaises, Put
<1>2. UiContinues => UNCHANGED pumpVars
  BY DEF UiContinues, EndKill, KillRaises, DropAlive, Deregister, ClearQueue,
     TypeSignal
<1>3. User => UNCHANGED pumpVars
  BY DEF User, Kill, CloseView, SendSignal, Enter
<1>4. UNCHANGED vars => UNCHANGED pumpVars
  BY DEF vars
<1>5. UNCHANGED pumpVars => UNCHANGED <<pump, working, banner>>
  BY DEF pumpVars
<1> QED BY <1>1, <1>2, <1>3, <1>4, <1>5 DEF Next

(* Every step keeps PlaceInv.                                              *)
LEMMA PlaceStep ==
  TypeInv /\ FlowInv /\ PlaceInv /\ [Next]_vars => PlaceInv'
<1> SUFFICES ASSUME TypeInv, FlowInv, PlaceInv, [Next]_vars PROVE PlaceInv'
  OBVIOUS
<1> USE DEF PlaceInv
<1>1. /\ banner \in {"none", "killed", "closed"} /\ working \in BOOLEAN
      /\ pump \in {"check", "get", "flush", "banner", "close", "done", "crashed"}
  BY DEF TypeInv, TypeOK
<1>2. CASE UNCHANGED pumpVars
  <2>1. UNCHANGED <<pump, working, text, banner>>
    BY <1>2 DEF pumpVars
  <2>2. ~working => reader' = "ended" /\ queue' = <<>>
    <3>1. CASE QuietStep
      BY <3>1, QuietSteps
    <3>2. CASE ReadUnit \/ Put
      BY <3>2 DEF ReadUnit, Put
    <3>3. CASE ClearQueue
      BY <3>3 DEF ClearQueue, readerVars
    <3>4. CASE GetEnd \/ GetUnit \/ GetList \/ Flush
      BY <2>1, <3>4 DEF GetEnd, GetUnit, GetList, Flush
    <3> QED BY <3>1, <3>2, <3>3, <3>4, StepCases
  <2> QED BY <2>1, <2>2
<1>3. CASE CheckAlive
  BY <1>3 DEF CheckAlive, readerVars
<1>4. CASE GetEmpty
  BY <1>4 DEF GetEmpty, readerVars
<1>5. CASE GetEnd
  <2>1. /\ UNCHANGED <<reader, banner>> /\ pump = "get" /\ pump' = "flush"
        /\ queue # <<>> /\ Head(queue) = None /\ queue' = Tail(queue)
    BY <1>5 DEF GetEnd, readerVars
  <2>2. reader' = "ended"
    <3>1. None \in Range(queue)
      BY <2>1, FlowHead
    <3> QED BY <2>1, <3>1 DEF FlowInv, MarkerInv
  <2>3. queue' = <<>>
    <3>1. /\ Tail(queue) \in Seq(Packets) /\ Below({None}, Range(Tail(queue)))
      BY <2>1, FlowHead
    <3>2. Range(Tail(queue)) \subseteq Packets
      BY <3>1, RangeInSet
    <3>3. \A x \in Packets : ~(None < x)
      <4>1. \A x \in Packets : x \in Nat /\ None \in Nat /\ x <= None
        BY PacketsAreNumbers
      <4> QED BY <4>1
    <3>4. Range(Tail(queue)) = {}
      BY <3>1, <3>2, <3>3 DEF Below
    <3> QED BY <2>1, <3>1, <3>4, RangeInSet
  <2> QED BY <1>1, <2>1, <2>2, <2>3
<1>6. CASE GetUnit
  BY <1>6 DEF GetUnit, readerVars
<1>7. CASE GetList
  BY <1>7 DEF GetList, readerVars
<1>8. CASE Flush
  BY <1>8 DEF Flush, readerVars
<1>9. CASE WriteBanner
  <2>1. banner' # "none" /\ pump' \in {"close", "done"}
    BY <1>9 DEF WriteBanner
  <2> QED BY <1>9, <2>1 DEF WriteBanner, readerVars
<1>10. CASE AutoClose
  BY <1>10 DEF AutoClose, readerVars
<1>11. CASE ~Pump
  BY <1>2, <1>11, PumpUntouched
<1> QED BY <1>3, <1>4, <1>5, <1>6, <1>7, <1>8, <1>9, <1>10, <1>11 DEF Pump

(* TypeInv, FlowInv, EndInv and PlaceInv always hold.                      *)
LEMMA PlaceCorrect == Spec => [](TypeInv /\ FlowInv /\ EndInv /\ PlaceInv)
<1>1. Init => EndInv /\ PlaceInv
  BY DEF Init, EndInv, PlaceInv
<1> QED BY <1>1, FlowCorrect, EndStep, PlaceStep, PTL DEF Spec

(* The closing banner of a REPL with a blocking read() is written only when *)
(* the program is over or hung up on, and below all that it wrote, but for  *)
(* what clear_queue dropped.                                                *)
THEOREM BannerTrue == Spec => []BannerAtTheEnd
<1>1. TypeInv /\ FlowInv /\ EndInv /\ PlaceInv /\ SkipInv => BannerAtTheEnd
  <2> SUFFICES ASSUME TypeInv, FlowInv, EndInv, PlaceInv, SkipInv,
                      banner # "none", kind \notin NonBlockingKinds
               PROVE  Over /\ (~hungUp => 1..written \subseteq Range(shown) \cup lost)
    BY DEF BannerAtTheEnd, Over
  <2>1. /\ pump \in {"close", "done"} /\ reader = "ended"
        /\ queue = <<>> /\ text = <<>>
    BY DEF PlaceInv
  <2>2. Over /\ (~hungUp => taken = written)
    <3>1. kind \notin NonBlockingKinds /\ reader = "ended"
      BY <2>1
    <3> QED BY <3>1 DEF EndInv
  <2>3. Flow = Range(shown) /\ Hand = {}
    BY <2>1, EmptyAscending DEF Flow, Hand
  <2>4. 1..taken \subseteq Range(shown) \cup lost
    BY <2>1, <2>3 DEF SkipInv
  <2> QED BY <2>2, <2>4
<1> QED BY <1>1, PlaceCorrect, SkipCorrect, PTL
-----------------------------------------------------------------------------
(* The pump implements OutputStream.                                       *)

\* The units in the view and the dropped ones were written.
WrittenOnly == shown \in Seq(1..written) /\ lost \subseteq 1..written

(* What is shown was written by the program.                               *)
LEMMA WrittenFacts == TypeInv /\ FlowInv => WrittenOnly
<1> SUFFICES ASSUME TypeInv, FlowInv PROVE WrittenOnly
  OBVIOUS
<1>1. \A x \in Range(shown) \cup lost : x \in 1..written
  <2>1. \A x \in Range(shown) \cup lost : x \in Units /\ x # None
    BY FlowTypes, UnitBelowMarker
  <2>2. \A x \in Range(shown) \cup lost : x <= taken
    BY <2>1 DEF FlowInv, TakenInv, Flow
  <2>3. taken \in 0..written /\ written \in Nat
    BY BoundsAssumption DEF TypeInv, TypeOK
  <2> QED BY <2>1, <2>2, <2>3, BoundsAssumption DEF Units
<1>2. shown \in Seq(Units)
  BY DEF TypeInv, TypeOK
<1>3. shown \in Seq(Range(shown)) /\ Range(shown) \subseteq 1..written
  BY <1>1, <1>2, SeqOfRange
<1>4. shown \in Seq(1..written)
  BY <1>3, SeqMonotonic
<1> QED BY <1>1, <1>4 DEF WrittenOnly

\* What the view shows only grows at its end.
LEMMA ShownGrows ==
  ASSUME TypeInv, FlowInv, GetUnit \/ Flush
  PROVE  /\ Len(shown) <= Len(shown')
         /\ \A i \in 1..Len(shown) : shown'[i] = shown[i]
<1>1. /\ Packets \subseteq Nat /\ shown \in Seq(Packets) /\ text \in Seq(Packets)
      /\ Len(shown) \in Nat
  <2>1. /\ Packets \subseteq Nat /\ shown \in Seq(Packets) /\ text \in Seq(Packets)
    BY FlowTypes, PacketsAreNumbers
  <2> QED BY <2>1, LenProperties
<1>2. CASE shown' = shown
  BY <1>1, <1>2
<1>3. ASSUME NEW more \in Seq(Packets), shown' = shown \o more
      PROVE  /\ Len(shown) <= Len(shown')
             /\ \A i \in 1..Len(shown) : shown'[i] = shown[i]
  BY <1>1, <1>3, ConcatAscending
<1>4. CASE Flush
  BY <1>1, <1>3, <1>4 DEF Flush
<1>5. CASE GetUnit
  <2>1. Append(text, Head(queue)) \in Seq(Packets)
    <3>1. Head(queue) \in Packets
      BY <1>5, FlowHead DEF GetUnit
    <3> QED BY <1>1, <3>1, AppendProperties
  <2>2. shown' = shown \/ shown' = shown \o Append(text, Head(queue))
    BY <1>5 DEF GetUnit
  <2> QED BY <1>2, <1>3, <2>1, <2>2
<1> QED BY <1>4, <1>5

(* Reader thread, queue and update thread together are one stream of output *)
(* that the view shows in order, with gaps only where clear_queue made them *)
(* and nothing behind the closing banner.                                   *)
THEOREM ImplementsStream == Spec => StreamSpec
<1>1. Init => Stream!Init
  BY DEF Init, Stream!Init
<1>2. TypeInv /\ FlowInv /\ PlaceInv /\ FlowInv' /\ WrittenOnly' /\ [Next]_vars
        => [Stream!Next]_(Stream!vars)
  <2> SUFFICES ASSUME TypeInv, FlowInv, PlaceInv, FlowInv', WrittenOnly', [Next]_vars
               PROVE  Stream!Next \/ UNCHANGED <<written, shown, lost, banner # "none">>
    BY DEF Stream!vars
  <2>1. CASE ProgramWrites
    BY <2>1 DEF ProgramWrites, pumpVars, lossVars, Stream!Next, Stream!Emit
  <2>2. CASE GetUnit \/ Flush
    <3>1. UNCHANGED <<written, lost, banner>> /\ banner = "none"
      BY <2>2 DEF GetUnit, Flush, programVars, lossVars, PlaceInv
    <3>2. /\ Len(shown) <= Len(shown')
          /\ \A i \in 1..Len(shown) : shown'[i] = shown[i]
      BY <2>2, ShownGrows
    <3>3. shown' \in Seq(1..written)
      BY <3>1 DEF WrittenOnly
    <3>4. Ascending(shown') /\ Range(shown') \cap lost = {}
      BY <3>1 DEF FlowInv, OrderInv, TakenInv, Flow
    <3> QED BY <3>1, <3>2, <3>3, <3>4 DEF Stream!Next, Stream!Show,
               Stream!Ascending, Stream!Range, Ascending, Range
  <2>3. CASE ClearQueue
    <3>1. UNCHANGED <<written, shown, banner>> /\ lost \subseteq lost'
      BY <2>3 DEF ClearQueue, programVars, pumpVars
    <3>2. lost' \subseteq 1..written /\ Range(shown) \cap lost' = {}
      <4>1. lost' \subseteq 1..written' /\ Range(shown') \cap lost' = {}
        BY DEF WrittenOnly, FlowInv, TakenInv, Flow
      <4> QED BY <3>1, <4>1
    <3> QED BY <3>1, <3>2 DEF Stream!Next, Stream!Discard, Stream!Range, Range
  <2>4. CASE WriteBanner
    <3>1. /\ UNCHANGED <<written, shown, lost>>
          /\ banner = "none" /\ banner' # "none"
      BY <2>4 DEF WriteBanner, programVars, lossVars, PlaceInv
    <3> QED BY <3>1 DEF Stream!Next, Stream!End
  <2>5. CASE ProgramEnds \/ Reader
    BY <2>5 DEF ProgramEnds, Reader, ReadUnit, ReadNothing, ReadRaises, Put,
       programVars, pumpVars, lossVars
  <2>6. CASE CheckAlive \/ GetEmpty \/ GetEnd \/ GetList \/ AutoClose
    BY <2>6 DEF CheckAlive, GetEmpty, GetEnd, GetList, AutoClose, programVars,
       lossVars
  <2>7. CASE EndKill \/ KillRaises \/ DropAlive \/ Deregister \/ TypeSignal
    BY <2>7 DEF EndKill, KillRaises, DropAlive, Deregister, TypeSignal,
       programVars, pumpVars, lossVars
  <2>8. CASE User
    BY <2>8 DEF User, Kill, CloseView, SendSignal, Enter, programVars, pumpVars,
       lossVars
  <2>9. CASE UNCHANGED vars
    BY <2>9 DEF vars, programVars, pumpVars, lossVars
  <2> QED BY <2>1, <2>2, <2>3, <2>4, <2>5, <2>6, <2>7, <2>8, <2>9
          DEF Next, Pump, UiContinues
<1> QED BY <1>1, <1>2, WrittenFacts, PlaceCorrect, PTL DEF Spec, StreamSpec, Stream!Spec
-----------------------------------------------------------------------------
(* Both threads come to the end of what they have to do.                   *)

\* The reader has a step to make: read_bytes() returns or raises, or the result
\* of read() is in its hands.
ReaderReady ==
  \/ reader = "putting"
  \/ /\ reader = "reading"
     /\ taken < written \/ Over \/ kind \in NonBlockingKinds

\* How far the reader is from its end, by what the program has written so far.
ReaderPlace ==
  CASE reader = "reading" -> 2
    [] reader = "putting" /\ held = None -> 1
    [] reader = "putting" /\ held # None -> 3
    [] OTHER -> 0
ReaderLeft == 2 * (written - taken) + ReaderPlace

\* Every step of the reader brings it nearer, and nothing takes it back but what
\* the program writes.
ReaderRunsOut ==
  /\ Reader => ReaderLeft' < ReaderLeft
  /\ ProgramWrites => (ReaderLeft' = ReaderLeft + 2)
  /\ ~(Reader \/ ProgramWrites) => (ReaderLeft' = ReaderLeft)

\* How far the update thread is from the end of a call of handle_repl_output, or
\* from the end of its loop.
PumpPlace ==
  [check |-> 5, get |-> 4, flush |-> 3, banner |-> 2, close |-> 1, done |-> 0,
   crashed |-> 0]
PassLeft == 2 * Len(queue) + PumpPlace[pump]

\* Every step of it brings it nearer, until the call returns and the next one
\* begins; only the reader gives it more to do.
PassRunsOut ==
  /\ Pump => PassLeft' < PassLeft \/ (Flush /\ working)
  /\ Put => (PassLeft' = PassLeft + 2)
  /\ ~(Pump \/ Put) => PassLeft' <= PassLeft

\* The end marker is where the reader put it, or was taken, or was cleared.
FateInv == reader = "ended" => None \in Range(queue) \/ ~working \/ endLost

\* The reader waits or has ended, the queue and the buffer are empty: a reader
\* whose program is over has ended, all that was written is shown or was
\* cleared, and the update thread is on its way to the banner, or past it,
\* unless the marker was cleared.
RestIsDone ==
  ~ReaderReady /\ queue = <<>> /\ text = <<>> =>
    /\ Over => reader \in {"ended", "failed"}
    /\ kind \notin NonBlockingKinds /\ ~hungUp /\ reader # "failed" /\ pump # "crashed"
         => 1..written \subseteq Range(shown) \cup lost
    /\ reader = "ended" /\ pump # "crashed"
         => banner # "none" \/ (~working /\ pump \in {"flush", "banner"}) \/ endLost

\* The REPL does not count as alive any more, and the update thread is in its
\* loop with nothing but that test to make: whatever is in the queue, the marker
\* too, it does not take.
Stranded == ~IsAlive /\ working /\ pump \in {"check", "flush"}

(* Types of what the measures are made of.                                 *)
LEMMA LeftTypes ==
  ASSUME TypeInv
  PROVE  /\ written \in Nat /\ taken \in Nat /\ taken <= written
         /\ ReaderPlace \in 0..3 /\ ReaderLeft \in Nat
         /\ Len(queue) \in Nat /\ PumpPlace[pump] \in 0..5 /\ PassLeft \in Nat
<1>1. written \in Nat /\ taken \in Nat /\ taken <= written
  BY BoundsAssumption DEF TypeInv, TypeOK
<1>2. ReaderPlace \in 0..3
  BY DEF TypeInv, TypeOK, ReaderPlace
<1>3. Len(queue) \in Nat
  BY LenProperties DEF TypeInv, TypeOK
<1>4. PumpPlace[pump] \in 0..5
  BY DEF TypeInv, TypeOK, PumpPlace
<1> QED BY <1>1, <1>2, <1>3, <1>4 DEF ReaderLeft, PassLeft

(* What the places of the reader thread count.                             *)
LEMMA ReaderPlaces ==
  /\ reader = "reading" => ReaderPlace = 2
  /\ reader = "putting" => ReaderPlace = IF held = None THEN 1 ELSE 3
  /\ reader \in {"ended", "failed"} => ReaderPlace = 0
  BY DEF ReaderPlace

(* All steps but the reader's leave it where it is.                        *)
LEMMA ReaderUntouched ==
  [Next]_vars => Reader \/ UNCHANGED <<taken, reader, held>>
<1>1. ProgramWrites \/ ProgramEnds => UNCHANGED readerVars
  BY DEF ProgramWrites, ProgramEnds
<1>2. Pump => UNCHANGED readerVars
  BY DEF Pump, CheckAlive, GetEmpty, GetEnd, GetUnit, GetList, Flush, WriteBanner,
     AutoClose
<1>3. UiContinues => UNCHANGED readerVars
  BY DEF UiContinues, EndKill, KillRaises, DropAlive, Deregister, ClearQueue,
     TypeSignal
<1>4. User => UNCHANGED readerVars
  BY DEF User, Kill, CloseView, SendSignal, Enter
<1>5. UNCHANGED vars => UNCHANGED readerVars
  BY DEF vars
<1> QED BY <1>1, <1>2, <1>3, <1>4, <1>5 DEF Next, readerVars

(* Only the program writes.                                                *)
LEMMA WrittenUntouched == [Next]_vars => ProgramWrites \/ UNCHANGED written
<1>1. ProgramEnds => UNCHANGED written
  BY DEF ProgramEnds
<1>2. Reader => UNCHANGED written
  BY DEF Reader, ReadUnit, ReadNothing, ReadRaises, Put, programVars
<1>3. Pump => UNCHANGED written
  BY DEF Pump, CheckAlive, GetEmpty, GetEnd, GetUnit, GetList, Flush, WriteBanner,
     AutoClose, programVars
<1>4. UiContinues => UNCHANGED written
  BY DEF UiContinues, EndKill, KillRaises, DropAlive, Deregister, ClearQueue,
     TypeSignal, programVars
<1>5. User => UNCHANGED written
  BY DEF User, Kill, CloseView, SendSignal, Enter, programVars
<1>6. UNCHANGED vars => UNCHANGED written
  BY DEF vars, programVars
<1> QED BY <1>1, <1>2, <1>3, <1>4, <1>5, <1>6 DEF Next

(* Arithmetic of a unit taken.                                             *)
LEMMA OneUnitLess ==
  ASSUME NEW w \in Int, NEW t \in Int, NEW p \in Nat, p <= 3
  PROVE  2 * (w - (t + 1)) + p < 2 * (w - t) + 2
  OBVIOUS

(* Every step does to the reader's way what ReaderRunsOut says.            *)
LEMMA ReaderLeftStep ==
  ASSUME TypeInv, TypeInv', [Next]_vars
  PROVE  ReaderRunsOut
<1>1. /\ written \in Nat /\ taken \in Nat /\ taken <= written
      /\ ReaderLeft = 2 * (written - taken) + ReaderPlace
      /\ ReaderLeft' = 2 * (written' - taken') + ReaderPlace'
  BY LeftTypes DEF ReaderLeft
<1>2. ASSUME Reader PROVE ReaderLeft' < ReaderLeft
  <2>1. UNCHANGED written
    BY <1>2 DEF Reader, ReadUnit, ReadNothing, ReadRaises, Put, programVars
  <2>2. CASE ReadUnit
    <3>1. taken' = taken + 1
      BY <2>2 DEF ReadUnit
    <3>2. ReaderPlace = 2 /\ ReaderPlace' \in {1, 3}
      <4>1. reader = "reading" /\ reader' = "putting"
        BY <2>2 DEF ReadUnit
      <4>2. ReaderPlace = 2
        BY <4>1 DEF ReaderPlace
      <4>3. ReaderPlace' \in {1, 3}
        BY <4>1 DEF ReaderPlace
      <4> QED BY <4>2, <4>3
    <3>3. ReaderPlace' \in Nat /\ ReaderPlace' <= 3
      BY <3>2
    <3>4. ReaderLeft' = 2 * (written - (taken + 1)) + ReaderPlace'
      BY <1>1, <2>1, <3>1
    <3>5. ReaderLeft = 2 * (written - taken) + 2 /\ written \in Int /\ taken \in Int
      BY <1>1, <3>2
    <3> QED BY <3>3, <3>4, <3>5, OneUnitLess
  <2>3. CASE ReadNothing
    <3>1. UNCHANGED taken /\ ReaderPlace = 2 /\ ReaderPlace' = 1
      BY <2>3 DEF ReadNothing, ReaderPlace, None
    <3> QED BY <1>1, <2>1, <3>1
  <2>4. CASE ReadRaises
    <3>1. UNCHANGED taken /\ ReaderPlace = 2 /\ ReaderPlace' = 0
      BY <2>4 DEF ReadRaises, ReaderPlace
    <3> QED BY <1>1, <2>1, <3>1
  <2>5. CASE Put
    <3>1. /\ UNCHANGED taken
          /\ \/ ReaderPlace = 1 /\ ReaderPlace' = 0
             \/ ReaderPlace = 3 /\ ReaderPlace' = 2
      BY <2>5 DEF Put, ReaderPlace
    <3> QED BY <1>1, <2>1, <3>1
  <2> QED BY <1>2, <2>2, <2>3, <2>4, <2>5 DEF Reader
<1>3. ASSUME ProgramWrites PROVE ReaderLeft' = ReaderLeft + 2
  <2>1. written' = written + 1 /\ UNCHANGED <<taken, reader, held>>
    BY <1>3 DEF ProgramWrites, readerVars
  <2>2. ReaderPlace' = ReaderPlace /\ ReaderPlace \in 0..3
    BY <2>1, LeftTypes DEF ReaderPlace, None
  <2> QED BY <1>1, <2>1, <2>2
<1>4. ASSUME ~(Reader \/ ProgramWrites) PROVE ReaderLeft' = ReaderLeft
  <2>1. UNCHANGED <<written, taken, reader, held>>
    BY <1>4, ReaderUntouched, WrittenUntouched
  <2> QED BY <2>1 DEF ReaderLeft, ReaderPlace, None
<1> QED BY <1>2, <1>3, <1>4 DEF ReaderRunsOut

(* The reader thread comes to its end, or to a read() that blocks, in a     *)
(* bounded number of steps: 2 for every unit the program has written and it *)
(* has not taken, and at most 3 more.                                       *)
THEOREM ReaderRuns == Spec => [](ReaderLeft \in Nat) /\ [][ReaderRunsOut]_vars
<1>1. TypeInv => ReaderLeft \in Nat
  BY LeftTypes
<1>2. TypeInv /\ TypeInv' /\ [Next]_vars => [ReaderRunsOut]_vars
  BY ReaderLeftStep
<1> QED BY <1>1, <1>2, TypeInit, TypeStep, PTL DEF Spec

(* The lengths that the queue may take.                                    *)
LEMMA QueueLengths ==
  ASSUME TypeInv, NEW q \in Seq(Packets)
  PROVE  /\ \A x \in Packets : Len(Append(q, x)) = Len(q) + 1
         /\ q # <<>> => Len(Tail(q)) = Len(q) - 1
         /\ Len(q) \in Nat /\ Len(<<>>) = 0
<1>1. \A x \in Packets : Len(Append(q, x)) = Len(q) + 1
  BY AppendProperties
<1>2. q # <<>> => Len(Tail(q)) = Len(q) - 1
  BY HeadTailProperties
<1>3. Len(q) \in Nat /\ Len(<<>>) = 0
  BY LenProperties, EmptySeq
<1> QED BY <1>1, <1>2, <1>3

(* Every step does to the update thread's way what PassRunsOut says.       *)
LEMMA PassLeftStep ==
  ASSUME TypeInv, FlowInv, TypeInv', [Next]_vars
  PROVE  PassRunsOut
<1> DEFINE n == Len(queue)
           p == PumpPlace[pump]
           n1 == Len(queue')
           p1 == PumpPlace[pump']
<1>1. /\ n \in Nat /\ p \in 0..5
      /\ PassLeft = 2 * n + p /\ PassLeft' = 2 * n1 + p1
  BY LeftTypes DEF PassLeft, PumpPlace
<1>2. queue \in Seq(Packets) /\ held \in Packets
  BY FlowTypes
<1>3. /\ PumpPlace["check"] = 5 /\ PumpPlace["get"] = 4 /\ PumpPlace["flush"] = 3
      /\ PumpPlace["banner"] = 2 /\ PumpPlace["close"] = 1 /\ PumpPlace["done"] = 0
      /\ PumpPlace["crashed"] = 0
  BY DEF PumpPlace
<1>4. ASSUME Pump PROVE PassLeft' < PassLeft \/ (Flush /\ working)
  <2>1. CASE CheckAlive
    <3>1. n1 = n /\ p = 5 /\ p1 \in {3, 4}
      BY <1>3, <2>1 DEF CheckAlive
    <3> HIDE DEF n, n1, p, p1
    <3> QED BY <1>1, <3>1
  <2>2. CASE GetEmpty
    <3>1. n1 = n /\ p = 4 /\ p1 = 3
      BY <1>3, <2>2 DEF GetEmpty
    <3> HIDE DEF n, n1, p, p1
    <3> QED BY <1>1, <3>1
  <2>3. CASE GetEnd \/ GetUnit \/ GetList
    <3>1. queue # <<>> /\ queue' = Tail(queue)
      BY <2>3 DEF GetEnd, GetUnit, GetList
    <3>2. n1 = n - 1
      BY <1>2, <3>1, QueueLengths
    <3>3. p = 4 /\ p1 \in {3, 5, 0}
      BY <1>3, <2>3 DEF GetEnd, GetUnit, GetList
    <3> HIDE DEF n, n1, p, p1
    <3> QED BY <1>1, <3>2, <3>3
  <2>4. CASE Flush /\ ~working
    <3>1. n1 = n /\ p = 3 /\ p1 = 2
      BY <1>3, <2>4 DEF Flush
    <3> HIDE DEF n, n1, p, p1
    <3> QED BY <1>1, <3>1
  <2>5. CASE WriteBanner \/ AutoClose
    <3>1. n1 = n /\ p1 < p
      BY <1>3, <2>5 DEF WriteBanner, AutoClose
    <3>2. p1 \in 0..5
      BY <1>3, <2>5 DEF WriteBanner, AutoClose
    <3> HIDE DEF n, n1, p, p1
    <3> QED BY <1>1, <3>1, <3>2
  <2> QED BY <1>4, <2>1, <2>2, <2>3, <2>4, <2>5 DEF Pump
<1>5. ASSUME Put PROVE PassLeft' = PassLeft + 2
  <2>1. queue' = Append(queue, held) /\ pump' = pump
    BY <1>5 DEF Put, pumpVars
  <2>2. n1 = n + 1 /\ p1 = p
    BY <1>2, <2>1, QueueLengths
  <2> HIDE DEF n, n1, p, p1
  <2> QED BY <1>1, <2>2
<1>6. ASSUME ~(Pump \/ Put) PROVE PassLeft' <= PassLeft
  <2>1. pump' = pump
    BY <1>6, PumpUntouched
  <2>2. n1 = n \/ n1 = 0
    <3>1. CASE QuietStep
      BY <3>1, QuietSteps
    <3>2. CASE ReadUnit
      BY <3>2 DEF ReadUnit
    <3>3. CASE ClearQueue
      BY <1>2, <3>3, QueueLengths DEF ClearQueue
    <3> QED BY <1>6, <3>1, <3>2, <3>3, StepCases DEF Pump
  <2>3. p1 = p
    BY <2>1
  <2> HIDE DEF n, n1, p, p1
  <2> QED BY <1>1, <2>2, <2>3
<1> QED BY <1>4, <1>5, <1>6 DEF PassRunsOut

(* A call of handle_repl_output returns, and the loop around it writes the  *)
(* banner once the call returned False, in a bounded number of steps: 2 for *)
(* every packet in the queue, and at most 5 more.                           *)
THEOREM PassRuns == Spec => [](PassLeft \in Nat) /\ [][PassRunsOut]_vars
<1>1. TypeInv => PassLeft \in Nat
  BY LeftTypes
<1>2. TypeInv /\ FlowInv /\ TypeInv' /\ [Next]_vars => [PassRunsOut]_vars
  BY PassLeftStep
<1> QED BY <1>1, <1>2, FlowCorrect, PTL DEF Spec

(* Every step keeps FateInv.                                               *)
LEMMA FateStep ==
  TypeInv /\ FlowInv /\ FateInv /\ [Next]_vars => FateInv'
<1> SUFFICES ASSUME TypeInv, FlowInv, FateInv, [Next]_vars, reader' = "ended"
             PROVE  (None \in Range(queue) \/ ~working \/ endLost)'
  BY DEF FateInv
<1>1. queue \in Seq(Packets) /\ held \in Packets /\ Packets \subseteq Nat
  BY FlowTypes, PacketsAreNumbers
<1>2. CASE QuietStep
  <2>1. UNCHANGED <<queue, working>> /\ reader = "ended"
    BY <1>2, QuietSteps
  <2>2. UNCHANGED endLost
    BY <1>2 DEF QuietStep, ProgramWrites, ProgramEnds, ReadNothing, ReadRaises,
       CheckAlive, GetEmpty, WriteBanner, AutoClose, EndKill, KillRaises,
       DropAlive, Deregister, TypeSignal, User, Kill, CloseView, SendSignal,
       Enter, vars, lossVars
  <2> QED BY <2>1, <2>2 DEF FateInv
<1>3. CASE ReadUnit
  BY <1>3 DEF ReadUnit
<1>4. CASE Put
  <2>1. held = None /\ queue' = Append(queue, held)
    BY <1>4 DEF Put
  <2>2. None \in Range(queue')
    <3>1. Range(Append(queue, held)) = Range(queue) \cup {held}
      BY <1>1, AppendAscending
    <3> QED BY <2>1, <3>1
  <2> QED BY <2>2
<1>5. CASE GetEnd
  BY <1>5 DEF GetEnd
<1>6. CASE GetUnit \/ GetList
  <2>1. /\ UNCHANGED <<reader, working, endLost>>
        /\ queue # <<>> /\ queue' = Tail(queue) /\ Head(queue) # None
    BY <1>6 DEF GetUnit, GetList, readerVars, lossVars
  <2>2. Range(queue) = {Head(queue)} \cup Range(queue')
    BY <2>1, FlowHead
  <2> QED BY <2>1, <2>2 DEF FateInv
<1>7. CASE Flush
  BY <1>7 DEF Flush, readerVars, lossVars, FateInv
<1>8. CASE ClearQueue
  <2>1. /\ UNCHANGED <<reader, working>>
        /\ endLost' = (endLost \/ None \in Range(queue))
    BY <1>8 DEF ClearQueue, readerVars, pumpVars
  <2> QED BY <2>1 DEF FateInv
<1> QED BY <1>2, <1>3, <1>4, <1>5, <1>6, <1>7, <1>8, StepCases

(* When the reader waits or has ended and the update thread has nothing to  *)
(* write, what was to be done is done: the program's output is in the view  *)
(* and its end has reached, or is about to reach, the banner.  The one way  *)
(* out of this is a cleared marker, or a pump or reader that died.          *)
THEOREM DoneAtRest == Spec => []RestIsDone
<1>1. Init => FateInv
  BY DEF Init, FateInv
<1>2. Spec => []FateInv
  BY <1>1, FateStep, FlowCorrect, PTL DEF Spec
<1>3. TypeInv /\ FlowInv /\ EndInv /\ PlaceInv /\ SkipInv /\ FateInv => RestIsDone
  <2> SUFFICES ASSUME TypeInv, FlowInv, EndInv, PlaceInv, SkipInv, FateInv,
                      ~ReaderReady, queue = <<>>, text = <<>>
               PROVE  /\ Over => reader \in {"ended", "failed"}
                      /\ kind \notin NonBlockingKinds /\ ~hungUp /\ reader # "failed"
                           /\ pump # "crashed"
                           => 1..written \subseteq Range(shown) \cup lost
                      /\ reader = "ended" /\ pump # "crashed"
                           => \/ banner # "none"
                              \/ ~working /\ pump \in {"flush", "banner"}
                              \/ endLost
    BY DEF RestIsDone
  <2>1. /\ reader \in {"reading", "putting", "ended", "failed"}
        /\ written \in Nat /\ taken \in Nat /\ taken <= written
        /\ pump \in {"check", "get", "flush", "banner", "close", "done", "crashed"}
    BY LeftTypes DEF TypeInv, TypeOK
  <2>2. /\ reader # "putting"
        /\ reader = "reading" => /\ ~(taken < written) /\ ~Over
    BY DEF ReaderReady
  <2>3. Over => reader \in {"ended", "failed"}
    BY <2>1, <2>2
  <2>4. Range(queue) = {} /\ Flow = Range(shown) /\ Hand = {}
    BY <2>2, EmptyAscending DEF Flow, Hand
  <2>5. ASSUME kind \notin NonBlockingKinds, ~hungUp, reader # "failed",
               pump # "crashed"
        PROVE  1..written \subseteq Range(shown) \cup lost
    <3>1. taken = written
      <4>1. CASE reader = "ended"
        BY <2>5, <4>1 DEF EndInv
      <4>2. CASE reader = "reading"
        BY <2>1, <2>2, <4>2
      <4> QED BY <2>1, <2>2, <2>5, <4>1, <4>2
    <3> QED BY <2>4, <2>5, <3>1 DEF SkipInv
  <2>6. ASSUME reader = "ended", pump # "crashed", ~endLost
        PROVE  banner # "none" \/ (~working /\ pump \in {"flush", "banner"})
    <3>1. ~working
      BY <2>4, <2>6 DEF FateInv
    <3> QED BY <2>1, <2>6, <3>1 DEF PlaceInv
  <2> QED BY <2>3, <2>5, <2>6
<1> QED BY <1>2, <1>3, PlaceCorrect, SkipCorrect, PTL

(* A step that finds the update thread stranded leaves it there.           *)
LEMMA StrandedStep ==
  ASSUME TypeInv, PlaceInv, Stranded, [Next]_vars
  PROVE  Stranded' /\ banner' = banner /\ banner = "none"
<1>1. /\ working /\ pump \in {"check", "flush"} /\ ~IsAlive /\ banner = "none"
      /\ proc \in {"running", "dead"} /\ alive \in BOOLEAN
  BY DEF Stranded, PlaceInv, TypeInv, TypeOK
<1>2. kind' = kind /\ (alive' => alive) /\ (proc = "dead" => proc' = "dead")
  <2>1. CASE ProgramWrites \/ ProgramEnds \/ Reader
    BY <2>1 DEF ProgramWrites, ProgramEnds, Reader, ReadUnit, ReadNothing,
       ReadRaises, Put, programVars, flagVars, fixedVars
  <2>2. CASE Pump
    BY <2>2 DEF Pump, CheckAlive, GetEmpty, GetEnd, GetUnit, GetList, Flush,
       WriteBanner, AutoClose, programVars, flagVars, fixedVars
  <2>6. MayDropAlive => (alive' => alive)
    BY DEF MayDropAlive
  <2>7. BeginKill => (alive' => alive)
    BY DEF BeginKill
  <2>3. CASE UiContinues
    <3>1. CASE EndKill
      BY <1>1, <3>1 DEF EndKill, fixedVars
    <3>2. CASE KillRaises \/ Deregister \/ ClearQueue
      BY <3>2 DEF KillRaises, Deregister, ClearQueue, programVars, flagVars, fixedVars
    <3>3. CASE DropAlive
      BY <3>3 DEF DropAlive, programVars, fixedVars
    <3>4. CASE TypeSignal
      BY <2>6, <3>4 DEF TypeSignal, programVars, fixedVars
    <3> QED BY <2>3, <3>1, <3>2, <3>3, <3>4 DEF UiContinues
  <2>4. CASE User
    <3>1. CASE Kill
      BY <2>7, <3>1 DEF Kill, programVars, fixedVars
    <3>2. CASE CloseView
      BY <2>7, <3>2 DEF CloseView, programVars, fixedVars
    <3>3. CASE SendSignal
      BY <3>3 DEF SendSignal, programVars, fixedVars
    <3>4. CASE Enter
      BY <2>6, <3>4 DEF Enter, programVars, fixedVars
    <3> QED BY <2>4, <3>1, <3>2, <3>3, <3>4 DEF User
  <2>5. CASE UNCHANGED vars
    BY <2>5 DEF vars, programVars, flagVars, fixedVars
  <2> QED BY <2>1, <2>2, <2>3, <2>4, <2>5 DEF Next
<1>3. ~IsAlive'
  BY <1>1, <1>2 DEF IsAlive
<1>4. CASE Pump
  <2>1. CheckAlive \/ Flush
    BY <1>1, <1>4 DEF Pump, GetEmpty, GetEnd, GetUnit, GetList, WriteBanner, AutoClose
  <2>2. working' = working /\ pump' \in {"check", "flush"} /\ banner' = banner
    BY <1>1, <2>1 DEF CheckAlive, Flush
  <2> QED BY <1>1, <1>3, <2>2 DEF Stranded
<1>5. CASE ~Pump
  <2>1. UNCHANGED <<pump, working, banner>>
    BY <1>5, PumpUntouched
  <2> QED BY <1>1, <1>3, <2>1 DEF Stranded
<1> QED BY <1>4, <1>5

(* Once the update thread sees a REPL that does not count as alive any more *)
(* before it took the marker, no closing banner is ever written: _alive and *)
(* poll() do not come back, and the loop takes nothing more off the queue.  *)
THEOREM StrandedForEver ==
  Spec => [][Stranded => Stranded' /\ banner' = banner /\ banner = "none"]_vars
<1>1. TypeInv /\ PlaceInv /\ [Next]_vars
        => [Stranded => Stranded' /\ banner' = banner /\ banner = "none"]_vars
  BY StrandedStep
<1> QED BY <1>1, PlaceCorrect, PTL DEF Spec
=============================================================================
