---------------------------- MODULE Interceptor ----------------------------
(***************************************************************************)
(* interceptor/interceptor.py: the UI thread borrows the terminal of an    *)
(* ssh_paramiko or winpty REPL for a command of its own (pwd, echo $USER,  *)
(* compgen, a Tab for cmd.exe) and keeps the answer off the view.          *)
(*                                                                         *)
(*   reader  ReplReader calls Interceptor._read_bytes: what _recv() brings *)
(*           is returned to the view, or put into _recv_Q (maxsize 1)      *)
(*           while _intercept_recv is set.                                 *)
(*   ui      Interceptor._intercept_cmd: raise the flag, write the         *)
(*           command, Tries gets of 10 ms each, lower the flag, get_nowait *)
(*           and clear.                                                    *)
(*                                                                         *)
(* The two threads share the flag without a lock.  queue.Queue is modelled *)
(* from its documented behaviour: put blocks while the queue is full and   *)
(* waits for a get to notify it; queue.clear() on the underlying deque     *)
(* notifies nobody.  A unit is what one _recv() returns, numbered.         *)
(***************************************************************************)
EXTENDS SeqOrder

CONSTANTS
  Tries,          \* range(5) in _recv_intercepted
  MaxUnits,       \* bound: units the remote side sends
  MaxIntercepts   \* bound: commands intercepted

ASSUME TriesAssumption == Tries \in Nat \ {0}
ASSUME BoundsAssumption == MaxUnits \in Nat /\ MaxIntercepts \in Nat

QueueSize == 1    \* Queue(maxsize=1)
Units == 1..MaxUnits

VARIABLES
  connected,   \* the remote side keeps the channel open
  sent,        \* units the remote side has sent
  received,    \* units _recv() has returned
  reader,      \* "recv", "test", "put", "wait" (in put, queue full), "ended"
  held,        \* the reader's _bytes
  returned,    \* units returned to Repl.read, on their way to the view
  interceptRecv, \* _intercept_recv
  recvQ,       \* _recv_Q
  ui,          \* where the UI thread stands in _intercept_cmd
  isCmd,       \* _is_cmd: cmd.exe, whose line is wiped with an escape
  tries,       \* gets done by _recv_intercepted
  answer,      \* what _recv_intercepted has collected
  intercepts,  \* commands intercepted so far
  swallowed    \* history: units that went into _recv_Q

remoteVars == <<connected, sent>>
readerVars == <<received, held, returned>>
uiVars == <<tries, answer, intercepts, isCmd>>
vars == <<remoteVars, readerVars, reader, interceptRecv, recvQ, ui, uiVars,
          swallowed>>

Init ==
  /\ connected = TRUE /\ sent = 0
  /\ received = 0 /\ reader = "recv" /\ held = 0 /\ returned = <<>>
  /\ interceptRecv = FALSE /\ recvQ = <<>>
  /\ ui = "idle" /\ isCmd \in BOOLEAN
  /\ tries = 0 /\ answer = <<>> /\ intercepts = 0
  /\ swallowed = {}

-----------------------------------------------------------------------------
(* The remote side, which answers whenever it likes.                       *)

RemoteSends ==
  /\ connected /\ sent < MaxUnits
  /\ sent' = sent + 1
  /\ UNCHANGED <<connected, readerVars, reader, interceptRecv, recvQ, ui,
                 uiVars, swallowed>>

RemoteCloses ==
  /\ connected
  /\ connected' = FALSE
  /\ UNCHANGED <<sent, readerVars, reader, interceptRecv, recvQ, ui, uiVars,
                 swallowed>>

-----------------------------------------------------------------------------
(* The reader thread: _read_bytes.                                         *)

\* ret, _bytes = self._repl._recv() with some bytes ...
Recv ==
  /\ reader = "recv" /\ received < sent
  /\ received' = received + 1 /\ held' = received + 1
  /\ reader' = "test"
  /\ UNCHANGED <<remoteVars, returned, interceptRecv, recvQ, ui, uiVars,
                 swallowed>>

\* ... and at the end of the stream.
RecvEnd ==
  /\ reader = "recv" /\ received = sent /\ ~connected
  /\ reader' = "ended"
  /\ UNCHANGED <<remoteVars, readerVars, interceptRecv, recvQ, ui, uiVars,
                 swallowed>>

\* if self._intercept_recv: ... put, else return _bytes.  The flag is read
\* once, the put comes later.
TestFlag ==
  /\ reader = "test"
  /\ IF interceptRecv
       THEN reader' = "put" /\ UNCHANGED returned
       ELSE reader' = "recv" /\ returned' = Append(returned, held)
  /\ UNCHANGED <<remoteVars, received, held, interceptRecv, recvQ, ui, uiVars,
                 swallowed>>

\* What if the loop did not continue after the put, but returned the unit too?
PutAndReturn ==
  /\ reader = "put" /\ Len(recvQ) < QueueSize
  /\ recvQ' = Append(recvQ, held)
  /\ swallowed' = swallowed \cup {held}
  /\ returned' = Append(returned, held)
  /\ reader' = "recv"
  /\ UNCHANGED <<remoteVars, received, held, interceptRecv, ui, uiVars>>

\* What if the queue had no room limit, the put never waiting?
PutAnyway ==
  /\ reader = "put"
  /\ recvQ' = Append(recvQ, held)
  /\ swallowed' = swallowed \cup {held}
  /\ reader' = "recv"
  /\ UNCHANGED <<remoteVars, readerVars, interceptRecv, ui, uiVars>>

\* Queue.put under the mutex: room for the unit ...
PutUnit ==
  /\ reader = "put" /\ Len(recvQ) < QueueSize
  /\ recvQ' = Append(recvQ, held)
  /\ swallowed' = swallowed \cup {held}
  /\ reader' = "recv"
  /\ UNCHANGED <<remoteVars, readerVars, interceptRecv, ui, uiVars>>

\* ... or not_full.wait() until somebody notifies.
PutWait ==
  /\ reader = "put" /\ Len(recvQ) >= QueueSize
  /\ reader' = "wait"
  /\ UNCHANGED <<remoteVars, readerVars, interceptRecv, recvQ, ui, uiVars,
                 swallowed>>

Reader == Recv \/ RecvEnd \/ TestFlag \/ PutUnit \/ PutWait

-----------------------------------------------------------------------------
(* The UI thread: _intercept_cmd.                                          *)

\* What if items were taken off the deque behind the queue's back?
TakeSilently ==
  /\ recvQ # <<>>
  /\ recvQ' = Tail(recvQ)
  /\ UNCHANGED reader

\* Queue.get: not_full.notify() wakes the waiting put, which tests again.
TakeAndNotify ==
  /\ recvQ # <<>>
  /\ recvQ' = Tail(recvQ)
  /\ reader' = IF reader = "wait" THEN "put" ELSE reader

\* self._intercept_recv = True
Raise ==
  /\ ui = "idle" /\ intercepts < MaxIntercepts
  /\ intercepts' = intercepts + 1
  /\ interceptRecv' = TRUE /\ ui' = "write"
  /\ UNCHANGED <<remoteVars, readerVars, reader, recvQ, tries, answer, isCmd,
                 swallowed>>

\* self._repl._write_bytes(_bytes), which may raise on a closed channel.
WriteCommand ==
  /\ ui = "write"
  /\ answer' = <<>> /\ tries' = 0
  /\ ui' \in IF connected THEN {"collect"} ELSE {"collect", "lower"}
  /\ UNCHANGED <<remoteVars, readerVars, reader, interceptRecv, recvQ,
                 intercepts, isCmd, swallowed>>

AfterTry ==
  /\ tries' = tries + 1
  /\ ui' = IF tries + 1 < Tries THEN "collect"
           ELSE IF isCmd THEN "escape" ELSE "lower"

\* What if later bytes were put in front of earlier ones?
GetAnswerInFront ==
  /\ ui = "collect"
  /\ TakeAndNotify
  /\ answer' = <<Head(recvQ)>> \o answer
  /\ AfterTry
  /\ UNCHANGED <<remoteVars, readerVars, interceptRecv, intercepts, isCmd,
                 swallowed>>

\* _bytes += self._recv_Q.get(timeout=0.01)
GetAnswer ==
  /\ ui = "collect"
  /\ TakeAndNotify
  /\ answer' = Append(answer, Head(recvQ))
  /\ AfterTry
  /\ UNCHANGED <<remoteVars, readerVars, interceptRecv, intercepts, isCmd,
                 swallowed>>

\* What if get were called without a timeout?
GetBlocks ==
  /\ ui = "collect" /\ recvQ = <<>>
  /\ UNCHANGED vars

\* except Empty: pass -- after 10 ms with an empty queue.
GetTimesOut ==
  /\ ui = "collect" /\ recvQ = <<>>
  /\ AfterTry
  /\ UNCHANGED <<remoteVars, readerVars, reader, interceptRecv, recvQ, answer,
                 intercepts, isCmd, swallowed>>

\* self._repl._write_bytes(b'\x1b') for cmd.exe.
WriteEscape ==
  /\ ui = "escape"
  /\ ui' = "lower"
  /\ UNCHANGED <<remoteVars, readerVars, reader, interceptRecv, recvQ, uiVars,
                 swallowed>>

\* What if the flag stayed up?
LowerForgotten ==
  /\ ui = "lower"
  /\ ui' = "drain"
  /\ UNCHANGED <<remoteVars, readerVars, reader, interceptRecv, recvQ, uiVars,
                 swallowed>>

\* finally: self._intercept_recv = False
Lower ==
  /\ ui = "lower"
  /\ interceptRecv' = FALSE /\ ui' = "drain"
  /\ UNCHANGED <<remoteVars, readerVars, reader, recvQ, uiVars, swallowed>>

\* What if clear() alone were used to empty the queue?
DrainMissing ==
  /\ ui = "drain"
  /\ ui' = "wipe"
  /\ UNCHANGED <<remoteVars, readerVars, reader, interceptRecv, recvQ, uiVars,
                 swallowed>>

\* self._recv_Q.get_nowait(), or Empty.
Drain ==
  /\ ui = "drain"
  /\ \/ TakeAndNotify
     \/ recvQ = <<>> /\ UNCHANGED <<recvQ, reader>>
  /\ ui' = "wipe"
  /\ UNCHANGED <<remoteVars, readerVars, interceptRecv, uiVars, swallowed>>

\* with self._recv_Q.mutex: self._recv_Q.queue.clear() -- without a notify.
Wipe ==
  /\ ui = "wipe"
  /\ recvQ' = <<>> /\ ui' = "idle"
  /\ UNCHANGED <<remoteVars, readerVars, reader, interceptRecv, uiVars,
                 swallowed>>

InterceptSteps == WriteCommand \/ GetAnswer \/ GetTimesOut \/ WriteEscape
                  \/ Lower \/ Drain \/ Wipe

Next == RemoteSends \/ RemoteCloses \/ Reader \/ Raise \/ InterceptSteps

Spec == Init /\ [][Next]_vars

(* Both threads run; the remote side and the user need not do anything.    *)
FairSpec == Spec /\ WF_vars(Reader) /\ WF_vars(InterceptSteps)
-----------------------------------------------------------------------------
(* Safety.                                                                 *)

TypeOK ==
  /\ connected \in BOOLEAN /\ sent \in 0..MaxUnits
  /\ received \in 0..sent
  /\ reader \in {"recv", "test", "put", "wait", "ended"}
  /\ held \in 0..MaxUnits /\ returned \in Seq(Units)
  /\ interceptRecv \in BOOLEAN
  /\ recvQ \in Seq(Units) /\ Len(recvQ) <= QueueSize
  /\ ui \in {"idle", "write", "collect", "escape", "lower", "drain", "wipe"}
  /\ isCmd \in BOOLEAN /\ tries \in 0..Tries /\ answer \in Seq(Units)
  /\ intercepts \in 0..MaxIntercepts /\ swallowed \in SUBSET Units

\* The reader sits on a unit it is about to hand on.
Holding == reader \in {"test", "put", "wait"}

(* The reader is never left asleep in put: while it waits for room, the UI  *)
(* thread still has a get before it.  This is why _intercept_cmd does a     *)
(* get_nowait before it clears the queue.                                   *)
NoStuckReader ==
  reader = "wait" =>
    /\ recvQ # <<>>
    /\ ui \in {"write", "collect", "escape", "lower", "drain"}

(* An answer that is late for its command leaves at most one unit behind    *)
(* when the command is over -- in the queue or in the reader's hands, for   *)
(* the next command to find.                                                *)
AtMostOneLeftBehind ==
  ui \in {"wipe", "idle"} =>
    Len(recvQ) + (IF reader \in {"put", "wait"} THEN 1 ELSE 0) <= QueueSize

(* Every unit that arrived went exactly one way: to the view, into the      *)
(* queue of answers, or it is still in the reader's hands.                  *)
UnitsGoOneWay ==
  /\ 1..received = Range(returned) \cup swallowed
                     \cup (IF Holding THEN {held} ELSE {})
  /\ Range(returned) \cap swallowed = {}
  /\ Holding => held \notin Range(returned) \cup swallowed

(* An intercepted command answers with units in the order they came.        *)
AnswerInOrder == Ascending(answer \o (IF ui = "collect" THEN recvQ ELSE <<>>))

(* To the view the interceptor is a stream of output of which some units    *)
(* are left out.                                                            *)
Stream == INSTANCE OutputStream WITH
            written <- sent, shown <- returned, discarded <- swallowed,
            ended <- FALSE
StreamSpec == Stream!Spec
-----------------------------------------------------------------------------
(* Liveness.                                                               *)

(* A put that had to wait goes through, however the interceptor's calls     *)
(* fall.                                                                    *)
PutGoesThrough == reader \in {"put", "wait"} ~> reader = "recv"

(* The UI thread is not held up for good: an intercepted command ends, also *)
(* when the remote side never answers.                                      *)
InterceptEnds == (ui = "write") ~> (ui = "idle")

(* What the remote side sends reaches the view or the interceptor.          *)
NothingStays ==
  \A n \in Units : (n <= sent) ~> (n \in Range(returned) \cup swallowed)
=============================================================================
