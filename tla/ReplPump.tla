------------------------------ MODULE ReplPump ------------------------------
(***************************************************************************)
(* How the output of a running program reaches its Sublime Text view, and  *)
(* how the end of the program reaches it: the three threads of             *)
(* sublimerepl.py and the operations of repls/*.py that they call.         *)
(*                                                                         *)
(*   reader   ReplReader.run: blocking repl.read(), q.put(result), until   *)
(*            read() returned None.                                        *)
(*   pump     ReplView._update_view_loop / handle_repl_output: takes       *)
(*            packets off the queue while repl.is_alive(), writes them     *)
(*            into the view, and writes the closing banner after None.     *)
(*   ui       Sublime's main thread: the kill and signal commands, Enter,  *)
(*            closing the view.                                            *)
(*                                                                         *)
(* One unit of output is what one repl.read() returns, numbered in the     *)
(* order it was written.  The text of a unit, its decoding and its         *)
(* rendering are abstracted; its order, loss and duplication are not.      *)
(***************************************************************************)
EXTENDS SeqOrder

CONSTANTS
  Kinds,       \* the kinds of Repl (class and platform) a REPL may be of
  MaxOut,      \* bound: units of output the program writes
  MaxSignals   \* bound: signals the user sends

\* Repl.is_alive() asks the operating system whether the process runs ...
PollKinds == {"subprocess", "subprocess_posix", "utop", "winpty"}
\* ... or returns the flag _alive that the plugin maintains itself.
FlagKinds == {"ssh_paramiko", "telnet", "execnet"}

\* Popen without a pty: kill() writes soft_quit to stdin, then kills.
PopenKinds == {"subprocess", "subprocess_posix", "utop"}
\* Reading from these when nothing is there returns no bytes: the pipe is set
\* O_NONBLOCK, or pywinpty sends '0011Ignore', which _read makes b'' of.
NonBlockingKinds == {"subprocess_posix", "utop", "winpty"}
\* read() returns a list of (opcode, data) pairs instead of a string.
ApiV2Kinds == {"utop"}
\* Kinds that have a send_signal method.
SignalKinds == PollKinds \cup {"ssh_paramiko"}
\* A connection broken under a blocked read raises out of read_bytes().
RaisingKinds == {"telnet"}

ASSUME KindsAssumption == Kinds \subseteq PollKinds \cup FlagKinds
ASSUME BoundsAssumption == MaxOut \in Nat /\ MaxSignals \in Nat

Units == 1..MaxOut
\* The end marker, numbered after every unit.
None == MaxOut + 1

VARIABLES
  kind,        \* the kind of this REPL
  autoClose,   \* setting view_auto_close
  \* the program and the channel to it
  proc,        \* "running" or "dead": process, or peer of the connection
  written,     \* units the program has written
  taken,       \* units the reader has taken from pipe or socket
  hungUp,      \* this side has closed the channel
  \* the reader thread
  reader,      \* "reading", "putting", "ended" or "failed"
  held,        \* result of the last read(), not yet in the queue
  queue,       \* ReplReader.queue
  \* the update thread and the view
  pump,        \* where _update_view_loop stands
  working,     \* handle_repl_output's ret
  text,        \* handle_repl_output's text
  shown,       \* units written into the view
  banner,      \* "none", "killed" or "closed": the closing banner
  view,        \* "open", "closing" (close requested) or "closed"
  \* the UI thread and the attributes it shares with the others
  ui,          \* where the UI thread stands in a command
  onClose,     \* that command is ReplView.on_close
  registered,  \* this ReplView is in ReplManager.repl_views
  killed,      \* Repl._killed
  alive,       \* Repl._alive
  signals,     \* signals sent
  lost,        \* history: units dropped by clear_queue
  endLost      \* history: clear_queue dropped the end marker

programVars == <<proc, written>>
readerVars  == <<taken, reader, held>>
pumpVars    == <<pump, working, text, shown, banner>>
uiVars      == <<ui, onClose, registered, signals>>
flagVars    == <<killed, alive, hungUp>>
lossVars    == <<lost, endLost>>
fixedVars   == <<kind, autoClose>>
vars == <<programVars, readerVars, queue, pumpVars, view, uiVars, flagVars,
          lossVars, fixedVars>>

Init ==
  /\ kind \in Kinds
  /\ autoClose \in BOOLEAN
  /\ proc = "running" /\ written = 0 /\ taken = 0 /\ hungUp = FALSE
  /\ reader = "reading" /\ held = None /\ queue = <<>>
  /\ pump = "check" /\ working = TRUE /\ text = <<>>
  /\ shown = <<>> /\ banner = "none" /\ view = "open"
  /\ ui = "idle" /\ onClose = FALSE /\ registered = TRUE
  /\ killed = FALSE /\ alive = TRUE
  /\ signals = 0 /\ lost = {} /\ endLost = FALSE

IsAlive == IF kind \in PollKinds THEN proc = "running" ELSE alive

-----------------------------------------------------------------------------
(* The program at the other end.                                           *)

ProgramWrites ==
  /\ proc = "running" /\ ~hungUp /\ written < MaxOut
  /\ written' = written + 1
  /\ UNCHANGED <<proc, readerVars, queue, pumpVars, view, uiVars, flagVars,
                 lossVars, fixedVars>>

\* The process exits, or the peer closes the connection.
ProgramEnds ==
  /\ proc = "running"
  /\ proc' = "dead"
  /\ UNCHANGED <<written, readerVars, queue, pumpVars, view, uiVars, flagVars,
                 lossVars, fixedVars>>

-----------------------------------------------------------------------------
(* The reader thread: ReplReader.run around Repl.read and read_bytes.      *)

ReadUnit ==
  /\ reader = "reading" /\ taken < written
  /\ taken' = taken + 1 /\ held' = taken + 1 /\ reader' = "putting"
  /\ UNCHANGED <<programVars, queue, pumpVars, view, uiVars, flagVars,
                 lossVars, fixedVars>>

\* read_bytes() has no bytes: end of file, a channel this side closed, or a
\* non-blocking pipe that is empty just now.
ReadNothing ==
  /\ reader = "reading"
  /\ \/ taken = written /\ proc = "dead"
     \/ hungUp
     \/ taken = written /\ kind \in NonBlockingKinds
  /\ held' = None /\ reader' = "putting"
  /\ UNCHANGED <<programVars, taken, queue, pumpVars, view, uiVars, flagVars,
                 lossVars, fixedVars>>

\* read() has no handler for what read_bytes() raises: the thread dies
\* without an end marker.
ReadRaises ==
  /\ reader = "reading" /\ kind \in RaisingKinds
  /\ hungUp \/ proc = "dead"
  /\ reader' = "failed"
  /\ UNCHANGED <<programVars, taken, held, queue, pumpVars, view, uiVars,
                 flagVars, lossVars, fixedVars>>

\* What if the thread broke out of its loop before q.put(None)?
PutBreaksEarly ==
  /\ reader = "putting"
  /\ queue' = IF held = None THEN queue ELSE Append(queue, held)
  /\ reader' = IF held = None THEN "ended" ELSE "reading"
  /\ UNCHANGED <<programVars, taken, held, pumpVars, view, uiVars, flagVars,
                 lossVars, fixedVars>>

\* What if it did not break after None?
PutNeverBreaks ==
  /\ reader = "putting"
  /\ queue' = IF held = None THEN queue ELSE Append(queue, held)
  /\ reader' = "reading"
  /\ UNCHANGED <<programVars, taken, held, pumpVars, view, uiVars, flagVars,
                 lossVars, fixedVars>>

Put ==
  /\ reader = "putting"
  /\ queue' = Append(queue, held)
  /\ reader' = IF held = None THEN "ended" ELSE "reading"
  /\ UNCHANGED <<programVars, taken, held, pumpVars, view, uiVars, flagVars,
                 lossVars, fixedVars>>

Reader == ReadUnit \/ ReadNothing \/ ReadRaises \/ Put

-----------------------------------------------------------------------------
(* The update thread: handle_repl_output inside _update_view_loop.         *)

\* while self.repl.is_alive(): -- a REPL that is not alive leaves the loop
\* with ret still True.
CheckAlive ==
  /\ pump = "check"
  /\ pump' = IF IsAlive THEN "get" ELSE "flush"
  /\ UNCHANGED <<programVars, readerVars, queue, working, text, shown, banner,
                 view, uiVars, flagVars, lossVars, fixedVars>>

\* What if queue.Empty set ret to False as well?
GetEmptyEnds ==
  /\ pump = "get" /\ queue = <<>>
  /\ working' = FALSE /\ pump' = "flush"
  /\ UNCHANGED <<programVars, readerVars, queue, text, shown, banner, view,
                 uiVars, flagVars, lossVars, fixedVars>>

\* get_nowait() raises queue.Empty.
GetEmpty ==
  /\ pump = "get" /\ queue = <<>>
  /\ pump' = "flush"
  /\ UNCHANGED <<programVars, readerVars, queue, working, text, shown, banner,
                 view, uiVars, flagVars, lossVars, fixedVars>>

\* The packet is None: ret = False.
GetEnd ==
  /\ pump = "get" /\ queue # <<>> /\ Head(queue) = None
  /\ queue' = Tail(queue)
  /\ working' = FALSE /\ pump' = "flush"
  /\ UNCHANGED <<programVars, readerVars, text, shown, banner, view, uiVars,
                 flagVars, lossVars, fixedVars>>

\* What if None were not told from text?
GetUnitOrNone ==
  /\ pump = "get" /\ queue # <<>> /\ kind \notin ApiV2Kinds
  /\ queue' = Tail(queue)
  /\ text' = Append(text, Head(queue)) /\ pump' = "check"
  /\ UNCHANGED <<programVars, readerVars, working, shown, banner, view, uiVars,
                 flagVars, lossVars, fixedVars>>

\* What if text were not emptied after a full buffer was written?
GetUnitKeepsText ==
  /\ pump = "get" /\ queue # <<>> /\ Head(queue) # None
  /\ kind \notin ApiV2Kinds
  /\ queue' = Tail(queue)
  /\ text' = Append(text, Head(queue))
  /\ shown' \in {shown, shown \o Append(text, Head(queue))}
  /\ pump' = "check"
  /\ UNCHANGED <<programVars, readerVars, working, banner, view, uiVars,
                 flagVars, lossVars, fixedVars>>

\* text += packet; a text that has reached READ_BUFFER characters (or not:
\* the length of a unit is abstracted) is written into the view at once.
GetUnit ==
  /\ pump = "get" /\ queue # <<>> /\ Head(queue) # None
  /\ kind \notin ApiV2Kinds
  /\ queue' = Tail(queue)
  /\ \/ text' = Append(text, Head(queue)) /\ UNCHANGED shown
     \/ text' = <<>> /\ shown' = shown \o Append(text, Head(queue))
  /\ pump' = "check"
  /\ UNCHANGED <<programVars, readerVars, working, banner, view, uiVars,
                 flagVars, lossVars, fixedVars>>

\* text += packet with a list for a packet raises TypeError, which only
\* queue.Empty is caught for: the update thread dies.
GetList ==
  /\ pump = "get" /\ queue # <<>> /\ Head(queue) # None
  /\ kind \in ApiV2Kinds
  /\ queue' = Tail(queue)
  /\ pump' = "crashed"
  /\ UNCHANGED <<programVars, readerVars, working, text, shown, banner, view,
                 uiVars, flagVars, lossVars, fixedVars>>

\* What if the text collected so far were not written at the end of a pass?
FlushForgets ==
  /\ pump = "flush"
  /\ text' = <<>>
  /\ pump' = IF working THEN "check" ELSE "banner"
  /\ UNCHANGED <<programVars, readerVars, queue, working, shown, banner, view,
                 uiVars, flagVars, lossVars, fixedVars>>

\* What if the text were inserted above what the view shows already?
FlushInFront ==
  /\ pump = "flush"
  /\ shown' = text \o shown /\ text' = <<>>
  /\ pump' = IF working THEN "check" ELSE "banner"
  /\ UNCHANGED <<programVars, readerVars, queue, working, banner, view, uiVars,
                 flagVars, lossVars, fixedVars>>

\* if len(text): handle_repl_packet(text); return ret; and the loop's test.
Flush ==
  /\ pump = "flush"
  /\ shown' = shown \o text /\ text' = <<>>
  /\ pump' = IF working THEN "check" ELSE "banner"
  /\ UNCHANGED <<programVars, readerVars, queue, working, banner, view, uiVars,
                 flagVars, lossVars, fixedVars>>

WriteBanner ==
  /\ pump = "banner"
  /\ banner' = IF killed THEN "killed" ELSE "closed"
  /\ pump' = IF autoClose THEN "close" ELSE "done"
  /\ UNCHANGED <<programVars, readerVars, queue, working, text, shown, view,
                 uiVars, flagVars, lossVars, fixedVars>>

\* window is None when the view has been closed already.
AutoClose ==
  /\ pump = "close"
  /\ view' = IF view = "open" THEN "closing" ELSE view
  /\ pump' = "done"
  /\ UNCHANGED <<programVars, readerVars, queue, working, text, shown, banner,
                 uiVars, flagVars, lossVars, fixedVars>>

Pump == CheckAlive \/ GetEmpty \/ GetEnd \/ GetUnit \/ GetList \/ Flush
        \/ WriteBanner \/ AutoClose
-----------------------------------------------------------------------------
(* The UI thread: kill, close, send_signal, enter.                         *)

\* The first assignments of Repl.kill().
BeginKill ==
  /\ killed' = TRUE
  /\ alive' = (alive /\ kind # "ssh_paramiko")
  /\ ui' = "kill"

\* ReplKillCommand: rv.repl.kill() whether the REPL is alive or not.
Kill ==
  /\ ui = "idle" /\ registered /\ view = "open"
  /\ BeginKill
  /\ UNCHANGED <<programVars, readerVars, queue, pumpVars, view, onClose,
                 registered, signals, hungUp, lossVars, fixedVars>>

\* What if on_close did not close the REPL?
CloseViewOnly ==
  /\ ui = "idle" /\ registered /\ view \in {"open", "closing"}
  /\ view' = "closed" /\ onClose' = TRUE /\ ui' = "deregister"
  /\ UNCHANGED <<programVars, readerVars, queue, pumpVars, registered,
                 signals, flagVars, lossVars, fixedVars>>

\* SublimeReplListener.on_close -> ReplView.on_close -> Repl.close, after the
\* user closed the view or the update thread asked for it.
CloseView ==
  /\ ui = "idle" /\ registered /\ view \in {"open", "closing"}
  /\ view' = "closed" /\ onClose' = TRUE
  /\ IF IsAlive THEN BeginKill
                ELSE ui' = "deregister" /\ UNCHANGED <<killed, alive>>
  /\ UNCHANGED <<programVars, readerVars, queue, pumpVars, registered,
                 signals, hungUp, lossVars, fixedVars>>

AfterKill == IF onClose THEN "deregister" ELSE "idle"

\* The rest of kill(): the process is killed, the connection is closed.
EndKill ==
  /\ ui = "kill"
  /\ IF kind \in PollKinds
       THEN proc' = "dead" /\ UNCHANGED hungUp
       ELSE hungUp' = TRUE /\ UNCHANGED proc
  /\ ui' = IF kind = "telnet" THEN "drop" ELSE AfterKill
  /\ UNCHANGED <<written, readerVars, queue, pumpVars, view, onClose,
                 registered, signals, killed, alive, lossVars, fixedVars>>

\* kill() of a Popen kind writes soft_quit first; the pipe of a process that
\* died in the meantime raises, and on_close is left before call_on_close.
KillRaises ==
  /\ ui = "kill" /\ kind \in PopenKinds /\ proc = "dead"
  /\ ui' = "idle" /\ onClose' = FALSE
  /\ UNCHANGED <<programVars, readerVars, queue, pumpVars, view, registered,
                 signals, flagVars, lossVars, fixedVars>>

\* TelnetRepl.kill clears _alive after the connection is closed.
DropAlive ==
  /\ ui = "drop"
  /\ alive' = FALSE /\ ui' = AfterKill
  /\ UNCHANGED <<programVars, readerVars, queue, pumpVars, view, onClose,
                 registered, signals, killed, hungUp, lossVars, fixedVars>>

\* for fun in self.call_on_close: fun(self) -- ReplManager._delete_repl.
Deregister ==
  /\ ui = "deregister"
  /\ registered' = FALSE /\ ui' = "idle" /\ onClose' = FALSE
  /\ UNCHANGED <<programVars, readerVars, queue, pumpVars, view, signals,
                 flagVars, lossVars, fixedVars>>

\* send_signal up to clear_queue: SIGTERM sets _killed, the signal goes out
\* (whether it ends the process is ProgramEnds' choice).
SendSignal ==
  /\ ui = "idle" /\ registered /\ view = "open"
  /\ kind \in SignalKinds /\ signals < MaxSignals
  /\ signals' = signals + 1
  /\ ui' = "clear"
  /\ killed' \in IF kind = "ssh_paramiko" THEN {killed} ELSE {killed, TRUE}
  /\ UNCHANGED <<programVars, readerVars, queue, pumpVars, view, onClose,
                 registered, alive, hungUp, lossVars, fixedVars>>

\* ReplView.clear_queue, under the queue's mutex.
ClearQueue ==
  /\ ui = "clear"
  /\ lost' = lost \cup (Range(queue) \ {None})
  /\ endLost' = (endLost \/ None \in Range(queue))
  /\ queue' = <<>>
  /\ ui' = IF kind = "ssh_paramiko" THEN "type" ELSE "idle"
  /\ UNCHANGED <<programVars, readerVars, pumpVars, view, onClose, registered,
                 signals, flagVars, fixedVars>>

\* A write: ExecnetRepl drops _alive when the channel is closed,
\* SshParamikoRepl on any SSHException, which paramiko raises of a closed
\* connection and also of a live one, when a key exchange takes too long (any
\* other error leaves _alive).
MayDropAlive ==
  \/ kind = "execnet" /\ alive' = (alive /\ proc = "running" /\ ~hungUp)
  \/ kind = "ssh_paramiko" /\ (alive' = FALSE \/ UNCHANGED alive)

\* The code sent by SshParamikoRepl.send_signal.
TypeSignal ==
  /\ ui = "type"
  /\ MayDropAlive
  /\ ui' = "idle"
  /\ UNCHANGED <<programVars, readerVars, queue, pumpVars, view, onClose,
                 registered, signals, killed, hungUp, lossVars, fixedVars>>

\* ReplView.enter -> Repl.write.
Enter ==
  /\ ui = "idle" /\ registered /\ view = "open"
  /\ MayDropAlive
  /\ UNCHANGED <<programVars, readerVars, queue, pumpVars, view, uiVars,
                 killed, hungUp, lossVars, fixedVars>>

\* What the UI thread goes on with by itself.
UiContinues == EndKill \/ KillRaises \/ DropAlive \/ Deregister \/ ClearQueue
               \/ TypeSignal
User == Kill \/ CloseView \/ SendSignal \/ Enter

Next == ProgramWrites \/ ProgramEnds \/ Reader \/ Pump \/ UiContinues \/ User

(* The threads run; Sublime handles a close the update thread asked for.   *)
(* Nothing is assumed of the program and of the user.                      *)
Fairness ==
  /\ WF_vars(Reader)
  /\ WF_vars(Pump)
  /\ WF_vars(UiContinues)
  /\ WF_vars(view = "closing" /\ CloseView)

Spec == Init /\ [][Next]_vars
FairSpec == Spec /\ Fairness
-----------------------------------------------------------------------------
(* Safety.                                                                 *)

TypeOK ==
  /\ kind \in Kinds /\ autoClose \in BOOLEAN
  /\ proc \in {"running", "dead"} /\ written \in 0..MaxOut
  /\ taken \in 0..written /\ hungUp \in BOOLEAN
  /\ reader \in {"reading", "putting", "ended", "failed"}
  /\ held \in Units \cup {None} /\ queue \in Seq(Units \cup {None})
  /\ pump \in {"check", "get", "flush", "banner", "close", "done", "crashed"}
  /\ working \in BOOLEAN /\ text \in Seq(Units) /\ shown \in Seq(Units)
  /\ banner \in {"none", "killed", "closed"}
  /\ view \in {"open", "closing", "closed"}
  /\ ui \in {"idle", "kill", "drop", "deregister", "clear", "type"}
  /\ onClose \in BOOLEAN /\ registered \in BOOLEAN
  /\ killed \in BOOLEAN /\ alive \in BOOLEAN
  /\ signals \in 0..MaxSignals /\ lost \in SUBSET Units /\ endLost \in BOOLEAN

\* The way of the output from left to right, with the reader's last result.
Delivered == shown \o text \o queue
Holding == IF reader = "putting" THEN <<held>> ELSE <<>>

(* Output is delivered in the order it was written and never twice, however *)
(* the reader, the update thread and clear_queue interleave; and the end    *)
(* marker, numbered last, is delivered once and behind all of it.           *)
OutputInOrder == Ascending(Delivered \o Holding)

(* Between read() and the view no unit gets lost, except in clear_queue:    *)
(* whatever the reader took is on its way, shown, or was cleared.           *)
NothingSkipped ==
  pump # "crashed" => 1..taken \subseteq Range(Delivered \o Holding) \cup lost

(* The closing banner tells the truth for a REPL whose read() blocks: the   *)
(* program is over or was hung up on, and unless it was hung up on the view *)
(* shows all it wrote before, save what clear_queue dropped.                *)
BannerAtTheEnd ==
  banner # "none" /\ kind \notin NonBlockingKinds =>
    /\ proc = "dead" \/ hungUp
    /\ ~hungUp => 1..written \subseteq Range(shown) \cup lost

(* Closing a view ends what is behind it.  A REPL that left repl_views, so  *)
(* that no command reaches it any more, has no program running, unless it   *)
(* is an ssh connection whose _alive a failed write took down before; and a *)
(* REPL whose view is closed has left repl_views once on_close is over,     *)
(* unless kill() raised on the pipe of a process that had just died.        *)
ForgottenIsOver ==
  /\ ~registered => \/ proc = "dead" \/ hungUp
                    \/ kind = "ssh_paramiko" /\ ~alive /\ ~killed
  /\ view = "closed" /\ ui = "idle" /\ registered
       => kind \in PopenKinds /\ proc = "dead"

(* Kinds and threads implement the stream of output that a view promises.   *)
Stream == INSTANCE OutputStream WITH
            discarded <- lost, ended <- banner # "none"
StreamSpec == Stream!Spec
-----------------------------------------------------------------------------
(* Liveness.                                                               *)

(* The reader thread does not outlive the program: once the output died or  *)
(* this side hung up, it ends.                                              *)
ReaderStops == (proc = "dead" \/ hungUp) ~> reader \in {"ended", "failed"}

(* A unit written is shown while the REPL counts as alive -- as long as     *)
(* nobody hung up and no signal cleared the queue.                          *)
OutputReachesView ==
  \A n \in Units :
    (kind \notin NonBlockingKinds /\ n <= written)
      ~> (n \in Range(shown) \cup lost \/ ~IsAlive \/ hungUp \/ reader = "failed")

(* When the peer closes the connection of a kind that keeps _alive up, the  *)
(* closing banner is written, unless the marker was cleared or _alive fell. *)
EndReachesView ==
  (kind \in {"ssh_paramiko", "execnet"} /\ proc = "dead")
    ~> (banner # "none" \/ ~alive \/ endLost)
-----------------------------------------------------------------------------
(* What the repository says of the program and the code does not do.       *)

(* SublimeREPL-ssh.sublime-settings:24-27: the view is left open "once the  *)
(* underlying subprocess dies or closes connection"; view_auto_close "will  *)
(* cause SublimeREPL to close the REPL view once the process dies".         *)
ClosesOnceDead == (autoClose /\ proc = "dead") ~> (view = "closed")

(* The same for a connection the peer closed, with _alive still up and the  *)
(* user doing nothing but sending a signal.                                 *)
ClosesOnceDisconnected ==
  (autoClose /\ proc = "dead") ~> (view = "closed" \/ killed \/ ~alive)
=============================================================================
