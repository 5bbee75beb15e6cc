---------------------------- MODULE Autocomplete ----------------------------
(***************************************************************************)
(* Completions of an interpreter: AutocompleteServer.complete in Sublime's *)
(* main thread asks over a socket, a thread of the interpreter             *)
(* (ipy_repl.py, pry_repl.rb) answers, in netstrings <length>:<text>,      *)
(*                                                                         *)
(* An answer is a header (length and colon), Body bytes of text, a comma.  *)
(* What was sent arrives piece by piece, so recv() may return a part of    *)
(* the text; it waits four seconds if there is nothing at all.             *)
(***************************************************************************)
EXTENDS Integers, Sequences, SeqOrder

CONSTANTS
  Body,       \* bytes in the text of an answer
  MaxAsks     \* bound: requests

ASSUME BodyAssumption == Body \in Nat \ {0}
ASSUME AsksAssumption == MaxAsks \in Nat

VARIABLES
  connected,  \* _cli_sock is set
  client,     \* "idle", or what read_netstring waits for: "head", "body", "comma"
  size, msg,  \* read_netstring's locals
  asked,      \* requests sent
  results,    \* the requests whose answers complete() returned, in that order
  served,     \* requests answered
  server,     \* the answering thread: "alive" or "dead"
  wire,       \* sent to the client, not yet arrived
  inbox,      \* arrived, not yet received
  hungUp,     \* the interpreter has closed the socket
  failed      \* history: a request timed out or raised

acVars == <<connected, client, size, msg, asked, results, served, server, wire,
          inbox, hungUp, failed>>
acPeerVars == <<connected, served, server, wire, hungUp>>

\* Byte k of the answer to request n; 0 is its header, Body + 1 its comma.
AcByte(n, k) == [req |-> n, at |-> k]
Answer(n) == [k \in 1..(Body + 2) |-> AcByte(n, k - 1)]
Text(n) == [k \in 1..Body |-> AcByte(n, k)]
AcBytes == [req : 1..MaxAsks, at : 0..(Body + 1)]

AcInit ==
  /\ connected = FALSE /\ client = "idle" /\ size = 0 /\ msg = <<>>
  /\ asked = 0 /\ results = <<>> /\ served = 0 /\ server = "alive"
  /\ wire = <<>> /\ inbox = <<>> /\ hungUp = FALSE /\ failed = FALSE
-----------------------------------------------------------------------------
(* The interpreter and the network.                                        *)

\* AutocompleteServer._wait
Accept ==
  /\ ~connected /\ ~hungUp
  /\ connected' = TRUE
  /\ UNCHANGED <<client, size, msg, asked, results, served, server, wire, inbox,
                 hungUp, failed>>

\* What if a request were answered twice?
ServeAgain ==
  /\ server = "alive" /\ served < asked /\ ~hungUp
  /\ served' \in {served, served + 1}
  /\ Len(wire) < 3 * Body
  /\ wire' = wire \o Answer(served + 1)
  /\ UNCHANGED <<connected, client, size, msg, asked, results, server, inbox,
                 hungUp, failed>>

\* handle(): the next request is read and answered.
Serve ==
  /\ server = "alive" /\ served < asked /\ ~hungUp
  /\ served' = served + 1
  /\ wire' = wire \o Answer(served')
  /\ UNCHANGED <<connected, client, size, msg, asked, results, server, inbox,
                 hungUp, failed>>

\* The request comes in two pieces, which read_netstring cannot read, or the
\* completion raises: the answer b"[]" raises again, for it has no encode().
ServerFails ==
  /\ server = "alive" /\ served < asked /\ ~hungUp
  /\ server' = "dead"
  /\ UNCHANGED <<connected, client, size, msg, asked, results, served, wire,
                 inbox, hungUp, failed>>

Arrive ==
  /\ wire # <<>>
  /\ inbox' = Append(inbox, Head(wire)) /\ wire' = Tail(wire)
  /\ UNCHANGED <<connected, client, size, msg, asked, results, served, server,
                 hungUp, failed>>

HangUp ==
  /\ ~hungUp /\ hungUp' = TRUE
  /\ UNCHANGED <<connected, client, size, msg, asked, results, served, server,
                 wire, inbox, failed>>
-----------------------------------------------------------------------------
(* complete() in the main thread, called when connected().                 *)

\* What if complete() could be entered while it waits?
AskAgain ==
  /\ connected /\ asked < MaxAsks
  /\ asked' = asked + 1 /\ client' = "head"
  /\ UNCHANGED <<acPeerVars, size, msg, results, inbox, failed>>

Ask ==
  /\ connected /\ client = "idle" /\ asked < MaxAsks
  /\ asked' = asked + 1 /\ client' = "head"
  /\ UNCHANGED <<acPeerVars, size, msg, results, inbox, failed>>

\* sendall() raises, for the other end is gone: nothing is asked.
SendFails ==
  /\ connected /\ client = "idle" /\ hungUp
  /\ failed' = TRUE
  /\ UNCHANGED <<acPeerVars, client, size, msg, asked, results, inbox>>

\* An exception leaves complete(); the socket stays as it is.
Raise ==
  /\ client' = "idle" /\ failed' = TRUE /\ size' = 0 /\ msg' = <<>>
  /\ UNCHANGED <<acPeerVars, asked, results>>

\* What if recv() waited without a limit?
TimesOutNever ==
  /\ client # "idle" /\ inbox = <<>> /\ hungUp /\ wire = <<>>
  /\ Raise /\ UNCHANGED inbox

\* settimeout(4): nothing arrived.
TimesOut ==
  /\ client # "idle" /\ inbox = <<>> /\ ~(hungUp /\ wire = <<>>)
  /\ Raise /\ UNCHANGED inbox

\* The length; a byte that is neither a digit nor the colon raises in int().
ReadHead ==
  /\ client = "head" /\ inbox # <<>>
  /\ inbox' = Tail(inbox)
  /\ IF Head(inbox).at = 0
       THEN /\ client' = "body" /\ size' = Body /\ msg' = <<>>
            /\ UNCHANGED <<acPeerVars, asked, results, failed>>
       ELSE Raise

\* msg += s.recv(size); size -= len(msg)
Received(bytes) ==
  /\ msg' = msg \o bytes
  /\ size' = size - Len(msg')
  /\ client' = IF size' = 0 THEN "comma" ELSE "body"
  /\ UNCHANGED <<acPeerVars, asked, results, failed>>

ReadBody ==
  /\ client = "body" /\ size > 0 /\ inbox # <<>>
  /\ LET n == IF size < Len(inbox) THEN size ELSE Len(inbox)
     IN  Received(SubSeq(inbox, 1, n)) /\ inbox' = SubSeq(inbox, n + 1, Len(inbox))

\* recv() of a negative size raises ValueError.
ReadNegative ==
  /\ client = "body" /\ size < 0
  /\ Raise /\ UNCHANGED inbox

\* assert byte == b','; a byte of the text may be a comma, too: then the text
\* is cut short, and json.loads raises.
ReadComma ==
  /\ client = "comma" /\ inbox # <<>>
  /\ inbox' = Tail(inbox)
  /\ IF Head(inbox).at = Body + 1 /\ msg = Text(Head(inbox).req)
       THEN /\ results' = Append(results, Head(inbox).req) /\ client' = "idle"
            /\ UNCHANGED <<acPeerVars, asked, size, msg, failed>>
       ELSE Raise

\* recv() returns no byte: int(b''), the assertion, or another turn with msg
\* as it is.
ReadEnd ==
  /\ hungUp /\ wire = <<>> /\ inbox = <<>>
  /\ \/ client \in {"head", "comma"} /\ Raise
     \/ client = "body" /\ size > 0 /\ Received(<<>>)
  /\ UNCHANGED inbox

Complete == ReadHead \/ ReadBody \/ ReadNegative \/ ReadComma \/ ReadEnd \/ TimesOut

AcNext == Accept \/ Serve \/ ServerFails \/ Arrive \/ HangUp \/ Ask \/ SendFails \/ Complete

(* The main thread runs, and four seconds pass.                            *)
AcFairness == WF_acVars(Complete)
AcSpec == AcInit /\ [][AcNext]_acVars
AcFairSpec == AcSpec /\ AcFairness
-----------------------------------------------------------------------------
AcTypeOK ==
  /\ connected \in BOOLEAN /\ client \in {"idle", "head", "body", "comma"}
  /\ size \in Int /\ msg \in Seq(AcBytes)
  /\ asked \in 0..MaxAsks /\ results \in Seq(1..MaxAsks)
  /\ served \in 0..asked /\ server \in {"alive", "dead"}
  /\ wire \in Seq(AcBytes) /\ inbox \in Seq(AcBytes)
  /\ hungUp \in BOOLEAN /\ failed \in BOOLEAN

(* Answers are returned in the order of their requests, each at most once,  *)
(* whatever was left in the socket by requests that timed out: completions  *)
(* may be late, but never go back.                                          *)
AnswersInOrder == Ascending(results)

(* A request gets its own answer as long as none before it timed out or     *)
(* raised.                                                                  *)
OwnAnswer == ~failed => results = [n \in 1..Len(results) |-> n]
                        /\ Len(results) \in {asked, asked - 1}

(* complete() comes back to the main thread, unless the interpreter closes  *)
(* the socket between a header and the first byte of its text: then msg     *)
(* stays empty, size stays what it is, and the loop never ends.             *)
CompleteEnds ==
  client # "idle" ~> (client = "idle" \/ (hungUp /\ client = "body" /\ msg = <<>>))

(* Whatever times out, raises or arrives late, completions are those of the *)
(* request or of an older one, and never go back.                           *)
AnswersMatch == AnswersInOrder /\ OwnAnswer
=============================================================================
