------------------------------ MODULE UtopRepl ------------------------------
(***************************************************************************)
(* SublimeUTopRepl and "utop -emacs" in stanzas <key>:<value>.  Enter adds *)
(* to the pending phrase and sends all of it; utop takes it (accept), with *)
(* the place of an error, or wants more (continue).  Completions come as a *)
(* word or as a list.  Main thread and reader thread share the phrase.     *)
(*                                                                         *)
(* A line is its number, a cell of the view a line and a column.  Stanzas  *)
(* that only make a packet (stdout, stderr, prompt) are left out.          *)
(***************************************************************************)
EXTENDS Integers, Sequences, SeqOrder

CONSTANTS
  MaxRequests,  \* bound: lines entered and completions asked for
  Widths     \* lengths of lines

ASSUME UtopBoundsAssumption == MaxRequests \in Nat
ASSUME WidthsAssumption == Widths \subseteq Nat /\ Widths # {}

VARIABLES
  width,       \* per line entered: its length
  typist,      \* the main thread: "idle", "send" in write, "wait" for a completion
  phrase,      \* _phrase
  begins,      \* _phrase_line_begins, as the lines that begin there
  toUtop, fromUtop,  \* stanzas on their way; commands as one
  evaluated,   \* the lines of the phrases utop accepted
  stanza,      \* the reader: "read", "reset" in an accept, or "ended"
  marks,       \* the cells the packet in the making highlights
  wrong,       \* history: the cells utop meant by it
  prefixOf,    \* _completion_prefix, as the request that set it
  gathered,    \* _completions
  ready,       \* _completion_queue: per answer, the requests it has parts of
  asks, got,   \* requests; the answers returned to them
  unanswered,  \* inputs whose accept or continue was not read to its end
  ahead,       \* history: a line was entered while there was one
  late         \* history: a completion timed out

utVars == <<width, typist, phrase, begins, toUtop, fromUtop, evaluated, stanza,
            marks, wrong, prefixOf, gathered, ready, asks, got, unanswered,
            ahead, late>>
editVars == <<width, phrase, begins, unanswered, ahead>>
completionVars == <<prefixOf, gathered, ready, asks, got, late>>

entered == Len(width)

UtInit ==
  /\ width = <<>> /\ typist = "idle" /\ phrase = <<>> /\ begins = <<>>
  /\ toUtop = <<>> /\ fromUtop = <<>> /\ evaluated = <<>>
  /\ stanza = "read" /\ marks = {} /\ wrong = {}
  /\ prefixOf = 0 /\ gathered = <<>> /\ ready = <<>> /\ asks = 0 /\ got = <<>>
  /\ unanswered = 0 /\ ahead = FALSE /\ late = FALSE
-----------------------------------------------------------------------------
(* Places.                                                                 *)

Region(line, from, to) == {<<line, k>> : k \in (from..(to - 1)) \cup (to..(from - 1))}

\* The phrase as utop counts it, lines with a newline between them.
Joined(lines) ==
  LET upTo[i \in 0..Len(lines)] ==
        IF i = 0 THEN <<>>
        ELSE upTo[i - 1] \o [k \in 1..(width[lines[i]] + 1) |-> <<lines[i], k - 1>>]
  IN  upTo[Len(lines)]

TextOf(cells) == {c \in cells : c[2] \in 0..(width[c[1]] - 1)}

\* What if a line were counted without its newline?
HighlightedShort(a, b) ==
  LET upTo[i \in 0..Len(phrase)] ==
        IF i = 0 THEN [a |-> a, b |-> b, over |-> FALSE, cells |-> {}]
        ELSE LET h == upTo[i - 1]
                 w == width[phrase[i]]
             IN  IF h.over \/ i > Len(begins) THEN h
                 ELSE IF h.a < w /\ h.b <= w
                 THEN [h EXCEPT !.over = TRUE, !.cells = @ \cup Region(begins[i], h.a, h.b)]
                 ELSE [a |-> IF h.a > w THEN h.a - w ELSE 0, b |-> h.b - w,
                       over |-> FALSE,
                       cells |-> h.cells \cup IF h.a < w THEN Region(begins[i], h.a, w) ELSE {}]
  IN  upTo[Len(phrase)].cells

\* compose_highlights(a, b): line by line, with a and b counted from its begin.
Highlighted(a, b) ==
  LET upTo[i \in 0..Len(phrase)] ==
        IF i = 0 THEN [a |-> a, b |-> b, over |-> FALSE, cells |-> {}]
        ELSE LET h == upTo[i - 1]
                 w == width[phrase[i]]
             IN  IF h.over \/ i > Len(begins) THEN h
                 ELSE IF h.a < w /\ h.b <= w
                 THEN [h EXCEPT !.over = TRUE, !.cells = @ \cup Region(begins[i], h.a, h.b)]
                 ELSE [a |-> IF h.a > w THEN h.a - w - 1 ELSE 0, b |-> h.b - w - 1,
                       over |-> FALSE,
                       cells |-> h.cells \cup IF h.a < w THEN Region(begins[i], h.a, w) ELSE {}]
  IN  upTo[Len(phrase)].cells
-----------------------------------------------------------------------------
(* The main thread.                                                        *)

\* write(expression): its lines join the pending phrase.
AppendLines ==
  /\ typist = "idle" /\ typist' = "send"
  /\ \E n \in 1..(MaxRequests - entered - asks) : \E widths \in [1..n -> Widths] :
       LET new == [i \in 1..n |-> entered + i]
       IN  phrase' = phrase \o new /\ begins' = begins \o new /\ width' = width \o widths
  /\ ahead' = (ahead \/ unanswered > 0) /\ unanswered' = unanswered + 1
  /\ UNCHANGED <<toUtop, fromUtop, evaluated, stanza, marks, wrong>>
  /\ UNCHANGED completionVars

\* write_command('input', 'allow-incomplete', self._phrase)
SendPhrase ==
  /\ typist = "send" /\ typist' = "idle"
  /\ toUtop' = Append(toUtop, [key |-> "input", data |-> phrase])
  /\ UNCHANGED <<fromUtop, evaluated, stanza, marks, wrong>>
  /\ UNCHANGED editVars /\ UNCHANGED completionVars

\* autocomplete_completions, up to get(timeout=500)
AskUtop ==
  /\ typist = "idle" /\ typist' = "wait"
  /\ entered + asks < MaxRequests /\ asks' = asks + 1 /\ prefixOf' = asks'
  /\ toUtop' = Append(toUtop, [key |-> "complete", data |-> <<asks'>>])
  /\ UNCHANGED <<fromUtop, evaluated, stanza, marks, wrong, gathered, ready,
                 got, late>>
  /\ UNCHANGED editVars

GetCompletion ==
  /\ typist = "wait" /\ typist' = "idle"
  /\ ready # <<>> /\ ready' = Tail(ready)
  /\ got' = Append(got, [ask |-> asks, parts |-> Head(ready)])
  /\ UNCHANGED <<toUtop, fromUtop, evaluated, stanza, marks, wrong, prefixOf,
                 gathered, asks, late>>
  /\ UNCHANGED editVars

\* queue.Empty leaves the handler; the answer may still come.
CompletionTimesOut ==
  /\ typist = "wait" /\ typist' = "idle" /\ ready = <<>> /\ late' = TRUE
  /\ UNCHANGED <<toUtop, fromUtop, evaluated, stanza, marks, wrong, prefixOf,
                 gathered, ready, asks, got>>
  /\ UNCHANGED editVars
-----------------------------------------------------------------------------
(* utop, and the pipe.                                                     *)

Says(stanzas) ==
  /\ fromUtop' = fromUtop \o stanzas
  /\ UNCHANGED <<typist, stanza, marks, wrong>>
  /\ UNCHANGED editVars /\ UNCHANGED completionVars

\* A phrase is whole, without or with an error at [a, b), or wants more.
UtopReadsInput ==
  /\ toUtop # <<>> /\ Head(toUtop).key = "input" /\ toUtop' = Tail(toUtop)
  /\ LET lines == Head(toUtop).data
         text == Joined(lines)
     IN  \/ /\ \E a, b \in 0..(Len(text) - 1) :
                 /\ a <= b
                 /\ Says(<<[key |-> "accept", a |-> a, b |-> b,
                            cells |-> TextOf({text[x] : x \in (a + 1)..b})]>>)
            /\ evaluated' = evaluated \o lines
         \/ Says(<<[key |-> "continue"]>>) /\ UNCHANGED evaluated

UtopCompletes ==
  /\ toUtop # <<>> /\ Head(toUtop).key = "complete" /\ toUtop' = Tail(toUtop)
  /\ LET n == Head(toUtop).data[1]
     IN  \/ Says(<<[key |-> "completion-word", of |-> n]>>)
         \/ Says(<<[key |-> "completion-start"], [key |-> "completion", of |-> n],
                   [key |-> "completion-stop"]>>)
  /\ UNCHANGED evaluated

\* A program prints a byte that no character has.
UtopPrintsByte ==
  /\ ~\E i \in 1..Len(fromUtop) : fromUtop[i].key = "byte"
  /\ Says(<<[key |-> "byte"]>>) /\ UNCHANGED <<toUtop, evaluated>>
-----------------------------------------------------------------------------
(* The reader.  A stanza that cannot be decoded raises a ValueError, which *)
(* read_stanza takes for "no whole stanza yet": it stays in the buffer,    *)
(* and nothing behind it is ever read.                                     *)

ReadStanza(key) ==
  /\ stanza = "read" /\ fromUtop # <<>> /\ Head(fromUtop).key = key
  /\ fromUtop' = Tail(fromUtop)
  /\ UNCHANGED <<width, typist, toUtop, evaluated, asks, got, ahead, late, prefixOf>>

\* What if the phrase were kept?
ReadAcceptKeeps ==
  /\ ReadStanza("accept") /\ stanza' = "reset"
  /\ marks' = Highlighted(Head(fromUtop).a, Head(fromUtop).b)
  /\ wrong' = Head(fromUtop).cells
  /\ UNCHANGED <<phrase, begins, unanswered, gathered, ready>>

\* The error is highlighted, the phrase is over.
ReadAccept ==
  /\ ReadStanza("accept") /\ stanza' = "reset"
  /\ marks' = Highlighted(Head(fromUtop).a, Head(fromUtop).b)
  /\ wrong' = Head(fromUtop).cells
  /\ phrase' = <<>>
  /\ UNCHANGED <<begins, unanswered, gathered, ready>>

\* The packet is complete, and on its way to the view.
ResetBegins ==
  /\ stanza = "reset" /\ stanza' = "read"
  /\ begins' = <<>> /\ unanswered' = unanswered - 1
  /\ marks' = {} /\ wrong' = {}
  /\ UNCHANGED <<width, typist, phrase, toUtop, fromUtop, evaluated, ahead>>
  /\ UNCHANGED completionVars

ReadContinue ==
  /\ ReadStanza("continue") /\ unanswered' = unanswered - 1
  /\ UNCHANGED <<stanza, marks, wrong, phrase, begins, gathered, ready>>

\* What if a list began with what is left of the one before?
ReadCompletionStartKeeps ==
  /\ ReadStanza("completion-start")
  /\ UNCHANGED <<stanza, marks, wrong, phrase, begins, unanswered, ready, gathered>>

ReadCompletionStart ==
  /\ ReadStanza("completion-start") /\ gathered' = <<>>
  /\ UNCHANGED <<stanza, marks, wrong, phrase, begins, unanswered, ready>>

ReadCompletion ==
  /\ ReadStanza("completion") /\ gathered' = Append(gathered, Head(fromUtop).of)
  /\ UNCHANGED <<stanza, marks, wrong, phrase, begins, unanswered, ready>>

ReadCompletionStop ==
  /\ ReadStanza("completion-stop") /\ ready' = Append(ready, Range(gathered))
  /\ UNCHANGED <<stanza, marks, wrong, phrase, begins, unanswered, gathered>>

\* A word is completed with the prefix as it is by now.
ReadCompletionWord ==
  /\ ReadStanza("completion-word")
  /\ ready' = Append(ready, {Head(fromUtop).of, prefixOf})
  /\ UNCHANGED <<stanza, marks, wrong, phrase, begins, unanswered, gathered>>

\* read_bytes has nothing, or returned None: the reader thread ends.
ReadEnds ==
  /\ stanza = "read" /\ stanza' = "ended"
  /\ fromUtop # <<>> => Head(fromUtop).key = "byte"
  /\ UNCHANGED <<typist, toUtop, fromUtop, evaluated, marks, wrong>>
  /\ UNCHANGED editVars /\ UNCHANGED completionVars

UtRead ==
  \/ ReadAccept \/ ResetBegins \/ ReadContinue \/ ReadEnds
  \/ ReadCompletionStart \/ ReadCompletion \/ ReadCompletionStop \/ ReadCompletionWord

UtNext ==
  \/ AppendLines \/ SendPhrase \/ AskUtop \/ GetCompletion \/ CompletionTimesOut
  \/ UtopReadsInput \/ UtopCompletes \/ UtopPrintsByte
  \/ UtRead

UtSpec == UtInit /\ [][UtNext]_utVars
-----------------------------------------------------------------------------
UtTypeOK ==
  /\ width \in Seq(Widths) /\ entered <= MaxRequests
  /\ typist \in {"idle", "send", "wait"} /\ stanza \in {"read", "reset", "ended"}
  /\ asks \in 0..MaxRequests
  /\ phrase \in Seq(1..MaxRequests) /\ begins \in Seq(1..MaxRequests)
  /\ evaluated \in Seq(1..MaxRequests)
  /\ prefixOf \in 0..MaxRequests /\ gathered \in Seq(1..MaxRequests)
  /\ ready \in Seq(SUBSET (1..MaxRequests)) /\ unanswered \in Nat
  /\ got \in Seq([ask : 1..MaxRequests, parts : SUBSET (1..MaxRequests)])
  /\ ahead \in BOOLEAN /\ late \in BOOLEAN

(* As long as the user waits for utop's answer to a line, utop evaluates    *)
(* every line once and in order, and what it has not evaluated is pending,  *)
(* each line with its place in the view.                                    *)
LinesOnce ==
  ~ahead =>
    /\ \A i \in 1..Len(evaluated) : evaluated[i] = i
    /\ unanswered = 0 =>
         evaluated \o phrase = [i \in 1..entered |-> i] /\ begins = phrase

(* The text that is highlighted is the text utop complains of, wherever in  *)
(* a phrase of several lines, empty ones among them, it begins and ends.    *)
ErrorsAreMarked == ~ahead => TextOf(marks) = wrong

(* Completions are those asked for, until a request times out; even then an *)
(* answer goes to one request at most, and to none before it was asked for. *)
CompletionsAreOwn ==
  /\ ~late => \A i \in 1..Len(got) : got[i].parts = {got[i].ask}
  /\ \A i \in 1..Len(got) : \A n \in got[i].parts : n <= got[i].ask
  /\ \A i, j \in 1..Len(got) :
       i < j => \E n \in got[i].parts : \A m \in got[j].parts : n < m

(* The stanzas of utop and what the REPL makes of them say the same.        *)
StanzasUnderstood == LinesOnce /\ ErrorsAreMarked /\ CompletionsAreOwn
=============================================================================
