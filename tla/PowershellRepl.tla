--------------------------- MODULE PowershellRepl ---------------------------
(***************************************************************************)
(* PowershellRepl: PowerShell shows no prompt, so every command is sent    *)
(* with a prepender that prints one mark, and when something is read the   *)
(* reader swallows it and asks for the prompt; nothing at all means that   *)
(* PowerShell waits for more lines.  The flags got_output and multiline    *)
(* are set by the main thread (write_bytes) and by the reader thread       *)
(* (read_bytes), and both write to PowerShell's stdin, without a lock.     *)
(***************************************************************************)
EXTENDS Naturals, Sequences

CONSTANT MaxLines   \* bound: lines the user enters

ASSUME LinesAssumption == MaxLines \in Nat

\* What is written to stdin: the prepender, which has no newline, and lines.
\* "part" leaves a statement open, "end" ends it, "ask" asks for the prompt.
Lines == {"part", "end"}
\* What PowerShell prints; one read1() returns all of it that has come, or
\* the first of it.
Prints == {"mark", "output", "prompt"}
\* The output of one statement.
Outputs == {<<>>, <<"output">>, <<"output", "output">>}

VARIABLES
  gotOutput, multiline,
  keyboard,   \* write_bytes: "idle", "test", "prepend" or "send"
  line,       \* its argument
  lines,      \* lines entered
  reading,    \* read_bytes: "read", "test", "got", "single" or "prompt"
  result,     \* the chunk in its hands
  stdin, stdout,
  marked,     \* PowerShell has read a prepender and no end of a statement
  within,     \* PowerShell waits for the end of a statement
  display,    \* what read_bytes has returned
  swallowed,  \* history: chunks it has swallowed
  hasty       \* history: a line was entered while something was under way

psFlags == <<gotOutput, multiline>>
psWriter == <<keyboard, line, lines>>
psReader == <<reading, result, display, swallowed>>
psShell == <<stdout, marked, within>>
psVars == <<psFlags, psWriter, psReader, psShell, stdin, hasty>>

\* __init__ ends with prompt().
PsInit ==
  /\ gotOutput = TRUE /\ multiline = FALSE
  /\ keyboard = "idle" /\ line = "end" /\ lines = 0
  /\ reading = "read" /\ result = <<>> /\ display = <<>> /\ swallowed = {}
  /\ stdin = <<"ask">> /\ stdout = <<>> /\ marked = FALSE /\ within = FALSE
  /\ hasty = FALSE

\* Nothing is on its way from anyone to anyone.
Quiet == stdin = <<>> /\ stdout = <<>> /\ reading = "read" /\ keyboard = "idle"
-----------------------------------------------------------------------------
(* The main thread: write_bytes.                                           *)

\* self.got_output = False
DropFlag ==
  /\ keyboard = "idle" /\ lines < MaxLines
  /\ gotOutput' = FALSE
  /\ lines' = lines + 1 /\ line' \in Lines /\ keyboard' = "test"
  /\ hasty' = (hasty \/ ~Quiet)
  /\ UNCHANGED <<multiline, psReader, psShell, stdin>>

\* What if every line were prepended?
TestMultilineNot ==
  /\ keyboard = "test"
  /\ multiline' = TRUE /\ keyboard' = "prepend"
  /\ UNCHANGED <<gotOutput, line, lines, psReader, psShell, stdin, hasty>>

\* if not self.multiline: self.multiline = True
TestMultiline ==
  /\ keyboard = "test"
  /\ multiline' = TRUE
  /\ keyboard' = IF multiline THEN "send" ELSE "prepend"
  /\ UNCHANGED <<gotOutput, line, lines, psReader, psShell, stdin, hasty>>

Prepend ==
  /\ keyboard = "prepend"
  /\ stdin' = Append(stdin, "prepend") /\ keyboard' = "send"
  /\ UNCHANGED <<psFlags, line, lines, psReader, psShell, hasty>>

SendLine ==
  /\ keyboard = "send"
  /\ stdin' = Append(stdin, line) /\ keyboard' = "idle"
  /\ UNCHANGED <<psFlags, line, lines, psReader, psShell, hasty>>
-----------------------------------------------------------------------------
(* PowerShell.                                                             *)

\* A line that ends a statement runs it: first the mark, if a prepender was
\* in it, then output, which a read may cut in two, or none.  A request for the
\* prompt in an open statement is a part of that.
Shell ==
  /\ stdin # <<>> /\ stdin' = Tail(stdin)
  /\ LET item == Head(stdin)
         first == IF marked THEN <<"mark">> ELSE <<>>
     IN  \/ /\ item = "prepend" /\ marked' = TRUE
            /\ UNCHANGED <<stdout, within>>
         \/ /\ item = "part" \/ (item = "ask" /\ within)
            /\ within' = TRUE /\ UNCHANGED <<stdout, marked>>
         \/ /\ item = "end"
            /\ \E prints \in Outputs : stdout' = stdout \o first \o prints
            /\ marked' = FALSE /\ within' = FALSE
         \/ /\ item = "ask" /\ ~within
            /\ stdout' = stdout \o first \o <<"prompt">>
            /\ marked' = FALSE /\ UNCHANGED within
  /\ UNCHANGED <<psFlags, psWriter, psReader, hasty>>
-----------------------------------------------------------------------------
(* The reader thread: read_bytes.                                          *)

\* popen.stdout.read1(32768)
ReadPrints ==
  /\ reading = "read"
  /\ \E n \in 1..Len(stdout) :
       /\ result' = SubSeq(stdout, 1, n)
       /\ stdout' = SubSeq(stdout, n + 1, Len(stdout))
  /\ reading' = "test"
  /\ UNCHANGED <<psFlags, psWriter, display, swallowed, stdin, marked, within, hasty>>

\* if result and not self.got_output
TestFlag ==
  /\ reading = "test"
  /\ IF gotOutput
       THEN display' = display \o result /\ reading' = "read" /\ UNCHANGED swallowed
       ELSE swallowed' = swallowed \cup {result} /\ reading' = "got" /\ UNCHANGED display
  /\ UNCHANGED <<psFlags, psWriter, result, psShell, stdin, hasty>>

\* What if the reader swallowed every chunk up to the next line?
SetGotNot ==
  /\ reading = "got" /\ reading' = "single"
  /\ UNCHANGED <<psFlags, psWriter, result, display, swallowed, psShell, stdin, hasty>>

SetGot ==
  /\ reading = "got" /\ gotOutput' = TRUE /\ reading' = "single"
  /\ UNCHANGED <<multiline, psWriter, result, display, swallowed, psShell, stdin, hasty>>

SetSingle ==
  /\ reading = "single" /\ multiline' = FALSE /\ reading' = "prompt"
  /\ UNCHANGED <<gotOutput, psWriter, result, display, swallowed, psShell, stdin, hasty>>

\* What if no prompt were asked for?
AskPromptNot ==
  /\ reading = "prompt" /\ reading' = "read"
  /\ UNCHANGED <<psFlags, psWriter, result, display, swallowed, psShell, stdin, hasty>>

AskPrompt ==
  /\ reading = "prompt"
  /\ stdin' = Append(stdin, "ask") /\ reading' = "read"
  /\ UNCHANGED <<psFlags, psWriter, result, display, swallowed, psShell, hasty>>

ReadBytes == ReadPrints \/ TestFlag \/ SetGot \/ SetSingle \/ AskPrompt

PsNext == DropFlag \/ TestMultiline \/ Prepend \/ SendLine \/ Shell \/ ReadBytes

PsSpec == PsInit /\ [][PsNext]_psVars
-----------------------------------------------------------------------------
PsTypeOK ==
  /\ gotOutput \in BOOLEAN /\ multiline \in BOOLEAN
  /\ keyboard \in {"idle", "test", "prepend", "send"}
  /\ line \in Lines /\ lines \in 0..MaxLines
  /\ reading \in {"read", "test", "got", "single", "prompt"}
  /\ result \in Seq(Prints)
  /\ stdin \in Seq(Lines \cup {"prepend", "ask"}) /\ stdout \in Seq(Prints)
  /\ marked \in BOOLEAN /\ within \in BOOLEAN
  /\ display \in Seq(Prints) /\ swallowed \subseteq Seq(Prints) /\ hasty \in BOOLEAN

(* While the user waits for PowerShell to be quiet, what is swallowed is a  *)
(* mark and no more than the output that was read along with it: never a    *)
(* prompt, never two marks, never a chunk without one.  No mark is shown.   *)
MarksSwallowed ==
  ~hasty =>
    /\ \A chunk \in swallowed :
         chunk # <<>> /\ chunk[1] = "mark"
         /\ \A i \in 2..Len(chunk) : chunk[i] = "output"
    /\ \A i \in 1..Len(display) : display[i] # "mark"

(* When all is quiet, either the prompt is the last thing shown, or         *)
(* PowerShell waits for the end of a statement and multiline says so.       *)
PromptOrMore ==
  ~hasty /\ Quiet =>
    \/ ~multiline /\ ~within /\ display # <<>> /\ display[Len(display)] = "prompt"
    \/ multiline /\ within /\ ~gotOutput

(* The two threads' flags agree with PowerShell: nobody sends a prepender   *)
(* into an open statement.                                                  *)
PrependsAtStart ==
  ~hasty => \A i \in 1..Len(stdin) : stdin[i] = "prepend" => i = 1 /\ ~within /\ ~marked

(* The flags of the two threads agree with what PowerShell waits for.       *)
FlagsAgree == MarksSwallowed /\ PromptOrMore /\ PrependsAtStart
-----------------------------------------------------------------------------
(* What the repository says of the program and the code does not do.       *)

(* repls/powershell_repl.py:13-14: "No output at all means, that PowerShell *)
(* needs more input (multiline mode).  In this case we proceeds sending     *)
(* user input without modifications" -- so no prepender gets into an open   *)
(* statement, however fast the lines are entered.                           *)
OpenStatementUnmodified ==
  stdin # <<>> /\ Head(stdin) = "prepend" => ~within
=============================================================================
