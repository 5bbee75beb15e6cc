-------------------------- MODULE SublimePythonRepl --------------------------
(***************************************************************************)
(* The REPL on Sublime's own Python: each console is a thread of Sublime   *)
(* which runs the lines of its input queue and, for the time of one line,  *)
(* turns sys.stdout into its output queue (redirect_stdio).  sys.stdout is *)
(* one for all consoles, all plugins and all threads of Sublime, so that   *)
(* what anybody prints meanwhile is in that queue too; and the context     *)
(* manager has no finally.                                                 *)
(***************************************************************************)
EXTENDS Naturals, Sequences, FiniteSets

CONSTANTS
  Consoles,
  Plugins,      \* what sys.stdout is when no console has it
  MaxEntries,   \* bound: lines entered into each console
  MaxChatter    \* bound: prints of plugins and of Sublime's other threads

ASSUME PluginsAssumption == Plugins \notin Consoles
ASSUME EntriesAssumption == MaxEntries \in Nat /\ MaxChatter \in Nat

VARIABLES
  sysOut,       \* sys.stdout
  orig,         \* redirect_stdio's local, per console
  console,      \* "wait", "redirect", "line", "restore", "prompt" or "ended"
  input,        \* the input queue
  output,       \* the output queue, as whose print is in it: a console's or
                \* the plugins'
  prompts,      \* prompts put into the output queue
  entries, kills,
  printed,      \* prints of a console's lines
  chatter,      \* prints of plugins and of Sublime's other threads
  overlap,      \* history: a line began while another console's was running
  crossed,      \* history: a line ended before one that had begun within it
  escaped       \* history: a line raised out of the context manager

pyPast == <<overlap, crossed, escaped>>
pyVars == <<sysOut, orig, console, input, output, prompts, entries, kills,
            printed, chatter, pyPast>>

PyInit ==
  /\ sysOut = Plugins
  /\ orig = [c \in Consoles |-> Plugins]
  /\ console = [c \in Consoles |-> "wait"]
  /\ input = [c \in Consoles |-> <<>>]
  /\ output = [c \in Consoles |-> <<>>]
  /\ prompts = [c \in Consoles |-> 1]   \* self.output.put(self.PS1)
  /\ entries = [c \in Consoles |-> 0] /\ kills = [c \in Consoles |-> FALSE]
  /\ printed = [c \in Consoles |-> 0]
  /\ chatter = 0 /\ overlap = FALSE /\ crossed = FALSE /\ escaped = FALSE

At(c, from, to) == console[c] = from /\ console' = [console EXCEPT ![c] = to]

\* write_bytes: is_alive() is always true, the queue takes a line even when the
\* console has ended.
EnterLine(c) ==
  /\ entries[c] < MaxEntries
  /\ entries' = [entries EXCEPT ![c] = @ + 1]
  /\ input' = [input EXCEPT ![c] = Append(@, "line")]
  /\ UNCHANGED <<sysOut, orig, console, output, prompts, kills, printed, chatter, pyPast>>

\* kill: None behind the lines that are waiting.
KillConsole(c) ==
  /\ ~kills[c] /\ kills' = [kills EXCEPT ![c] = TRUE]
  /\ input' = [input EXCEPT ![c] = Append(@, "None")]
  /\ UNCHANGED <<sysOut, orig, console, output, prompts, entries, printed, chatter, pyPast>>

\* line = self.input.get()
GetLine(c) ==
  /\ input[c] # <<>> /\ input' = [input EXCEPT ![c] = Tail(@)]
  /\ IF Head(input[c]) = "None" THEN At(c, "wait", "ended") ELSE At(c, "wait", "redirect")
  /\ overlap' = (overlap \/ \E d \in Consoles \ {c} : console[d] \notin {"wait", "ended"})
  /\ UNCHANGED <<sysOut, orig, output, prompts, entries, kills, printed, chatter, crossed, escaped>>

\* What if the stream to restore were not kept?
RedirectKeepsNothing(c) ==
  /\ At(c, "redirect", "line")
  /\ orig' = [orig EXCEPT ![c] = c] /\ sysOut' = c
  /\ UNCHANGED <<input, output, prompts, entries, kills, printed, chatter, pyPast>>

\* orig = sys.stdout; sys.stdout = QueueOut(queue)
Redirect(c) ==
  /\ At(c, "redirect", "line")
  /\ orig' = [orig EXCEPT ![c] = sysOut] /\ sysOut' = c
  /\ UNCHANGED <<input, output, prompts, entries, kills, printed, chatter, pyPast>>

\* What if a print went to the stream that was there before?
PrintToOrig(c) ==
  /\ At(c, "line", "restore")
  /\ printed' = [printed EXCEPT ![c] = @ + 1]
  /\ output' = IF orig[c] \in Consoles THEN [output EXCEPT ![orig[c]] = Append(@, c)] ELSE output
  /\ UNCHANGED <<sysOut, orig, input, prompts, entries, kills, chatter, pyPast>>

\* The line prints to whatever sys.stdout is by then.
PrintLine(c) ==
  /\ At(c, "line", "restore")
  /\ printed' = [printed EXCEPT ![c] = @ + 1]
  /\ output' = IF sysOut \in Consoles THEN [output EXCEPT ![sysOut] = Append(@, c)] ELSE output
  /\ UNCHANGED <<sysOut, orig, input, prompts, entries, kills, chatter, pyPast>>

\* SystemExit, or a line that cannot be decoded: the generator's rest is not
\* run, and the exception ends the thread.
LineEscapes(c) ==
  /\ At(c, "line", "ended") /\ escaped' = TRUE
  /\ UNCHANGED <<sysOut, orig, input, output, prompts, entries, kills, printed, chatter, overlap, crossed>>

\* (sys.stdout, sys.stderr) = orig
Restore(c) ==
  /\ At(c, "restore", "prompt") /\ sysOut' = orig[c]
  /\ crossed' = (crossed \/ sysOut # c)
  /\ UNCHANGED <<orig, input, output, prompts, entries, kills, printed, chatter, overlap, escaped>>

\* What if a line were not followed by a prompt?
PutPromptNot(c) ==
  /\ At(c, "prompt", "wait")
  /\ UNCHANGED <<sysOut, orig, input, output, prompts, entries, kills, printed, chatter, pyPast>>

PutPrompt(c) ==
  /\ At(c, "prompt", "wait") /\ prompts' = [prompts EXCEPT ![c] = @ + 1]
  /\ UNCHANGED <<sysOut, orig, input, output, entries, kills, printed, chatter, pyPast>>

Console(c) ==
  GetLine(c) \/ Redirect(c) \/ PrintLine(c) \/ LineEscapes(c) \/ Restore(c) \/ PutPrompt(c)

\* A plugin, or another thread of Sublime, prints.
PluginPrints ==
  /\ chatter < MaxChatter /\ chatter' = chatter + 1
  /\ output' = IF sysOut \in Consoles
                 THEN [output EXCEPT ![sysOut] = Append(@, Plugins)] ELSE output
  /\ UNCHANGED <<sysOut, orig, console, input, prompts, entries, kills, printed, pyPast>>

PyNext ==
  \/ \E c \in Consoles : EnterLine(c) \/ KillConsole(c) \/ Console(c)
  \/ PluginPrints

(* The console's thread runs; whether the line it executes ends is the      *)
(* user's affair.                                                           *)
PyFairness ==
  \A c \in Consoles : WF_pyVars(GetLine(c) \/ Redirect(c) \/ Restore(c) \/ PutPrompt(c))

PySpec == PyInit /\ [][PyNext]_pyVars
-----------------------------------------------------------------------------
PyTypeOK ==
  /\ sysOut \in Consoles \cup {Plugins} /\ orig \in [Consoles -> Consoles \cup {Plugins}]
  /\ console \in [Consoles -> {"wait", "redirect", "line", "restore", "prompt", "ended"}]
  /\ input \in [Consoles -> Seq({"line", "None"})]
  /\ output \in [Consoles -> Seq(Consoles \cup {Plugins})]
  /\ prompts \in [Consoles -> Nat] /\ entries \in [Consoles -> 0..MaxEntries]
  /\ kills \in [Consoles -> BOOLEAN] /\ printed \in [Consoles -> Nat]
  /\ chatter \in 0..MaxChatter
  /\ overlap \in BOOLEAN /\ crossed \in BOOLEAN /\ escaped \in BOOLEAN

(* A console keeps sys.stdout only while a line of it runs, and the plugins *)
(* have it back when none does -- unless a line raised out of the context   *)
(* manager, or ended before one that had begun within it.  Lines that run   *)
(* one after the other do not do that, nor do lines within lines.           *)
StdoutComesBack ==
  /\ ~crossed /\ ~escaped /\ sysOut # Plugins => console[sysOut] \in {"line", "restore"}
  /\ ~overlap => ~crossed

(* As long as no two lines overlap, everything a line prints is in the      *)
(* queue of its own console, and nothing another console's line printed;    *)
(* what plugins print while the line runs is there as well.                 *)
PrintsStayHome ==
  ~overlap => \A c \in Consoles :
    /\ Cardinality({i \in 1..Len(output[c]) : output[c][i] = c}) = printed[c]
    /\ \A i \in 1..Len(output[c]) : output[c][i] \in {c, Plugins}

(* The one sys.stdout serves the consoles one after the other, and goes     *)
(* back to the plugins.                                                     *)
StreamsStayApart == StdoutComesBack /\ PrintsStayHome

(* Every line that is entered is answered with a prompt, unless the console *)
(* is killed, a line raises, or a line runs forever.                        *)
LinesAreAnswered ==
  \A c \in Consoles :
    \/ []<>(prompts[c] > entries[c] \/ kills[c] \/ console[c] = "ended")
    \/ <>[](console[c] = "line")
=============================================================================
