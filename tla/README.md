# SublimeREPL-ssh in TLA+

Sublime Text runs an interpreter, a shell, or an ssh session behind an ordinary
editor view. Three threads, a queue and half a dozen ways of talking to a program
(pipes, winpty, paramiko, telnet, execnet) stand between the program and the view;
around them a history file, completions over a socket, remote files opened in the
editor, and a terminal emulation that draws into the view. This directory specifies
that machinery, model-checks it with TLC, and proves most of its safety with TLAPS
for any number of threads' steps, REPLs, commands, files and failures.

    tlc -config MCReplPump.cfg MCReplPump      # one run
    tlapm ReplPumpProofs.tla                         # one module of proofs

`PROJECT.json` lists the runs, the mutants (plausible bugs, each of which the property
it is listed with must catch), the lines of source every definition stands for, the
findings, the hazards and the theorems.

## 1. The system

| component | state it keeps | operations | talks to |
|---|---|---|---|
| output pump: `ReplReader`, `ReplView._update_view_loop`, `handle_repl_output`, `clear_queue` (`sublimerepl.py`) | the queue, the update thread's `text` and `ret` | `q.put`, `get_nowait`, write to the view, closing banner, auto close | `Repl.read` below, the view above |
| `Repl` and its classes (`repls/`) | process or connection, `_alive`, `_killed`, decoder | `read_bytes`, `write_bytes`, `is_alive`, `kill`, `send_signal` | the program |
| `Interceptor` (`interceptor/`) | `_intercept_recv`, `_recv_Q` | `_read_bytes`, `_intercept_cmd`, `_recv_intercepted`; Tab, vi, sftp on top | reader thread and UI thread of one REPL |
| edit region of `ReplView` | text, `_output_end`, cursor, the read-only flag | write, type, backspace, escape, recall, enter, clear, `adjust_end` | update thread and UI thread |
| ANSI control and colours (`ansi/`) | `_cursor_pos` in the view, the style | cursor, erase and colour sequences | edit region |
| command history (`MemHistory`, `HistoryMatchList`) | `_stack`, `_last`, the list recalled from, its cursor | push, match, previous/next command | the input line |
| `PersistentHistory` on `repllibs/PyDbLite` | the file, each REPL's `records` and `next_id` | create, open, insert, commit | all REPLs of one `external_id` |
| `ReplManager` | `repl_views`, the setting `repl_id` of each view | open, restart, `_delete_repl` | `ReplView.call_on_close`, auto close |
| autocomplete server and clients | listening socket, connection | `complete`, `read_netstring`, `send_netstring` | IPython, pry |
| `PowershellRepl` | `got_output`, `multiline` | `write_bytes` with prepender, `read_bytes` that swallows marks | PowerShell |
| `SublimePythonRepl` | two queues, the borrowed `sys.stdout` | the console thread, `redirect_stdio` | all of Sublime's plugins |
| `SublimeUTopRepl` | the pending phrase, completions | stanzas read and written, highlights | utop |
| sftp editing (`_get_file`, `put_file`, the view event listener) | local copies, settings of their views | download, save, upload, close | interceptor, paramiko |
| text transfer, completions, menus, language integration, input log | none of their own | glue | all of the above |

How they interact. `ReplReader` blocks in `repl.read()` and puts what it gets, at the
end `None`, into a queue. The update thread polls: while `repl.is_alive()` it takes
packets without waiting, joins them, and writes them into the view; after `None` it
writes a banner and perhaps closes the view. Everything else (keys, commands, kill,
signals, `on_close`, the interceptor's commands, the history and its file) is Sublime's
main thread; `on_post_save_async` has a thread of its own. The threads share, without
a lock, `_alive`, `_killed`, the process handle, the interceptor's flag, `_output_end`,
the flags of `PowershellRepl` and the phrase of `SublimeUTopRepl`; the queues have
locks, but `clear_queue` and the interceptor's `clear()` reach behind them into the
deque.

What is hard. The end of a program reaches the update thread twice, by `is_alive()` and
by `None`, in any order. Signals throw away a queue others are using. A reader blocked
on a full queue is woken by `get` and not by `clear`. Answers come after their
timeout, or in part. Enter is pressed between two steps of `write()`. A REPL can be
killed, closed by the user and closed by itself at once, and its update thread
survives it in a view that shows the next REPL. A history file is emptied before it
is written, and several REPLs write all of it. Saves wait for uploads of files that
closing a view removes.

What makes each component correct:

* pump: output in order, once, lost only where the code throws it away on purpose; the
  banner only at the end; a REPL no command can reach has no program left; the reader
  ends; output and the end reach the view.
* interceptor: no unit goes both ways or no way, the reader is never left asleep, an
  answer is in order, the UI thread comes back; Tab completes to what exists.
* edit region: the boundary is exact; what is sent is what the user typed, once.
* ANSI: positions are those of the text, no sequence touches more than its place.
* history: the cursor is on a command, the list is never stale, nothing twice in a row.
* persistent history: chronological; nothing committed is lost to restarts; a file is
  unreadable only after an interrupted commit.
* manager: a view's REPL is the one its keys reach; every running program is reachable;
  auto close closes its own view.
* autocomplete: a request gets its own answer or none; `complete` comes back.
* Powershell, Python, utop: what each thread believes of the interpreter is true.
* sftp: a save arrives, no other file is touched, no copy stays behind.

## 2. The modules

| module | models | proofs |
|---|---|---|
| `SeqOrder` | what it means that a sequence of units is in order | `SeqOrderProofs` |
| `OutputStream` | the abstract promise: a view shows a growing, ordered part of what was emitted; discarded units are never shown; nothing follows the banner | implemented by the next two |
| `ReplPump` | reader thread, update thread, UI thread and the seven kinds of `Repl` they work on | `ReplPumpProofs` |
| `Interceptor` | the reader and `_intercept_cmd` on one flag and one queue of size 1 | `InterceptorProofs` |
| `TabCompletion` | what Tab makes of an answer, whole, cut, or mixed with something else | `HostProofs` |
| `EditRegion` | `write()` against the keys, step by step, on one view | `ViewProofs` |
| `AnsiControl`, `AnsiColor` | the screen, with input of several lines behind the output, as a function of control sequences; the loop that decodes a colour | `TextProofs` |
| `Decoder` | `\r\n` and multibyte characters over any cut into reads | `TextProofs` |
| `History` | the input line and the commands recalled into it | `ViewProofs` |
| `PersistentHistory` | several REPLs on one history file, with crashes and failing writes | `ViewProofs` |
| `ReplManager` | opening, restarting, closing, and update threads that outlive their REPL | `HostProofs` |
| `Autocomplete` | client, network and interpreter, byte by byte | `HostProofs` |
| `PowershellRepl` | writer and reader thread on two flags, and PowerShell | `HostProofs` |
| `SublimePythonRepl` | consoles and plugins that take turns, or not, with `sys.stdout` | `HostProofs` |
| `UtopRepl` | main thread and reader on one phrase, and utop's stanzas | `UtopReplProofs` |
| `SftpEdit` | fetch, edit, save, upload, close, with failing transfers | `HostProofs` |
| `MC*` | constants for TLC; `MCView` and `MCParts` put components side by side | `ViewProofs`, `PartsProofs` |

### ReplPump

A *unit* is what one `repl.read()` returns, numbered in the order the program wrote it;
its text, decoding and drawing are abstracted, its order, loss and duplication are not.
The end marker `None` is the number after the last unit, so that "in order" also
says "the marker comes last". `pump`, `reader` and `ui` are the program counters:

| value | where the thread is |
|---|---|
| `pump = check / get / flush` | `while self.repl.is_alive()`, `get_nowait()`, `if len(text)` and `return ret` |
| `pump = banner / close / done / crashed` | after the loop; waiting for the auto close; over; dead of a `TypeError` |
| `reader = reading / putting / ended / failed` | in `read()`; holding its result; after `None`; dead of an exception |
| `ui = kill / drop / deregister / clear / type` | between the assignments of `kill`, before Telnet's last one, before `call_on_close`, before `clear_queue`, before a signal is typed into ssh |

A step of a thread ends where another thread could notice it: `is_alive()` and the
`get_nowait()` that follows are two steps, as are the parts of `kill()`, and a signal and its
`clear_queue`. `IsAlive` asks the process (`subprocess`, `winpty`, `utop`) or reads `_alive`
(`ssh_paramiko`, `telnet`, `execnet`). The kinds differ further in what `read_bytes` does when
nothing is there (`NonBlockingKinds`: `O_NONBLOCK` on Linux and macOS; pywinpty sends
`0011Ignore`, of which `_read` makes no bytes), in what it raises (`RaisingKinds`), in what
`kill` writes first (`PopenKinds`), and in what a packet is (`ApiV2Kinds`: a list). `execnet`
is modelled although `repls/__init__.py` leaves the class out for now. `MayDropAlive` is what
a write does to `_alive`: `ssh_paramiko` lowers it on any `SSHException`, which paramiko
raises of a closed connection and also of a live one whose key exchange takes too long. `lost`
and `endLost` record what `clear_queue` dropped; no action reads them.

### Interceptor and TabCompletion

`_read_bytes` reads the flag once (`TestFlag`) and puts later (`PutUnit`, `PutWait`). The
queue is `queue.Queue` as its users see it: `get` notifies a waiting `put`, and
`queue.clear()` on the deque does not (`TakeAndNotify`, `Wipe`). `_intercept_cmd`
is `Raise`, `WriteCommand`, up to `Tries` of `GetAnswer` or `GetTimesOut`, `WriteEscape`
for cmd.exe, `Lower`, `Drain` (`get_nowait`), `Wipe`.

`TabCompletion` starts where the answer was taken: any beginning of what came may have come
within the five tries. A shell answers in lines (`Echo`, names, `Prompt`), of which the last
may not be whole; cmd.exe answers with characters of the completed line. Something else may
come as well (`StrayTexts`, `StrayLetters`): the rest of an answer to an earlier command,
which `Interceptor` shows to be possible, or what a program in the background prints.
`WithStray` puts it between any two lines, before or behind, with or without an end of line;
`joined` records that it came where it does harm. `CommonPrefix` is the code's loop; the
library's `LongestCommonPrefix` its reference.

### EditRegion

A cell of `text` is one write of the program, one text the user entered, or the postfix
of a command. Changes of the text run on the main thread, also those of `write()`, so
`ReadPosition`, `Insert`, `LoadEnd` and `StoreEnd` are its four steps, and only `Insert`
waits for a handler of the main thread to end. `enter` and `clear` are two steps each,
since they read the text before they assign `_output_end`; the echo is erased when
`suppressEcho`. `upset` says which known disturbance a behaviour has had ("race": a key
came while `write()` was under way; "clear": `clear` with the cursor in the output;
"trespass": the user typed into the output), and the properties say what holds before.

### AnsiControl, AnsiColor, Decoder

`screen` is text, `_output_end` and `_cursor_pos`; every control sequence is an operator on
such a record (`Up`, `Down`, `ToColumn`, `LineErased`, ...), every handler draws one. What
stands behind `_output_end` is `Input` and `InputNL`, a newline of what was pasted or sent
from another view: `_find_line_start` and `_find_line_end` see it like any other
(`NewlineAt`). `screen.strayed`, which no operation reads, records that `_output_end` left the
end of the output. `AnsiColor` is `_decode`'s loop, one step per number, with `_decode_multi`
for 38 and 48; a number is what the regular expressions found and left (`Supported`: line 186
makes bold of `ESC[2m`, and of `ESC[0;2m`, whose reset is lost). Numbers are compared as
texts, as the code does: `310` is red (`Fg`). `Decoder` reads any chunk of any text over `a`,
`\r`, `\n`, a character of two bytes, and a byte that is wrong.

### History and PersistentHistory

Texts are members of a small set; `Strip` and `StartsWith` say of them what `rstrip` and
`startswith` compute. `Recall` is `previous_command` or `next_command`: keep the list or
match anew, move the cursor within its limits, replace the line unless the command is
empty. Between recalls the user edits and enters.

`commit()` is two steps, since `open(name, 'wb')` empties the file and the dump comes
after: `Create` and `Push` leave the file `torn`, `EndCommit` makes it `intact`. Between
them the main thread does nothing else (`writer`), but Sublime may be killed (`Crash`) and
the write may raise (`CommitRaises`: a failing write to the emptied file; a failing
`open`, which leaves the file as it was, is not modelled). A push that repeats the last
command changes nothing and is a stuttering step. Records are never deleted,
so `__id__` is the position in the sequence. `base`, `committed`, `interrupted` and
`overlapped` are history variables.

### ReplManager

A REPL is its number. `open()` is two steps: `Start` runs the program and its threads
(and may raise in `ReplView.__init__`: `orphans`), `Register` puts it into `repl_views`.
`shown` is the setting `repl_id` by which keys find their REPL, `place` the view the
REPL writes into. `updater` follows an update thread that noticed the end: `focus`,
then `close`, two calls between which the user may move the focus (`astray`).

### Autocomplete, PowershellRepl, SublimePythonRepl, UtopRepl

`Autocomplete` numbers the bytes of an answer; `Arrive` delivers them one by one, so
`recv` gets any part. `ReadBody` keeps the code's `size -= len(msg)`. The
interpreter may die (`ServerFails`) or hang up, after which a `sendall` may raise (`SendFails`);
`TimesOut` is the four seconds.

`PowershellRepl` takes the flags apart into one step per test, assignment and write of
both threads. A read returns any part of what has come (`ReadPrints`), so a mark may come
with the output behind it, or alone. `SublimePythonRepl` has one step per statement of the
console's loop that another console can notice; a plugin prints whenever it likes, into whatever
`sys.stdout` is then (`PluginPrints`). `UtopRepl` sends whole commands; its reader takes stanzas
one by one and resets `_phrase` and `_phrase_line_begins` in two steps;
`Highlighted` is `compose_highlights`, compared with the cells utop meant. PowerShell,
utop and the user are external.

### SftpEdit

A content is the file it stems from and the number of its last edit, or one of `Cut`,
`EmptyFile`, `Absent`. `BeginUpload` empties the remote file and `EndUpload` writes it, since
`sftp.put` does; a save queues its upload, and closing the view turns what is queued
into `Gone` and removes the copy, unless an upload holds it open: paramiko is used on Windows only,
where `os.remove` then raises (`kept`). `mixed`, `lostSave`, `badFetch` and `kept` are history: two
files of one base name in one copy, saves known not to arrive, downloads that went
wrong, copies left behind.

## 3. What the runs show

| run | bounds | distinct states | question |
|---|---|---|---|
| `pump` | 7 kinds, 3 units, 2 signals | 335 000 | order, loss, banner, deregistration; `ReplPump` implements `OutputStream`; the reader ends, output and the end reach the view |
| `interceptor` | 5 tries, 4 units, 2 commands | 25 000 | nothing lost, doubled, stuck; every command ends; implements `OutputStream` |
| `view` | edit region: 2 writes, 2 texts, 2 of enter, escape, clear; history: 5 texts, 4 pushes; file: 2 REPLs, 2 commands, 4 pushes, 2 faults | 1 460 000 | what one view keeps |
| `parts_programs` | below | 487 000 | what is made of what programs send: `Autocomplete`, `PowershellRepl`, `SublimePythonRepl`, `UtopRepl`, `AnsiColor` |
| `parts_views` | below | 451 000 | views, the files behind them, what is drawn and completed in them: `ReplManager`, `SftpEdit`, `Decoder`, `AnsiControl`, `TabCompletion` |
| `pump_dead`, `pump_signal`, `history_reset`, `persistent_history_shared`, `edit_sent`, `powershell_haste`, `sftp_empty` | 1 to 3 of everything | | the findings below |

`parts_programs` and `parts_views` are one specification, `MCParts`; the constant `Parts` says
which of its ten components a run is about. In `view` and in these two a behaviour is one of
one component (`part`), the others stay as they began: the components named there share no
variable, so what holds of a behaviour holds of the component by itself. The converse is
proved: `ViewComposes` and `PartsCompose` say that a behaviour of the whole is one of each
component.

Properties of these three runs are conjunctions of named parts, each commented in its
module: `RegionIsExact` (`Boundary`, `WrittenInOrder`, `TypedKept`), `HistoryIsSound`
(`CursorOnCommand`, `MatchIsFresh`, `NoRepeats`), `FileIsSound` (`Chronological`,
`TornOnlyIfInterrupted`, `RecordedOnce`), `AnswersMatch` (`AnswersInOrder`, `OwnAnswer`),
`SplitsAreInvisible` (`ChunksInvisible`, `ErrorsAreReal`), `RegistryIsTrue`
(`CommandsReachTheirRepl`, `RunningIsRegistered`), `FlagsAgree` (`MarksSwallowed`,
`PromptOrMore`, `PrependsAtStart`), `StreamsStayApart` (`StdoutComesBack`,
`PrintsStayHome`), `FilesAreSafe` (`OwnContent`, `NoDamage`, `SavesArrive`,
`CopiesRemoved`), `ColorsAreRead` (`LastColorDecides`, `PaletteStays`, `PlainDoesNotRaise`),
`ScreenIsExact` (`EndIsExact`, `ColumnIsKept`), `DrawingIsLocal` (`StraysAreKnown`, `LinesStay`,
`PrintReplaces`, `MovesDrawNothing`), `StanzasUnderstood` (`LinesOnce`, `ErrorsAreMarked`,
`CompletionsAreOwn`), `TabCompletes` (`TypedStays`, `GrowsToCommon`), `WaitsEnd`
(`CompleteEnds`, `LinesAreAnswered`, `DecodeEnds`); `TypesOK` is every component's type
invariant.

Why the bounds are enough. Three units are one in the reader's hands, one in the queue or
local text, one shown, so each place can be ahead of each other one; two signals clear the
queue before and after output or the end marker. Four units and two commands of five tries let
an answer miss its own command, fill the queue, block the reader and be found by the next
command. `range(5)` is the code's own number. In the history, `"l"`, `"ls"` and `"ls_"` (a
trailing blank) give prefixes with no, one and several matches. Four records on two REPLs let
each overwrite the other and reopen; two faults let a commit fail and then Sublime crash. In
the `parts` runs: answers of three bytes come in up to three receives, and three requests let
a late answer overtake two; three REPLs in two views are a restart and a REPL beside it; four
PowerShell lines are two statements of two lines, and a statement prints two pieces at most,
so that a read can part them; two consoles and one print of a plugin, two remote files of one
base name, two edits, two queued saves and one failing transfer are each the fewest with which
the interesting case happens; five numbers hold an extended colour and what is before or
behind it, and `310` is a colour only as a text; five cells on a screen of four lines have
short, long and missing lines; three lines of no or two characters are a phrase that begins
with, ends with or skips an empty line; three names over two letters diverge in the first,
second or third, and a line, a prompt or a part of a line is what may come besides
(`MaxStray`). Everything proved holds for all bounds besides.

The constraint `Claimed` of the `parts` runs ends a behaviour where the properties claim
nothing any more: copies of two files mixed, a line entered before the marks of PowerShell or
the answer of utop. The liveness property of `parts_programs` is about components in which
none of these happens; what happens in PowerShell's case is the run `powershell_haste`, which
has no constraint.

`CHECK_DEADLOCK FALSE` everywhere: a REPL that ended stops, the user may do nothing, and
the bounds end.

Fairness. The reader, the update thread and the main thread's running command are
threads of one process that never wait for anything but what their guards say, so each
is weakly fair as a whole; Sublime runs a close the update thread asked for
(`view = "closing" /\ CloseView`). `complete()` runs, and four seconds pass
(`AcFairness`); a console's thread runs, but whether the line it executes ends is the
user's affair (`PyFairness`); the loop over colour numbers runs (`CoFairness`). Nothing is
assumed of the program at the other end, of the user, or of which of two outcomes a
step has. Every liveness property carries its exceptions in the formula: a REPL that
stopped counting as alive, a hang-up, a cleared queue, a socket closed behind a
header, a console killed or ended by a line, a colour that is none.

Properties worth a second look:

* `NothingSkipped`: whatever the reader took is shown, on its way, or was dropped by
  `clear_queue`; it excludes only the update thread that died of a `TypeError`.
* `BannerAtTheEnd` excludes the non-blocking kinds (winpty among them), where the reader takes
  "nothing there yet" for the end and the banner may stand under a program that runs.
* `ForgottenIsOver`: what left `repl_views` has been killed or hung up on, but for an ssh
  connection whose `_alive` a failed write lowered; and a REPL whose view is closed has
  left `repl_views`, but for one whose `kill()` wrote into the pipe of a process that had just
  died. It holds through three orders of kill and flags that fall by themselves.
* `MarksSwallowed`: with a line at a time, what is swallowed is one mark and the output that
  was read with it, never a prompt and never output alone.
* `StraysAreKnown`: `_output_end` leaves the end of the output in three ways only. Input
  of several lines is one of them: with `x` and `y` pending on two lines, at the end of the output
  `ESC[K` erases `x` and lowers `_output_end`.
* `LastColorDecides` is about what `_decode` means, not what a terminal does: there an empty number
  is a reset wherever it stands, `39` and `49` set the default, and `310` is nothing.
* `PrintsStayHome` does not say that a console shows its own prints only: what a plugin prints
  while a line runs is there as well, since there is but one `sys.stdout`.
* `AtMostOneLeftBehind` is what `_intercept_cmd`'s `get_nowait()` before `clear()` buys,
  and `NoStuckReader` is why it is needed at all.
* `AloneNothingLost` holds across crashes, restarts and failed commits, and fails as soon
  as two REPLs overlap (`HistoryIsShared`).
* `OwnAnswer` and `AnswersInOrder` hold in spite of `size -= len(msg)`: a miscounted text
  fails the comma, `json.loads` or the next header, and is never taken for another one.
* `SavesArrive` and `NoDamage` hold for uploads that run while their copy is edited,
  saved again, closed and fetched again under the same name.
* `TypedKept`: no order of the four steps of `write()` and the keys makes a typed text
  vanish, although `_output_end` is assigned by both.

### Findings

1. `pump_dead`: `handle_repl_output` looks into the queue only while `is_alive()`. A
   subprocess that dies with output or `None` still queued is never looked at again: no
   banner, no auto close, and the update thread spins for good. The settings file
   promises both.
2. `pump_signal`: `clear_queue` after a signal drops the end marker if it is there.
3. `history_reset`: after a prefix without a match, an emptied line keeps the empty list,
   and "previous command" recalls nothing.
4. `persistent_history_shared`: REPLs of one `external_id` overwrite each other's commits,
   where the settings say they share a history.
5. `edit_sent`: an Enter between the insertion of output and the advance of `_output_end`
   sends that output to the program as if the user had typed it.
6. `powershell_haste`: a line entered while a mark is under way may open a statement that the
   reader then takes for finished, so the next line is sent into it with a prepender; the
   comment of the class says that lines of an open statement are sent without modifications.
7. `sftp_empty`: an `IOError` of the download makes an empty copy, and the next save empties the
   remote file; the settings file describes download, edit and upload of the file.

### What the models say besides

These are behaviours of the modules, and the reason for the exceptions in the properties. No
run is about them: of most the repository does not promise the contrary, and where it does,
the line is named and the step itself shows it.

* Pump: a non-blocking pipe that is empty for a moment makes `read_bytes` return `None`
  (`ReadNothing`), which `repls/repl.py:74` reserves for output that died; the packets of
  `SublimeUTopRepl` are lists, and `text += packet` kills the update thread, which
  `sublimerepl.py:410` does not foresee; a failed write takes an ssh connection for dead, also when
  it lives (`MayDropAlive`), so that its shell is not killed with its view, while
  `repls/repl.py:67` says that `is_alive` tells whether the process is still working.
* Manager: two REPLs that end together may close a third view or a file, if the focus moves
  between `focus_view` and `close`; after a restart the old update thread may close the
  view of the new REPL; a `ReplView.__init__` that raises leaves a program nothing reaches.
* Edit region: `clear` with the cursor in the output counts what is left of the output as
  input; `escape` during a write erases output not yet counted; output makes the view
  writable while the cursor is in it.
* ANSI: `restart` begins at `_cursor_pos` 0 of a view that has text; `clear` leaves
  `_cursor_pos` where it was; `erase display` takes pending input along; with pending input of
  several lines, erasing the last line of the output takes its first line and moves
  `_output_end`, and moving down leads into it. No line of the documents speaks of these.
* Colours: 38 or 48 followed by neither 2 nor 5 never ends the loop (`DecodeNeither`), and the
  update thread with it; 38;2 always raises; 38;5;n reads n once more as an item of its own;
  of sequences in a row only the last counts; the reset of `ESC[0;2m` is lost.
* Decoder: a `\r` that a cut keeps before its `\n` stays in the text.
* Autocomplete: a text received in parts is miscounted, so its request fails; a socket that
  closes behind a header keeps the main thread for good.
* PowerShell: one `read1()` may return the mark with the output behind it, and both are
  swallowed, although `powershell_repl.py:45` says that what is consumed must be the
  prepender; a line entered while the mark of the last one is under way may have its prompt,
  or its own output, swallowed.
* Python: lines of two consoles that overlap print into each other's views and, if the first to
  begin ends first, leave `sys.stdout` redirected; prints of plugins go to the console whose line
  runs; `exit()` always does, ends the thread, and `is_alive()` stays true.
* utop: a line entered before the answer to the last one is evaluated twice or never; a
  program that prints a byte outside the encoding stops the reader for good, for the
  `UnicodeDecodeError` is a `ValueError`, which means "not a whole stanza yet"; an error
  that ends in a newline before an empty line is highlighted backwards.
* Tab: what comes besides the answer (a late answer, a background program's output) is taken
  for names, so the typed word is lost or the echoed command takes its place; a slow answer of
  the shell completes further than the names allow, and one of cmd.exe replaces the line by
  its beginning.
* sftp: remote files of one base name share a copy, and the second is uploaded over by the
  first; a copy whose view is closed during its upload stays on the disk; a view closed before
  its queued save loses it; the status says "uploaded" of an upload that failed.

## 4. What is proved

All theorems are of the form `Spec => []P`, `Spec => [][A]_vars` or
`Spec => Abstract!Spec`, without fairness, for every value of the constants that
satisfies the named assumptions of their modules: bounds are any numbers, kinds any
set of the seven kinds, `Tries` and `Body` any positive numbers, REPLs, commands, consoles
and paths any sets without the value that stands for none of them. Of Python's strings
`ViewProofs` assumes what `PrefixAssumption` and `StripAssumption` say: every text starts with
itself and with the empty one, and `rstrip` of an `rstrip`ped text changes nothing.
Nothing else is assumed.

`SeqOrderProofs` has what the others need of sequences. The induction theorems of the
library take an operator, which no prover here can supply, so it has its own, which
speak of sets and functions: `SetInduction` (a set of numbers that has 0 and with `n` has
`n + 1` has them all) and `PrimitiveRecursion` (a function defined by recursion exists and
has its equations), both from the well-founded order of numbers. On these rest
`HowMany` (how many places of a sequence have a value of a set, with what an `Append` and a
`Tail` do to it) and the theorems on the recursive functions of `History` and
`UtopRepl`. `AppendIs`, `PartOf`, `Between`, `PutBehind` and `CutOut` say place by place what the
operations of the models leave where.

`ReplPumpProofs`

* `TypeCorrect`, from `TypeInv` = `TypeOK` and `HandInv` (a unit in the reader's hands is
  the last one taken).
* `Forgotten` (`ForgottenIsOver`), from `ForgottenInv`: `_alive` is down only for a REPL that
  is over, in the middle of `kill()`, or an ssh connection with a failed write (`Dropped`);
  without this the step that deregisters on `_alive = False` has nothing to stand on. And a
  closed view that is still registered is one in the middle of `on_close`, or of a process
  that died.
* `Ordered` (`OutputInOrder`), from `FlowInv`: `OrderInv` (each of view, text and queue is
  ascending, and each is below the next), `TakenInv` (nothing on its way is newer than
  what was taken, the unit in hand is new, what was cleared is gone) and `MarkerInv` (the
  marker is put last). The property itself is not inductive: it does not know that the
  next unit is larger than every one on its way. One lemma per action that moves units,
  on the lemmas of `SeqOrderProofs` on appending to and joining ascending sequences.
* `NothingLost` (`NothingSkipped`), `BannerTrue` (`BannerAtTheEnd`), from `SkipInv`,
  `EndInv` and the above: on a blocking REPL the marker was made when everything written
  had been taken.
* `ImplementsStream`: every step of the pump is a step or a stutter of `OutputStream`,
  with `discarded` the units cleared and `ended` the banner written.
* `ReaderRuns`, `PassRuns`: variants of the reader thread and of one pass of the update thread.
  `ReaderLeft` counts two steps for each unit written and not taken, and the reader's place;
  `PassLeft` two for each packet queued, and the pump's. Each step of the thread lowers its
  variant; only the program raises the first and only the reader the second; a pass begins
  anew only when `Flush` returns True.
* `DoneAtRest`, from `FateInv` (the marker, once put, is in the queue, was taken or was cleared) and
  all of the above: when the reader has no step to make and queue and buffer are empty, a
  reader whose program is over has ended; what was written is shown or was cleared, for a kind
  that blocks and was not hung up on; and the marker led to the banner, or is one step from
  it, unless it was cleared. It excludes the reader that died of an exception and the update thread
  that died of a `TypeError`.
* `StrandedForEver`: an update thread that sees `is_alive()` down before it took the marker never
  writes the banner. Finding 1 is an example of it; the theorem says that nothing the
  threads or the user do later repairs it, for any kind, since neither `poll()` nor `_alive`
  comes back and the loop does not look into the queue.

`InterceptorProofs`

* `TypeCorrect`; `ReaderIsWoken` and `OneLeftBehind` together, from `WakeInv`: they need
  each other and the fact that the flag is up exactly while a command runs, since a
  reader may test the flag in one command and put in another.
* `OneWay`, `AnswersOrdered`, from `OrderInv`; `ImplementsStream`.
* `ThreadsDoNotSpin`: `Work` is a variant of both threads together: four for each unit that has not
  come in, the reader's place, and twice the command's, since a `get` sends a waiting `put` back by
  one place. So no schedule lets a `put` that is woken, finds the queue full and waits again go on
  for ever.
* `NothingLeftAtRest`: when neither thread has a step, no `put` waits, and what was sent is
  what went to the view and what the interceptor took, with nothing in the queue or in a hand.

`ViewProofs`, on `EditRegion`

* `ErTypeCorrect`; `RegionAlwaysExact` (`RegionIsExact`), `SentAlwaysOnce` (`SentOnce`) and
  `OutputIsKept` (`OutputKept`), from `Calm`, which holds until a key disturbs `write()` or the user
  trespasses. It says at every step of `write()` and of the handlers where the boundary
  is (`Exact`: behind the output, one cell further between `Insert` and `StoreEnd`), that the
  position in the register is still good (`WriterSafe`), that what is typed is newer than
  what was sent (`TypedSafe`), and what `adjust_end` will find (`HandlerSafe`: the command is
  all of the text behind the boundary, with its postfix). The properties see the text
  between the steps and know none of this. The proof has a lemma for each key and each
  step of `write()`, on what `Inserted` and `Without` do to every cell.

on `History`

* `HiTypeCorrect`, `HistoryAlwaysSound` (`HistoryIsSound`) and `RecallKeepsBeginning`
  (`KeepsBeginning`). The invariant adds `LastIsOnTop`: `_last`, with which `push` compares, is
  the top of the stack. That a recalled command
  begins with the prefix needs what the loop of `match` returns, for a stack of any length
  (`SetInduction` over `Matching`).

on `PersistentHistory`

* `PhTypeCorrect`, from `PhTypeInv`: besides types, `SessionInv` (the writer is an open REPL, and
  one that is opening writes an empty base) and `PhOrderInv` (file and memories ascend and are older
  than the clock), without which the next time stamp could leave its range.
* `FileSound` (`FileIsSound`), from `SoundInv`, whose `LastInv` ties `_last` to the newest
  record of a session that no failed commit has touched: that is what `push` compares.
* `NothingLostAlone` (`AloneNothingLost`), from `KeptInv`: as long as nobody overlapped, at
  most one REPL is open and its memory has all that was ever committed, also while the
  file is torn; and nothing was committed while there is no file.

and on `MCView`

* `ViewComposes`: a behaviour of the three components side by side is one of each; so
  `ViewTypeCorrect` (`TypesOK`), and `ViewSafe`: all the safety properties the run `view`
  checks, of the specification it checks.

`TextProofs`, on `Decoder`

* `SplitsAlwaysInvisible` (`SplitsAreInvisible`), from `DcInv`: besides the property, half a
  character waits in the decoder exactly while what was read ends in half a character. A chunk
  is followed byte by byte (`ChunkAgrees`: with each byte, what is decoded of the chunk and
  what is decoded of the whole come to the same), and `Norm`, which takes `\r\n` for `\n`,
  letter by letter (`NormAppend`): a newline takes the `\r` before it away, every other letter
  is appended.

on `AnsiColor`

* `CoTypeCorrect`; `ColorsAlwaysRead` (`ColorsAreRead`; of numbers up to 999, compared as texts),
  from `ReadInv`: what the loop has in its dictionary
  is what the numbers before `idx` ask for, told by their last reset and their last colour, and
  whether a bold stands between; from `PaletteInv`, which knows where the loop goes on behind a
  palette colour; and from the fact that only 38 and 48 lead to what raises.
* `ColorLoopRuns`: the numbers left are a variant of `_decode`'s loop, unless it stands at a
  38 or 48 that neither 2 nor 5 follows (`CoStuck`). Out of that no step of anything leads, so
  the update thread is lost.

and on `AnsiControl`

* `AnTypeCorrect`; `ScreenAlwaysExact` (`ScreenIsExact`), from `AnInv`: a screen is `Good`
  (before `_output_end` is output, behind it input, of any lines) unless it strayed. `Good` is
  kept by each operation as a function of screens (`InsertedGood`, `ErasedGood`,
  `ToColumnGood`, `UpGood`, ...), as long as the cursor is in the output and the input has no
  newline (`Simple`), with the loops of the lines above and below by `PrimitiveRecursion`; of
  any other screen it is proved that it is one of the three from which `_output_end` may
  stray. That the column is kept follows from where a line begins (`LineStartOnce`).
* `DrawingAlwaysLocal` (`DrawingIsLocal`), from the same invariant: an operation that keeps
  every newline of the output carries each to a place of its own (`Carries`, `NoneLost`), what
  `_erase` takes of a line has none (`ErasedLines`), what is printed takes the places of as
  many cells of its line (`Replaces`), and cells that show nothing may be put in anywhere
  (`BlanksInvisible`, by `SetInduction` over the function `Visible` is).

`HostProofs`, on `ReplManager`

* `RmTypeCorrect`; `RegistryTrue` (`RegistryIsTrue`), from `PlaceInv` (a registered REPL's
  view, while open, has its `repl_id`, and the REPL is over once the view is closed),
  `OpeningInv` (nothing happens to the view of a REPL before it is registered) and
  `RunningInv` (a running program is registered, about to be, or its `ReplView` raised).
* `AutoCloseClosesItsOwn` (`ClosesItsOwn`), from `FocusInv`: between `focus_view` and
  `close` the focus is on the REPL's view unless it went astray.

on `SublimePythonRepl`

* `PyTypeCorrect`; `StreamsApart` (`StreamsStayApart`), from `ApartInv`: as long as no lines
  overlap, at most one console is at a line, `sys.stdout` is its own while the line runs, and
  its queue has its own prints, each once, among those of plugins; as long as none crossed,
  the consoles at a line are nested, each to restore the stream of the one before (`Nested`).
* `LinesAllAnswered`, from `PyAnswers`: each line entered is in the queue, runs, or has its
  prompt, for a console that was not killed and whose thread lives.
* `ConsolesRun`: a line costs at most five steps, whatever other consoles do; a console that
  ended takes no line any more, while lines are still put into its queue.

on `Autocomplete`

* `AcTypeCorrect` and `AnswersMatchRequests` (`AnswersMatch`), from `StreamInv`: what lies in
  socket and network is in order, was served, and is newer than every answer returned.
  So a comma behind a text of one request is the comma of that request,
  however the counting went wrong before it.
* `CompleteRunsOut`: the receives `complete()` has left are a variant, although `size -=
  len(msg)` takes away too much at each; `CompleteReturnsOrLoops`: until it returns it has a
  step to make, but for the loop on a socket that closed between a header and its text, which
  nothing leads out of.

on `PowershellRepl`

* `PsTypeCorrect`; `FlagsAlwaysAgree` (`FlagsAgree`), from `OneAtATime`: until a line is entered
  before its time, the REPL is in one of four situations: at rest (`AtRest`), at a step of
  `write_bytes` or with the line in the pipe (`Sending`), with the mark on its way, or read as the
  first of a chunk (`Marking`), or with what is left of the output and the prompt on theirs
  (`Answering`). For each of them it lists what both pipes and the chunk may hold at each place of
  the reader, and what the two flags are then.

on `SftpEdit`

* `SfTypeCorrect`; `FilesSafe` (`FilesAreSafe`), from `ViewInv` (an open view has the path it
  was opened for), `OwnInv` (as long as no two copies were mixed, view, copy and transfer are
  of that path) and `SaveInv`: each remote file is the last save, is awaited by one that is
  queued or under way (`FileOK`), or is known to have missed it.

and on `TabCompletion`

* `TcTypeCorrect`; `TabAlwaysCompletes` (`TabCompletes`): the code's loop `CommonPrefix` takes
  one name after the other (`SetInduction`), and keeps at each the longest beginning it shares
  with what it has; so it is the `LongestCommonPrefix` of them all. What has come of a cut
  answer are the beginnings of its names, so what is completed begins one of them. A prompt
  that comes late in front of the command, or part of a line behind the prompt, changes
  nothing of this.

`UtopReplProofs`

* `UtTypeCorrect`; `StanzasAlwaysUnderstood` (`StanzasUnderstood`), from `UtIInv`:
  - `UnansweredCounts`: what the history variable `unanswered` says is due is in the main
    thread's hands, in one of the pipes (counted with `HowMany`) or in the reader's, so that "no
    answer is due" means that none is under way;
  - `WholeLists` and `HeadFits`: a list of completions is on the way from its first stanza to its
    last, and what the reader gathered is the beginning of the one in front;
  - `AnswersInTurn`: requests, answers under way and answers given are in the order of the
    questions, each list of one question, so an answer after a time-out can be late and cannot
    be early or anybody else's;
  - `OneQuestion`, `OneInput`, `NoMarks`: with no time-out, and with no line sent ahead, there
    is one question, and one input, at a time.

  That `compose_highlights` marks what utop meant (`ErrorMarked`) is an induction over the
  lines of a phrase, of any number and length: the loop's offset is the sum of the lengths before
  (`HighlightedIs`, `FurtherFits`).

`PartsProofs`, on `MCParts`

* `PartsCompose`, `PartsTypeCorrect` (`TypesOK`) and `PartsSafe`: the same for the ten
  components of the runs `parts_programs` and `parts_views`, whatever `Parts` is. The theorems
  do without the constraint `Claimed`.

Every safety invariant and every action property of a run that is to pass is a theorem, the type
invariants of `view` and the `parts` runs included, and so are both refinements of `OutputStream`.

How far the proofs go towards liveness. The prover has no rules for fairness and `ENABLED`, so
the liveness properties themselves (`ReaderStops`, `OutputReachesView`, `EndReachesView`,
`PutGoesThrough`, `InterceptEnds`, `NothingStays`, `WaitsEnd`) stay with TLC. Of the argument
for each, what is about single steps and single states is proved, for all bounds: a variant in
the natural numbers that each step of the thread lowers (`ReaderRuns`, `PassRuns`,
`ThreadsDoNotSpin`, `CompleteRunsOut`, `ColorLoopRuns`, `ConsolesRun`); what is reached where
no step is left (`DoneAtRest`, `NothingLeftAtRest`, `LinesAllAnswered`,
`CompleteReturnsOrLoops`); and of each exception in the formulas that it cannot be left again
(`StrandedForEver`, `CompleteReturnsOrLoops`, `ColorLoopRuns`, `ConsolesRun`). What these take
for "has a step to make" (`ReaderReady`, `InterceptReady`, `CompleteReady`) is written out as
a state predicate; that it is the `ENABLED` of the thread's steps, and that weak fairness then
takes the step, is not proved.

Only model-checked: liveness under fairness, as just said, and the runs that expect a violation
(of the first of them, `StrandedForEver` proves more than the example TLC finds).

## 5. Not modelled

* `SublimeHaskellRepl`: a `SubprocessRepl` whose start-up reads files of another package.
* Text transfer, completions' event listener, language integration,
  `run_existing_command`: glue between commands and the parts above, without state.
* Building command lines, environments, locale; connecting with paramiko and telnet;
  paramiko and winpty themselves; killing process trees (killing is what it does to
  the process). `Kill` acts at once, as the operating system's kill does; a program
  that ignores signals is a program that has not ended yet.
* How vi's path is completed by `pwd` and `$USER`: `SftpEdit` starts from the path.
* Prompts (`_prompt_size`) of apiv2 REPLs, which no output reaches (their update thread dies
  of the first); regions and colour schemes; the regular expressions of `ansi/`; the movement
  keys, which are a cursor that moves anywhere.
* PyDbLite's queries and deletions, which the REPLs do not use; the input log;
  configuration and menus.
* Vendored libraries: `dependancies/` (paramiko, cryptography, pycparser, cffi, bcrypt, ...),
  `winpty` and `killableprocess` make up more than nine tenths of the Python lines of the
  repository. They are other projects, and enter only as what the plugin sees of them: a
  connection that breaks, a read that raises, a transfer that stops half way. The plugin's own
  code is about 4 800 of its 71 000 lines, so the map's share of all lines stays small.

## 6. Plan

Done, in this order: `SeqOrder`, `OutputStream`, `ReplPump`, `Interceptor` with their
proofs; `History`, `PersistentHistory`; `EditRegion`; `Autocomplete`, `Decoder`,
`ReplManager`, `PowershellRepl`, `SublimePythonRepl`, `SftpEdit`, `AnsiColor`, `AnsiControl`,
`UtopRepl`, `TabCompletion`; the proofs of `PersistentHistory`, `ReplManager`,
`Autocomplete`, `SftpEdit`, `SublimePythonRepl`, `EditRegion`, `History`, `PowershellRepl`,
`UtopRepl`, `AnsiColor`, `TabCompletion`, `Decoder` and `AnsiControl`; `view` and `MCParts` as
wholes; variants, states of rest and dead ends of `ReplPump`, `Interceptor`, `Autocomplete`,
`AnsiColor` and `SublimePythonRepl`.

Left, in order of use:

1. `EditRegion` with `AnsiControl` below it: `write()` with emulation assigns `_output_end`
   the other way round, and the cursor is a third party to the race.
2. `ReplManager` over two `ReplPump`s instead of its update threads in four states.
