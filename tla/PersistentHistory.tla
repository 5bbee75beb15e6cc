-------------------------- MODULE PersistentHistory --------------------------
(***************************************************************************)
(* The command history that REPLs of one external_id keep in one file:     *)
(* sublimerepl.PersistentHistory on top of repllibs/PyDbLite.Base.         *)
(*                                                                         *)
(* Every REPL loads the whole file into memory when it is opened, inserts  *)
(* its commands there, and commits by writing all its memory over the      *)
(* file.  open(name, 'wb') empties the file before the dump: between the   *)
(* two the file cannot be read.  All of this runs on Sublime's main        *)
(* thread, so no two commits interleave; but Sublime can be killed, and    *)
(* the write can raise, in the middle of one.                              *)
(*                                                                         *)
(* A record is the command and its time stamp; records are never deleted,  *)
(* so __id__ is the position and next_id the length.                       *)
(***************************************************************************)
EXTENDS SeqOrder

CONSTANTS
  Repls,      \* REPLs with the same external_id
  Commands,   \* what the user may enter
  MaxClock,   \* bound: commands recorded
  MaxFaults,  \* bound: crashes of Sublime and writes that raise
  Nobody, NoCommand

ASSUME NobodyAssumption == Nobody \notin Repls /\ NoCommand \notin Commands
ASSUME PhBoundsAssumption == MaxClock \in Nat /\ MaxFaults \in Nat

VARIABLES
  fileState,   \* "absent", "intact" or "torn" (emptied or cut short)
  saved,       \* records in the file when it is intact
  session,     \* per REPL: "closed", "opening", "open" or "failed"
  db,          \* per REPL: _db.records
  lastOf,      \* per REPL: History._last
  writer,      \* the REPL in the middle of commit()
  clock,       \* datetime.now()
  faults,
  base,        \* history: records each REPL found when it was opened
  committed,   \* history: records of all commits that were completed
  interrupted, \* history: a commit was cut short
  overlapped   \* history: two REPLs were open at the same time

phVars == <<fileState, saved, session, db, lastOf, writer, clock, faults, base,
          committed, interrupted, overlapped>>

Records == [command : Commands, ts : 1..MaxClock]

PhInit ==
  /\ fileState = "absent" /\ saved = <<>>
  /\ session = [r \in Repls |-> "closed"]
  /\ db = [r \in Repls |-> <<>>]
  /\ lastOf = [r \in Repls |-> NoCommand]
  /\ writer = Nobody /\ clock = 0 /\ faults = 0
  /\ base = [r \in Repls |-> 0]
  /\ committed = {} /\ interrupted = FALSE /\ overlapped = FALSE

\* The main thread is free for another command.
Idle == writer = Nobody

IsOpen(r) == session[r] \in {"opening", "open"}

Overlaps(r) == \E other \in Repls \ {r} : IsOpen(other)

\* PersistentHistory.__init__: the file is not there, create() commits an
\* empty base.
Create(r) ==
  /\ Idle /\ ~IsOpen(r) /\ fileState = "absent"
  /\ session' = [session EXCEPT ![r] = "opening"]
  /\ db' = [db EXCEPT ![r] = <<>>]
  /\ lastOf' = [lastOf EXCEPT ![r] = NoCommand]
  /\ base' = [base EXCEPT ![r] = 0]
  /\ fileState' = "torn" /\ writer' = r
  /\ overlapped' = (overlapped \/ Overlaps(r))
  /\ UNCHANGED <<saved, clock, faults, committed, interrupted>>

\* The same with mode = "open" on a file that is there.
Load(r) ==
  /\ Idle /\ ~IsOpen(r) /\ fileState = "intact"
  /\ session' = [session EXCEPT ![r] = "open"]
  /\ db' = [db EXCEPT ![r] = saved]
  /\ lastOf' = [lastOf EXCEPT ![r] = NoCommand]
  /\ base' = [base EXCEPT ![r] = Len(saved)]
  /\ overlapped' = (overlapped \/ Overlaps(r))
  /\ UNCHANGED <<fileState, saved, writer, clock, faults, committed, interrupted>>

\* pickle.load raises out of ReplView.__init__: the REPL has no view manager
\* and no history.
LoadRaises(r) ==
  /\ Idle /\ session[r] = "closed" /\ fileState = "torn"
  /\ session' = [session EXCEPT ![r] = "failed"]
  /\ UNCHANGED <<fileState, saved, db, lastOf, writer, clock, faults, base,
                 committed, interrupted, overlapped>>

\* What if the clock were read a tick too early?
PushStampedEarly(r, c) ==
  /\ Idle /\ session[r] = "open" /\ c # lastOf[r] /\ clock < MaxClock
  /\ clock' = clock + 1
  /\ db' = [db EXCEPT ![r] = Append(@, [command |-> c, ts |-> clock])]
  /\ fileState' = "torn" /\ writer' = r
  /\ UNCHANGED <<saved, session, lastOf, faults, base, committed, interrupted,
                 overlapped>>

\* What if the record were put before the older ones?
PushInFront(r, c) ==
  /\ Idle /\ session[r] = "open" /\ c # lastOf[r] /\ clock < MaxClock
  /\ clock' = clock + 1
  /\ db' = [db EXCEPT ![r] = <<[command |-> c, ts |-> clock + 1]>> \o @]
  /\ fileState' = "torn" /\ writer' = r
  /\ UNCHANGED <<saved, session, lastOf, faults, base, committed, interrupted,
                 overlapped>>

\* What if the base were reset instead of extended?
PushForgets(r, c) ==
  /\ Idle /\ session[r] = "open" /\ c # lastOf[r] /\ clock < MaxClock
  /\ clock' = clock + 1
  /\ db' = [db EXCEPT ![r] = <<[command |-> c, ts |-> clock + 1]>>]
  /\ fileState' = "torn" /\ writer' = r
  /\ UNCHANGED <<saved, session, lastOf, faults, base, committed, interrupted,
                 overlapped>>

\* History.push of a command that does not repeat the last one: insert(), and
\* commit() as far as open(name, 'wb').
Push(r, c) ==
  /\ Idle /\ session[r] = "open" /\ c # lastOf[r] /\ clock < MaxClock
  /\ clock' = clock + 1
  /\ db' = [db EXCEPT ![r] = Append(@, [command |-> c, ts |-> clock + 1])]
  /\ fileState' = "torn" /\ writer' = r
  /\ UNCHANGED <<saved, session, lastOf, faults, base, committed, interrupted,
                 overlapped>>

\* What if push forgot to remember the command?
EndCommitForgetsLast(r) ==
  /\ writer = r
  /\ fileState' = "intact" /\ saved' = db[r]
  /\ committed' = committed \cup Range(db[r])
  /\ session' = [session EXCEPT ![r] = "open"]
  /\ writer' = Nobody
  /\ UNCHANGED <<db, lastOf, clock, faults, base, interrupted, overlapped>>

\* What if the file were not closed, so that the dump stays in a buffer?
EndCommitUnflushed(r) ==
  /\ writer = r
  /\ session' = [session EXCEPT ![r] = "open"]
  /\ lastOf' = [lastOf EXCEPT ![r] =
                IF session[r] = "open" THEN db[r][Len(db[r])].command ELSE @]
  /\ writer' = Nobody
  /\ UNCHANGED <<fileState, saved, db, clock, faults, base, committed,
                 interrupted, overlapped>>

\* The dump and out.close(); push() then sets _last.
EndCommit(r) ==
  /\ writer = r
  /\ fileState' = "intact" /\ saved' = db[r]
  /\ committed' = committed \cup Range(db[r])
  /\ session' = [session EXCEPT ![r] = "open"]
  /\ lastOf' = [lastOf EXCEPT ![r] =
                IF session[r] = "open" THEN db[r][Len(db[r])].command ELSE @]
  /\ writer' = Nobody
  /\ UNCHANGED <<db, clock, faults, base, interrupted, overlapped>>

\* The dump raises (disk full): _last is not set, the record stays in memory;
\* out of __init__ the exception leaves a REPL without history.
CommitRaises(r) ==
  /\ writer = r /\ faults < MaxFaults
  /\ faults' = faults + 1
  /\ session' = [session EXCEPT ![r] = IF @ = "opening" THEN "failed" ELSE @]
  /\ writer' = Nobody /\ interrupted' = TRUE
  /\ UNCHANGED <<fileState, saved, db, lastOf, clock, base, committed, overlapped>>

\* The view is closed; the file is not touched.
Close(r) ==
  /\ Idle /\ session[r] \in {"open", "failed"}
  /\ session' = [session EXCEPT ![r] = "closed"]
  /\ db' = [db EXCEPT ![r] = <<>>]
  /\ UNCHANGED <<fileState, saved, lastOf, writer, clock, faults, base, committed,
                 interrupted, overlapped>>

\* Sublime is killed, perhaps in the middle of a commit.
Crash ==
  /\ faults < MaxFaults /\ \E r \in Repls : session[r] # "closed"
  /\ faults' = faults + 1
  /\ session' = [r \in Repls |-> "closed"]
  /\ db' = [r \in Repls |-> <<>>]
  /\ writer' = Nobody /\ interrupted' = (interrupted \/ ~Idle)
  /\ UNCHANGED <<fileState, saved, lastOf, clock, base, committed, overlapped>>

PhNext ==
  \/ \E r \in Repls : Create(r) \/ Load(r) \/ LoadRaises(r) \/ EndCommit(r)
                        \/ CommitRaises(r) \/ Close(r)
  \/ \E r \in Repls, c \in Commands : Push(r, c)
  \/ Crash

PhSpec == PhInit /\ [][PhNext]_phVars
-----------------------------------------------------------------------------
PhTypeOK ==
  /\ fileState \in {"absent", "intact", "torn"} /\ saved \in Seq(Records)
  /\ session \in [Repls -> {"closed", "opening", "open", "failed"}]
  /\ db \in [Repls -> Seq(Records)]
  /\ lastOf \in [Repls -> Commands \cup {NoCommand}]
  /\ writer \in Repls \cup {Nobody}
  /\ clock \in 0..MaxClock /\ faults \in 0..MaxFaults
  /\ base \in [Repls -> 0..MaxClock] /\ committed \subseteq Records
  /\ interrupted \in BOOLEAN /\ overlapped \in BOOLEAN

Times(s) == [i \in DOMAIN s |-> s[i].ts]

(* The history is in the order of time, in the file and in every REPL, also *)
(* when several REPLs have overwritten it in turn: "previous command" walks *)
(* from the newest back.                                                    *)
Chronological ==
  /\ Ascending(Times(saved))
  /\ \A r \in Repls : Ascending(Times(db[r]))

(* As long as no two REPLs are open together, no committed command is lost, *)
(* across restarts of Sublime and failed commits, in a file that can be     *)
(* read.                                                                    *)
AloneNothingLost ==
  ~overlapped /\ fileState = "intact" => committed \subseteq Range(saved)

(* A file that cannot be read, and a REPL that could not be opened for it,  *)
(* come from a commit that was cut short and from nothing else.             *)
TornOnlyIfInterrupted ==
  (fileState = "torn" /\ Idle) \/ (\E r \in Repls : session[r] = "failed")
    => interrupted

(* A REPL does not record a command twice in a row (push compares with      *)
(* _last, which a failed commit leaves behind).                             *)
RecordedOnce ==
  ~interrupted =>
    \A r \in Repls : \A i \in (base[r] + 1)..(Len(db[r]) - 1) :
      db[r][i].command # db[r][i + 1].command

(* The file and the REPLs' memories are in the order of time, repeat nothing *)
(* in a row, and become unreadable by a commit that was cut short only.      *)
FileIsSound == Chronological /\ TornOnlyIfInterrupted /\ RecordedOnce
-----------------------------------------------------------------------------
(* SublimeREPL-ssh.sublime-settings:20: "Persistent history is stored per   *)
(* REPL external_id, it means that all python REPLS will share history."    *)
HistoryIsShared == fileState = "intact" => committed \subseteq Range(saved)
=============================================================================
