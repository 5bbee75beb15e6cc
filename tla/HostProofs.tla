----------------------------- MODULE HostProofs -----------------------------
(***************************************************************************)
(* The components that stand beside a REPL's pump: the registry of         *)
(* ReplManager, for any number of REPLs and views; the standard streams    *)
(* that Python consoles take turns with, for any number of consoles and    *)
(* lines; the answers of the autocomplete server, byte by byte, for every  *)
(* length of an answer and any number of requests; the prompts of          *)
(* PowerShell for any number of lines.                                     *)
(*                                                                         *)
(* And the two features the interceptor serves: SftpEdit, for any set of   *)
(* remote files and base names, and any number of edits, saves and broken  *)
(* transfers; TabCompletion, for any letters, and names of any number and  *)
(* length.                                                                 *)
(***************************************************************************)
EXTENDS ReplManager, SublimePythonRepl, Autocomplete, PowershellRepl,
        SftpEdit, TabCompletion, SeqOrderProofs
(* ReplManager.                                                            *)

(* The three ways open() can go once the old REPL is out of the table: the  *)
(* program does not start; it starts, and its ReplView raises; it is on its *)
(* way into repl_views.                                                     *)
LEMMA StartCases ==
  ASSUME NEW v, NEW old, Start(v, old)
  PROVE  /\ replViews' = replViews \ old
         /\ \/ /\ process' = Killed(old)
               /\ UNCHANGED <<opened, updater, place, opening, shown, orphans>>
            \/ /\ opened + 1 \in ReplIds /\ opened' = opened + 1
               /\ process' = [Killed(old) EXCEPT ![opened + 1] = "running"]
               /\ place' = [place EXCEPT ![opened + 1] = v]
               /\ \/ /\ orphans' = orphans \cup {opened + 1}
                     /\ shown' \in {shown, [shown EXCEPT ![v] = opened + 1]}
                     /\ UNCHANGED <<updater, opening>>
                  \/ /\ shown' = [shown EXCEPT ![v] = opened + 1]
                     /\ updater' = [updater EXCEPT ![opened + 1] = "polling"]
                     /\ opening' = opened + 1
                     /\ UNCHANGED orphans
  BY DEF Start

(* Numbers of REPLs.                                                       *)
LEMMA ReplNumbers ==
  ASSUME opened \in 0..MaxRepls
  PROVE  /\ opened \in Nat /\ 0 \notin ReplIds /\ opened + 1 # 0
         /\ opened + 1 \notin 1..opened /\ opened + 1 \notin 0..opened
         /\ 1..opened \subseteq 1..(opened + 1) /\ 0..opened \subseteq 0..(opened + 1)
         /\ 1..opened \subseteq ReplIds
         /\ opened + 1 \in 1..(opened + 1) /\ opened + 1 \in 0..(opened + 1)
         /\ opened + 1 \in ReplIds => opened + 1 \in 0..MaxRepls
         /\ \A i \in ReplIds : i > opened + 1 => i > opened /\ i # opened + 1
         /\ opened + 1 > opened
  BY ReplsAssumption DEF ReplIds

(* What starting a program does to the types of the variables.              *)
LEMMA StartTypes ==
  ASSUME RmTypeOK, NEW v \in Tabs, NEW old, Start(v, old)
  PROVE  /\ opened' \in 0..MaxRepls
         /\ process' \in [ReplIds -> {"none", "running", "over"}]
         /\ updater' \in [ReplIds -> {"none", "polling", "focus", "close", "over"}]
         /\ place' \in [ReplIds -> Tabs \cup {NoView}]
         /\ replViews' \subseteq 1..opened' /\ opening' \in 0..opened'
         /\ shown' \in [Tabs -> 0..opened'] /\ orphans' \subseteq ReplIds
<1>1. Killed(old) \in [ReplIds -> {"none", "running", "over"}]
  BY DEF Killed, RmTypeOK
<1>2. opened \in 0..MaxRepls /\ replViews' \subseteq 1..opened
  BY StartCases DEF RmTypeOK
<1>3. CASE UNCHANGED opened
  <2>1. UNCHANGED <<updater, place, opening, shown, orphans>> /\ process' = Killed(old)
    BY <1>2, <1>3, StartCases, ReplNumbers
  <2> QED BY <1>1, <1>2, <1>3, <2>1 DEF RmTypeOK
<1>4. CASE opened' = opened + 1 /\ opened + 1 \in ReplIds
  <2>1. opened' \in 0..MaxRepls /\ replViews' \subseteq 1..opened'
    BY <1>2, <1>4, ReplNumbers
  <2>2. process' \in [ReplIds -> {"none", "running", "over"}]
    BY <1>1, StartCases
  <2>3. updater' \in [ReplIds -> {"none", "polling", "focus", "close", "over"}]
    BY StartCases DEF RmTypeOK
  <2>4. place' \in [ReplIds -> Tabs \cup {NoView}]
    BY StartCases DEF RmTypeOK
  <2>5. opening' \in 0..opened'
    BY <1>2, <1>4, StartCases, ReplNumbers DEF RmTypeOK
  <2>6. shown' \in [Tabs -> 0..opened']
    <3>1. shown \in [Tabs -> 0..opened']
      BY <1>2, <1>4, ReplNumbers DEF RmTypeOK
    <3>2. opened + 1 \in 0..opened'
      BY <1>2, <1>4, ReplNumbers
    <3> QED BY <3>1, <3>2, StartCases
  <2>7. orphans' \subseteq ReplIds
    BY <1>4, StartCases DEF RmTypeOK
  <2> QED BY <2>1, <2>2, <2>3, <2>4, <2>5, <2>6, <2>7
<1> QED BY <1>3, <1>4, StartCases

(* RmTypeOK holds at the start.                                            *)
LEMMA RmTypeInit == RmInit => RmTypeOK
<1>1. 0 \in 0..MaxRepls
  BY ReplsAssumption
<1> QED BY <1>1 DEF RmInit, RmTypeOK, Tabs

(* Every step keeps RmTypeOK.                                              *)
LEMMA RmTypeStep == RmTypeOK /\ [RmNext]_rmVars => RmTypeOK'
<1> SUFFICES ASSUME RmTypeOK, [RmNext]_rmVars PROVE RmTypeOK'
  OBVIOUS
<1>a. /\ \A v : FocusOn(v) => focused' = v /\ astray' \subseteq ReplIds
      /\ opened \in 0..MaxRepls
  BY DEF FocusOn, RmTypeOK
<1>b. ASSUME CloseActive
      PROVE  /\ openViews' \subseteq Tabs /\ focused' \in openViews' \cup {NoView}
             /\ process' \in [ReplIds -> {"none", "running", "over"}]
             /\ replViews' \subseteq 1..opened /\ astray' \subseteq ReplIds
  <2>1. PICK v \in IF openViews' = {} THEN {NoView} ELSE openViews' : FocusOn(v)
    BY <1>b DEF CloseActive
  <2>2. openViews' \subseteq Tabs /\ replViews' \subseteq 1..opened
    BY <1>b DEF CloseActive, RmTypeOK
  <2>3. process' \in [ReplIds -> {"none", "running", "over"}]
    BY <1>b DEF CloseActive, Killed, RmTypeOK
  <2>4. v \in openViews' \cup {NoView}
    OBVIOUS
  <2> QED BY <1>a, <2>1, <2>2, <2>3, <2>4
<1>1. CASE OpenNew
  <2>1. PICK v \in ReplTabs \ openViews :
          Start(v, {}) /\ openViews' = openViews \cup {v} /\ FocusOn(v)
    BY <1>1 DEF OpenNew
  <2>2. v \in Tabs
    BY DEF Tabs
  <2> QED BY <1>a, <2>1, <2>2, StartTypes DEF RmTypeOK
<1>2. CASE Restart
  <2>1. focused \in Tabs
    BY <1>2 DEF Restart, Tabs
  <2> QED BY <1>2, <2>1, StartTypes DEF Restart, RmTypeOK
<1>3. CASE Register
  <2>1. opening \in 1..opened
    BY <1>3 DEF Register, MainIdle, RmTypeOK
  <2>2. 0 \in 0..opened
    BY <1>a
  <2> QED BY <1>3, <2>1, <2>2 DEF Register, RmTypeOK
<1>4. CASE UserCloses
  BY <1>4, <1>b DEF UserCloses, RmTypeOK
<1>5. CASE UserFocuses
  BY <1>5, <1>a DEF UserFocuses, RmTypeOK
<1>6. CASE ProgramEnds
  BY <1>6 DEF ProgramEnds, RmTypeOK
<1>7. ASSUME NEW i \in ReplIds, Notice(i) PROVE RmTypeOK'
  BY <1>7 DEF Notice, RmTypeOK
<1>8. ASSUME NEW i \in ReplIds, FocusView(i) PROVE RmTypeOK'
  BY <1>8, <1>a DEF FocusView, RmTypeOK
<1>9. ASSUME NEW i \in ReplIds, AutoClose(i) PROVE RmTypeOK'
  BY <1>9, <1>b DEF AutoClose, RmTypeOK
<1>10. CASE UNCHANGED rmVars
  BY <1>10 DEF rmVars, RmTypeOK
<1> QED
  BY <1>1, <1>2, <1>3, <1>4, <1>5, <1>6, <1>7, <1>8, <1>9, <1>10 DEF RmNext

(* The table of REPLs, their programs, threads and views keep their types.  *)
THEOREM RmTypeCorrect == RmSpec => []RmTypeOK
  BY RmTypeInit, RmTypeStep, PTL DEF RmSpec
-----------------------------------------------------------------------------
(* The registry.                                                           *)

\* A registered REPL has its view's repl_id as long as the view is open, and
\* is over when it is not; a view once used is not used for another REPL.
PlaceInv ==
  \A i \in replViews :
    /\ place[i] \in Tabs /\ shown[place[i]] # 0
    /\ place[i] \in openViews => shown[place[i]] = i
    /\ place[i] \notin openViews => process[i] = "over"

\* Nothing happens to the view of a REPL before it is registered.
OpeningInv ==
  opening # 0 => /\ place[opening] \in openViews
                 /\ shown[place[opening]] = opening

\* A program that runs can be reached, or will be, or its ReplView raised.
RunningInv ==
  \A i \in ReplIds :
    process[i] = "running" => i \in replViews \cup orphans \cup {opening}

RegistryInv == PlaceInv /\ OpeningInv /\ RunningInv

(* RegistryInv holds at the start.                                         *)
LEMMA RegistryInit == RmInit => RegistryInv
  BY DEF RmInit, RegistryInv, PlaceInv, OpeningInv, RunningInv

(* A program starts in a view no registered REPL has.                      *)
LEMMA StartStep ==
  ASSUME RmTypeOK, RegistryInv, MainIdle, NEW v \in Tabs, NEW old,
         \A i \in replViews \ old : place[i] # v,
         Start(v, old), v \in openViews',
         openViews' \in {openViews, openViews \cup {v}}
  PROVE  RegistryInv'
<1> USE DEF RmTypeOK, MainIdle
<1>0. opened \in 0..MaxRepls /\ replViews' = replViews \ old
      /\ replViews \subseteq 1..opened /\ opening = 0
  BY StartCases
<1>1. /\ \A i \in replViews \ old : place'[i] = place[i] /\ i # opened + 1
      /\ \A i \in replViews \ old : shown'[place[i]] = shown[place[i]]
      /\ \A i \in replViews \ old : process'[i] = process[i]
  <2>1. \A i \in replViews \ old : i # opened + 1 /\ i \in ReplIds /\ place[i] \in Tabs
    BY <1>0, ReplNumbers DEF RegistryInv, PlaceInv
  <2>2. \A i \in replViews \ old : Killed(old)[i] = process[i]
    BY <2>1 DEF Killed
  <2>3. Killed(old) \in [ReplIds -> {"none", "running", "over"}]
    BY DEF Killed
  <2>4. \A i \in replViews \ old : place'[i] = place[i]
    BY <2>1, StartCases
  <2>5. \A i \in replViews \ old : shown'[place[i]] = shown[place[i]]
    BY <2>1, StartCases
  <2>6. \A i \in replViews \ old : process'[i] = process[i]
    BY <2>1, <2>2, <2>3, StartCases
  <2> QED BY <2>1, <2>4, <2>5, <2>6
<1>2. PlaceInv'
  BY <1>0, <1>1 DEF RegistryInv, PlaceInv
<1>3. OpeningInv'
  BY <1>0, StartCases DEF OpeningInv
<1>4. RunningInv'
  <2> SUFFICES ASSUME NEW i \in ReplIds, process'[i] = "running"
               PROVE  i \in replViews' \cup orphans' \cup {opening'}
    BY DEF RunningInv
  <2>1. i = opened + 1 => i \in orphans' \cup {opening'} \/ process'[i] = Killed(old)[i]
    BY StartCases
  <2>2. i # opened + 1 => process'[i] = Killed(old)[i]
    <3>1. Killed(old) \in [ReplIds -> {"none", "running", "over"}]
      BY DEF Killed
    <3> QED BY <3>1, StartCases
  <2>3. Killed(old)[i] = "running" => process[i] = "running" /\ i \notin old
    BY DEF Killed
  <2>4. orphans \subseteq orphans'
    BY StartCases
  <2>5. process[i] = "running" => i \in replViews \cup orphans
    BY <1>0, ReplNumbers DEF RegistryInv, RunningInv
  <2> QED BY <1>0, <2>1, <2>2, <2>3, <2>4, <2>5
<1> QED BY <1>2, <1>3, <1>4 DEF RegistryInv

(* A view closes: whoever is registered for it is killed.                  *)
LEMMA CloseStep ==
  ASSUME RmTypeOK, RegistryInv, MainIdle, focused # NoView, CloseActive,
         UNCHANGED <<opened, place, opening, shown, orphans>>
  PROVE  RegistryInv'
<1> USE DEF RmTypeOK, MainIdle
<1>1. focused \in openViews /\ openViews' = openViews \ {focused}
      /\ replViews' \subseteq replViews /\ replViews \ ReplOf(focused) \subseteq replViews'
  BY DEF CloseActive
<1>2. \A i \in ReplIds : process'[i] = IF i \in ReplOf(focused) THEN "over" ELSE process[i]
  BY DEF CloseActive, Killed
<1>3. \A i \in replViews : i \in ReplIds
  BY ReplNumbers
<1>4. PlaceInv'
  <2> SUFFICES ASSUME NEW i \in replViews'
               PROVE  /\ place[i] \in Tabs /\ shown[place[i]] # 0
                      /\ place[i] \in openViews' => shown[place[i]] = i
                      /\ place[i] \notin openViews' => process'[i] = "over"
    BY DEF PlaceInv
  <2>1. i \in replViews /\ i \in ReplIds
    BY <1>1, <1>3
  <2>2. place[i] = focused => i \in ReplOf(focused)
    BY <1>1, <2>1 DEF RegistryInv, PlaceInv, ReplOf
  <2> QED BY <1>1, <1>2, <2>1, <2>2 DEF RegistryInv, PlaceInv
<1>5. OpeningInv' /\ RunningInv'
  BY <1>1, <1>2 DEF RegistryInv, OpeningInv, RunningInv
<1> QED BY <1>4, <1>5 DEF RegistryInv

(* Every step keeps RegistryInv.                                           *)
LEMMA RegistryStep == RmTypeOK /\ RegistryInv /\ [RmNext]_rmVars => RegistryInv'
<1> SUFFICES ASSUME RmTypeOK, RegistryInv, [RmNext]_rmVars PROVE RegistryInv'
  OBVIOUS
<1>1. CASE OpenNew
  <2>1. PICK v \in ReplTabs \ openViews :
          shown[v] = 0 /\ Start(v, {}) /\ openViews' = openViews \cup {v}
    BY <1>1 DEF OpenNew
  <2>2. \A i \in replViews : place[i] # v
    BY <2>1 DEF RegistryInv, PlaceInv
  <2> QED BY <1>1, <2>1, <2>2, StartStep DEF OpenNew, Tabs
<1>2. CASE Restart
  <2>1. focused \in Tabs /\ focused \in openViews /\ openViews' = openViews
    BY <1>2, TabsAssumption DEF Restart, Tabs, RmTypeOK, NoView, File
  <2>2. \A i \in replViews \ ReplOf(focused) : place[i] # focused
    BY <2>1 DEF RegistryInv, PlaceInv, ReplOf
  <2> QED BY <1>2, <2>1, <2>2, StartStep DEF Restart
<1>3. CASE Register
  <2>1. opening # 0 /\ opening \in ReplIds
    BY <1>3, ReplNumbers DEF Register, MainIdle, RmTypeOK
  <2> QED BY <1>3, <2>1 DEF Register, RegistryInv, PlaceInv, OpeningInv, RunningInv,
                            RmTypeOK
<1>4. CASE UserCloses
  <2>1. focused # NoView
    BY <1>4, TabsAssumption DEF UserCloses, NoView
  <2> QED BY <1>4, <2>1, CloseStep DEF UserCloses
<1>5. CASE UserFocuses
  BY <1>5 DEF UserFocuses, RegistryInv, PlaceInv, OpeningInv, RunningInv
<1>6. CASE ProgramEnds
  BY <1>6 DEF ProgramEnds, RegistryInv, PlaceInv, OpeningInv, RunningInv, RmTypeOK
<1>7. ASSUME NEW i \in ReplIds, Notice(i) PROVE RegistryInv'
  BY <1>7 DEF Notice, RegistryInv, PlaceInv, OpeningInv, RunningInv
<1>8. ASSUME NEW i \in ReplIds, FocusView(i) PROVE RegistryInv'
  BY <1>8 DEF FocusView, RegistryInv, PlaceInv, OpeningInv, RunningInv
<1>9. ASSUME NEW i \in ReplIds, AutoClose(i) PROVE RegistryInv'
  <2>1. CASE focused = NoView
    BY <1>9, <2>1 DEF AutoClose, RegistryInv, PlaceInv, OpeningInv, RunningInv
  <2>2. CASE focused # NoView
    BY <1>9, <2>2, CloseStep DEF AutoClose
  <2> QED BY <2>1, <2>2
<1>10. CASE UNCHANGED rmVars
  BY <1>10 DEF rmVars, RegistryInv, PlaceInv, OpeningInv, RunningInv
<1> QED
  BY <1>1, <1>2, <1>3, <1>4, <1>5, <1>6, <1>7, <1>8, <1>9, <1>10 DEF RmNext

(* RegistryInv always holds.                                               *)
LEMMA RegistryAlways == RmSpec => []RegistryInv
  BY RegistryInit, RegistryStep, RmTypeCorrect, PTL DEF RmSpec

(* However REPLs are opened, restarted, closed and over: the REPL a view    *)
(* writes for is the one its keys reach, and no program runs on that is in  *)
(* no table, but the ones whose ReplView raised.                            *)
THEOREM RegistryTrue == RmSpec => []RegistryIsTrue
<1>1. RegistryInv => CommandsReachTheirRepl
  BY DEF RegistryInv, PlaceInv, CommandsReachTheirRepl
<1>2. RmTypeOK /\ RegistryInv => RunningIsRegistered
  BY ReplNumbers DEF RegistryInv, RunningInv, RunningIsRegistered, MainIdle, RmTypeOK
<1> QED
  BY <1>1, <1>2, RegistryAlways, RmTypeCorrect, PTL DEF RegistryIsTrue
-----------------------------------------------------------------------------
(* The auto close.                                                         *)

\* Who has focused its view and is about to close it has the focus, unless
\* something moved it; a REPL that is not there has no thread.
FocusInv ==
  \A i \in ReplIds :
    /\ updater[i] = "close" /\ i \notin astray => focused = place[i]
    /\ i > opened => updater[i] = "none"

(* FocusInv holds at the start.                                            *)
LEMMA FocusInit == RmInit => FocusInv
  BY DEF RmInit, FocusInv

(* The thread that closes a view takes no other one with it.               *)
LEMMA FocusStep == RmTypeOK /\ FocusInv /\ [RmNext]_rmVars => FocusInv'
<1> SUFFICES ASSUME RmTypeOK, FocusInv, [RmNext]_rmVars PROVE FocusInv'
  OBVIOUS
<1>0. opened \in 0..MaxRepls
  BY DEF RmTypeOK
<1>a. ASSUME NEW v, NEW old, Start(v, old)
      PROVE  \A i \in ReplIds :
               /\ i > opened' => updater'[i] = "none"
               /\ updater'[i] = "close" => updater[i] = "close" /\ place'[i] = place[i]
  <2>1. opened + 1 \in ReplIds => updater[opened + 1] = "none"
    BY <1>0, ReplNumbers DEF FocusInv
  <2> QED BY <1>0, <1>a, <2>1, StartCases, ReplNumbers DEF FocusInv, RmTypeOK
<1>b. ASSUME NEW v, FocusOn(v), NEW i \in ReplIds, updater[i] = "close", i \notin astray'
      PROVE  focused' = focused /\ i \notin astray
  BY <1>b DEF FocusOn
<1>1. CASE OpenNew
  BY <1>1, <1>a, <1>b DEF OpenNew, FocusInv
<1>2. CASE Restart
  BY <1>2, <1>a DEF Restart, FocusInv
<1>3. CASE Register
  BY <1>3 DEF Register, FocusInv
<1>c. ASSUME CloseActive, UNCHANGED <<opened, place>>,
             \A i \in ReplIds : updater'[i] = "close" => updater[i] = "close",
             \A i \in ReplIds : i > opened => updater'[i] = "none"
      PROVE  FocusInv'
  BY <1>b, <1>c DEF CloseActive, FocusInv
<1>4. CASE UserCloses
  BY <1>4, <1>c DEF UserCloses, FocusInv
<1>5. CASE UserFocuses
  BY <1>5, <1>b DEF UserFocuses, FocusInv
<1>6. CASE ProgramEnds
  BY <1>6 DEF ProgramEnds, FocusInv
<1>7. ASSUME NEW i \in ReplIds, Notice(i) PROVE FocusInv'
  BY <1>7 DEF Notice, FocusInv, RmTypeOK
<1>8. ASSUME NEW i \in ReplIds, FocusView(i) PROVE FocusInv'
  BY <1>8, <1>b DEF FocusView, FocusOn, FocusInv, RmTypeOK
<1>9. ASSUME NEW i \in ReplIds, AutoClose(i) PROVE FocusInv'
  <2>1. /\ \A j \in ReplIds : updater'[j] = "close" => updater[j] = "close"
        /\ \A j \in ReplIds : j > opened => updater'[j] = "none"
    BY <1>9 DEF AutoClose, FocusInv, RmTypeOK
  <2>2. CASE focused = NoView
    BY <1>9, <2>1, <2>2 DEF AutoClose, FocusInv
  <2>3. CASE focused # NoView
    BY <1>9, <1>c, <2>1, <2>3 DEF AutoClose
  <2> QED BY <2>2, <2>3
<1>10. CASE UNCHANGED rmVars
  BY <1>10 DEF rmVars, FocusInv
<1> QED
  BY <1>1, <1>2, <1>3, <1>4, <1>5, <1>6, <1>7, <1>8, <1>9, <1>10 DEF RmNext

(* The auto close of a REPL closes its own view and nothing else, unless    *)
(* the focus moved between focus_view and close.                            *)
THEOREM AutoCloseClosesItsOwn == RmSpec => ClosesItsOwn
<1> DEFINE Own == \A i \in ReplIds :
                    updater[i] = "close" /\ updater'[i] = "over" /\ i \notin astray
                      => openViews \ openViews' \subseteq {place[i]}
<1>1. RmTypeOK /\ FocusInv /\ [RmNext]_rmVars => [Own]_rmVars
  <2> SUFFICES ASSUME RmTypeOK, FocusInv, RmNext, NEW i \in ReplIds,
                      updater[i] = "close", updater'[i] = "over", i \notin astray
               PROVE  openViews \ openViews' \subseteq {place[i]}
    OBVIOUS
  <2>1. focused = place[i] /\ opened \in 0..MaxRepls /\ (i > opened => FALSE)
    BY DEF FocusInv, RmTypeOK
  <2>2. CASE \E j \in ReplIds : AutoClose(j)
    BY <2>1, <2>2 DEF AutoClose, CloseActive
  <2>3. ASSUME NEW v, NEW old, Start(v, old) PROVE FALSE
    BY <2>1, <2>3, StartCases, ReplNumbers DEF RmTypeOK
  <2>4. ~OpenNew /\ ~Restart
    BY <2>3 DEF OpenNew, Restart
  <2>5. ~Register /\ ~UserCloses /\ ~UserFocuses /\ ~ProgramEnds
    BY DEF Register, UserCloses, UserFocuses, ProgramEnds
  <2>6. \A j \in ReplIds : ~Notice(j) /\ ~FocusView(j)
    BY DEF Notice, FocusView, RmTypeOK
  <2> QED BY <2>2, <2>4, <2>5, <2>6 DEF RmNext
<1> QED
  BY <1>1, FocusInit, FocusStep, RmTypeCorrect, PTL DEF RmSpec, ClosesItsOwn
-----------------------------------------------------------------------------
(* SublimePythonRepl.  That the streams stay apart is not inductive: it    *)
(* has to be known who took sys.stdout from whom.  The lines that have it   *)
(* redirected lie within one another, sys.stdout is the innermost one's,    *)
(* and what each will restore is the stream of the next one out, or the     *)
(* plugins'.                                                               *)

PyRunning(c) == console[c] \notin {"wait", "ended"}

\* Between the redirection and the restoration.
Redirected(c) == console[c] \in {"line", "restore"}

\* One line at a time.
PyOneLine == \A c, d \in Consoles : PyRunning(c) /\ PyRunning(d) => c = d

\* sys.stdout belongs to the line that runs.
OwnStdout == \A c \in Consoles : Redirected(c) => sysOut = c

\* The consoles whose lines have sys.stdout redirected, from outside to inside.
Nested(s) ==
  /\ \A i, j \in 1..Len(s) : s[i] = s[j] => i = j
  /\ \A c \in Consoles : Redirected(c) <=> \E i \in 1..Len(s) : s[i] = c
  /\ sysOut = IF Len(s) = 0 THEN Plugins ELSE s[Len(s)]
  /\ \A i \in 1..Len(s) : orig[s[i]] = IF i = 1 THEN Plugins ELSE s[i - 1]

\* The prints in a console's queue: n of its own, and some of the plugins.
HomePrints(o, c, n) ==
  /\ Cardinality({i \in 1..Len(o) : o[i] = c}) = n
  /\ \A i \in 1..Len(o) : o[i] \in {c, Plugins}

ApartInv ==
  /\ ~overlap => PyOneLine /\ OwnStdout /\ ~crossed
  /\ ~crossed /\ ~escaped => \E s \in Seq(Consoles) : Nested(s)
  /\ ~overlap => \A c \in Consoles : HomePrints(output[c], c, printed[c])
-----------------------------------------------------------------------------
(* PyTypeOK holds at the start.                                            *)
LEMMA PyTypeInit == PyInit => PyTypeOK
<1> SUFFICES ASSUME PyInit PROVE PyTypeOK
    OBVIOUS
<1>1. input \in [Consoles -> Seq({"line", "None"})]
  <2>1. <<>> \in Seq({"line", "None"})
        OBVIOUS
  <2> QED BY <2>1 DEF PyInit
<1>2. output \in [Consoles -> Seq(Consoles \cup {Plugins})]
  <2>1. <<>> \in Seq(Consoles \cup {Plugins})
        OBVIOUS
  <2> QED BY <2>1 DEF PyInit
<1>3. /\ overlap \in BOOLEAN /\ crossed \in BOOLEAN /\ escaped \in BOOLEAN
      /\ kills \in [Consoles -> BOOLEAN]
      BY DEF PyInit
<1> QED BY <1>1, <1>2, <1>3, EntriesAssumption DEF PyInit, PyTypeOK

\* The histories and the counter of the plugins' prints.
PyPastTypes ==
  /\ overlap \in BOOLEAN /\ crossed \in BOOLEAN /\ escaped \in BOOLEAN
  /\ chatter \in 0..MaxChatter

(* Every step keeps PyTypeOK.                                              *)
LEMMA PyTypeStep == PyTypeOK /\ [PyNext]_pyVars => PyTypeOK'
<1> SUFFICES ASSUME PyTypeOK, [PyNext]_pyVars PROVE PyTypeOK'
    OBVIOUS
<1> USE EntriesAssumption DEF PyTypeOK, PyPastTypes, pyPast
<1>1. ASSUME NEW c \in Consoles, EnterLine(c) PROVE PyTypeOK'
  <2>1. input' \in [Consoles -> Seq({"line", "None"})]
        BY <1>1 DEF EnterLine
  <2>2. entries' \in [Consoles -> 0..MaxEntries]
        BY <1>1 DEF EnterLine
  <2>3. kills' \in [Consoles -> BOOLEAN] /\ PyPastTypes'
        BY <1>1 DEF EnterLine
  <2> QED BY <1>1, <2>1, <2>2, <2>3 DEF EnterLine
<1>2. ASSUME NEW c \in Consoles, KillConsole(c) PROVE PyTypeOK'
  <2>1. input' \in [Consoles -> Seq({"line", "None"})]
        BY <1>2 DEF KillConsole
  <2>2. kills' \in [Consoles -> BOOLEAN]
        BY <1>2 DEF KillConsole
  <2>3. PyPastTypes'
        BY <1>2 DEF KillConsole
  <2> QED BY <1>2, <2>1, <2>2, <2>3 DEF KillConsole
<1>3. ASSUME NEW c \in Consoles, GetLine(c) PROVE PyTypeOK'
  <2>1. input' \in [Consoles -> Seq({"line", "None"})]
    <3>1. input[c] \in Seq({"line", "None"}) /\ input[c] # <<>>
          BY <1>3 DEF GetLine
    <3>2. Tail(input[c]) \in Seq({"line", "None"})
          BY <3>1
    <3> QED BY <1>3, <3>2 DEF GetLine
  <2>2. overlap' \in BOOLEAN
        BY <1>3, Zenon DEF GetLine
  <2>3. kills' \in [Consoles -> BOOLEAN] /\ PyPastTypes'
        BY <1>3, <2>2 DEF GetLine
  <2> QED BY <1>3, <2>1, <2>2, <2>3 DEF GetLine, At
<1>4. ASSUME NEW c \in Consoles, Redirect(c) PROVE PyTypeOK'
  <2>1. kills' \in [Consoles -> BOOLEAN] /\ PyPastTypes'
        BY <1>4 DEF Redirect
  <2> QED BY <1>4, <2>1 DEF Redirect, At
<1>5. ASSUME NEW c \in Consoles, PrintLine(c) PROVE PyTypeOK'
  <2>0. \A d \in Consoles : /\ Append(output[d], c) \in Seq(Consoles \cup {Plugins})
                            /\ output[d] \in Seq(Consoles \cup {Plugins})
        BY AppendProperties
  <2>1. output' \in [Consoles -> Seq(Consoles \cup {Plugins})]
        BY <1>5, <2>0 DEF PrintLine
  <2>2. kills' \in [Consoles -> BOOLEAN] /\ PyPastTypes'
        BY <1>5 DEF PrintLine
  <2>3. printed' \in [Consoles -> Nat]
        BY <1>5 DEF PrintLine
  <2>4. /\ console' \in [Consoles -> {"wait", "redirect", "line", "restore", "prompt", "ended"}]
        /\ UNCHANGED <<sysOut, orig, input, prompts, entries>>
        BY <1>5 DEF PrintLine, At
  <2> QED BY <2>1, <2>2, <2>3, <2>4
<1>6. ASSUME NEW c \in Consoles, LineEscapes(c) PROVE PyTypeOK'
  <2>1. kills' \in [Consoles -> BOOLEAN] /\ PyPastTypes'
        BY <1>6 DEF LineEscapes
  <2> QED BY <1>6, <2>1 DEF LineEscapes, At
<1>7. ASSUME NEW c \in Consoles, Restore(c) PROVE PyTypeOK'
  <2>1. kills' \in [Consoles -> BOOLEAN] /\ PyPastTypes'
        BY <1>7 DEF Restore
  <2> QED BY <1>7, <2>1 DEF Restore, At
<1>8. ASSUME NEW c \in Consoles, PutPrompt(c) PROVE PyTypeOK'
  <2>1. kills' \in [Consoles -> BOOLEAN] /\ PyPastTypes'
        BY <1>8 DEF PutPrompt
  <2> QED BY <1>8, <2>1 DEF PutPrompt, At
<1>9. CASE PluginPrints
  <2>1. output' \in [Consoles -> Seq(Consoles \cup {Plugins})]
        BY <1>9 DEF PluginPrints
  <2>2. chatter' \in 0..MaxChatter
        BY <1>9 DEF PluginPrints
  <2>3. kills' \in [Consoles -> BOOLEAN] /\ PyPastTypes'
        BY <1>9, <2>2 DEF PluginPrints
  <2> QED BY <1>9, <2>1, <2>3 DEF PluginPrints
<1>10. CASE UNCHANGED pyVars
      BY <1>10 DEF pyVars
<1> QED BY <1>1, <1>2, <1>3, <1>4, <1>5, <1>6, <1>7, <1>8, <1>9, <1>10 DEF PyNext, Console

(* Every variable of the Python consoles keeps its type.                    *)
THEOREM PyTypeCorrect == PySpec => []PyTypeOK
  BY PyTypeInit, PyTypeStep, PTL DEF PySpec
-----------------------------------------------------------------------------
(* ApartInv holds at the start.                                            *)
LEMMA ApartInit == PyInit => ApartInv
<1> SUFFICES ASSUME PyInit PROVE ApartInv
  OBVIOUS
<1>1. <<>> \in Seq(Consoles) /\ Len(<<>>) = 0 /\ \A i : i \notin 1..0
  OBVIOUS
<1>2. Nested(<<>>)
  BY <1>1 DEF PyInit, Nested, Redirected
<1>3. \A c \in Consoles : HomePrints(output[c], c, printed[c])
  <2>1. \A c : {i \in 1..Len(<<>>) : <<>>[i] = c} = {}
    BY <1>1
  <2>2. Cardinality({}) = 0
    BY FS_EmptySet
  <2> QED BY <1>1, <2>1, <2>2 DEF HomePrints, PyInit
<1> QED BY <1>1, <1>2, <1>3 DEF PyInit, ApartInv, PyOneLine, OwnStdout, PyRunning, Redirected

(* One more print, of the console itself or of a plugin.                   *)
LEMMA HomeAppend ==
  ASSUME NEW c \in Consoles, NEW o \in Seq(Consoles \cup {Plugins}), NEW n \in Nat,
         HomePrints(o, c, n), NEW w \in {c, Plugins}
  PROVE  HomePrints(Append(o, w), c, n + IF w = c THEN 1 ELSE 0)
<1> DEFINE t == Append(o, w)
<1>1. /\ t \in Seq(Consoles \cup {Plugins}) /\ Len(t) = Len(o) + 1 /\ Len(o) \in Nat
      /\ \A i \in 1..(Len(o) + 1) : t[i] = IF i <= Len(o) THEN o[i] ELSE w
  BY AppendProperties, LenProperties
<1>2. HowMany(t, {c}) = HowMany(o, {c}) + IF w \in {c} THEN 1 ELSE 0
  BY HowManyAppend
<1> HIDE DEF t
<1>3. HowMany(o, {c}) = n
  <2>1. Places(o, {c}) = {i \in 1..Len(o) : o[i] = c}
    BY DEF Places
  <2> QED BY <2>1 DEF HowMany, HomePrints
<1>4. Places(t, {c}) = {i \in 1..Len(t) : t[i] = c}
  BY DEF Places
<1>5. Cardinality({i \in 1..Len(t) : t[i] = c}) = n + IF w = c THEN 1 ELSE 0
  BY <1>2, <1>3, <1>4 DEF HowMany
<1>6. ASSUME NEW i \in 1..Len(t) PROVE t[i] \in {c, Plugins}
  <2>1. CASE i <= Len(o)
    <3>1. i \in 1..Len(o)
      BY <1>1, <2>1
    <3> QED BY <1>1, <2>1, <3>1 DEF HomePrints
  <2> QED BY <1>1, <2>1
<1> QED BY <1>5, <1>6 DEF HomePrints, t

\* A step that changes none of these keeps the invariant.
LEMMA ApartSame ==
  ApartInv /\ UNCHANGED <<sysOut, orig, console, output, printed, pyPast>> => ApartInv'
  BY DEF ApartInv, PyOneLine, OwnStdout, Nested, HomePrints, PyRunning, Redirected, pyPast

(* What leaves sys.stdout, the consoles that have it and what they keep     *)
(* alone leaves the nesting alone.                                          *)
LEMMA NestedSame ==
  ASSUME \E s \in Seq(Consoles) : Nested(s), sysOut' = sysOut, orig' = orig,
         \A d \in Consoles : Redirected(d)' <=> Redirected(d)
  PROVE  \E s \in Seq(Consoles) : Nested(s)'
<1> PICK s \in Seq(Consoles) : Nested(s)
  OBVIOUS
<1>1. Nested(s)'
  BY DEF Nested
<1> QED BY <1>1

\* Only here can lines begin to overlap.
LEMMA ApartGet ==
  ASSUME PyTypeOK, ApartInv, NEW c \in Consoles, GetLine(c)
  PROVE  ApartInv'
<1> USE DEF PyTypeOK
<1>1. /\ console[c] = "wait" /\ overlap \in BOOLEAN
      /\ console' = [console EXCEPT ![c] = "ended"] \/ console' = [console EXCEPT ![c] = "redirect"]
      /\ UNCHANGED <<sysOut, orig, output, printed, crossed, escaped>>
      BY DEF GetLine, At
<1>2. ~overlap' => ~overlap /\ \A d \in Consoles \ {c} : ~PyRunning(d)
      BY DEF GetLine, PyRunning
<1>3. \A d \in Consoles : Redirected(d)' <=> Redirected(d)
      BY <1>1 DEF Redirected
<1>4. ASSUME ~overlap' PROVE PyOneLine' /\ ~crossed'
      BY <1>1, <1>2, <1>4 DEF PyOneLine, PyRunning, ApartInv
<1>5. ASSUME ~overlap' PROVE OwnStdout'
      BY <1>1, <1>2, <1>3, <1>5 DEF ApartInv, OwnStdout
<1>6. ASSUME ~crossed', ~escaped' PROVE (\E s \in Seq(Consoles) : Nested(s))'
      BY <1>1, <1>3, <1>6, NestedSame DEF ApartInv
<1>7. ~overlap' => \A d \in Consoles : HomePrints(output[d], d, printed[d])'
      BY <1>1, <1>2 DEF ApartInv, HomePrints
<1> QED BY <1>4, <1>5, <1>6, <1>7 DEF ApartInv

(* A line that takes sys.stdout lies within all that have it.              *)
LEMMA NestedRedirect ==
  ASSUME PyTypeOK, NEW c \in Consoles, Redirect(c), NEW s \in Seq(Consoles), Nested(s)
  PROVE  Append(s, c) \in Seq(Consoles) /\ Nested(Append(s, c))'
<1> DEFINE t == Append(s, c)
           n == Len(s)
<1>1. /\ console[c] = "redirect" /\ console' = [console EXCEPT ![c] = "line"]
      /\ orig' = [orig EXCEPT ![c] = sysOut] /\ sysOut' = c
  BY DEF Redirect, At
<1>2. /\ t \in Seq(Consoles) /\ Len(t) = n + 1 /\ n \in Nat
      /\ \A i \in 1..(n + 1) : t[i] = IF i <= n THEN s[i] ELSE c
      /\ \A i \in 1..n : s[i] \in Consoles
  BY AppendProperties, LenProperties, ElementOfSeq
<1>3. \A i \in 1..n : s[i] # c
  BY <1>1 DEF Nested, Redirected
<1> HIDE DEF t
<1>4. \A i, j \in 1..Len(t) : t[i] = t[j] => i = j
  <2> TAKE i, j \in 1..Len(t)
  <2>1. i \in 1..n \/ i = n + 1
    BY <1>2
  <2>2. j \in 1..n \/ j = n + 1
    BY <1>2
  <2>3. \A k \in 1..n : k \in 1..(n + 1) /\ k <= n
    BY <1>2
  <2>4. ~(n + 1 <= n) /\ n + 1 \in 1..(n + 1)
    BY <1>2
  <2> QED BY <1>2, <1>3, <2>1, <2>2, <2>3, <2>4 DEF Nested
<1>5. ASSUME NEW d \in Consoles
      PROVE  (console'[d] \in {"line", "restore"}) <=> \E i \in 1..Len(t) : t[i] = d
  <2>1. n + 1 \in 1..Len(t) /\ t[n + 1] = c /\ \A i \in 1..Len(t) : i \in 1..n \/ i = n + 1
    BY <1>2
  <2>2. \A i \in 1..n : i \in 1..Len(t) /\ t[i] = s[i]
    BY <1>2
  <2>3. CASE d = c
    BY <1>1, <2>1, <2>3 DEF PyTypeOK
  <2>4. CASE d # c
    <3>1. console'[d] = console[d]
      BY <1>1, <2>4 DEF PyTypeOK
    <3> QED BY <2>1, <2>2, <2>4, <3>1 DEF Nested, Redirected
  <2> QED BY <2>3, <2>4
<1>6. sysOut' = IF Len(t) = 0 THEN Plugins ELSE t[Len(t)]
  BY <1>1, <1>2
<1>7. ASSUME NEW i \in 1..Len(t)
      PROVE  orig'[t[i]] = IF i = 1 THEN Plugins ELSE t[i - 1]
  <2>1. CASE i \in 1..n
    <3>1. t[i] = s[i] /\ (i # 1 => i - 1 \in 1..(n + 1) /\ i - 1 <= n)
      BY <1>2, <2>1
    <3>2. orig'[s[i]] = orig[s[i]]
      BY <1>1, <1>2, <1>3, <2>1 DEF PyTypeOK
    <3> QED BY <1>2, <2>1, <3>1, <3>2 DEF Nested
  <2>2. CASE i = n + 1
    <3>1. t[i] = c /\ orig'[c] = sysOut
      <4>1. n + 1 \in 1..(n + 1) /\ ~(n + 1 <= n)
        BY <1>2
      <4> QED BY <1>1, <1>2, <2>2, <4>1 DEF PyTypeOK
    <3>2. CASE n = 0
      BY <2>2, <3>1, <3>2 DEF Nested
    <3>3. CASE n # 0
      <4>1. i # 1 /\ i - 1 = n /\ n \in 1..(n + 1) /\ n <= n
        BY <1>2, <2>2, <3>3
      <4> QED BY <1>2, <3>1, <3>3, <4>1 DEF Nested
    <3> QED BY <3>2, <3>3
  <2> QED BY <1>2, <2>1, <2>2
<1>8. Nested(t)'
  BY <1>4, <1>5, <1>6, <1>7 DEF Nested, Redirected
<1> QED BY <1>2, <1>8 DEF t

(* Taking sys.stdout for a line of input keeps streams apart.              *)
LEMMA ApartRedirect ==
  ASSUME PyTypeOK, ApartInv, NEW c \in Consoles, Redirect(c)
  PROVE  ApartInv'
<1> USE DEF PyTypeOK
<1>1. /\ console[c] = "redirect" /\ console' = [console EXCEPT ![c] = "line"]
      /\ orig' = [orig EXCEPT ![c] = sysOut] /\ sysOut' = c
      /\ UNCHANGED <<output, printed, overlap, crossed, escaped>>
      BY DEF Redirect, At, pyPast
<1>2. PyRunning(c)
      BY <1>1 DEF PyRunning
<1>3. ASSUME ~overlap PROVE \A d \in Consoles : ~Redirected(d)
  <2>1. \A d \in Consoles : Redirected(d) => PyRunning(d)
        BY DEF Redirected, PyRunning
  <2>2. ~Redirected(c)
        BY <1>1 DEF Redirected
  <2> QED BY <1>2, <1>3, <2>1, <2>2 DEF ApartInv, PyOneLine
<1>4. ASSUME ~overlap' PROVE PyOneLine' /\ ~crossed'
      BY <1>1, <1>4 DEF ApartInv, PyOneLine, PyRunning
<1>5. ASSUME ~overlap' PROVE OwnStdout'
      BY <1>1, <1>3, <1>5 DEF OwnStdout, Redirected
<1>6. ASSUME ~crossed', ~escaped' PROVE (\E s \in Seq(Consoles) : Nested(s))'
  <2> PICK s \in Seq(Consoles) : Nested(s)
    BY <1>1, <1>6 DEF ApartInv
  <2> QED BY NestedRedirect
<1>7. ~overlap' => \A d \in Consoles : HomePrints(output[d], d, printed[d])'
      BY <1>1 DEF ApartInv, HomePrints
<1> QED BY <1>4, <1>5, <1>6, <1>7 DEF ApartInv

\* The line prints into its own queue, because sys.stdout is its own.
LEMMA ApartPrint ==
  ASSUME PyTypeOK, ApartInv, NEW c \in Consoles, PrintLine(c)
  PROVE  ApartInv'
<1> USE DEF PyTypeOK
<1>1. /\ console[c] = "line" /\ console' = [console EXCEPT ![c] = "restore"]
      /\ printed' = [printed EXCEPT ![c] = @ + 1]
      /\ output' = IF sysOut \in Consoles
                   THEN [output EXCEPT ![sysOut] = Append(@, c)] ELSE output
      /\ UNCHANGED <<sysOut, orig, overlap, crossed, escaped>>
      BY DEF PrintLine, At, pyPast
<1>2. \A d \in Consoles : Redirected(d)' <=> Redirected(d)
      BY <1>1 DEF Redirected
<1>3. ASSUME ~overlap' PROVE PyOneLine' /\ ~crossed'
      BY <1>1, <1>3 DEF ApartInv, PyOneLine, PyRunning
<1>4. ASSUME ~overlap' PROVE OwnStdout'
      BY <1>1, <1>2, <1>4 DEF ApartInv, OwnStdout
<1>5. ASSUME ~crossed', ~escaped' PROVE (\E s \in Seq(Consoles) : Nested(s))'
      BY <1>1, <1>2, <1>5, NestedSame DEF ApartInv
<1>6. ASSUME ~overlap', NEW d \in Consoles
      PROVE  HomePrints(output'[d], d, printed'[d])
  <2>1. sysOut = c
        BY <1>1, <1>6 DEF ApartInv, OwnStdout, Redirected
  <2>2. output' = [output EXCEPT ![c] = Append(@, c)]
        BY <1>1, <2>1
  <2>3. HomePrints(output[d], d, printed[d])
        BY <1>1, <1>6 DEF ApartInv
  <2>4. CASE d # c
        BY <1>1, <2>2, <2>3, <2>4
  <2>5. CASE d = c
    <3> DEFINE o == output[c]
               n == printed[c]
    <3>1. output'[c] = Append(o, c) /\ o \in Seq(Consoles \cup {Plugins}) /\ n \in Nat
          BY <2>2
    <3>2. printed'[c] = n + 1
          BY <1>1
    <3>3. HomePrints(o, c, n)
          BY <2>3, <2>5
    <3> HIDE DEF o, n, PyTypeOK
    <3>4. HomePrints(Append(o, c), c, n + IF c = c THEN 1 ELSE 0)
          BY <3>1, <3>3, HomeAppend
    <3> QED BY <2>5, <3>1, <3>2, <3>4
  <2> QED BY <2>4, <2>5
<1>7. ~overlap' => \A d \in Consoles : HomePrints(output[d], d, printed[d])'
      BY <1>6
<1> QED BY <1>3, <1>4, <1>5, <1>7 DEF ApartInv

(* A plugin's print is in the queue of whichever console has sys.stdout.   *)
LEMMA ApartPlugin ==
  ASSUME PyTypeOK, ApartInv, PluginPrints
  PROVE  ApartInv'
<1> USE DEF PyTypeOK
<1>1. /\ output' = IF sysOut \in Consoles
                   THEN [output EXCEPT ![sysOut] = Append(@, Plugins)] ELSE output
      /\ UNCHANGED <<sysOut, orig, console, printed, overlap, crossed, escaped>>
      BY DEF PluginPrints, pyPast
<1>2. \A d \in Consoles : Redirected(d)' <=> Redirected(d)
      BY <1>1 DEF Redirected
<1>3. ASSUME ~overlap' PROVE PyOneLine' /\ OwnStdout' /\ ~crossed'
      BY <1>1, <1>3 DEF ApartInv, PyOneLine, PyRunning, OwnStdout, Redirected
<1>4. ASSUME ~crossed', ~escaped' PROVE (\E s \in Seq(Consoles) : Nested(s))'
      BY <1>1, <1>2, <1>4, NestedSame DEF ApartInv
<1>5. ASSUME ~overlap', NEW d \in Consoles
      PROVE  HomePrints(output'[d], d, printed'[d])
  <2>1. HomePrints(output[d], d, printed[d])
        BY <1>1, <1>5 DEF ApartInv
  <2>2. CASE d # sysOut
        BY <1>1, <2>1, <2>2
  <2>3. CASE d = sysOut
    <3> DEFINE o == output[d]
               n == printed[d]
    <3>1. output'[d] = Append(o, Plugins) /\ o \in Seq(Consoles \cup {Plugins}) /\ n \in Nat
          BY <1>1, <2>3
    <3>2. printed'[d] = n /\ d # Plugins
          BY <1>1, PluginsAssumption
    <3> HIDE DEF o, n, PyTypeOK
    <3>3. HomePrints(o, d, n)
          BY <2>1 DEF o, n
    <3>4. HomePrints(Append(o, Plugins), d, n + IF Plugins = d THEN 1 ELSE 0)
          BY <3>1, <3>3, HomeAppend
    <3> QED BY <3>1, <3>2, <3>4
  <2> QED BY <2>2, <2>3
<1>6. ~overlap' => \A d \in Consoles : HomePrints(output[d], d, printed[d])'
      BY <1>5
<1> QED BY <1>3, <1>4, <1>6 DEF ApartInv

(* So does an exception that leaves the loop of a console.                 *)
LEMMA ApartEscapes ==
  ASSUME PyTypeOK, ApartInv, NEW c \in Consoles, LineEscapes(c)
  PROVE  ApartInv'
<1> USE DEF PyTypeOK
<1>1. /\ console' = [console EXCEPT ![c] = "ended"] /\ escaped' = TRUE
      /\ UNCHANGED <<sysOut, orig, output, printed, overlap, crossed>>
      BY DEF LineEscapes, At
<1>2. ASSUME ~overlap' PROVE PyOneLine' /\ ~crossed'
      BY <1>1, <1>2 DEF ApartInv, PyOneLine, PyRunning
<1>3. ASSUME ~overlap' PROVE OwnStdout'
      BY <1>1, <1>3 DEF ApartInv, OwnStdout, Redirected
<1>4. ~overlap' => \A d \in Consoles : HomePrints(output[d], d, printed[d])'
      BY <1>1 DEF ApartInv, HomePrints
<1> QED BY <1>1, <1>2, <1>3, <1>4 DEF ApartInv

(* The innermost line gives sys.stdout back to the next one out.           *)
LEMMA NestedRestore ==
  ASSUME PyTypeOK, NEW c \in Consoles, Restore(c), sysOut = c,
         NEW s \in Seq(Consoles), Nested(s)
  PROVE  \E t \in Seq(Consoles) : Nested(t)'
<1> DEFINE n == Len(s)
           t == SubSeq(s, 1, n - 1)
<1>1. /\ console[c] = "restore" /\ console' = [console EXCEPT ![c] = "prompt"]
      /\ sysOut' = orig[c] /\ orig' = orig
  BY DEF Restore, At
<1>2. n \in Nat /\ \A i \in 1..n : s[i] \in Consoles
  BY LenProperties, ElementOfSeq
<1>3. n # 0 /\ s[n] = c /\ n \in 1..n
  BY <1>2, PluginsAssumption DEF Nested
<1>4. /\ t \in Seq(Consoles) /\ Len(t) = n - 1
      /\ \A i \in 1..(n - 1) : t[i] = s[i]
  <2>1. /\ t \in Seq(Consoles)
        /\ Len(t) = IF 1 <= n - 1 THEN (n - 1) - 1 + 1 ELSE 0
        /\ \A i \in 1..((n - 1) - 1 + 1) : t[i] = s[1 + i - 1]
    <3>1. \A i \in 1..(n - 1) : i \in 1..Len(s)
      BY <1>2
    <3>2. n - 1 \in 0..Len(s) /\ 1 \in 1..(Len(s) + 1)
      BY <1>2, <1>3
    <3> QED BY <1>2, <3>1, <3>2, SubSeqProperties
  <2>2. Len(t) = n - 1
    <3> HIDE DEF n
    <3>1. n \in Nat /\ n # 0
      BY <1>2, <1>3
    <3> QED BY <2>1, <3>1
  <2>3. \A i \in 1..(n - 1) : i \in 1..((n - 1) - 1 + 1) /\ 1 + i - 1 = i
    BY <1>2
  <2> QED BY <2>1, <2>2, <2>3
<1> HIDE DEF t
<1>5. \A i \in 1..(n - 1) : i \in 1..n /\ i # n
  BY <1>2
<1>6. \A i \in 1..n : i \in 1..(n - 1) \/ i = n
  BY <1>2
<1>7. \A i, j \in 1..Len(t) : t[i] = t[j] => i = j
  BY <1>4, <1>5 DEF Nested
<1>8. ASSUME NEW d \in Consoles
      PROVE  (console'[d] \in {"line", "restore"}) <=> \E i \in 1..Len(t) : t[i] = d
  <2>1. CASE d = c
    <3>1. \A i \in 1..(n - 1) : s[i] # c
      BY <1>3, <1>5 DEF Nested
    <3>2. console'[c] = "prompt"
      BY <1>1 DEF PyTypeOK
    <3> QED BY <1>4, <2>1, <3>1, <3>2
  <2>2. CASE d # c
    <3>1. console'[d] = console[d]
      BY <1>1, <2>2 DEF PyTypeOK
    <3>2. (\E i \in 1..n : s[i] = d) <=> \E i \in 1..(n - 1) : s[i] = d
      BY <1>3, <1>5, <1>6, <2>2
    <3> QED BY <1>4, <3>1, <3>2 DEF Nested, Redirected
  <2> QED BY <2>1, <2>2
<1>9. sysOut' = IF Len(t) = 0 THEN Plugins ELSE t[Len(t)]
  <2>1. sysOut' = IF n = 1 THEN Plugins ELSE s[n - 1]
    BY <1>1, <1>3 DEF Nested
  <2>2. n # 1 => n - 1 \in 1..(n - 1) /\ n - 1 # 0
    <3> HIDE DEF n
    <3> QED BY <1>2, <1>3
  <2> QED BY <1>2, <1>4, <2>1, <2>2
<1>10. ASSUME NEW i \in 1..Len(t)
       PROVE  orig'[t[i]] = IF i = 1 THEN Plugins ELSE t[i - 1]
  <2>1. i \in 1..n /\ t[i] = s[i] /\ (i # 1 => i - 1 \in 1..(n - 1))
    BY <1>2, <1>4
  <2> QED BY <1>1, <1>4, <2>1 DEF Nested
<1>11. Nested(t)'
  BY <1>7, <1>8, <1>9, <1>10 DEF Nested, Redirected
<1> QED BY <1>4, <1>11

\* What a line that runs alone restores is the plugins' stream.
LEMMA ApartRestore ==
  ASSUME PyTypeOK, ApartInv, NEW c \in Consoles, Restore(c)
  PROVE  ApartInv'
<1> USE DEF PyTypeOK
<1>1. /\ console[c] = "restore" /\ console' = [console EXCEPT ![c] = "prompt"]
      /\ sysOut' = orig[c] /\ crossed' = (crossed \/ sysOut # c)
      /\ UNCHANGED <<orig, output, printed, overlap, escaped>>
      BY DEF Restore, At
<1>2. PyRunning(c) /\ Redirected(c)
      BY <1>1 DEF PyRunning, Redirected
<1>3. ASSUME ~overlap PROVE \A d \in Consoles : ~Redirected(d)'
  <2>1. \A d \in Consoles : Redirected(d) => PyRunning(d)
        BY DEF Redirected, PyRunning
  <2>2. \A d \in Consoles \ {c} : ~Redirected(d)
        BY <1>2, <1>3, <2>1 DEF ApartInv, PyOneLine
  <2> QED BY <1>1, <2>2 DEF Redirected
<1>4. ASSUME ~overlap' PROVE PyOneLine' /\ ~crossed'
      BY <1>1, <1>2, <1>4 DEF ApartInv, PyOneLine, PyRunning, OwnStdout
<1>5. ASSUME ~overlap' PROVE OwnStdout'
      BY <1>1, <1>3, <1>5 DEF OwnStdout
<1>6. ASSUME ~crossed', ~escaped' PROVE (\E s \in Seq(Consoles) : Nested(s))'
  <2>1. sysOut = c /\ ~crossed /\ ~escaped
    BY <1>1, <1>6
  <2> PICK s \in Seq(Consoles) : Nested(s)
    BY <2>1 DEF ApartInv
  <2> QED BY <2>1, NestedRestore
<1>7. ~overlap' => \A d \in Consoles : HomePrints(output[d], d, printed[d])'
      BY <1>1 DEF ApartInv, HomePrints
<1> QED BY <1>4, <1>5, <1>6, <1>7 DEF ApartInv

(* So does the prompt a console prints.                                    *)
LEMMA ApartPrompt ==
  ASSUME PyTypeOK, ApartInv, NEW c \in Consoles, PutPrompt(c)
  PROVE  ApartInv'
<1> USE DEF PyTypeOK
<1>1. /\ console[c] = "prompt" /\ console' = [console EXCEPT ![c] = "wait"]
      /\ UNCHANGED <<sysOut, orig, output, printed, overlap, crossed, escaped>>
      BY DEF PutPrompt, At, pyPast
<1>2. \A d \in Consoles : Redirected(d)' <=> Redirected(d)
      BY <1>1 DEF Redirected
<1>3. ASSUME ~overlap' PROVE PyOneLine' /\ ~crossed'
      BY <1>1, <1>3 DEF ApartInv, PyOneLine, PyRunning
<1>4. ASSUME ~overlap' PROVE OwnStdout'
      BY <1>1, <1>2, <1>4 DEF ApartInv, OwnStdout
<1>5. ASSUME ~crossed', ~escaped' PROVE (\E s \in Seq(Consoles) : Nested(s))'
      BY <1>1, <1>2, <1>5, NestedSame DEF ApartInv
<1>6. ~overlap' => \A d \in Consoles : HomePrints(output[d], d, printed[d])'
      BY <1>1 DEF ApartInv, HomePrints
<1> QED BY <1>3, <1>4, <1>5, <1>6 DEF ApartInv

(* Every step keeps ApartInv.                                              *)
LEMMA ApartStep == PyTypeOK /\ ApartInv /\ [PyNext]_pyVars => ApartInv'
<1> SUFFICES ASSUME PyTypeOK, ApartInv, [PyNext]_pyVars PROVE ApartInv'
    OBVIOUS
<1>1. ASSUME NEW c \in Consoles, EnterLine(c) PROVE ApartInv'
      BY <1>1, ApartSame DEF EnterLine
<1>2. ASSUME NEW c \in Consoles, KillConsole(c) PROVE ApartInv'
      BY <1>2, ApartSame DEF KillConsole
<1>3. ASSUME NEW c \in Consoles, Console(c) PROVE ApartInv'
      BY <1>3, ApartGet, ApartRedirect, ApartPrint, ApartEscapes, ApartRestore,
         ApartPrompt DEF Console
<1>4. CASE UNCHANGED pyVars
      BY <1>4, ApartSame DEF pyVars
<1> QED BY <1>1, <1>2, <1>3, <1>4, ApartPlugin DEF PyNext

\* The innermost of the nested lines has sys.stdout.
LEMMA ApartGivesStreams == PyTypeOK /\ ApartInv => StreamsStayApart
<1> SUFFICES ASSUME PyTypeOK, ApartInv PROVE StreamsStayApart
  OBVIOUS
<1>1. ASSUME ~crossed, ~escaped, sysOut # Plugins
      PROVE  console[sysOut] \in {"line", "restore"}
  <2> PICK s \in Seq(Consoles) : Nested(s)
    BY <1>1 DEF ApartInv
  <2>1. Len(s) # 0 /\ sysOut = s[Len(s)] /\ Len(s) \in Nat
    BY <1>1, LenProperties DEF Nested
  <2>2. Len(s) \in 1..Len(s) /\ sysOut \in Consoles
    BY <1>1, <2>1 DEF PyTypeOK
  <2> QED BY <2>1, <2>2 DEF Nested, Redirected
<1>2. PrintsStayHome
  BY DEF ApartInv, HomePrints, PrintsStayHome
<1> QED BY <1>1, <1>2 DEF ApartInv, StreamsStayApart, StdoutComesBack

(* Whatever lines the consoles run, for any number of consoles, lines and   *)
(* plugins' prints: the queue of a console has all that its own lines print *)
(* and nothing of another console's, as long as no two lines overlap; and   *)
(* sys.stdout is a console's only while a line of it runs, as long as lines *)
(* that overlap lie within one another and none raises out of the context   *)
(* manager.                                                                *)
THEOREM StreamsApart == PySpec => []StreamsStayApart
<1>1. PyInit => PyTypeOK /\ ApartInv
      BY PyTypeInit, ApartInit
<1>2. PyTypeOK /\ ApartInv /\ [PyNext]_pyVars => (PyTypeOK /\ ApartInv)'
      BY PyTypeStep, ApartStep
<1>3. PyTypeOK /\ ApartInv => StreamsStayApart
      BY ApartGivesStreams
<1> QED BY <1>1, <1>2, <1>3, PTL DEF PySpec
-----------------------------------------------------------------------------
(* SublimePythonRepl: a console answers its lines, and comes to rest.      *)

\* Without a kill there are lines only in a console's queue, and each line that
\* was entered waits there, runs, or has had its prompt.
PyAnswers(c) ==
  /\ ~kills[c] => \A i \in 1..Len(input[c]) : input[c][i] = "line"
  /\ ~kills[c] /\ console[c] # "ended" =>
       prompts[c] + Len(input[c]) + (IF PyRunning(c) THEN 1 ELSE 0) = entries[c] + 1

\* A console that has nothing to do has a prompt behind every line.
PyRestIsAnswered ==
  \A c \in Consoles :
    ~kills[c] /\ console[c] = "wait" /\ input[c] = <<>> => prompts[c] = entries[c] + 1

\* Steps a console's thread has left until it waits for a line, or ends.
PyPlace == [wait |-> 0, redirect |-> 4, line |-> 3, restore |-> 2, prompt |-> 1, ended |-> 0]
PyLeft(c) == 5 * Len(input[c]) + PyPlace[console[c]]

\* Each of them brings it nearer; another console's steps do nothing to it.
PyRunsOut ==
  \A c \in Consoles :
    /\ Console(c) => PyLeft(c)' < PyLeft(c)
    /\ EnterLine(c) \/ KillConsole(c) => PyLeft(c)' = PyLeft(c) + 5
    /\ (\E d \in Consoles \ {c} : EnterLine(d) \/ KillConsole(d) \/ Console(d))
         => PyLeft(c)' = PyLeft(c)

\* An ended console takes no line and puts no prompt any more.
PyEndedStays ==
  \A c \in Consoles : console[c] = "ended" =>
    console'[c] = "ended" /\ prompts'[c] = prompts[c] /\ Len(input'[c]) >= Len(input[c])

(* Types of what a console has left.                                       *)
LEMMA PyLeftTypes ==
  ASSUME PyTypeOK, NEW c \in Consoles
  PROVE  /\ Len(input[c]) \in Nat /\ PyPlace[console[c]] \in 0..4 /\ PyLeft(c) \in Nat
         /\ input[c] \in Seq({"line", "None"})
<1>1. input[c] \in Seq({"line", "None"})
  BY DEF PyTypeOK
<1>2. Len(input[c]) \in Nat
  BY <1>1, LenProperties
<1>3. PyPlace[console[c]] \in 0..4
  <2>1. console[c] \in {"wait", "redirect", "line", "restore", "prompt", "ended"}
    BY DEF PyTypeOK
  <2> QED BY <2>1 DEF PyPlace
<1> QED BY <1>1, <1>2, <1>3 DEF PyLeft

(* The others' queues, places and prompts are left alone.                  *)
LEMMA PyOneConsole ==
  ASSUME PyTypeOK, NEW c \in Consoles, EnterLine(c) \/ KillConsole(c) \/ Console(c),
         NEW d \in Consoles, d # c
  PROVE  /\ input'[d] = input[d] /\ console'[d] = console[d] /\ prompts'[d] = prompts[d]
         /\ entries'[d] = entries[d] /\ kills'[d] = kills[d]
<1> USE DEF PyTypeOK
<1>1. CASE EnterLine(c) \/ KillConsole(c)
  BY <1>1 DEF EnterLine, KillConsole
<1>2. CASE GetLine(c)
  BY <1>2 DEF GetLine, At
<1>3. CASE Redirect(c) \/ PrintLine(c) \/ LineEscapes(c)
  BY <1>3 DEF Redirect, PrintLine, LineEscapes, At
<1>4. CASE Restore(c) \/ PutPrompt(c)
  BY <1>4 DEF Restore, PutPrompt, At
<1> QED BY <1>1, <1>2, <1>3, <1>4 DEF Console

(* What a console's thread does to its queue, its place and its prompts.   *)
LEMMA PyConsoleStep ==
  ASSUME PyTypeOK, NEW c \in Consoles, Console(c)
  PROVE  /\ entries'[c] = entries[c] /\ kills'[c] = kills[c] /\ console[c] # "ended"
         /\ \/ /\ console[c] = "wait" /\ input[c] # <<>> /\ input'[c] = Tail(input[c])
               /\ prompts'[c] = prompts[c]
               /\ console'[c] = IF Head(input[c]) = "None" THEN "ended" ELSE "redirect"
            \/ /\ input'[c] = input[c]
               /\ \/ /\ console[c] = "prompt" /\ console'[c] = "wait"
                     /\ prompts'[c] = prompts[c] + 1
                  \/ /\ prompts'[c] = prompts[c]
                     /\ <<console[c], console'[c]>> \in
                          {<<"redirect", "line">>, <<"line", "restore">>,
                           <<"line", "ended">>, <<"restore", "prompt">>}
<1> USE DEF PyTypeOK
<1>1. CASE GetLine(c)
  BY <1>1 DEF GetLine, At
<1>2. CASE Redirect(c)
  BY <1>2 DEF Redirect, At
<1>3. CASE PrintLine(c)
  BY <1>3 DEF PrintLine, At
<1>4. CASE LineEscapes(c)
  BY <1>4 DEF LineEscapes, At
<1>5. CASE Restore(c)
  BY <1>5 DEF Restore, At
<1>6. CASE PutPrompt(c)
  BY <1>6 DEF PutPrompt, At
<1> QED BY <1>1, <1>2, <1>3, <1>4, <1>5, <1>6 DEF Console

(* What is appended to a console's queue.                                  *)
LEMMA PyInputStep ==
  ASSUME PyTypeOK, NEW c \in Consoles, EnterLine(c) \/ KillConsole(c)
  PROVE  /\ console'[c] = console[c] /\ prompts'[c] = prompts[c]
         /\ \/ /\ input'[c] = Append(input[c], "line") /\ kills'[c] = kills[c]
               /\ entries'[c] = entries[c] + 1
            \/ /\ input'[c] = Append(input[c], "None") /\ kills'[c]
  BY DEF EnterLine, KillConsole, PyTypeOK

(* Lengths and items of a console's queue.                                 *)
LEMMA LinesAre ==
  ASSUME NEW q \in Seq({"line", "None"})
  PROVE  /\ Len(q) \in Nat
         /\ \A x \in {"line", "None"} :
              /\ Len(Append(q, x)) = Len(q) + 1
              /\ \A i \in 1..(Len(q) + 1) :
                   Append(q, x)[i] = IF i <= Len(q) THEN q[i] ELSE x
         /\ q # <<>> => /\ Len(Tail(q)) = Len(q) - 1 /\ Len(q) > 0 /\ Head(q) = q[1]
                        /\ \A i \in 1..(Len(q) - 1) : Tail(q)[i] = q[i + 1]
<1>1. Len(q) \in Nat
  BY LenProperties
<1>2. \A x \in {"line", "None"} :
        /\ Len(Append(q, x)) = Len(q) + 1
        /\ \A i \in 1..(Len(q) + 1) : Append(q, x)[i] = IF i <= Len(q) THEN q[i] ELSE x
  OBVIOUS
<1>3. ASSUME q # <<>>
      PROVE  /\ Len(Tail(q)) = Len(q) - 1 /\ Len(q) > 0 /\ Head(q) = q[1]
             /\ \A i \in 1..(Len(q) - 1) : Tail(q)[i] = q[i + 1]
  <2>1. Len(q) # 0
    BY <1>3, EmptySeq
  <2> QED BY <1>1, <1>3, <2>1, HeadTailProperties
<1> QED BY <1>1, <1>2, <1>3

(* A step of a console leaves its account right.                           *)
LEMMA PyAnswersConsole ==
  ASSUME PyTypeOK, NEW c \in Consoles, PyAnswers(c), Console(c)
  PROVE  PyAnswers(c)'
<1> DEFINE q == input[c]
           p == prompts[c]
           e == entries[c]
<1>1. /\ q \in Seq({"line", "None"}) /\ Len(q) \in Nat /\ p \in Nat /\ e \in Nat
      /\ kills'[c] = kills[c] /\ entries'[c] = e /\ console[c] # "ended"
  <2>1. entries[c] \in 0..MaxEntries /\ prompts[c] \in Nat
    BY DEF PyTypeOK
  <2> QED BY <2>1, PyLeftTypes, PyConsoleStep, EntriesAssumption
<1> SUFFICES ASSUME ~kills[c]
             PROVE  /\ \A i \in 1..Len(input'[c]) : input'[c][i] = "line"
                    /\ console'[c] # "ended" =>
                         prompts'[c] + Len(input'[c])
                           + (IF console'[c] \notin {"wait", "ended"} THEN 1 ELSE 0)
                         = entries'[c] + 1
  BY <1>1 DEF PyAnswers, PyRunning
<1>2. /\ \A i \in 1..Len(q) : q[i] = "line"
      /\ p + Len(q) + (IF console[c] \notin {"wait", "ended"} THEN 1 ELSE 0) = e + 1
  BY <1>1 DEF PyAnswers, PyRunning
<1>3. CASE console[c] = "wait" /\ q # <<>> /\ input'[c] = Tail(q) /\ prompts'[c] = p
           /\ console'[c] = IF Head(q) = "None" THEN "ended" ELSE "redirect"
  <2>1. /\ Len(Tail(q)) = Len(q) - 1 /\ Len(q) > 0 /\ Head(q) = q[1]
        /\ \A i \in 1..(Len(q) - 1) : Tail(q)[i] = q[i + 1]
    BY <1>1, <1>3, LinesAre
  <2>2. Head(q) = "line"
    BY <1>1, <1>2, <2>1
  <2>3. \A i \in 1..Len(Tail(q)) : Tail(q)[i] = "line"
    BY <1>1, <1>2, <2>1
  <2>4. console'[c] = "redirect" /\ p + Len(q) = e + 1
    BY <1>2, <1>3, <2>2, <1>1
  <2>5. p + Len(Tail(q)) + 1 = e + 1
    <3> HIDE DEF q, p, e
    <3> QED BY <1>1, <2>1, <2>4
  <2> QED BY <1>1, <1>3, <2>3, <2>4, <2>5
<1>4. CASE input'[c] = q /\ console[c] = "prompt" /\ console'[c] = "wait"
           /\ prompts'[c] = p + 1
  <2>1. p + Len(q) + 1 = e + 1
    BY <1>2, <1>4
  <2>2. (p + 1) + Len(q) + 0 = e + 1
    <3> HIDE DEF q, p, e
    <3> QED BY <1>1, <2>1
  <2> QED BY <1>1, <1>2, <1>4, <2>2
<1>5. CASE input'[c] = q /\ prompts'[c] = p
           /\ <<console[c], console'[c]>> \in
                {<<"redirect", "line">>, <<"line", "restore">>, <<"line", "ended">>,
                 <<"restore", "prompt">>}
  <2>1. /\ console[c] \notin {"wait", "ended"}
        /\ console'[c] # "ended" => console'[c] \notin {"wait", "ended"}
    BY <1>5
  <2> QED BY <1>1, <1>2, <1>5, <2>1
<1> QED BY <1>3, <1>4, <1>5, PyConsoleStep

(* So does a line that is entered, and a kill.                             *)
LEMMA PyAnswersInput ==
  ASSUME PyTypeOK, NEW c \in Consoles, PyAnswers(c), EnterLine(c) \/ KillConsole(c)
  PROVE  PyAnswers(c)'
<1> DEFINE q == input[c]
           p == prompts[c]
           e == entries[c]
           b == IF console[c] \notin {"wait", "ended"} THEN 1 ELSE 0
<1>1. /\ q \in Seq({"line", "None"}) /\ Len(q) \in Nat /\ p \in Nat /\ e \in Nat
      /\ b \in {0, 1} /\ console'[c] = console[c] /\ prompts'[c] = p
  <2>1. entries[c] \in 0..MaxEntries /\ prompts[c] \in Nat
    BY DEF PyTypeOK
  <2> QED BY <2>1, PyLeftTypes, PyInputStep, EntriesAssumption
<1>2. CASE kills'[c]
  BY <1>2 DEF PyAnswers
<1>3. CASE /\ input'[c] = Append(q, "line") /\ kills'[c] = kills[c] /\ ~kills[c]
           /\ entries'[c] = e + 1
  <2>1. /\ \A i \in 1..Len(q) : q[i] = "line"
        /\ console[c] # "ended" => p + Len(q) + b = e + 1
    BY <1>3 DEF PyAnswers, PyRunning
  <2>2. /\ Len(Append(q, "line")) = Len(q) + 1
        /\ \A i \in 1..(Len(q) + 1) :
             Append(q, "line")[i] = IF i <= Len(q) THEN q[i] ELSE "line"
    BY <1>1, LinesAre
  <2>3. \A i \in 1..Len(Append(q, "line")) : Append(q, "line")[i] = "line"
    BY <1>1, <2>1, <2>2
  <2>4. console[c] # "ended" => p + (Len(q) + 1) + b = (e + 1) + 1
    <3> HIDE DEF q, p, e, b
    <3> QED BY <1>1, <2>1
  <2> QED BY <1>1, <1>3, <2>2, <2>3, <2>4 DEF PyAnswers, PyRunning
<1> QED BY <1>2, <1>3, PyInputStep

(* Every step keeps every console's account.                               *)
LEMMA PyAnswersStep ==
  PyTypeOK /\ (\A c \in Consoles : PyAnswers(c)) /\ [PyNext]_pyVars
    => (\A c \in Consoles : PyAnswers(c))'
<1> SUFFICES ASSUME PyTypeOK, \A c \in Consoles : PyAnswers(c), [PyNext]_pyVars,
                    NEW d \in Consoles
             PROVE  PyAnswers(d)'
  OBVIOUS
<1>1. CASE UNCHANGED pyVars
  BY <1>1 DEF pyVars, PyAnswers, PyRunning
<1>2. ASSUME NEW c \in Consoles, EnterLine(c) \/ KillConsole(c) \/ Console(c)
      PROVE  PyAnswers(d)'
  <2>1. CASE d = c
    BY <1>2, <2>1, PyAnswersConsole, PyAnswersInput
  <2>2. CASE d # c
    <3>1. /\ input'[d] = input[d] /\ console'[d] = console[d] /\ prompts'[d] = prompts[d]
          /\ entries'[d] = entries[d] /\ kills'[d] = kills[d]
      BY <1>2, <2>2, PyOneConsole
    <3>2. PyAnswers(d)
      OBVIOUS
    <3> QED BY <3>1, <3>2 DEF PyAnswers, PyRunning
  <2> QED BY <2>1, <2>2
<1>3. CASE PluginPrints
  BY <1>3 DEF PluginPrints, PyAnswers, PyRunning
<1> QED BY <1>1, <1>2, <1>3 DEF PyNext

(* A console that nobody killed and whose thread lives owes a prompt for no *)
(* line but those in its queue and the one it runs; at rest it owes none.   *)
THEOREM LinesAllAnswered == PySpec => []PyRestIsAnswered
<1>1. PyInit => \A c \in Consoles : PyAnswers(c)
  BY DEF PyInit, PyAnswers, PyRunning
<1>2. PyTypeOK /\ (\A c \in Consoles : PyAnswers(c)) => PyRestIsAnswered
  <2> SUFFICES ASSUME PyTypeOK, NEW c \in Consoles, PyAnswers(c), ~kills[c],
                      console[c] = "wait", input[c] = <<>>
               PROVE  prompts[c] = entries[c] + 1
    BY DEF PyRestIsAnswered
  <2>1. prompts[c] \in Nat /\ entries[c] \in Nat
    <3>1. entries[c] \in 0..MaxEntries /\ prompts[c] \in Nat
      BY DEF PyTypeOK
    <3> QED BY <3>1, EntriesAssumption
  <2>2. Len(input[c]) = 0
    OBVIOUS
  <2>3. prompts[c] + 0 + 0 = entries[c] + 1
    BY <2>2 DEF PyAnswers, PyRunning
  <2> QED BY <2>1, <2>3
<1> QED BY <1>1, <1>2, PyAnswersStep, PyTypeCorrect, PTL DEF PySpec

(* Every step of a console's thread lowers what it has left.               *)
LEMMA PyLeftConsole ==
  ASSUME PyTypeOK, NEW c \in Consoles, Console(c)
  PROVE  PyLeft(c)' < PyLeft(c)
<1> DEFINE n == Len(input[c])
           p == PyPlace[console[c]]
           n1 == Len(input'[c])
           p1 == PyPlace[console'[c]]
<1>1. n \in Nat /\ p \in 0..4 /\ PyLeft(c) = 5 * n + p /\ PyLeft(c)' = 5 * n1 + p1
  BY PyLeftTypes DEF PyLeft, PyPlace
<1>2. /\ PyPlace["wait"] = 0 /\ PyPlace["redirect"] = 4 /\ PyPlace["line"] = 3
      /\ PyPlace["restore"] = 2 /\ PyPlace["prompt"] = 1 /\ PyPlace["ended"] = 0
  BY DEF PyPlace
<1>3. \/ n1 = n - 1 /\ p = 0 /\ p1 \in {0, 4}
      \/ n1 = n /\ p1 \in 0..3 /\ p1 < p
  <2>1. CASE console[c] = "wait" /\ input[c] # <<>> /\ input'[c] = Tail(input[c])
             /\ console'[c] \in {"ended", "redirect"}
    <3>1. input[c] \in Seq({"line", "None"})
      BY PyLeftTypes
    <3> QED BY <1>2, <2>1, <3>1, LinesAre
  <2>2. CASE input'[c] = input[c] /\ console[c] = "prompt" /\ console'[c] = "wait"
    BY <1>2, <2>2
  <2>3. CASE input'[c] = input[c]
             /\ <<console[c], console'[c]>> \in
                  {<<"redirect", "line">>, <<"line", "restore">>, <<"line", "ended">>,
                   <<"restore", "prompt">>}
    BY <1>2, <2>3
  <2> QED BY <2>1, <2>2, <2>3, PyConsoleStep
<1> HIDE DEF n, p, n1, p1
<1> QED BY <1>1, <1>3

(* A console's thread comes to rest: 5 steps at most for a line, whatever   *)
(* the other consoles do meanwhile.  One that ended takes no line any more, *)
(* though write() goes on filling its queue, for is_alive() is always true. *)
THEOREM ConsolesRun ==
  PySpec => [](\A c \in Consoles : PyLeft(c) \in Nat) /\ [][PyRunsOut /\ PyEndedStays]_pyVars
<1>1. PyTypeOK => \A c \in Consoles : PyLeft(c) \in Nat
  BY PyLeftTypes
<1>2. ASSUME PyTypeOK, PyNext PROVE PyRunsOut
  <2> SUFFICES ASSUME NEW c \in Consoles
               PROVE  /\ Console(c) => PyLeft(c)' < PyLeft(c)
                      /\ EnterLine(c) \/ KillConsole(c) => PyLeft(c)' = PyLeft(c) + 5
                      /\ \A d \in Consoles \ {c} :
                           EnterLine(d) \/ KillConsole(d) \/ Console(d)
                             => PyLeft(c)' = PyLeft(c)
    BY DEF PyRunsOut
  <2>1. ASSUME EnterLine(c) \/ KillConsole(c) PROVE PyLeft(c)' = PyLeft(c) + 5
    <3> DEFINE n == Len(input[c])
               p == PyPlace[console[c]]
    <3>1. n \in Nat /\ p \in 0..4 /\ input[c] \in Seq({"line", "None"})
      BY <1>2, PyLeftTypes
    <3>2. Len(input'[c]) = n + 1 /\ console'[c] = console[c]
      BY <1>2, <2>1, <3>1, PyInputStep, LinesAre
    <3>3. PyLeft(c) = 5 * n + p /\ PyLeft(c)' = 5 * (n + 1) + p
      BY <3>2 DEF PyLeft, PyPlace
    <3> HIDE DEF n, p
    <3> QED BY <3>1, <3>3
  <2>2. ASSUME NEW d \in Consoles \ {c}, EnterLine(d) \/ KillConsole(d) \/ Console(d)
        PROVE  PyLeft(c)' = PyLeft(c)
    <3>1. input'[c] = input[c] /\ console'[c] = console[c]
      BY <1>2, <2>2, PyOneConsole
    <3> QED BY <3>1 DEF PyLeft, PyPlace
  <2> QED BY <1>2, <2>1, <2>2, PyLeftConsole
<1>3. ASSUME PyTypeOK, PyNext PROVE PyEndedStays
  <2> SUFFICES ASSUME NEW c \in Consoles, console[c] = "ended"
               PROVE  /\ console'[c] = "ended" /\ prompts'[c] = prompts[c]
                      /\ Len(input'[c]) >= Len(input[c])
    BY DEF PyEndedStays
  <2>1. input[c] \in Seq({"line", "None"}) /\ Len(input[c]) \in Nat
    BY <1>3, PyLeftTypes
  <2>0. CASE PluginPrints
    BY <2>0, <2>1 DEF PluginPrints
  <2> SUFFICES ASSUME ~PluginPrints
               PROVE  /\ console'[c] = "ended" /\ prompts'[c] = prompts[c]
                      /\ Len(input'[c]) >= Len(input[c])
    BY <2>0
  <2>2. PICK d \in Consoles : EnterLine(d) \/ KillConsole(d) \/ Console(d)
    BY <1>3 DEF PyNext
  <2>3. CASE d # c
    <3>1. /\ console'[c] = console[c] /\ prompts'[c] = prompts[c] /\ input'[c] = input[c]
      BY <1>3, <2>2, <2>3, PyOneConsole
    <3> QED BY <2>1, <3>1
  <2>4. CASE d = c
    <3>1. ~Console(c)
      BY <1>3, PyConsoleStep
    <3>2. /\ console'[c] = console[c] /\ prompts'[c] = prompts[c]
          /\ input'[c] \in {Append(input[c], "line"), Append(input[c], "None")}
      BY <1>3, <2>2, <2>4, <3>1, PyInputStep
    <3>3. Len(input'[c]) = Len(input[c]) + 1
      BY <2>1, <3>2, LinesAre
    <3> QED BY <2>1, <3>2, <3>3
  <2> QED BY <2>3, <2>4
<1>4. PyTypeOK /\ [PyNext]_pyVars => [PyRunsOut /\ PyEndedStays]_pyVars
  BY <1>2, <1>3
<1> QED BY <1>1, <1>4, PyTypeCorrect, PTL DEF PySpec
-----------------------------------------------------------------------------
(* Autocomplete: the bytes under way are in order, and lie behind what was *)
(* returned.                                                               *)

\* Byte b was sent before byte c; sequences and sets of bytes likewise.
Before(b, c) == b.req < c.req \/ (b.req = c.req /\ b.at < c.at)
AllBefore(S, T) == \A b \in S, c \in T : Before(b, c)
Sorted(s) == \A i, j \in 1..Len(s) : i < j => Before(s[i], s[j])

(* What a sequence of bytes consists of.                                   *)
LEMMA BytesOf ==
  ASSUME NEW s \in Seq(AcBytes)
  PROVE  /\ Len(s) \in Nat /\ DOMAIN s = 1..Len(s) /\ Range(s) \subseteq AcBytes
         /\ \A i \in 1..Len(s) : s[i] \in AcBytes /\ s[i] \in Range(s)
<1>1. Len(s) \in Nat /\ DOMAIN s = 1..Len(s) /\ \A i \in 1..Len(s) : s[i] \in AcBytes
  BY LenProperties, ElementOfSeq
<1> QED BY <1>1 DEF Range

(* The numbers a byte on the socket carries.                               *)
LEMMA ByteTypes == \A b \in AcBytes : b.req \in 1..MaxAsks /\ b.at \in 0..(Body + 1)
  BY DEF AcBytes

(* The first byte and the rest.                                            *)
LEMMA SortedTail ==
  ASSUME NEW s \in Seq(AcBytes), s # <<>>
  PROVE  /\ Head(s) \in AcBytes /\ Tail(s) \in Seq(AcBytes)
         /\ Head(s) \in Range(s) /\ Range(Tail(s)) \subseteq Range(s)
         /\ Range(s) = {Head(s)} \cup Range(Tail(s))
         /\ Sorted(s) => Sorted(Tail(s)) /\ AllBefore({Head(s)}, Range(Tail(s)))
<1>1. /\ Head(s) \in AcBytes /\ Tail(s) \in Seq(AcBytes) /\ Len(Tail(s)) = Len(s) - 1
      /\ \A i \in 1..Len(Tail(s)) : Tail(s)[i] = s[i + 1]
  BY HeadTailProperties
<1>2. /\ Len(s) \in Nat \ {0} /\ Head(s) = s[1]
      /\ DOMAIN s = 1..Len(s) /\ DOMAIN Tail(s) = 1..(Len(s) - 1)
  BY <1>1, EmptySeq, LenProperties
<1>3. \A i \in 1..(Len(s) - 1) : i + 1 \in 1..Len(s) /\ Tail(s)[i] = s[i + 1]
  BY <1>1, <1>2
<1>4. Head(s) \in Range(s) /\ Range(Tail(s)) \subseteq Range(s)
  BY <1>2, <1>3 DEF Range
<1>5. Range(s) \subseteq {Head(s)} \cup Range(Tail(s))
  <2> SUFFICES ASSUME NEW i \in 1..Len(s)
               PROVE  s[i] \in {Head(s)} \cup Range(Tail(s))
    BY <1>2 DEF Range
  <2>1. CASE i = 1
    BY <1>2, <2>1
  <2>2. CASE i # 1
    <3>1. i - 1 \in 1..(Len(s) - 1) /\ s[i] = Tail(s)[i - 1]
      BY <1>2, <1>3, <2>2
    <3> QED BY <1>2, <3>1 DEF Range
  <2> QED BY <2>1, <2>2
<1>6. ASSUME Sorted(s)
      PROVE  Sorted(Tail(s)) /\ AllBefore({Head(s)}, Range(Tail(s)))
  <2>1. \A i, j \in 1..(Len(s) - 1) : i < j => Before(Tail(s)[i], Tail(s)[j])
    <3> SUFFICES ASSUME NEW i \in 1..(Len(s) - 1), NEW j \in 1..(Len(s) - 1), i < j
                 PROVE  Before(Tail(s)[i], Tail(s)[j])
      OBVIOUS
    <3>1. i + 1 \in 1..Len(s) /\ j + 1 \in 1..Len(s) /\ i + 1 < j + 1
      BY <1>2
    <3> QED BY <1>3, <1>6, <3>1 DEF Sorted
  <2>2. \A i \in 1..(Len(s) - 1) : Before(Head(s), Tail(s)[i])
    <3> SUFFICES ASSUME NEW i \in 1..(Len(s) - 1) PROVE Before(Head(s), Tail(s)[i])
      OBVIOUS
    <3>1. i + 1 \in 1..Len(s) /\ 1 \in 1..Len(s) /\ 1 < i + 1
      BY <1>2
    <3> QED BY <1>2, <1>3, <1>6, <3>1 DEF Sorted
  <2> QED BY <1>1, <1>2, <2>1, <2>2 DEF Sorted, AllBefore, Range
<1> QED BY <1>1, <1>4, <1>5, <1>6

(* Two sequences, one before the other, make one.                          *)
LEMMA SortedConcat ==
  ASSUME NEW s \in Seq(AcBytes), NEW t \in Seq(AcBytes)
  PROVE  /\ s \o t \in Seq(AcBytes) /\ Range(s \o t) \subseteq Range(s) \cup Range(t)
         /\ Sorted(s) /\ Sorted(t) /\ AllBefore(Range(s), Range(t)) => Sorted(s \o t)
<1>1. /\ s \o t \in Seq(AcBytes) /\ Len(s \o t) = Len(s) + Len(t)
      /\ \A i \in 1..(Len(s) + Len(t)) :
           (s \o t)[i] = IF i <= Len(s) THEN s[i] ELSE t[i - Len(s)]
  BY ConcatProperties
<1>2. /\ Len(s) \in Nat /\ Len(t) \in Nat
      /\ DOMAIN s = 1..Len(s) /\ DOMAIN t = 1..Len(t)
      /\ DOMAIN (s \o t) = 1..(Len(s) + Len(t))
  BY <1>1, LenProperties
<1>3. ASSUME NEW i \in 1..(Len(s) + Len(t))
      PROVE  \/ i \in 1..Len(s) /\ (s \o t)[i] = s[i] /\ s[i] \in Range(s)
             \/ /\ i > Len(s) /\ i - Len(s) \in 1..Len(t) /\ (s \o t)[i] = t[i - Len(s)]
                /\ t[i - Len(s)] \in Range(t)
  <2>1. CASE i <= Len(s)
    BY <1>1, <1>2, <2>1 DEF Range
  <2>2. CASE i > Len(s)
    <3>1. i - Len(s) \in 1..Len(t) /\ (s \o t)[i] = t[i - Len(s)]
      BY <1>1, <1>2, <2>2
    <3> QED BY <1>2, <2>2, <3>1 DEF Range
  <2> QED BY <1>2, <2>1, <2>2
<1>4. Range(s \o t) \subseteq Range(s) \cup Range(t)
  BY <1>2, <1>3 DEF Range
<1>5. ASSUME Sorted(s), Sorted(t), AllBefore(Range(s), Range(t))
      PROVE  Sorted(s \o t)
  <2> SUFFICES ASSUME NEW i \in 1..(Len(s) + Len(t)), NEW j \in 1..(Len(s) + Len(t)), i < j
               PROVE  Before((s \o t)[i], (s \o t)[j])
    BY <1>1 DEF Sorted
  <2>1. CASE j \in 1..Len(s)
    <3>1. i \in 1..Len(s)
      BY <1>2, <2>1
    <3> QED BY <1>1, <1>2, <1>5, <2>1, <3>1 DEF Sorted
  <2>2. CASE i \in 1..Len(s) /\ j > Len(s)
    BY <1>2, <1>3, <1>5, <2>2 DEF AllBefore
  <2>3. CASE i > Len(s) /\ j > Len(s)
    <3>1. i - Len(s) \in 1..Len(t) /\ j - Len(s) \in 1..Len(t) /\ i - Len(s) < j - Len(s)
      BY <1>2, <2>3
    <3> QED BY <1>2, <1>3, <1>5, <2>3, <3>1 DEF Sorted
  <2> QED BY <1>2, <2>1, <2>2, <2>3
<1> QED BY <1>1, <1>4, <1>5

(* One more byte at the end.                                               *)
LEMMA SortedAppend ==
  ASSUME NEW s \in Seq(AcBytes), NEW b \in AcBytes
  PROVE  /\ Append(s, b) \in Seq(AcBytes) /\ Range(Append(s, b)) = Range(s) \cup {b}
         /\ Sorted(s) /\ AllBefore(Range(s), {b}) => Sorted(Append(s, b))
<1>1. /\ Append(s, b) \in Seq(AcBytes) /\ Len(Append(s, b)) = Len(s) + 1
      /\ \A i \in 1..Len(s) : Append(s, b)[i] = s[i]
      /\ Append(s, b)[Len(s) + 1] = b
  BY AppendProperties
<1>2. /\ Len(s) \in Nat /\ DOMAIN s = 1..Len(s)
      /\ DOMAIN Append(s, b) = 1..(Len(s) + 1)
      /\ \A i \in 1..(Len(s) + 1) : i \in 1..Len(s) \/ i = Len(s) + 1
  BY <1>1, LenProperties
<1>3. Range(Append(s, b)) = Range(s) \cup {b}
  BY <1>1, <1>2 DEF Range
<1>4. ASSUME Sorted(s), AllBefore(Range(s), {b}) PROVE Sorted(Append(s, b))
  <2> SUFFICES ASSUME NEW i \in 1..(Len(s) + 1), NEW j \in 1..(Len(s) + 1), i < j
               PROVE  Before(Append(s, b)[i], Append(s, b)[j])
    BY <1>1 DEF Sorted
  <2>1. i \in 1..Len(s)
    BY <1>2
  <2>2. CASE j \in 1..Len(s)
    BY <1>1, <1>4, <2>1, <2>2 DEF Sorted
  <2>3. CASE j = Len(s) + 1
    BY <1>1, <1>2, <1>4, <2>1, <2>3 DEF AllBefore, Range
  <2> QED BY <1>2, <2>2, <2>3
<1> QED BY <1>1, <1>3, <1>4

(* What recv(n) leaves in the inbox, and what it takes.                    *)
LEMMA SortedRest ==
  ASSUME NEW s \in Seq(AcBytes), NEW n \in 0..Len(s)
  PROVE  LET rest == SubSeq(s, n + 1, Len(s))
             taken == SubSeq(s, 1, n)
         IN  /\ rest \in Seq(AcBytes) /\ Range(rest) \subseteq Range(s)
             /\ taken \in Seq(AcBytes)
             /\ Sorted(s) => Sorted(rest)
<1> DEFINE rest == SubSeq(s, n + 1, Len(s))
<1>1. Len(s) \in Nat /\ DOMAIN s = 1..Len(s) /\ \A i \in 1..Len(s) : s[i] \in AcBytes
  BY BytesOf
<1>2. n \in Nat /\ n <= Len(s) /\ n + 1 \in Int /\ Len(s) \in Int /\ 1 \in Int
      /\ (\A i \in (n + 1)..Len(s) : s[i] \in AcBytes) /\ \A i \in 1..n : s[i] \in AcBytes
  BY <1>1
<1>3. SubSeq(s, 1, n) \in Seq(AcBytes)
  BY <1>2, SubSeqProperties
<1>4. /\ rest \in Seq(AcBytes)
      /\ Len(rest) = IF n + 1 <= Len(s) THEN Len(s) - (n + 1) + 1 ELSE 0
      /\ \A i \in 1..(Len(s) - (n + 1) + 1) : rest[i] = s[(n + 1) + i - 1]
  BY <1>2, SubSeqProperties
<1>7. DOMAIN rest = 1..Len(rest)
  BY <1>4, LenProperties
<1> HIDE DEF rest
<1>5. Len(rest) = Len(s) - n
  <2>1. CASE n < Len(s)
    <3>1. n + 1 <= Len(s) /\ Len(s) - (n + 1) + 1 = Len(s) - n
      BY <1>1, <1>2, <2>1
    <3> QED BY <1>4, <3>1
  <2>2. CASE n = Len(s)
    <3>1. ~(n + 1 <= Len(s)) /\ Len(s) - n = 0
      BY <1>1, <2>2
    <3> QED BY <1>4, <3>1
  <2>3. n < Len(s) \/ n = Len(s)
    <3> DEFINE N == Len(s)
    <3>1. n \in Nat /\ n <= N /\ N \in Int
      BY <1>2
    <3> HIDE DEF N
    <3>2. n < N \/ n = N
      BY <3>1
    <3> QED BY <3>2 DEF N
  <2> QED BY <2>1, <2>2, <2>3
<1>6. \A i \in 1..Len(rest) : n + i \in 1..Len(s) /\ rest[i] = s[n + i]
  <2> SUFFICES ASSUME NEW i \in 1..Len(rest)
               PROVE  n + i \in 1..Len(s) /\ rest[i] = s[n + i]
    OBVIOUS
  <2>1. i \in 1..(Len(s) - (n + 1) + 1) /\ (n + 1) + i - 1 = n + i /\ n + i \in 1..Len(s)
    BY <1>1, <1>2, <1>5
  <2> QED BY <1>4, <2>1
<1>8. Range(rest) \subseteq Range(s)
  BY <1>1, <1>6, <1>7 DEF Range
<1>9. ASSUME Sorted(s) PROVE Sorted(rest)
  <2> SUFFICES ASSUME NEW i \in 1..Len(rest), NEW j \in 1..Len(rest), i < j
               PROVE  Before(rest[i], rest[j])
    BY DEF Sorted
  <2>1. n + i \in 1..Len(s) /\ n + j \in 1..Len(s) /\ n + i < n + j
    BY <1>2, <1>6
  <2> QED BY <1>6, <1>9, <2>1 DEF Sorted
<1> QED BY <1>3, <1>4, <1>8, <1>9 DEF rest

(* An answer is in order, and all of it belongs to its request.             *)
LEMMA AnswerSorted ==
  ASSUME NEW n \in 1..MaxAsks
  PROVE  /\ Answer(n) \in Seq(AcBytes) /\ Sorted(Answer(n))
         /\ \A b \in Range(Answer(n)) : b.req = n
<1>1. Body \in Nat /\ Body + 2 \in Nat
  BY BodyAssumption
<1>2. \A k \in 1..(Body + 2) : AcByte(n, k - 1) \in AcBytes
  BY <1>1 DEF AcByte, AcBytes
<1>3. Answer(n) \in [1..(Body + 2) -> AcBytes]
  BY <1>2 DEF Answer
<1>4. Answer(n) \in Seq(AcBytes)
  BY <1>1, <1>3, SeqDef
<1>5. Len(Answer(n)) = Body + 2
  BY <1>1, <1>3, <1>4, LenProperties
<1>6. \A k \in 1..(Body + 2) : Answer(n)[k].req = n /\ Answer(n)[k].at = k - 1
  BY DEF Answer, AcByte
<1>7. Sorted(Answer(n))
  BY <1>1, <1>5, <1>6 DEF Sorted, Before
<1>8. \A b \in Range(Answer(n)) : b.req = n
  BY <1>3, <1>6 DEF Range
<1> QED BY <1>4, <1>7, <1>8
-----------------------------------------------------------------------------
(* Types, and the order of the bytes.                                      *)

\* What is under way is in order, was served, and lies behind what was returned.
StreamInv ==
  /\ Sorted(inbox) /\ Sorted(wire) /\ AllBefore(Range(inbox), Range(wire))
  /\ \A b \in Range(inbox) \cup Range(wire) :
       b.req <= served /\ \A n \in Range(results) : n < b.req
  /\ Ascending(results) /\ \A n \in Range(results) : n <= served

AcTypeInv == AcTypeOK /\ StreamInv

(* AcTypeInv holds at the start.                                           *)
LEMMA AcTypeInit == AcInit => AcTypeInv
<1> SUFFICES ASSUME AcInit PROVE AcTypeInv
  OBVIOUS
<1>1. /\ <<>> \in Seq(AcBytes) /\ <<>> \in Seq(1..MaxAsks) /\ Len(<<>>) = 0
      /\ Range(<<>>) = {} /\ Ascending(<<>>)
  BY EmptySeq, EmptyAscending
<1>2. connected \in BOOLEAN /\ hungUp \in BOOLEAN /\ failed \in BOOLEAN
  BY DEF AcInit
<1>3. AcTypeOK
  BY <1>1, <1>2, AsksAssumption DEF AcInit, AcTypeOK
<1>4. StreamInv
  BY <1>1 DEF AcInit, StreamInv, Sorted, AllBefore
<1> QED BY <1>3, <1>4 DEF AcTypeInv

(* A step of the client that takes bytes from the inbox and returns nothing.*)
LEMMA ClientStep ==
  ASSUME AcTypeInv, inbox' \in Seq(AcBytes), Sorted(inbox'), Range(inbox') \subseteq Range(inbox),
         UNCHANGED <<acPeerVars, results>>, asked' \in asked..MaxAsks,
         client' \in {"idle", "head", "body", "comma"},
         size' \in Int, msg' \in Seq(AcBytes), failed' \in BOOLEAN
  PROVE  AcTypeInv'
<1>1. connected' \in BOOLEAN /\ hungUp' \in BOOLEAN
  BY DEF acPeerVars, AcTypeInv, AcTypeOK
<1>2. served' = served /\ served' \in 0..asked'
  BY DEF acPeerVars, AcTypeInv, AcTypeOK
<1>3. asked' \in 0..MaxAsks
  BY DEF AcTypeInv, AcTypeOK
<1>4. AcTypeOK'
  BY <1>1, <1>2, <1>3 DEF acPeerVars, AcTypeInv, AcTypeOK
<1>5. StreamInv'
  BY DEF acPeerVars, AcTypeInv, StreamInv, AllBefore
<1> QED BY <1>4, <1>5 DEF AcTypeInv

(* Every step keeps AcTypeInv.                                             *)
LEMMA AcTypeStep == AcTypeInv /\ [AcNext]_acVars => AcTypeInv'
<1> SUFFICES ASSUME AcTypeInv, [AcNext]_acVars PROVE AcTypeInv'
  OBVIOUS
<1> USE AsksAssumption
<1>a. AcTypeOK /\ StreamInv
  BY DEF AcTypeInv
<1>b. /\ connected \in BOOLEAN /\ hungUp \in BOOLEAN /\ failed \in BOOLEAN
      /\ asked \in asked..MaxAsks /\ Sorted(inbox) /\ inbox \in Seq(AcBytes)
      /\ client \in {"idle", "head", "body", "comma"} /\ size \in Int /\ msg \in Seq(AcBytes)
  BY <1>a DEF AcTypeOK, StreamInv
<1>c. <<>> \in Seq(AcBytes)
  BY EmptySeq
<1>1. CASE Accept
  <2>1. connected' \in BOOLEAN /\ hungUp' \in BOOLEAN /\ failed' \in BOOLEAN
    BY <1>1, <1>b DEF Accept
  <2> QED BY <1>1, <1>a, <2>1 DEF Accept, AcTypeInv, AcTypeOK, StreamInv
<1>2. CASE Serve
  <2> DEFINE n == served + 1
             more == wire \o Answer(n)
  <2>1. /\ n \in 1..MaxAsks /\ n \in 0..asked /\ n > served /\ served \in Nat
        /\ served' = n /\ wire' = more
        /\ UNCHANGED <<connected, client, size, msg, asked, results, server, inbox,
                       hungUp, failed>>
    BY <1>2, <1>a DEF Serve, AcTypeOK
  <2> HIDE DEF n
  <2>2. /\ Answer(n) \in Seq(AcBytes) /\ Sorted(Answer(n))
        /\ \A b \in Range(Answer(n)) : b.req = n
    BY <2>1, AnswerSorted
  <2>3. /\ \A b \in Range(inbox) \cup Range(wire) : b.req <= served /\ b.req \in Nat
        /\ \A m \in Range(results) : m <= served /\ m \in Nat
    <3>1. Range(results) \subseteq 1..MaxAsks
      BY <1>a, RangeInSet DEF AcTypeOK
    <3> QED BY <1>a, <3>1, BytesOf, ByteTypes DEF AcTypeOK, StreamInv
  <2>4. AllBefore(Range(wire), Range(Answer(n))) /\ AllBefore(Range(inbox), Range(Answer(n)))
    BY <2>1, <2>2, <2>3 DEF AllBefore, Before
  <2>5. more \in Seq(AcBytes) /\ Sorted(more) /\ Range(more) \subseteq Range(wire) \cup Range(Answer(n))
    BY <1>a, <2>2, <2>4, SortedConcat DEF AcTypeOK, StreamInv
  <2> HIDE DEF more
  <2>6. connected' \in BOOLEAN /\ hungUp' \in BOOLEAN /\ failed' \in BOOLEAN
    BY <1>b, <2>1
  <2>7. AcTypeOK'
    BY <1>a, <2>1, <2>5, <2>6 DEF AcTypeOK
  <2>8. AllBefore(Range(inbox), Range(more))
    BY <1>a, <2>4, <2>5 DEF AllBefore, StreamInv
  <2>9. /\ \A b \in Range(inbox) \cup Range(more) :
             b.req <= n /\ \A m \in Range(results) : m < b.req
        /\ \A m \in Range(results) : m <= n
    BY <1>a, <2>1, <2>2, <2>3, <2>5 DEF StreamInv
  <2> QED BY <1>a, <2>1, <2>5, <2>7, <2>8, <2>9 DEF AcTypeInv, StreamInv
<1>3. CASE ServerFails
  <2>1. connected' \in BOOLEAN /\ hungUp' \in BOOLEAN /\ failed' \in BOOLEAN
    BY <1>3, <1>b DEF ServerFails
  <2> QED BY <1>3, <1>a, <2>1 DEF ServerFails, AcTypeInv, AcTypeOK, StreamInv
<1>4. CASE Arrive
  <2> DEFINE b == Head(wire)
             more == Append(inbox, b)
             rest == Tail(wire)
  <2>1. /\ b \in AcBytes /\ rest \in Seq(AcBytes) /\ Sorted(rest)
        /\ Range(wire) = {b} \cup Range(rest) /\ AllBefore({b}, Range(rest))
    BY <1>4, <1>a, SortedTail DEF Arrive, AcTypeOK, StreamInv
  <2>2. /\ inbox' = more /\ wire' = rest
        /\ UNCHANGED <<connected, client, size, msg, asked, results, served, server,
                       hungUp, failed>>
    BY <1>4 DEF Arrive
  <2> HIDE DEF b, rest
  <2>3. AllBefore(Range(inbox), {b}) /\ AllBefore(Range(inbox), Range(rest))
    BY <1>a, <2>1 DEF StreamInv, AllBefore
  <2>4. more \in Seq(AcBytes) /\ Range(more) = Range(inbox) \cup {b} /\ Sorted(more)
    BY <1>b, <2>1, <2>3, SortedAppend
  <2> HIDE DEF more
  <2>5. connected' \in BOOLEAN /\ hungUp' \in BOOLEAN /\ failed' \in BOOLEAN
    BY <1>b, <2>2
  <2>6. AcTypeOK'
    BY <1>a, <2>1, <2>2, <2>4, <2>5 DEF AcTypeOK
  <2>7. AllBefore(Range(more), Range(rest))
    BY <2>1, <2>3, <2>4 DEF AllBefore
  <2>8. StreamInv'
    BY <1>a, <2>1, <2>2, <2>4, <2>7 DEF StreamInv
  <2> QED BY <2>6, <2>8 DEF AcTypeInv
<1>5. CASE HangUp
  <2>1. connected' \in BOOLEAN /\ hungUp' \in BOOLEAN /\ failed' \in BOOLEAN
    BY <1>5, <1>b DEF HangUp
  <2> QED BY <1>5, <1>a, <2>1 DEF HangUp, AcTypeInv, AcTypeOK, StreamInv
<1>6. CASE Ask
  <2>1. asked' \in asked..MaxAsks
    BY <1>6, <1>a DEF Ask, AcTypeOK
  <2> QED BY <1>6, <1>b, <2>1, ClientStep DEF Ask
\* An exception, when the inbox is what is left.
<1>d. ASSUME Raise, inbox' \in Seq(AcBytes), Sorted(inbox'), Range(inbox') \subseteq Range(inbox)
      PROVE  AcTypeInv'
  BY <1>b, <1>c, <1>d, ClientStep DEF Raise
<1>e. ASSUME inbox # <<>>
      PROVE  /\ Tail(inbox) \in Seq(AcBytes) /\ Sorted(Tail(inbox))
             /\ Range(Tail(inbox)) \subseteq Range(inbox)
             /\ Head(inbox) \in AcBytes /\ Head(inbox) \in Range(inbox)
             /\ AllBefore({Head(inbox)}, Range(Tail(inbox)))
  BY <1>b, <1>e, SortedTail
<1>f. ASSUME NEW bytes \in Seq(AcBytes), Received(bytes)
      PROVE  /\ msg' \in Seq(AcBytes) /\ size' \in Int /\ client' \in {"comma", "body"}
             /\ UNCHANGED <<acPeerVars, asked, results, failed>>
  <2>1. msg \o bytes \in Seq(AcBytes)
    BY <1>b, ConcatProperties
  <2>2. msg' \in Seq(AcBytes) /\ Len(msg') \in Nat
    BY <1>f, <2>1, LenProperties DEF Received
  <2> QED BY <1>b, <1>f, <2>2 DEF Received
<1>7. CASE TimesOut
  BY <1>7, <1>b, <1>d DEF TimesOut
<1>8. CASE ReadHead
  <2>1. CASE Raise
    BY <1>8, <1>d, <1>e, <2>1 DEF ReadHead
  <2>2. CASE ~Raise
    <3>1. Body \in Int
      BY BodyAssumption
    <3>2. inbox' \in Seq(AcBytes) /\ Sorted(inbox') /\ Range(inbox') \subseteq Range(inbox)
      BY <1>8, <1>e DEF ReadHead
    <3>3. /\ client' = "body" /\ size' = Body /\ msg' = <<>>
          /\ UNCHANGED <<acPeerVars, asked, results, failed>>
      BY <1>8, <2>2 DEF ReadHead
    <3> QED BY <1>b, <1>c, <3>1, <3>2, <3>3, ClientStep
  <2> QED BY <2>1, <2>2
<1>9. CASE ReadBody
  <2> DEFINE n == IF size < Len(inbox) THEN size ELSE Len(inbox)
  <2>1. n \in 0..Len(inbox)
    BY <1>9, <1>b, LenProperties DEF ReadBody
  <2>2. Received(SubSeq(inbox, 1, n)) /\ inbox' = SubSeq(inbox, n + 1, Len(inbox))
    BY <1>9 DEF ReadBody
  <2> HIDE DEF n
  <2>3. /\ SubSeq(inbox, 1, n) \in Seq(AcBytes)
        /\ inbox' \in Seq(AcBytes) /\ Sorted(inbox') /\ Range(inbox') \subseteq Range(inbox)
    BY <1>b, <2>1, <2>2, SortedRest
  <2>4. /\ msg' \in Seq(AcBytes) /\ size' \in Int /\ client' \in {"comma", "body"}
        /\ UNCHANGED <<acPeerVars, asked, results, failed>>
    BY <1>f, <2>2, <2>3
  <2> QED BY <1>b, <2>3, <2>4, ClientStep
<1>10. CASE ReadNegative
  BY <1>10, <1>b, <1>d DEF ReadNegative
<1>11. CASE ReadComma
  <2>1. CASE Raise
    BY <1>11, <1>d, <1>e, <2>1 DEF ReadComma
  <2>2. CASE ~Raise
    <3> DEFINE n == Head(inbox).req
    <3>1. /\ inbox # <<>> /\ inbox' = Tail(inbox) /\ Head(inbox).at = Body + 1
          /\ results' = Append(results, n) /\ client' = "idle"
          /\ UNCHANGED <<acPeerVars, asked, size, msg, failed>>
      BY <1>11, <2>2 DEF ReadComma
    <3>2. n \in 1..MaxAsks /\ n <= served /\ \A m \in Range(results) : m < n
      BY <1>a, <1>e, <3>1, ByteTypes DEF StreamInv
    <3>3. \A b \in Range(inbox') \cup Range(wire) : n < b.req
      <4>1. \A b \in Range(inbox') : Before(Head(inbox), b) /\ b \in AcBytes
        BY <1>e, <3>1, BytesOf DEF AllBefore
      <4>2. \A b \in Range(wire) : Before(Head(inbox), b) /\ b \in AcBytes
        BY <1>a, <1>e, <3>1, BytesOf DEF StreamInv, AllBefore, AcTypeOK
      <4>3. \A b \in AcBytes : Before(Head(inbox), b) => n < b.req
        BY <3>1, ByteTypes, BodyAssumption DEF Before
      <4> QED BY <4>1, <4>2, <4>3
    <3> HIDE DEF n
    <3>4. /\ Append(results, n) \in Seq(1..MaxAsks) /\ Ascending(Append(results, n))
          /\ Range(Append(results, n)) = Range(results) \cup {n}
      <4> DEFINE Asks == 1..MaxAsks
      <4>1. Asks \subseteq Nat /\ results \in Seq(Asks) /\ Ascending(results) /\ n \in Asks
        BY <1>a, <3>2 DEF AcTypeOK, StreamInv
      <4>2. Below(Range(results), {n})
        BY <3>2 DEF Below
      <4> HIDE DEF Asks
      <4>3. /\ Append(results, n) \in Seq(Asks) /\ Ascending(Append(results, n))
            /\ Range(Append(results, n)) = Range(results) \cup {n}
        BY <4>1, <4>2, AppendAscending, ZenonT(40)
      <4> QED BY <4>3 DEF Asks
    <3>5. connected' \in BOOLEAN /\ hungUp' \in BOOLEAN /\ failed' \in BOOLEAN
      BY <1>b, <3>1 DEF acPeerVars
    <3>6. AcTypeOK'
      BY <1>a, <1>e, <3>1, <3>4, <3>5 DEF AcTypeOK, acPeerVars
    <3>7. /\ \A b \in Range(inbox') \cup Range(wire) :
               b.req <= served /\ \A m \in Range(results) \cup {n} : m < b.req
          /\ \A m \in Range(results) \cup {n} : m <= served
      BY <1>a, <1>e, <3>1, <3>2, <3>3 DEF StreamInv
    <3>8. Sorted(inbox') /\ AllBefore(Range(inbox'), Range(wire))
      BY <1>a, <1>e, <3>1 DEF StreamInv, AllBefore
    <3>9. StreamInv'
      BY <1>a, <3>1, <3>4, <3>7, <3>8 DEF StreamInv, acPeerVars
    <3> QED BY <3>6, <3>9 DEF AcTypeInv
  <2> QED BY <2>1, <2>2
<1>12. CASE ReadEnd
  <2>1. CASE Raise
    BY <1>12, <1>b, <1>d, <2>1 DEF ReadEnd
  <2>2. CASE ~Raise
    <3>1. Received(<<>>) /\ UNCHANGED inbox
      BY <1>12, <2>2 DEF ReadEnd
    <3>2. /\ msg' \in Seq(AcBytes) /\ size' \in Int /\ client' \in {"comma", "body"}
          /\ UNCHANGED <<acPeerVars, asked, results, failed>>
      BY <1>c, <1>f, <3>1
    <3> QED BY <1>b, <3>1, <3>2, ClientStep
  <2> QED BY <2>1, <2>2
<1>13. CASE SendFails
  <2>1. connected' \in BOOLEAN /\ hungUp' \in BOOLEAN /\ failed' \in BOOLEAN
    BY <1>13, <1>b DEF SendFails, acPeerVars
  <2> QED BY <1>13, <1>a, <2>1 DEF SendFails, acPeerVars, AcTypeInv, AcTypeOK, StreamInv
<1>14. CASE UNCHANGED acVars
  <2>1. connected' \in BOOLEAN /\ hungUp' \in BOOLEAN /\ failed' \in BOOLEAN
    BY <1>14, <1>b DEF acVars
  <2> QED BY <1>14, <1>a, <2>1 DEF acVars, AcTypeInv, AcTypeOK, StreamInv
<1> QED
  BY <1>1, <1>2, <1>3, <1>4, <1>5, <1>6, <1>7, <1>8, <1>9, <1>10, <1>11, <1>12, <1>13, <1>14
  DEF AcNext, Complete

(* AcTypeInv always holds.                                                 *)
LEMMA AcTypeAlways == AcSpec => []AcTypeInv
  BY AcTypeInit, AcTypeStep, PTL DEF AcSpec

(* The client, its buffers and what is under way keep their types.          *)
THEOREM AcTypeCorrect == AcSpec => []AcTypeOK
<1>1. AcTypeInv => AcTypeOK
  BY DEF AcTypeInv
<1> QED BY <1>1, AcTypeAlways, PTL
-----------------------------------------------------------------------------
(* As long as nothing failed, the client has all answers but the next one.  *)

FirstOnes ==
  ~failed => /\ \A n \in 1..Len(results) : results[n] = n
             /\ Len(results) = IF client = "idle" THEN asked ELSE asked - 1

(* FirstOnes holds at the start.                                           *)
LEMMA FirstInit == AcInit => FirstOnes
  BY EmptySeq DEF AcInit, FirstOnes

(* Every step keeps FirstOnes.                                             *)
LEMMA FirstStep == AcTypeInv /\ FirstOnes /\ [AcNext]_acVars => FirstOnes'
<1> SUFFICES ASSUME AcTypeInv, FirstOnes, [AcNext]_acVars PROVE FirstOnes'
  OBVIOUS
<1>a. /\ asked \in Nat /\ served \in Nat /\ served <= asked
      /\ results \in Seq(1..MaxAsks) /\ Len(results) \in Nat
      /\ inbox \in Seq(AcBytes)
  BY AsksAssumption, LenProperties DEF AcTypeInv, AcTypeOK
<1>b. Raise => FirstOnes'
  BY DEF Raise, FirstOnes
<1>c. ASSUME UNCHANGED <<client, asked, results, failed>> PROVE FirstOnes'
  BY <1>c DEF FirstOnes
<1>d. ASSUME UNCHANGED <<asked, results, failed>>, client # "idle", client' # "idle"
      PROVE  FirstOnes'
  BY <1>d DEF FirstOnes
<1>1. CASE Accept \/ Serve \/ ServerFails \/ Arrive \/ HangUp
  BY <1>1, <1>c DEF Accept, Serve, ServerFails, Arrive, HangUp
<1>2. CASE Ask
  BY <1>2, <1>a DEF Ask, FirstOnes
<1>3. CASE ReadHead
  BY <1>3, <1>b, <1>d DEF ReadHead
<1>4. CASE ReadBody
  BY <1>4, <1>d DEF ReadBody, Received
<1>5. CASE ReadNegative \/ TimesOut
  BY <1>5, <1>b DEF ReadNegative, TimesOut
<1>6. CASE ReadComma
  <2>1. CASE Raise
    BY <1>b, <2>1
  <2>2. CASE failed'
    BY <2>2 DEF FirstOnes
  <2>3. CASE ~Raise /\ ~failed'
    <3> DEFINE n == Head(inbox).req
    <3>1. /\ inbox # <<>> /\ client = "comma" /\ client' = "idle"
          /\ results' = Append(results, n) /\ asked' = asked /\ ~failed
      BY <1>6, <2>3 DEF ReadComma
    <3>2. Head(inbox) \in Range(inbox) /\ Head(inbox) \in AcBytes
      BY <1>a, <3>1, SortedTail
    <3>3. n \in 1..MaxAsks /\ n <= served /\ \A m \in Range(results) : m < n
      BY <3>2, ByteTypes DEF AcTypeInv, StreamInv
    <3> HIDE DEF n
    <3>4. Len(results) = asked - 1 /\ \A m \in 1..Len(results) : results[m] = m
      BY <3>1 DEF FirstOnes
    <3>5. Len(results) \in Nat /\ Len(results) < n
      <4>1. CASE Len(results) = 0
        BY <1>a, <3>3, <4>1
      <4>2. CASE Len(results) # 0
        <5>1. Len(results) \in 1..Len(results) /\ DOMAIN results = 1..Len(results)
          BY <1>a, <4>2, LenProperties
        <5>2. Len(results) \in Range(results)
          BY <3>4, <5>1 DEF Range
        <5> QED BY <1>a, <3>3, <5>2
      <4> QED BY <4>1, <4>2
    <3>6. n = Len(results) + 1
      BY <1>a, <3>3, <3>4, <3>5
    <3>7. /\ Len(results') = Len(results) + 1
          /\ \A m \in 1..Len(results) : results'[m] = results[m]
          /\ results'[Len(results) + 1] = n
      BY <1>a, <3>1, <3>3, AppendProperties
    <3> QED BY <1>a, <3>1, <3>4, <3>6, <3>7 DEF FirstOnes
  <2> QED BY <2>1, <2>2, <2>3
<1>7. CASE ReadEnd
  BY <1>7, <1>b, <1>d DEF ReadEnd, Received
<1>8. CASE SendFails
  BY <1>8, <1>a DEF SendFails, FirstOnes
<1>9. CASE UNCHANGED acVars
  BY <1>9, <1>c DEF acVars
<1> QED
  BY <1>1, <1>2, <1>3, <1>4, <1>5, <1>6, <1>7, <1>8, <1>9 DEF AcNext, Complete

(* Completions never go back to an older request, whatever timed out,       *)
(* raised, arrived late or in pieces; and until something fails every       *)
(* request gets its own answer.                                             *)
THEOREM AnswersMatchRequests == AcSpec => []AnswersMatch
<1>1. AcTypeInv => AnswersInOrder
  BY DEF AcTypeInv, StreamInv, AnswersInOrder
<1>2. AcTypeInv /\ FirstOnes => OwnAnswer
  <2> SUFFICES ASSUME AcTypeInv, FirstOnes, ~failed
               PROVE  results = [n \in 1..Len(results) |-> n]
                      /\ Len(results) \in {asked, asked - 1}
    BY DEF OwnAnswer
  <2>1. results \in [1..Len(results) -> 1..MaxAsks]
    BY LenProperties DEF AcTypeInv, AcTypeOK
  <2>2. \A n \in 1..Len(results) : results[n] = n
    BY DEF FirstOnes
  <2>3. results = [n \in 1..Len(results) |-> n]
    BY <2>1, <2>2
  <2> QED BY <2>3 DEF FirstOnes
<1> QED
  BY <1>1, <1>2, FirstInit, FirstStep, AcTypeAlways, PTL DEF AcSpec, AnswersMatch
-----------------------------------------------------------------------------
(* complete() comes back to the main thread, but for one loop.             *)

\* While the text is read something of it is missing, or too much was taken.
BodyInv == client = "body" => size # 0 /\ size <= Body

\* The loop: the socket was closed between a header and the first byte of its
\* text, and every recv() returns no byte.
Looping ==
  /\ client = "body" /\ size > 0 /\ msg = <<>>
  /\ hungUp /\ wire = <<>> /\ inbox = <<>>

\* read_netstring has a step to make: a byte to read, a size that recv() refuses,
\* four seconds that pass, or the end of the stream to see.
CompleteReady ==
  \/ client \in {"head", "comma"}
  \/ /\ client = "body"
     /\ size < 0 \/ inbox # <<>> \/ ~(hungUp /\ wire = <<>>) \/ msg # <<>>

\* The most calls of recv() that complete() has before it.
RecvsLeft ==
  CASE client = "idle" -> 0
    [] client = "head" -> Body + 2
    [] client = "body" /\ size > 0 -> size + 1
    [] OTHER -> 1

\* Every step of complete() takes away from them, and only it does, or a request.
RecvsRunOut ==
  /\ Complete => RecvsLeft' < RecvsLeft
  /\ Ask => (RecvsLeft' = Body + 2)
  /\ ~(Complete \/ Ask) => (RecvsLeft' = RecvsLeft)

\* complete() has returned, has a step to make, or loops.
ReturnsOrLoops ==
  /\ RecvsLeft \in 0..(Body + 2) /\ (RecvsLeft = 0 <=> client = "idle")
  /\ client = "idle" \/ CompleteReady \/ Looping

(* RecvsLeft, place by place.                                              *)
LEMMA RecvsLeftIs ==
  /\ client = "idle" => RecvsLeft = 0
  /\ client = "head" => RecvsLeft = Body + 2
  /\ client = "body" /\ size > 0 => RecvsLeft = size + 1
  /\ client = "body" /\ ~(size > 0) => RecvsLeft = 1
  /\ client = "comma" => RecvsLeft = 1
  BY DEF RecvsLeft

(* What is left for a client of any kind.                                  *)
LEMMA RecvsLeftTypes ==
  ASSUME AcTypeOK, BodyInv
  PROVE  /\ RecvsLeft \in 0..(Body + 2) /\ (RecvsLeft = 0 <=> client = "idle")
         /\ client # "idle" => RecvsLeft >= 1
<1>1. Body \in Nat /\ size \in Int /\ client \in {"idle", "head", "body", "comma"}
  BY BodyAssumption DEF AcTypeOK
<1> QED BY <1>1, RecvsLeftIs DEF BodyInv

(* The text that recv() adds makes size smaller, whatever it was.           *)
LEMMA ReceivedFalls ==
  ASSUME AcTypeOK, BodyInv, client = "body", size > 0,
         NEW bytes \in Seq(AcBytes), Received(bytes), msg \o bytes # <<>>
  PROVE  /\ client' = IF size' = 0 THEN "comma" ELSE "body"
         /\ size' \in Int /\ size' < size /\ RecvsLeft' < RecvsLeft
<1>1. msg \in Seq(AcBytes) /\ size \in Int
  BY DEF AcTypeOK
<1>2. msg \o bytes \in Seq(AcBytes)
  BY <1>1, ConcatProperties
<1>3. Len(msg \o bytes) \in Nat /\ Len(msg \o bytes) # 0
  BY <1>2, EmptySeq, LenProperties
<1>4. size' = size - Len(msg \o bytes) /\ client' = IF size' = 0 THEN "comma" ELSE "body"
  BY DEF Received
<1>5. size' \in Int /\ size' < size
  BY <1>1, <1>3, <1>4
<1>6. RecvsLeft = size + 1
  BY RecvsLeftIs
<1>7. RecvsLeft' = IF client' = "body" /\ size' > 0 THEN size' + 1 ELSE 1
  BY <1>4 DEF RecvsLeft
<1> QED BY <1>1, <1>4, <1>5, <1>6, <1>7

(* BodyInv holds at the start.                                             *)
LEMMA BodyInit == AcInit => BodyInv
  BY DEF AcInit, BodyInv

(* What ReadBody receives is not empty.                                    *)
LEMMA ReadBodyReceives ==
  ASSUME AcTypeOK, ReadBody
  PROVE  \E bytes \in Seq(AcBytes) : Received(bytes) /\ msg \o bytes # <<>>
<1> DEFINE n == IF size < Len(inbox) THEN size ELSE Len(inbox)
           bytes == SubSeq(inbox, 1, n)
<1>1. /\ client = "body" /\ size > 0 /\ inbox # <<>> /\ Received(bytes)
      /\ inbox \in Seq(AcBytes) /\ msg \in Seq(AcBytes) /\ size \in Int
  BY DEF ReadBody, AcTypeOK
<1>2. Len(inbox) \in Nat /\ Len(inbox) # 0
  BY <1>1, EmptySeq, LenProperties
<1>3. n \in 1..Len(inbox)
  BY <1>1, <1>2
<1> HIDE DEF n
<1>4. bytes \in Seq(AcBytes) /\ Len(bytes) = n
  <2>1. 1 \in 1..(Len(inbox) + 1) /\ n \in 0..Len(inbox)
    BY <1>2, <1>3
  <2> QED BY <1>1, <1>2, <1>3, <2>1, SubSeqProperties
<1> HIDE DEF bytes
<1>5. Len(msg \o bytes) = Len(msg) + Len(bytes) /\ msg \o bytes \in Seq(AcBytes) /\ Len(msg) \in Nat
  BY <1>1, <1>4, ConcatProperties, LenProperties
<1>6. Len(msg \o bytes) # 0
  BY <1>2, <1>3, <1>4, <1>5
<1>7. msg \o bytes # <<>>
  BY <1>5, <1>6, EmptySeq
<1> QED BY <1>1, <1>4, <1>7

(* Every step keeps BodyInv, and does to the calls that are left what       *)
(* RecvsRunOut says.                                                       *)
LEMMA RecvsStep ==
  ASSUME AcTypeOK, BodyInv, AcNext
  PROVE  /\ BodyInv'
         /\ RecvsRunOut \/ UNCHANGED acVars
<1>0. Body \in Nat \ {0} /\ size \in Int /\ msg \in Seq(AcBytes) /\ inbox \in Seq(AcBytes)
  BY BodyAssumption DEF AcTypeOK
<1>1. (client # "idle" => RecvsLeft >= 1) /\ RecvsLeft \in Int
  BY <1>0, RecvsLeftTypes
\* An exception, or the answer: complete() is over.
<1>2. ASSUME client # "idle", client' = "idle" PROVE BodyInv' /\ RecvsLeft' < RecvsLeft
  <2>1. RecvsLeft' = 0
    BY <1>2 DEF RecvsLeft
  <2> QED BY <1>1, <1>2, <2>1 DEF BodyInv
<1>3. ASSUME client = "body", size > 0, NEW bytes \in Seq(AcBytes),
             Received(bytes), msg \o bytes # <<>>
      PROVE  BodyInv' /\ RecvsLeft' < RecvsLeft
  <2>1. /\ client' = IF size' = 0 THEN "comma" ELSE "body"
        /\ size' \in Int /\ size' < size /\ RecvsLeft' < RecvsLeft
    BY <1>3, ReceivedFalls
  <2> QED BY <1>0, <1>3, <2>1 DEF BodyInv
<1>4. ASSUME Complete PROVE BodyInv' /\ (RecvsLeft' < RecvsLeft \/ UNCHANGED acVars)
  <2>1. CASE ReadHead
    <3>1. CASE Raise
      BY <1>2, <2>1, <3>1 DEF ReadHead, Raise
    <3>2. CASE ~Raise
      <4>1. client = "head" /\ client' = "body" /\ size' = Body
        BY <2>1, <3>2 DEF ReadHead
      <4>2. RecvsLeft = Body + 2 /\ RecvsLeft' = Body + 1
        BY <1>0, <4>1 DEF RecvsLeft
      <4> QED BY <1>0, <4>1, <4>2 DEF BodyInv
    <3> QED BY <3>1, <3>2
  <2>2. CASE ReadBody
    <3>1. client = "body" /\ size > 0
      BY <2>2 DEF ReadBody
    <3> QED BY <1>3, <2>2, <3>1, ReadBodyReceives
  <2>3. CASE ReadNegative \/ TimesOut
    BY <1>2, <2>3 DEF ReadNegative, TimesOut, Raise
  <2>4. CASE ReadComma
    BY <1>2, <2>4 DEF ReadComma, Raise
  <2>5. CASE ReadEnd
    <3>1. CASE Raise
      BY <1>2, <2>5, <3>1 DEF ReadEnd, Raise
    <3>2. CASE ~Raise
      <4>1. /\ client = "body" /\ size > 0 /\ Received(<<>>) /\ inbox' = inbox
        BY <2>5, <3>2 DEF ReadEnd
      <4>2. msg \o <<>> = msg /\ <<>> \in Seq(AcBytes) /\ Len(<<>>) = 0
        BY <1>0, EmptySeq, ConcatProperties
      <4>3. CASE msg = <<>>
        \* The loop takes another turn.
        <5>1. msg' = msg
          BY <4>1, <4>2 DEF Received
        <5>2. size' = size - Len(msg')
          BY <4>1 DEF Received
        <5>3. size' = size
          BY <1>0, <4>2, <4>3, <5>1, <5>2
        <5>4. client' = client
          BY <1>0, <4>1, <5>3 DEF Received
        <5>5. UNCHANGED acVars
          BY <4>1, <5>1, <5>3, <5>4 DEF Received, acPeerVars, acVars
        <5> QED BY <5>3, <5>4, <5>5 DEF BodyInv
      <4>4. CASE msg # <<>>
        BY <1>3, <4>1, <4>2, <4>4
      <4> QED BY <4>3, <4>4
    <3> QED BY <3>1, <3>2
  <2> QED BY <1>4, <2>1, <2>2, <2>3, <2>4, <2>5 DEF Complete
<1>5. Complete => ~Ask
  BY DEF Complete, ReadHead, ReadBody, ReadNegative, ReadComma, ReadEnd, TimesOut, Ask
<1>6. CASE Complete
  BY <1>4, <1>5, <1>6 DEF RecvsRunOut
<1>7. CASE ~Complete /\ Ask
  <2>1. client' = "head"
    BY <1>7 DEF Ask
  <2> QED BY <1>7, <2>1 DEF BodyInv, RecvsRunOut, RecvsLeft
<1>8. CASE ~Complete /\ ~Ask
  <2>1. UNCHANGED <<client, size>>
    BY <1>8 DEF AcNext, Accept, Serve, ServerFails, Arrive, HangUp, SendFails
  <2>2. RecvsLeft' = RecvsLeft
    BY <2>1 DEF RecvsLeft
  <2> QED BY <1>8, <2>1, <2>2 DEF BodyInv, RecvsRunOut
<1> QED BY <1>6, <1>7, <1>8

(* BodyInv always holds.                                                   *)
LEMMA BodyAlways == AcSpec => []BodyInv
<1>1. AcTypeInv => AcTypeOK
  BY DEF AcTypeInv
<1>2. AcTypeOK /\ BodyInv /\ [AcNext]_acVars => BodyInv'
  <2> SUFFICES ASSUME AcTypeOK, BodyInv, [AcNext]_acVars PROVE BodyInv'
    OBVIOUS
  <2>1. CASE AcNext
    BY <2>1, RecvsStep
  <2>2. CASE UNCHANGED acVars
    BY <2>2 DEF acVars, BodyInv
  <2> QED BY <2>1, <2>2
<1> QED BY <1>1, <1>2, BodyInit, AcTypeAlways, PTL DEF AcSpec

(* complete() makes at most Body + 2 calls of recv() that change something  *)
(* and then returns, whatever arrives in between: the size it counts down   *)
(* with falls at every call, though it is lowered by too much.             *)
THEOREM CompleteRunsOut == AcSpec => [][RecvsRunOut]_acVars
<1>1. AcTypeInv => AcTypeOK
  BY DEF AcTypeInv
<1>2. AcTypeOK /\ BodyInv /\ [AcNext]_acVars => [RecvsRunOut]_acVars
  BY RecvsStep
<1> QED BY <1>1, <1>2, AcTypeAlways, BodyAlways, PTL DEF AcSpec

(* And while it has not returned it can go on, but for one loop, that of a  *)
(* socket closed between a header and its text: out of that nothing leads,  *)
(* and Sublime's main thread stays in it.                                   *)
THEOREM CompleteReturnsOrLoops ==
  AcSpec => []ReturnsOrLoops /\ [][Looping => Looping']_acVars
<1>1. AcTypeInv /\ BodyInv => ReturnsOrLoops
  <2> SUFFICES ASSUME AcTypeInv, BodyInv PROVE ReturnsOrLoops
    OBVIOUS
  <2>1. AcTypeOK /\ size \in Int /\ client \in {"idle", "head", "body", "comma"}
    BY DEF AcTypeInv, AcTypeOK
  <2>2. client = "idle" \/ CompleteReady \/ Looping
    BY <2>1 DEF BodyInv, CompleteReady, Looping
  <2> QED BY <2>1, <2>2, RecvsLeftTypes DEF ReturnsOrLoops
<1>2. AcTypeOK /\ BodyInv /\ [AcNext]_acVars => [Looping => Looping']_acVars
  <2> SUFFICES ASSUME AcTypeOK, AcNext, Looping PROVE Looping'
    OBVIOUS
  <2>1. /\ client = "body" /\ size > 0 /\ msg = <<>> /\ hungUp
        /\ wire = <<>> /\ inbox = <<>> /\ size \in Int
    BY DEF Looping, AcTypeOK
  <2>2. CASE Accept \/ Serve \/ ServerFails \/ Arrive \/ HangUp \/ Ask \/ SendFails
    BY <2>1, <2>2 DEF Accept, Serve, ServerFails, Arrive, HangUp, Ask, SendFails, acPeerVars
  <2>3. CASE ReadEnd
    <3>1. Received(<<>>) /\ inbox' = inbox
      BY <2>1, <2>3 DEF ReadEnd
    <3>2. <<>> \o <<>> = <<>> /\ Len(<<>>) = 0
      <4>1. <<>> \in Seq(AcBytes)
        BY EmptySeq
      <4> QED BY <4>1, EmptySeq, ConcatProperties
    <3>3. msg' = <<>>
      BY <2>1, <3>1, <3>2 DEF Received
    <3>4. size' = size
      <4>1. size' = size - Len(msg')
        BY <3>1 DEF Received
      <4> QED BY <2>1, <3>2, <3>3, <4>1
    <3>5. client' = "body" /\ UNCHANGED <<hungUp, wire>>
      BY <2>1, <3>1, <3>4 DEF Received, acPeerVars
    <3> QED BY <2>1, <3>1, <3>3, <3>4, <3>5 DEF Looping
  <2>4. CASE ReadHead \/ ReadBody \/ ReadNegative \/ ReadComma \/ TimesOut
    BY <2>1, <2>4 DEF ReadHead, ReadBody, ReadNegative, ReadComma, TimesOut
  <2> QED BY <2>2, <2>3, <2>4 DEF AcNext, Complete
<1>3. AcTypeInv => AcTypeOK
  BY DEF AcTypeInv
<1> QED BY <1>1, <1>2, <1>3, AcTypeAlways, BodyAlways, PTL DEF AcSpec
-----------------------------------------------------------------------------
(* PowershellRepl.  While the user waits for the prompt one thing is under  *)
(* way at a time: a line on its way to PowerShell, the mark on its way      *)
(* back, or the prompt.  The flags are what they have to be in each.        *)

Sent == Lines \cup {"prepend", "ask"}

(* PsTypeOK holds at the start.                                            *)
LEMMA PsTypeInit == PsInit => PsTypeOK
<1>1. <<"ask">> \in Seq(Sent) /\ <<>> \in Seq(Prints)
  BY DEF Sent, Prints
<1>2. 0 \in 0..MaxLines
  BY LinesAssumption
<1> QED BY <1>1, <1>2 DEF PsInit, PsTypeOK, Lines, Sent

(* A chunk and what is left behind it.                                     *)
LEMMA PrefixCut ==
  ASSUME NEW s \in Seq(Prints), NEW n \in 1..Len(s)
  PROVE  /\ SubSeq(s, 1, n) \in Seq(Prints) /\ Len(SubSeq(s, 1, n)) = n
         /\ \A i \in 1..n : SubSeq(s, 1, n)[i] = s[i]
         /\ SubSeq(s, n + 1, Len(s)) \in Seq(Prints)
         /\ Len(SubSeq(s, n + 1, Len(s))) = Len(s) - n
         /\ \A i \in 1..(Len(s) - n) : SubSeq(s, n + 1, Len(s))[i] = s[n + i]
<1>1. Len(s) \in Nat /\ n \in Nat /\ 1 <= n /\ n <= Len(s)
  BY LenProperties
<1>2. /\ SubSeq(s, 1, n) \in Seq(Prints)
      /\ Len(SubSeq(s, 1, n)) = n - 1 + 1
      /\ \A i \in 1..(n - 1 + 1) : SubSeq(s, 1, n)[i] = s[1 + i - 1]
  BY <1>1, SubSeqProperties
<1>3. /\ SubSeq(s, n + 1, Len(s)) \in Seq(Prints)
      /\ Len(SubSeq(s, n + 1, Len(s)))
           = IF n + 1 <= Len(s) THEN Len(s) - (n + 1) + 1 ELSE 0
      /\ \A i \in 1..(Len(s) - (n + 1) + 1) :
           SubSeq(s, n + 1, Len(s))[i] = s[n + 1 + i - 1]
  BY <1>1, SubSeqProperties
<1>4. \A i \in 1..n : i \in 1..(n - 1 + 1) /\ 1 + i - 1 = i
  BY <1>1
<1>5. \A i \in 1..(Len(s) - n) :
        i \in 1..(Len(s) - (n + 1) + 1) /\ n + 1 + i - 1 = n + i
  BY <1>1
<1>6. Len(SubSeq(s, n + 1, Len(s))) = Len(s) - n
  BY <1>1, <1>3
<1> QED BY <1>1, <1>2, <1>3, <1>4, <1>5, <1>6

\* What PowerShell prints before anything else when a statement ends.
FirstMark == IF marked THEN <<"mark">> ELSE <<>>

(* Every step keeps PsTypeOK.                                              *)
LEMMA PsTypeStep == PsTypeOK /\ [PsNext]_psVars => PsTypeOK'
<1> SUFFICES ASSUME PsTypeOK, [PsNext]_psVars PROVE PsTypeOK'
  OBVIOUS
<1>1. stdin \in Seq(Sent) /\ stdout \in Seq(Prints) /\ display \in Seq(Prints)
  BY DEF PsTypeOK, Sent
<1>2. CASE DropFlag
  <2>1. lines \in 0..MaxLines /\ lines < MaxLines /\ lines' = lines + 1
    BY <1>2 DEF DropFlag, PsTypeOK
  <2>2. lines' \in 0..MaxLines
    BY <2>1, LinesAssumption
  <2>3. hasty' \in BOOLEAN
    BY <1>2 DEF DropFlag, PsTypeOK
  <2> QED BY <1>2, <2>2, <2>3 DEF DropFlag, PsTypeOK, psReader, psShell
<1>3. CASE TestMultiline
  BY <1>3 DEF TestMultiline, PsTypeOK, psReader, psShell
<1>4. CASE Prepend
  <2>1. stdin' \in Seq(Sent)
    BY <1>1, <1>4, AppendProperties DEF Prepend, Sent
  <2> QED BY <1>4, <2>1 DEF Prepend, PsTypeOK, psFlags, psReader, psShell, Sent
<1>5. CASE SendLine
  <2>1. stdin' \in Seq(Sent)
    BY <1>1, <1>5, AppendProperties DEF SendLine, Sent, PsTypeOK
  <2> QED BY <1>5, <2>1 DEF SendLine, PsTypeOK, psFlags, psReader, psShell, Sent
<1>6. CASE Shell
  <2>1. stdin' \in Seq(Sent)
    BY <1>1, <1>6, HeadTailProperties DEF Shell
  <2>2. stdout' \in Seq(Prints) /\ marked' \in BOOLEAN /\ within' \in BOOLEAN
    <3>1. FirstMark \in Seq(Prints) /\ Outputs \subseteq Seq(Prints)
          /\ <<"prompt">> \in Seq(Prints)
      <4>1. /\ <<"mark">> \in Seq(Prints) /\ <<>> \in Seq(Prints)
            /\ <<"output">> \in Seq(Prints) /\ <<"prompt">> \in Seq(Prints)
            /\ <<"output", "output">> \in Seq(Prints)
        BY DEF Prints
      <4> QED BY <4>1 DEF FirstMark, Outputs
    <3>2. \A s \in Seq(Prints) : stdout \o FirstMark \o s \in Seq(Prints)
      BY <1>1, <3>1, ConcatProperties
    <3>3. CASE Head(stdin) = "end" /\ \E prints \in Outputs :
                 stdout' = stdout \o FirstMark \o prints
                 /\ marked' = FALSE /\ within' = FALSE
      BY <3>1, <3>2, <3>3
    <3>4. CASE stdout' = stdout \o FirstMark \o <<"prompt">> /\ marked' = FALSE /\ within' = within
      BY <3>1, <3>2, <3>4 DEF PsTypeOK
    <3>5. CASE stdout' = stdout /\ marked' \in {TRUE, marked} /\ within' \in {TRUE, within}
      BY <3>5 DEF PsTypeOK
    <3> QED BY <1>6, <3>3, <3>4, <3>5 DEF Shell, FirstMark
  <2> QED BY <1>6, <2>1, <2>2 DEF Shell, PsTypeOK, psFlags, psWriter, psReader, Sent
<1>7. CASE ReadPrints
  <2>1. result' \in Seq(Prints) /\ stdout' \in Seq(Prints)
    BY <1>1, <1>7, PrefixCut DEF ReadPrints
  <2> QED BY <1>7, <2>1 DEF ReadPrints, PsTypeOK, psFlags, psWriter
<1>8. CASE TestFlag
  <2>1. display \o result \in Seq(Prints)
    BY <1>1, ConcatProperties DEF PsTypeOK
  <2> QED BY <1>8, <2>1 DEF TestFlag, PsTypeOK, psFlags, psWriter, psShell
<1>9. CASE SetGot \/ SetSingle
  BY <1>9 DEF SetGot, SetSingle, PsTypeOK, psWriter, psShell
<1>10. CASE AskPrompt
  <2>1. stdin' \in Seq(Sent)
    BY <1>1, <1>10, AppendProperties DEF AskPrompt, Sent
  <2> QED BY <1>10, <2>1 DEF AskPrompt, PsTypeOK, psFlags, psWriter, psShell, Sent
<1>11. CASE UNCHANGED psVars
  BY <1>11 DEF PsTypeOK, psVars, psFlags, psWriter, psReader, psShell
<1> QED BY <1>2, <1>3, <1>4, <1>5, <1>6, <1>7, <1>8, <1>9, <1>10, <1>11
  DEF PsNext, ReadBytes

(* The flags, the threads and the pipes always have their types.            *)
THEOREM PsTypeCorrect == PsSpec => []PsTypeOK
<1> QED BY PsTypeInit, PsTypeStep, PTL DEF PsSpec

\* Pieces of what PowerShell prints: output alone; a mark and output; output
\* and the prompt.
OutputOnly(s) == \A i \in 1..Len(s) : s[i] = "output"
MarkFirst(s) == s # <<>> /\ s[1] = "mark" /\ \A i \in 2..Len(s) : s[i] = "output"
PromptLast(s) ==
  s # <<>> /\ s[Len(s)] = "prompt" /\ \A i \in 1..(Len(s) - 1) : s[i] = "output"

(* Where a read cuts them.                                                 *)
LEMMA CutPieces ==
  ASSUME NEW s \in Seq(Prints), NEW n \in 1..Len(s)
  PROVE  LET chunk == SubSeq(s, 1, n)
             rest == SubSeq(s, n + 1, Len(s))
         IN  /\ OutputOnly(s) => OutputOnly(chunk) /\ OutputOnly(rest)
             /\ MarkFirst(s) => MarkFirst(chunk) /\ OutputOnly(rest)
             /\ PromptLast(s) => \/ PromptLast(chunk) /\ rest = <<>>
                                 \/ OutputOnly(chunk) /\ PromptLast(rest)
<1> DEFINE chunk == SubSeq(s, 1, n)
           rest == SubSeq(s, n + 1, Len(s))
<1>1. Len(s) \in Nat /\ n \in Nat /\ 1 <= n /\ n <= Len(s)
  BY LenProperties
<1>2. /\ chunk \in Seq(Prints) /\ Len(chunk) = n
      /\ \A i \in 1..n : chunk[i] = s[i]
      /\ rest \in Seq(Prints) /\ Len(rest) = Len(s) - n
      /\ \A i \in 1..(Len(s) - n) : rest[i] = s[n + i]
  BY PrefixCut
<1> HIDE DEF chunk, rest
<1>3. chunk # <<>> /\ (rest = <<>> <=> n = Len(s))
  <2>1. Len(chunk) # 0 /\ (Len(rest) = 0 <=> n = Len(s))
    BY <1>1, <1>2
  <2> QED BY <1>2, <2>1, LenZero
<1>4. \A i \in 1..(Len(s) - n) : n + i \in 1..Len(s) /\ n + i \in 2..Len(s)
  BY <1>1
<1>5. ASSUME OutputOnly(s) PROVE OutputOnly(chunk) /\ OutputOnly(rest)
  <2>1. OutputOnly(chunk)
    <3>1. \A i \in 1..n : i \in 1..Len(s)
      BY <1>1
    <3> QED BY <1>2, <1>5, <3>1 DEF OutputOnly
  <2>2. OutputOnly(rest)
    BY <1>2, <1>4, <1>5 DEF OutputOnly
  <2> QED BY <2>1, <2>2
<1>6. ASSUME MarkFirst(s) PROVE MarkFirst(chunk) /\ OutputOnly(rest)
  BY <1>1, <1>2, <1>3, <1>4, <1>6 DEF OutputOnly, MarkFirst
<1>7. ASSUME PromptLast(s)
      PROVE  \/ PromptLast(chunk) /\ rest = <<>>
             \/ OutputOnly(chunk) /\ PromptLast(rest)
  <2>1. CASE n = Len(s)
    BY <1>1, <1>2, <1>3, <1>7, <2>1 DEF PromptLast
  <2>2. CASE n < Len(s)
    <3>1. OutputOnly(chunk)
      BY <1>1, <1>2, <1>7, <2>2 DEF OutputOnly, PromptLast
    <3>2. rest # <<>> /\ rest[Len(rest)] = "prompt"
      <4>1. Len(rest) \in 1..(Len(s) - n) /\ n + Len(rest) = Len(s)
        BY <1>1, <1>2, <2>2
      <4> QED BY <1>1, <1>2, <1>3, <1>7, <2>2, <4>1 DEF PromptLast
    <3>3. \A i \in 1..(Len(rest) - 1) :
            i \in 1..(Len(s) - n) /\ n + i \in 1..(Len(s) - 1)
      BY <1>1, <1>2
    <3> QED BY <1>2, <1>7, <3>1, <3>2, <3>3 DEF PromptLast
  <2> QED BY <1>1, <2>1, <2>2
<1> QED BY <1>5, <1>6, <1>7 DEF chunk, rest

(* What the end of a statement and a prompt add to what was printed.       *)
LEMMA PrintPieces ==
  /\ \A prints \in Outputs : MarkFirst(<<>> \o <<"mark">> \o prints)
  /\ \A s \in Seq(Prints) : OutputOnly(s) => PromptLast(s \o <<>> \o <<"prompt">>)
<1>1. ASSUME NEW prints \in Outputs PROVE MarkFirst(<<>> \o <<"mark">> \o prints)
  <2> DEFINE t == <<"mark">> \o prints
  <2>1. /\ prints \in Seq(Prints) /\ <<"mark">> \in Seq(Prints)
        /\ \A i \in 1..Len(prints) : prints[i] = "output"
    <3>1. CASE prints = <<>>
      BY <3>1 DEF Prints
    <3>2. CASE prints = <<"output">>
      BY <3>2 DEF Prints
    <3>3. CASE prints = <<"output", "output">>
      BY <3>3 DEF Prints
    <3> QED BY <3>1, <3>2, <3>3 DEF Outputs
  <2>2. /\ t \in Seq(Prints) /\ Len(t) = 1 + Len(prints) /\ Len(prints) \in Nat
        /\ \A i \in 1..Len(t) : t[i] = IF i <= 1 THEN "mark" ELSE prints[i - 1]
    BY <2>1, ConcatProperties, LenProperties
  <2>3. <<>> \o <<"mark">> = <<"mark">>
    OBVIOUS
  <2>4. t # <<>>
    BY <2>2, LenZero
  <2> HIDE DEF t
  <2>5. t[1] = "mark"
    BY <2>2
  <2>6. ASSUME NEW i \in 2..Len(t) PROVE t[i] = "output"
    <3>1. i \in 1..Len(t) /\ ~(i <= 1) /\ i - 1 \in 1..Len(prints)
      BY <2>2
    <3> QED BY <2>1, <2>2, <3>1
  <2>7. MarkFirst(t)
    BY <2>4, <2>5, <2>6 DEF MarkFirst
  <2> QED BY <2>3, <2>7 DEF t
<1>2. ASSUME NEW s \in Seq(Prints), OutputOnly(s)
      PROVE  PromptLast(s \o <<>> \o <<"prompt">>)
  <2> DEFINE t == s \o <<"prompt">>
  <2>1. s \o <<>> = s /\ <<"prompt">> \in Seq(Prints)
    BY ConcatEmptySeq DEF Prints
  <2>2. /\ t \in Seq(Prints) /\ Len(t) = Len(s) + 1 /\ Len(s) \in Nat
        /\ \A i \in 1..Len(t) : t[i] = IF i <= Len(s) THEN s[i] ELSE <<"prompt">>[i - Len(s)]
    BY <2>1, ConcatProperties, LenProperties
  <2>3. t # <<>>
    BY <2>2, LenZero
  <2> HIDE DEF t
  <2>4. t[Len(t)] = "prompt"
    <3>1. Len(t) \in 1..Len(t) /\ ~(Len(t) <= Len(s)) /\ Len(t) - Len(s) = 1
      BY <2>2
    <3>2. <<"prompt">>[1] = "prompt"
      OBVIOUS
    <3> QED BY <2>2, <3>1, <3>2
  <2>5. ASSUME NEW i \in 1..(Len(t) - 1) PROVE t[i] = "output"
    <3>1. i \in 1..Len(t) /\ i <= Len(s) /\ i \in 1..Len(s)
      BY <2>2
    <3> QED BY <1>2, <2>2, <3>1 DEF OutputOnly
  <2>6. PromptLast(t)
    BY <2>3, <2>4, <2>5 DEF PromptLast
  <2> QED BY <2>1, <2>6 DEF t
<1> QED BY <1>1, <1>2

\* Nothing is under way; PowerShell shows its prompt or waits for more lines.
AtRest ==
  /\ stdin = <<>> /\ stdout = <<>> /\ reading = "read" /\ keyboard \in {"idle", "test"}
  /\ multiline = within /\ marked = within
  /\ keyboard = "test" => ~gotOutput
  /\ keyboard = "idle" => gotOutput = ~within
  /\ keyboard = "idle" /\ ~within => display # <<>> /\ display[Len(display)] = "prompt"

\* A line is on its way, behind the only prepender of its statement.
Sending ==
  /\ multiline /\ ~gotOutput /\ stdout = <<>> /\ reading = "read"
  /\ \/ keyboard = "prepend" /\ stdin = <<>> /\ ~marked /\ ~within
     \/ keyboard = "send" /\ stdin = <<"prepend">> /\ ~marked /\ ~within
     \/ keyboard = "send" /\ stdin = <<>> /\ marked
     \/ keyboard = "idle" /\ stdin = <<"prepend", line>> /\ ~marked /\ ~within
     \/ keyboard = "idle" /\ stdin = <<line>> /\ marked

\* The mark comes back: the first chunk read begins with it, and is swallowed.
Marking ==
  /\ keyboard = "idle" /\ stdin = <<>> /\ ~marked /\ ~within
  /\ \/ /\ reading = "read" /\ ~gotOutput /\ multiline /\ MarkFirst(stdout)
     \/ /\ reading \in {"test", "got"} /\ ~gotOutput /\ multiline
        /\ MarkFirst(result) /\ OutputOnly(stdout)
     \/ reading = "single" /\ gotOutput /\ multiline /\ OutputOnly(stdout)
     \/ reading = "prompt" /\ gotOutput /\ ~multiline /\ OutputOnly(stdout)

\* The prompt is asked for and comes behind the output.
Answering ==
  /\ keyboard = "idle" /\ ~marked /\ ~within /\ gotOutput /\ ~multiline
  /\ \/ /\ reading = "read" \/ (reading = "test" /\ OutputOnly(result))
        /\ \/ stdin = <<"ask">> /\ OutputOnly(stdout)
           \/ stdin = <<>> /\ PromptLast(stdout)
     \/ reading = "test" /\ PromptLast(result) /\ stdin = <<>> /\ stdout = <<>>

OneAtATime == AtRest \/ Sending \/ Marking \/ Answering

MarksOnly ==
  /\ \A chunk \in swallowed : MarkFirst(chunk)
  /\ \A i \in 1..Len(display) : display[i] # "mark"

PsIInv == ~hasty => MarksOnly /\ OneAtATime

(* PsIInv holds at the start.                                              *)
LEMMA PsFlagsInit == PsInit => PsIInv
<1> SUFFICES ASSUME PsInit PROVE MarksOnly /\ OneAtATime
  BY DEF PsIInv
<1>1. MarksOnly
  BY DEF PsInit, MarksOnly
<1>2. OutputOnly(<<>>)
  BY DEF OutputOnly
<1>3. Answering
  BY <1>2 DEF PsInit, Answering
<1> QED BY <1>1, <1>3 DEF OneAtATime

(* The sequences on stdin, line by line.                                    *)
LEMMA ShortQueues ==
  /\ \A a : /\ Head(<<a>>) = a /\ Tail(<<a>>) = <<>> /\ <<a>> # <<>>
            /\ Append(<<>>, a) = <<a>> /\ <<>> \o <<a>> = <<a>>
  /\ \A a, b : /\ Head(<<a, b>>) = a /\ Tail(<<a, b>>) = <<b>> /\ <<a, b>> # <<>>
               /\ Append(<<a>>, b) = <<a, b>> /\ <<a>> \o <<b>> = <<a, b>>
  /\ \A a : <<a>> \o <<>> = <<a>>
  /\ <<>> \o <<>> = <<>>
<1>1. \A a : /\ Head(<<a>>) = a /\ Tail(<<a>>) = <<>> /\ <<a>> # <<>>
            /\ Append(<<>>, a) = <<a>> /\ <<>> \o <<a>> = <<a>>
  OBVIOUS
<1>2. \A a, b : Head(<<a, b>>) = a /\ <<a, b>> # <<>>
  OBVIOUS
<1>6. ASSUME NEW a, NEW b PROVE Append(<<a>>, b) = <<a, b>> /\ <<a>> \o <<b>> = <<a, b>>
  <2> DEFINE S == {a, b}
             s == Append(<<a>>, b)
             t == <<a, b>>
  <2>1. <<a>> \in Seq(S) /\ Len(<<a>>) = 1 /\ <<a>>[1] = a /\ b \in S
    OBVIOUS
  <2>2. t \in Seq(S) /\ Len(t) = 2 /\ t[1] = a /\ t[2] = b
    OBVIOUS
  <2>3. s \in Seq(S) /\ Len(s) = 1 + 1 /\ s[1] = a /\ s[1 + 1] = b
    BY <2>1, AppendProperties
  <2>4. s = <<a>> \o <<b>>
    BY <2>1, AppendIsConcat
  <2> HIDE DEF s, t, S
  <2>5. \A i \in 1..2 : i = 1 \/ i = 2
    OBVIOUS
  <2>6. Len(s) = Len(t) /\ \A i \in 1..Len(s) : s[i] = t[i]
    BY <2>2, <2>3, <2>5
  <2>7. s = t
    BY <2>2, <2>3, <2>6, SeqEqual
  <2> QED BY <2>4, <2>7 DEF s, t
<1>3. \A a, b : Tail(<<a, b>>) = <<b>>
  OBVIOUS
<1>4. \A a : <<a>> \o <<>> = <<a>>
  OBVIOUS
<1>5. <<>> \o <<>> = <<>>
  OBVIOUS
<1> QED BY <1>1, <1>2, <1>3, <1>4, <1>5, <1>6

(* What leaves the display alone leaves the marks in it.                   *)
LEMMA MarksOnlySame ==
  MarksOnly /\ display' = display /\ swallowed' = swallowed => MarksOnly'
  BY DEF MarksOnly

(* The REPL's side: send_bytes, the test for multiline and its flags.      *)
LEMMA PsWriterStep ==
  ASSUME PsTypeOK, MarksOnly, OneAtATime,
         (DropFlag /\ Quiet) \/ TestMultiline \/ Prepend \/ SendLine
  PROVE  MarksOnly' /\ OneAtATime'
<1>1. MarksOnly'
  BY MarksOnlySame DEF DropFlag, TestMultiline, Prepend, SendLine, psReader
<1>2. CASE DropFlag /\ Quiet
  <2>1. AtRest /\ keyboard = "idle"
    BY <1>2, ShortQueues DEF OneAtATime, Sending, Marking, Answering, Quiet, MarkFirst, PromptLast
  <2>2. AtRest'
    BY <1>2, <2>1 DEF DropFlag, AtRest, psReader, psShell
  <2> QED BY <1>1, <2>2 DEF OneAtATime
<1>3. CASE TestMultiline
  <2>1. AtRest /\ keyboard = "test"
    BY <1>3 DEF OneAtATime, Sending, Marking, Answering, TestMultiline
  <2>2. Sending'
    BY <1>3, <2>1 DEF TestMultiline, AtRest, Sending, psReader, psShell, PsTypeOK
  <2> QED BY <1>1, <2>2 DEF OneAtATime
<1>4. CASE Prepend
  <2>1. Sending /\ keyboard = "prepend"
    BY <1>4 DEF OneAtATime, AtRest, Marking, Answering, Prepend
  <2>2. stdin = <<>> /\ stdin' = <<"prepend">> /\ ~marked /\ ~within
    BY <1>4, <2>1, ShortQueues DEF Sending, Prepend
  <2>3. Sending'
    BY <1>4, <2>1, <2>2 DEF Prepend, Sending, psFlags, psReader, psShell
  <2> QED BY <1>1, <2>3 DEF OneAtATime
<1>5. CASE SendLine
  <2>1. Sending /\ keyboard = "send"
    BY <1>5 DEF OneAtATime, AtRest, Marking, Answering, SendLine
  <2>2. CASE stdin = <<"prepend">> /\ ~marked /\ ~within
    <3>1. stdin' = <<"prepend", line>>
      BY <1>5, <2>2, ShortQueues DEF SendLine
    <3> QED BY <1>1, <1>5, <2>1, <2>2, <3>1
      DEF OneAtATime, SendLine, Sending, psFlags, psReader, psShell
  <2>3. CASE stdin = <<>> /\ marked
    <3>1. stdin' = <<line>>
      BY <1>5, <2>3, ShortQueues DEF SendLine
    <3> QED BY <1>1, <1>5, <2>1, <2>3, <3>1
      DEF OneAtATime, SendLine, Sending, psFlags, psReader, psShell
  <2> QED BY <2>1, <2>2, <2>3 DEF Sending
<1> QED BY <1>2, <1>3, <1>4, <1>5

(* PowerShell's side: it takes a line and prints what follows it.          *)
LEMMA PsShellStep ==
  ASSUME PsTypeOK, MarksOnly, OneAtATime, Shell
  PROVE  MarksOnly' /\ OneAtATime'
<1>1. MarksOnly'
  BY MarksOnlySame DEF Shell, psReader
<1>2. stdin # <<>> /\ stdin' = Tail(stdin) /\ UNCHANGED <<psFlags, psWriter, psReader>>
  BY DEF Shell
<1>3. CASE keyboard = "send" /\ stdin = <<"prepend">> /\ Sending /\ ~marked /\ ~within
  <2>1. stdin' = <<>> /\ marked' = TRUE /\ stdout' = stdout /\ within' = within
    BY <1>2, <1>3, ShortQueues DEF Shell
  <2>2. Sending'
    BY <1>2, <1>3, <2>1 DEF Sending, psFlags, psWriter, psReader
  <2> QED BY <1>1, <2>2 DEF OneAtATime
<1>4. CASE keyboard = "idle" /\ stdin = <<"prepend", line>> /\ Sending /\ ~marked /\ ~within
  <2>1. stdin' = <<line>> /\ marked' = TRUE /\ stdout' = stdout /\ within' = within
    BY <1>2, <1>4, ShortQueues DEF Shell
  <2>2. Sending'
    BY <1>2, <1>4, <2>1 DEF Sending, psFlags, psWriter, psReader
  <2> QED BY <1>1, <2>2 DEF OneAtATime
<1>5. CASE keyboard = "idle" /\ stdin = <<line>> /\ Sending /\ marked
  <2>1. stdin' = <<>> /\ Head(stdin) = line /\ line \in Lines /\ stdout = <<>>
    BY <1>2, <1>5, ShortQueues DEF Sending, PsTypeOK
  <2>2. CASE line = "part"
    <3>1. within' = TRUE /\ stdout' = stdout /\ marked' = marked
      BY <2>1, <2>2 DEF Shell
    <3>2. AtRest'
      BY <1>2, <1>5, <2>1, <3>1 DEF Sending, AtRest, psFlags, psWriter, psReader, PsTypeOK
    <3> QED BY <1>1, <3>2 DEF OneAtATime
  <2>3. CASE line = "end"
    <3>1. marked' = FALSE /\ within' = FALSE
          /\ \E prints \in Outputs : stdout' = <<>> \o <<"mark">> \o prints
      BY <1>5, <2>1, <2>3 DEF Shell
    <3>2. MarkFirst(stdout')
      BY <3>1, PrintPieces
    <3>3. Marking'
      BY <1>2, <1>5, <2>1, <3>1, <3>2 DEF Sending, Marking, psFlags, psWriter, psReader
    <3> QED BY <1>1, <3>3 DEF OneAtATime
  <2> QED BY <2>1, <2>2, <2>3 DEF Lines
<1>6. CASE Answering /\ stdin = <<"ask">>
  <2>1. stdin' = <<>> /\ Head(stdin) = "ask" /\ ~within /\ ~marked
    BY <1>2, <1>6, ShortQueues DEF Answering
  <2>2. stdout' = stdout \o <<>> \o <<"prompt">> /\ marked' = FALSE /\ within' = within
    BY <2>1 DEF Shell
  <2>3. OutputOnly(stdout) /\ (reading = "read" \/ (reading = "test" /\ OutputOnly(result)))
    BY <1>6, ShortQueues DEF Answering
  <2>4. PromptLast(stdout')
    BY <2>2, <2>3, PrintPieces DEF PsTypeOK
  <2>5. Answering'
    BY <1>2, <1>6, <2>1, <2>2, <2>3, <2>4 DEF Answering, psFlags, psWriter, psReader
  <2> QED BY <1>1, <2>5 DEF OneAtATime
<1> QED BY <1>2, <1>3, <1>4, <1>5, <1>6 DEF OneAtATime, AtRest, Sending, Marking, Answering

(* The reader thread's side: read_bytes, chunk by chunk.                   *)
LEMMA PsReaderStep ==
  ASSUME PsTypeOK, MarksOnly, OneAtATime, ReadBytes
  PROVE  MarksOnly' /\ OneAtATime'
<1>1. CASE ReadPrints
  <2>1. MarksOnly'
    BY <1>1, MarksOnlySame DEF ReadPrints
  <2>2. /\ reading = "read" /\ reading' = "test"
        /\ UNCHANGED <<psFlags, psWriter, stdin, marked, within>>
    BY <1>1 DEF ReadPrints
  <2>3. PICK n \in 1..Len(stdout) :
          result' = SubSeq(stdout, 1, n) /\ stdout' = SubSeq(stdout, n + 1, Len(stdout))
    BY <1>1 DEF ReadPrints
  <2>4. stdout # <<>>
    BY <2>3, LenZero DEF PsTypeOK
  <2>5. /\ OutputOnly(stdout) => OutputOnly(result') /\ OutputOnly(stdout')
        /\ MarkFirst(stdout) => MarkFirst(result') /\ OutputOnly(stdout')
        /\ PromptLast(stdout) => \/ PromptLast(result') /\ stdout' = <<>>
                                 \/ OutputOnly(result') /\ PromptLast(stdout')
    BY <2>3, CutPieces DEF PsTypeOK
  <2>6. CASE Marking
    <3>1. MarkFirst(result') /\ OutputOnly(stdout')
      BY <2>2, <2>5, <2>6 DEF Marking
    <3>2. Marking'
      BY <2>2, <2>6, <3>1 DEF Marking, psFlags, psWriter
    <3> QED BY <2>1, <3>2 DEF OneAtATime
  <2>7. CASE Answering
    <3>1. CASE stdin = <<"ask">> /\ OutputOnly(stdout)
      <4>1. Answering'
        BY <2>2, <2>5, <2>7, <3>1 DEF Answering, psFlags, psWriter
      <4> QED BY <2>1, <4>1 DEF OneAtATime
    <3>2. CASE stdin = <<>> /\ PromptLast(stdout)
      <4>1. Answering'
        BY <2>2, <2>5, <2>7, <3>2 DEF Answering, psFlags, psWriter
      <4> QED BY <2>1, <4>1 DEF OneAtATime
    <3> QED BY <2>2, <2>7, <3>1, <3>2 DEF Answering
  <2> QED BY <2>2, <2>4, <2>6, <2>7 DEF OneAtATime, AtRest, Sending
<1>2. CASE TestFlag /\ gotOutput
  <2>1. reading = "test" /\ display' = display \o result /\ reading' = "read"
        /\ swallowed' = swallowed /\ UNCHANGED <<psFlags, psWriter, result, psShell, stdin>>
    BY <1>2 DEF TestFlag
  <2>2. Answering
    BY <1>2, <2>1 DEF OneAtATime, AtRest, Sending, Marking
  <2>3. /\ Len(display') = Len(display) + Len(result) /\ Len(display) \in Nat
        /\ Len(result) \in Nat /\ display' \in Seq(Prints)
        /\ \A i \in 1..(Len(display) + Len(result)) :
             display'[i] = IF i <= Len(display) THEN display[i] ELSE result[i - Len(display)]
    BY <2>1, ConcatProperties, LenProperties DEF PsTypeOK
  <2>4. \A i \in 1..Len(result) : result[i] # "mark"
    <3>1. CASE OutputOnly(result)
      BY <3>1 DEF OutputOnly
    <3>2. CASE PromptLast(result)
      <4>1. \A i \in 1..Len(result) : i = Len(result) \/ i \in 1..(Len(result) - 1)
        BY <2>3
      <4> QED BY <3>2, <4>1 DEF PromptLast
    <3> QED BY <2>1, <2>2, <3>1, <3>2 DEF Answering
  <2>5. MarksOnly'
    <3>1. ASSUME NEW i \in 1..Len(display') PROVE display'[i] # "mark"
      <4>1. CASE i <= Len(display)
        <5>1. i \in 1..Len(display)
          BY <2>3, <4>1
        <5> QED BY <2>3, <4>1, <5>1 DEF MarksOnly
      <4>2. CASE ~(i <= Len(display))
        <5>1. i - Len(display) \in 1..Len(result)
          BY <2>3, <4>2
        <5> QED BY <2>3, <2>4, <4>2, <5>1
      <4> QED BY <4>1, <4>2
    <3> QED BY <2>1, <3>1 DEF MarksOnly
  <2>6. CASE OutputOnly(result) /\ ~(PromptLast(result) /\ stdin = <<>> /\ stdout = <<>>)
    <3>1. Answering'
      BY <2>1, <2>2, <2>6 DEF Answering, psFlags, psWriter, psShell
    <3> QED BY <2>5, <3>1 DEF OneAtATime
  <2>7. CASE PromptLast(result) /\ stdin = <<>> /\ stdout = <<>>
    <3>1. display' # <<>> /\ display'[Len(display')] = "prompt"
      <4>1. result # <<>> /\ Len(result) # 0 /\ result[Len(result)] = "prompt"
        BY <2>7, LenZero DEF PromptLast, PsTypeOK
      <4>2. Len(display') \in 1..Len(display') /\ ~(Len(display') <= Len(display))
            /\ Len(display') - Len(display) = Len(result)
        BY <2>3, <4>1
      <4>3. display' # <<>>
        BY <2>3, <4>2, LenZero
      <4> QED BY <2>3, <4>1, <4>2, <4>3
    <3>2. AtRest'
      BY <2>1, <2>2, <2>7, <3>1 DEF Answering, AtRest, psFlags, psWriter, psShell, PsTypeOK
    <3> QED BY <2>5, <3>2 DEF OneAtATime
  <2> QED BY <2>1, <2>2, <2>6, <2>7 DEF Answering
<1>3. CASE TestFlag /\ ~gotOutput
  <2>1. reading = "test" /\ swallowed' = swallowed \cup {result} /\ reading' = "got"
        /\ display' = display /\ UNCHANGED <<psFlags, psWriter, result, psShell, stdin>>
    BY <1>3 DEF TestFlag
  <2>2. Marking
    BY <1>3, <2>1 DEF OneAtATime, AtRest, Sending, Answering
  <2>3. Marking' /\ MarkFirst(result)
    BY <2>1, <2>2 DEF Marking, psFlags, psWriter, psShell
  <2>4. MarksOnly'
    BY <2>1, <2>3 DEF MarksOnly
  <2> QED BY <2>3, <2>4 DEF OneAtATime
<1>4. CASE SetGot
  <2>1. MarksOnly'
    BY <1>4, MarksOnlySame DEF SetGot
  <2>2. Marking
    BY <1>4 DEF SetGot, OneAtATime, AtRest, Sending, Answering
  <2>3. Marking'
    BY <1>4, <2>2 DEF SetGot, Marking, psWriter, psShell
  <2> QED BY <2>1, <2>3 DEF OneAtATime
<1>5. CASE SetSingle
  <2>1. MarksOnly'
    BY <1>5, MarksOnlySame DEF SetSingle
  <2>2. Marking
    BY <1>5 DEF SetSingle, OneAtATime, AtRest, Sending, Answering
  <2>3. Marking'
    BY <1>5, <2>2 DEF SetSingle, Marking, psWriter, psShell
  <2> QED BY <2>1, <2>3 DEF OneAtATime
<1>6. CASE AskPrompt
  <2>1. MarksOnly'
    BY <1>6, MarksOnlySame DEF AskPrompt
  <2>2. Marking
    BY <1>6 DEF AskPrompt, OneAtATime, AtRest, Sending, Answering
  <2>3. stdin' = <<"ask">>
    BY <1>6, <2>2, ShortQueues DEF AskPrompt, Marking
  <2>4. Answering'
    BY <1>6, <2>2, <2>3 DEF AskPrompt, Marking, Answering, psFlags, psWriter, psShell
  <2> QED BY <2>1, <2>4 DEF OneAtATime
<1> QED BY <1>1, <1>2, <1>3, <1>4, <1>5, <1>6 DEF ReadBytes

(* Every step keeps PsIInv.                                                *)
LEMMA PsFlagsStep == PsTypeOK /\ PsIInv /\ [PsNext]_psVars => PsIInv'
<1> SUFFICES ASSUME PsTypeOK, PsIInv, [PsNext]_psVars, ~hasty' PROVE (MarksOnly /\ OneAtATime)'
  BY DEF PsIInv
<1>1. CASE PsNext
  <2>1. ~hasty /\ (DropFlag => Quiet)
    BY <1>1 DEF PsNext, DropFlag, TestMultiline, Prepend, SendLine, Shell, ReadBytes,
                ReadPrints, TestFlag, SetGot, SetSingle, AskPrompt, PsTypeOK
  <2>2. MarksOnly /\ OneAtATime
    BY <2>1 DEF PsIInv
  <2> QED BY <1>1, <2>1, <2>2, PsWriterStep, PsShellStep, PsReaderStep DEF PsNext
<1>2. CASE UNCHANGED psVars
  BY <1>2 DEF psVars, psFlags, psWriter, psReader, psShell, PsIInv, MarksOnly, OneAtATime,
              AtRest, Sending, Marking, Answering
<1> QED BY <1>1, <1>2

(* What the invariant says of FlagsAgree.                                  *)
LEMMA PsFlagsSay == PsTypeOK /\ PsIInv => FlagsAgree
<1> SUFFICES ASSUME PsTypeOK, PsIInv, ~hasty
             PROVE  /\ MarksOnly
                    /\ Quiet => \/ ~multiline /\ ~within /\ display # <<>>
                                   /\ display[Len(display)] = "prompt"
                                \/ multiline /\ within /\ ~gotOutput
                    /\ \A i \in 1..Len(stdin) : stdin[i] = "prepend" => i = 1 /\ ~within /\ ~marked
  BY DEF FlagsAgree, MarksSwallowed, PromptOrMore, PrependsAtStart, MarksOnly, MarkFirst
<1>1. MarksOnly /\ OneAtATime
  BY DEF PsIInv
<1>2. Quiet => AtRest /\ keyboard = "idle"
  BY <1>1, ShortQueues DEF OneAtATime, Sending, Marking, Answering, Quiet, MarkFirst,
                           PromptLast
<1>3. ASSUME NEW i \in 1..Len(stdin), stdin[i] = "prepend" PROVE i = 1 /\ ~within /\ ~marked
  <2>1. CASE stdin = <<>>
    BY <1>3, <2>1
  <2>2. CASE stdin = <<"prepend">> /\ ~within /\ ~marked
    BY <1>3, <2>2
  <2>3. CASE stdin = <<"prepend", line>> /\ ~within /\ ~marked
    BY <1>3, <2>3 DEF PsTypeOK, Lines
  <2>4. CASE stdin = <<line>>
    BY <1>3, <2>4 DEF PsTypeOK, Lines
  <2>5. CASE stdin = <<"ask">>
    BY <1>3, <2>5
  <2> QED BY <1>1, <2>1, <2>2, <2>3, <2>4, <2>5
    DEF OneAtATime, AtRest, Sending, Marking, Answering
<1>4. Quiet => \/ ~multiline /\ ~within /\ display # <<>> /\ display[Len(display)] = "prompt"
               \/ multiline /\ within /\ ~gotOutput
  BY <1>2 DEF AtRest, PsTypeOK
<1> QED BY <1>1, <1>3, <1>4

(* As long as nobody types ahead, the two threads' unlocked flags agree     *)
(* with PowerShell, however its output is cut into reads: a mark is          *)
(* swallowed, and no more than the output read along with it, a prompt or   *)
(* an open statement ends every line, and no prepender goes into an open    *)
(* statement.                                                               *)
THEOREM FlagsAlwaysAgree == PsSpec => []FlagsAgree
<1>1. PsInit => PsTypeOK /\ PsIInv
  BY PsTypeInit, PsFlagsInit
<1>2. (PsTypeOK /\ PsIInv) /\ [PsNext]_psVars => (PsTypeOK /\ PsIInv)'
  BY PsTypeStep, PsFlagsStep
<1>3. PsTypeOK /\ PsIInv => FlagsAgree
  BY PsFlagsSay
<1> QED BY <1>1, <1>2, <1>3, PTL DEF PsSpec
-----------------------------------------------------------------------------
(* The queue of saves: one is added, one is taken, those of one view are    *)
(* marked as gone.                                                          *)
LEMMA QueueAppend ==
  ASSUME NEW S, NEW s \in Seq(S), NEW e \in S
  PROVE  /\ Append(s, e) \in Seq(S) /\ Len(Append(s, e)) = Len(s) + 1
         /\ Range(Append(s, e)) = Range(s) \cup {e}
<1>1. /\ Append(s, e) \in Seq(S) /\ Len(Append(s, e)) = Len(s) + 1
      /\ \A i \in 1..Len(s) : Append(s, e)[i] = s[i]
      /\ Append(s, e)[Len(s) + 1] = e
  BY AppendProperties
<1>2. /\ Len(s) \in Nat
      /\ DOMAIN s = 1..Len(s) /\ DOMAIN Append(s, e) = 1..(Len(s) + 1)
  BY <1>1, LenProperties
<1> QED BY <1>1, <1>2 DEF Range

(* A queue's first element and the rest of it.                             *)
LEMMA QueueHead ==
  ASSUME NEW S, NEW s \in Seq(S), s # <<>>
  PROVE  /\ Head(s) \in S /\ Tail(s) \in Seq(S) /\ Len(Tail(s)) = Len(s) - 1
         /\ Len(s) \in Nat
         /\ Range(s) = {Head(s)} \cup Range(Tail(s))
<1>1. /\ Head(s) \in S /\ Tail(s) \in Seq(S) /\ Len(Tail(s)) = Len(s) - 1
      /\ \A i \in 1..Len(Tail(s)) : Tail(s)[i] = s[i + 1]
  BY HeadTailProperties
<1>2. /\ Len(s) \in Nat \ {0} /\ Head(s) = s[1]
      /\ DOMAIN s = 1..Len(s) /\ DOMAIN Tail(s) = 1..(Len(s) - 1)
  BY <1>1, EmptySeq, LenProperties
<1>3. \A i \in 1..Len(s) : i = 1 \/ (i - 1 \in 1..(Len(s) - 1) /\ s[i] = Tail(s)[i - 1])
  BY <1>1, <1>2
<1>4. \A i \in 1..(Len(s) - 1) : i + 1 \in 1..Len(s) /\ Tail(s)[i] = s[i + 1]
  BY <1>1, <1>2
<1>5. Range(s) \subseteq {Head(s)} \cup Range(Tail(s))
  <2> SUFFICES ASSUME NEW i \in 1..Len(s)
               PROVE  s[i] \in {Head(s)} \cup Range(Tail(s))
    BY <1>2 DEF Range
  <2>1. CASE i = 1
    BY <1>2, <2>1
  <2>2. CASE i # 1
    BY <1>2, <1>3, <2>2 DEF Range
  <2> QED BY <2>1, <2>2
<1>6. {Head(s)} \cup Range(Tail(s)) \subseteq Range(s)
  BY <1>2, <1>4 DEF Range
<1> QED BY <1>1, <1>2, <1>5, <1>6

(* A queue in which a removed copy's name is replaced.                     *)
LEMMA QueueGone ==
  ASSUME NEW s \in Seq(Names \cup {Gone}), NEW n \in Names
  PROVE  LET t == [i \in DOMAIN s |-> IF s[i] = n THEN Gone ELSE s[i]]
         IN  /\ t \in Seq(Names \cup {Gone}) /\ Len(t) = Len(s)
             /\ Range(t) \ {Gone} = (Range(s) \ {Gone}) \ {n}
<1> DEFINE t == [i \in DOMAIN s |-> IF s[i] = n THEN Gone ELSE s[i]]
<1>1. /\ Len(s) \in Nat /\ DOMAIN s = 1..Len(s)
      /\ \A i \in 1..Len(s) : s[i] \in Names \cup {Gone}
  BY LenProperties, ElementOfSeq
<1>2. t \in [1..Len(s) -> Names \cup {Gone}]
  BY <1>1
<1>3. t \in Seq(Names \cup {Gone}) /\ Len(t) = Len(s)
  BY <1>1, <1>2, SeqDef, LenProperties
<1>4. Range(t) \ {Gone} = (Range(s) \ {Gone}) \ {n}
  BY <1>1 DEF Range
<1> QED BY <1>3, <1>4

\* The views whose saves wait for their upload.
Waiting == Range(uploads) \ {Gone}

(* What the constants are.                                                 *)
LEMMA Constants ==
  /\ \A p \in Paths : BaseName[p] \in Names /\ BaseName[p] # Gone
  /\ Gone \notin Names /\ NoPath \notin Paths
  /\ Content \cap NoContent = {} /\ NoContent = {Cut, EmptyFile, Absent}
  /\ \A c \in Content : c.of \in Paths
  /\ \A c \in NoContent : c.of = NoPath
  /\ \A p \in Paths : [of |-> p, edit |-> 0] \in Content
  /\ \A t \in [name : Names, path : Paths, content : Content \cup NoContent] :
       t # NoTransfer
<1>1. \A p \in Paths : BaseName[p] \in Names /\ BaseName[p] # Gone
  BY BaseNameAssumption DEF Names, Gone
<1>2. Gone \notin Names
  BY BaseNameAssumption DEF Names, Gone
<1>3. \A c \in Content : c.of \in Paths
  BY DEF Content
<1>4. \A c \in NoContent : c.of = NoPath
  BY DEF NoContent, Cut, EmptyFile, Absent
<1>5. Content \cap NoContent = {}
  BY <1>3, <1>4, NoPathAssumption
<1>6. \A p \in Paths : [of |-> p, edit |-> 0] \in Content
  BY SftpBoundsAssumption DEF Content
<1>7. \A t \in [name : Names, path : Paths, content : Content \cup NoContent] :
        t # NoTransfer
  BY NoPathAssumption DEF NoTransfer
<1> QED BY <1>1, <1>2, <1>3, <1>4, <1>5, <1>6, <1>7, NoPathAssumption DEF NoContent
-----------------------------------------------------------------------------
(* Types, and what belongs to an open view.                                *)

Transfers == [name : Names, path : Paths, content : Content \cup NoContent]

\* A view has the path it was opened for, and only an open one has saves.
ViewInv ==
  \A n \in Names :
    /\ editor[n] = "closed" => dest[n] = NoPath /\ n \notin Waiting
    /\ editor[n] # "closed" => dest[n] \in Paths /\ BaseName[dest[n]] = n

SfTypeInv == SfTypeOK /\ ViewInv

(* SfTypeInv holds at the start.                                             *)
LEMMA SfTypeInit == SfInit => SfTypeInv
<1> SUFFICES ASSUME SfInit PROVE SfTypeInv
  OBVIOUS
<1>1. uploads \in Seq(Names \cup {Gone}) /\ Len(uploads) = 0 /\ Range(uploads) = {}
  BY EmptySeq DEF SfInit, Range
<1>2. 0 \in 0..MaxEdits /\ 0 \in 0..MaxFailures /\ Len(uploads) <= MaxQueued
  BY <1>1, SftpBoundsAssumption
<1>3. /\ remote \in [Paths -> Content \cup NoContent]
      /\ saved \in [Paths -> Content \cup NoContent]
      /\ local \in [Names -> Content \cup NoContent]
      /\ buffer \in [Names -> Content \cup NoContent]
  BY Constants DEF SfInit
<1>4. listed \in BOOLEAN /\ mixed \in BOOLEAN /\ badFetch \in BOOLEAN
  BY DEF SfInit
<1>5. SfTypeOK
  BY <1>1, <1>2, <1>3, <1>4 DEF SfInit, SfTypeOK
<1>6. ViewInv
  BY <1>1 DEF SfInit, ViewInv, Waiting
<1> QED BY <1>5, <1>6 DEF SfTypeInv

(* A copy that is opened in a view.                                        *)
LEMMA OpenedTypes ==
  ASSUME SfTypeInv, NEW p \in Paths, NEW content \in Content \cup NoContent,
         Opened(p, content), badFetch' \in BOOLEAN, failures' \in 0..MaxFailures
  PROVE  SfTypeInv'
<1> USE DEF SfTypeInv, SfTypeOK
<1>1. BaseName[p] \in Names
  BY Constants
<1>2. mixed' \in BOOLEAN
  BY DEF Opened
<1>3. local' \in [Names -> Content \cup NoContent] /\ buffer' \in [Names -> Content \cup NoContent]
  BY <1>1 DEF Opened
<1>4. SfTypeOK'
  BY <1>1, <1>2, <1>3 DEF Opened
<1>5. ViewInv'
  BY <1>1 DEF Opened, ViewInv, Waiting
<1> QED BY <1>4, <1>5

(* The first save of the queue.                                            *)
LEMMA BeginQueue ==
  ASSUME SfTypeInv, BeginUpload
  PROVE  LET n == Head(uploads)
         IN  /\ n \in Names \cup {Gone} /\ uploads' \in Seq(Names \cup {Gone})
             /\ Len(uploads') <= MaxQueued /\ Range(uploads) = {n} \cup Range(uploads')
             /\ n # Gone => n \in Names /\ dest[n] \in Paths
<1> DEFINE n == Head(uploads)
<1>1. /\ uploads \in Seq(Names \cup {Gone}) /\ uploads # <<>>
      /\ uploads' = Tail(uploads) /\ Len(uploads) <= MaxQueued /\ MaxQueued \in Nat
  BY SftpBoundsAssumption DEF BeginUpload, SfTypeInv, SfTypeOK
<1>2. /\ n \in Names \cup {Gone} /\ Tail(uploads) \in Seq(Names \cup {Gone})
      /\ Len(Tail(uploads)) = Len(uploads) - 1 /\ Len(uploads) \in Nat
      /\ Range(uploads) = {n} \cup Range(Tail(uploads))
  BY <1>1, QueueHead
<1> HIDE DEF n
<1>3. n # Gone => n \in Names /\ dest[n] \in Paths
  BY <1>2 DEF SfTypeInv, ViewInv, Waiting, SfTypeOK
<1> QED BY <1>1, <1>2, <1>3 DEF n

(* Every step keeps SfTypeInv.                                               *)
LEMMA SfTypeStep == SfTypeInv /\ [SfNext]_sfVars => SfTypeInv'
<1> SUFFICES ASSUME SfTypeInv, [SfNext]_sfVars PROVE SfTypeInv'
  OBVIOUS
<1>a. SfTypeOK /\ ViewInv
  BY DEF SfTypeInv
<1>b. failures < MaxFailures => failures + 1 \in 0..MaxFailures
  BY <1>a, SftpBoundsAssumption DEF SfTypeOK
<1>c. /\ transfer # NoTransfer => transfer \in Transfers
      /\ transfer # NoTransfer => transfer.name \in Names /\ transfer.path \in Paths
                                  /\ transfer.content \in Content \cup NoContent
  BY <1>a DEF SfTypeOK, Transfers
<1>1. ASSUME NEW p \in Paths, Fetch(p) PROVE SfTypeInv'
  <2>1. badFetch' \in BOOLEAN /\ failures' \in 0..MaxFailures /\ remote[p] \in Content \cup NoContent
    BY <1>1, <1>a DEF Fetch, SfTypeOK
  <2> QED BY <1>1, <2>1, OpenedTypes DEF Fetch
<1>2. ASSUME NEW p \in Paths, FetchFails(p) PROVE SfTypeInv'
  <2>1. EmptyFile \in Content \cup NoContent
    BY DEF NoContent
  <2> QED BY <1>2, <1>b, <2>1, OpenedTypes DEF FetchFails
<1>3. ASSUME NEW p \in Paths, FetchRaises(p) PROVE SfTypeInv'
  <2>1. BaseName[p] \in Names /\ Cut \in Content \cup NoContent
    BY Constants
  <2>2. local' \in [Names -> Content \cup NoContent]
    BY <1>3, <1>a, <2>1 DEF FetchRaises, SfTypeOK
  <2>3. buffer' \in [Names -> Content \cup NoContent]
    BY <1>3, <1>a, <2>1, <2>2 DEF FetchRaises, SfTypeOK
  <2>4. listed' \in BOOLEAN /\ mixed' \in BOOLEAN /\ badFetch' \in BOOLEAN
    BY <1>3, <1>a DEF FetchRaises, SfTypeOK
  <2> QED BY <1>3, <1>a, <1>b, <2>2, <2>3, <2>4
          DEF FetchRaises, SfTypeInv, SfTypeOK, ViewInv, Waiting
<1>4. ASSUME NEW n \in Names, EditCopy(n) PROVE SfTypeInv'
  <2>1. edits + 1 \in 0..MaxEdits /\ edits' = edits + 1
    BY <1>4, <1>a, SftpBoundsAssumption DEF EditCopy, SfTypeOK
  <2>2. (IF buffer[n].of = NoPath THEN dest[n] ELSE buffer[n].of) \in Paths
    BY <1>4, <1>a, Constants DEF EditCopy, SfTypeOK, ViewInv
  <2>3. buffer' \in [Names -> Content \cup NoContent]
    BY <1>4, <1>a, <2>1, <2>2 DEF EditCopy, SfTypeOK, Content
  <2>4. listed' \in BOOLEAN /\ mixed' \in BOOLEAN /\ badFetch' \in BOOLEAN
    BY <1>4, <1>a DEF EditCopy, SfTypeOK
  <2> QED BY <1>4, <1>a, <2>1, <2>3, <2>4 DEF EditCopy, SfTypeInv, SfTypeOK, ViewInv, Waiting
<1>5. ASSUME NEW n \in Names, Save(n) PROVE SfTypeInv'
  <2>1. /\ uploads' \in Seq(Names \cup {Gone}) /\ Len(uploads') <= MaxQueued
        /\ Range(uploads') = Range(uploads) \cup {n}
    <3>1. /\ Append(uploads, n) \in Seq(Names \cup {Gone})
          /\ Len(Append(uploads, n)) = Len(uploads) + 1
          /\ Range(Append(uploads, n)) = Range(uploads) \cup {n}
      BY <1>a, QueueAppend DEF SfTypeOK
    <3>2. Len(uploads) \in Nat /\ Len(uploads) < MaxQueued /\ MaxQueued \in Nat
      BY <1>5, <1>a, LenProperties, SftpBoundsAssumption DEF Save, SfTypeOK
    <3> QED BY <1>5, <3>1, <3>2 DEF Save
  <2>2. /\ local' \in [Names -> Content \cup NoContent]
        /\ saved' \in [Paths -> Content \cup NoContent]
    BY <1>5, <1>a DEF Save, SfTypeOK
  <2>3. listed' \in BOOLEAN /\ mixed' \in BOOLEAN /\ badFetch' \in BOOLEAN
    BY <1>5, <1>a DEF Save, SfTypeOK
  <2>4. SfTypeOK'
    BY <1>5, <1>a, <2>1, <2>2, <2>3 DEF Save, SfTypeOK
  <2>5. ViewInv'
    BY <1>5, <1>a, <2>1 DEF Save, SfTypeOK, ViewInv, Waiting
  <2> QED BY <2>4, <2>5 DEF SfTypeInv
<1>6. CASE BeginUpload
  <2> DEFINE n == Head(uploads)
  <2>1. /\ n \in Names \cup {Gone} /\ uploads' \in Seq(Names \cup {Gone})
        /\ Len(uploads') <= MaxQueued /\ Range(uploads) = {n} \cup Range(uploads')
        /\ n # Gone => n \in Names /\ dest[n] \in Paths
    BY <1>6, <1>a, BeginQueue DEF SfTypeInv
  <2>2. \/ UNCHANGED <<transfer, remote, lostSave>>
        \/ /\ n # Gone /\ UNCHANGED lostSave
           /\ transfer' = [name |-> n, path |-> dest[n], content |-> local[n]]
           /\ remote' = [remote EXCEPT ![dest[n]] = Cut]
        \/ /\ n # Gone /\ UNCHANGED <<transfer, remote>>
           /\ lostSave' = lostSave \cup {dest[n]}
    BY <1>6 DEF BeginUpload
  <2> HIDE DEF n
  <2>3. transfer' \in Transfers \cup {NoTransfer}
    <3>1. n # Gone => local[n] \in Content \cup NoContent
      BY <1>a, <2>1 DEF SfTypeOK
    <3>2. n # Gone => [name |-> n, path |-> dest[n], content |-> local[n]]
                        \in Transfers
      BY <2>1, <3>1 DEF Transfers
    <3>3. transfer \in Transfers \cup {NoTransfer}
      BY <1>a DEF SfTypeOK, Transfers
    <3> QED BY <2>2, <3>2, <3>3
  <2>4. remote' \in [Paths -> Content \cup NoContent] /\ lostSave' \subseteq Paths
    BY <1>a, <2>1, <2>2, Constants DEF SfTypeOK
  <2>5. listed' \in BOOLEAN /\ mixed' \in BOOLEAN /\ badFetch' \in BOOLEAN
    BY <1>6, <1>a DEF BeginUpload, SfTypeOK
  <2>6. SfTypeOK'
    BY <1>6, <1>a, <2>1, <2>3, <2>4, <2>5 DEF BeginUpload, SfTypeOK, Transfers
  <2>7. ViewInv'
    BY <1>6, <1>a, <2>1 DEF BeginUpload, ViewInv, Waiting
  <2> QED BY <2>6, <2>7 DEF SfTypeInv
<1>7. CASE EndUpload
  <2>1. remote' \in [Paths -> Content \cup NoContent]
    BY <1>7, <1>a, <1>c DEF EndUpload, SfTypeOK
  <2>2. listed' \in BOOLEAN /\ mixed' \in BOOLEAN /\ badFetch' \in BOOLEAN
    BY <1>7, <1>a DEF EndUpload, SfTypeOK
  <2> QED BY <1>7, <1>a, <2>1, <2>2 DEF EndUpload, SfTypeInv, SfTypeOK, ViewInv, Waiting
<1>8. CASE UploadFails
  <2>1. failures' \in 0..MaxFailures
    BY <1>8, <1>a, <1>b DEF UploadFails, SfTypeOK
  <2>2. listed' \in BOOLEAN /\ mixed' \in BOOLEAN /\ badFetch' \in BOOLEAN
    BY <1>8, <1>a DEF UploadFails, SfTypeOK
  <2> QED BY <1>8, <1>a, <1>c, <2>1, <2>2
          DEF UploadFails, SfTypeInv, SfTypeOK, ViewInv, Waiting
<1>9. ASSUME NEW n \in Names, CloseEditor(n) PROVE SfTypeInv'
  <2>1. /\ uploads' \in Seq(Names \cup {Gone}) /\ Len(uploads') = Len(uploads)
        /\ Waiting' = Waiting \ {n}
    BY <1>9, <1>a, QueueGone DEF CloseEditor, SfTypeOK, Waiting
  <2>2. transfer' \in Transfers \cup {NoTransfer} /\ kept' \subseteq Names
    BY <1>9, <1>a DEF CloseEditor, SfTypeOK, Transfers
  <2>3. /\ local' \in [Names -> Content \cup NoContent]
        /\ buffer' \in [Names -> Content \cup NoContent]
    BY <1>9, <1>a, Constants DEF CloseEditor, SfTypeOK
  <2>4. lostSave' \subseteq Paths
    BY <1>9, <1>a DEF CloseEditor, SfTypeOK, ViewInv
  <2>5. listed' \in BOOLEAN /\ mixed' \in BOOLEAN /\ badFetch' \in BOOLEAN
    BY <1>9, <1>a DEF CloseEditor, SfTypeOK
  <2>6. SfTypeOK'
    BY <1>9, <1>a, <2>1, <2>2, <2>3, <2>4, <2>5 DEF CloseEditor, SfTypeOK, Transfers
  <2>7. ViewInv'
    BY <1>9, <1>a, <2>1 DEF CloseEditor, SfTypeOK, ViewInv
  <2> QED BY <2>6, <2>7 DEF SfTypeInv
<1>10. CASE CloseRepl
  <2>1. listed' \in BOOLEAN /\ mixed' \in BOOLEAN /\ badFetch' \in BOOLEAN
    BY <1>10, <1>a DEF CloseRepl, SfTypeOK
  <2> QED BY <1>10, <1>a, <2>1 DEF CloseRepl, SfTypeInv, SfTypeOK, ViewInv, Waiting
<1>11. CASE UNCHANGED sfVars
  <2>1. listed' \in BOOLEAN /\ mixed' \in BOOLEAN /\ badFetch' \in BOOLEAN
    BY <1>11, <1>a DEF sfVars, SfTypeOK
  <2> QED BY <1>11, <1>a, <2>1 DEF sfVars, SfTypeInv, SfTypeOK, ViewInv, Waiting
<1> QED
  BY <1>1, <1>2, <1>3, <1>4, <1>5, <1>6, <1>7, <1>8, <1>9, <1>10, <1>11 DEF SfNext

(* SfTypeInv always holds.                                                   *)
LEMMA SfTypeAlways == SfSpec => []SfTypeInv
  BY SfTypeInit, SfTypeStep, PTL DEF SfSpec

(* Copies, views, saves and transfers keep their types.                    *)
THEOREM SfTypeCorrect == SfSpec => []SfTypeOK
<1>1. SfTypeInv => SfTypeOK
  BY DEF SfTypeInv
<1> QED BY <1>1, SfTypeAlways, PTL
-----------------------------------------------------------------------------
(* Contents stem from the remote file they are saved to.                   *)

\* As long as no two copies were mixed, an open view and its copy are of the
\* path the view has, and so is what is being transferred.
OwnInv ==
  ~mixed =>
    /\ \A p \in Paths : remote[p].of \in {p, NoPath}
    /\ \A n \in Names : editor[n] # "closed" =>
         buffer[n].of \in {dest[n], NoPath} /\ local[n].of \in {dest[n], NoPath}
    /\ transfer # NoTransfer =>
         /\ transfer.content.of \in {transfer.path, NoPath}
         /\ local[transfer.name].of \in {transfer.path, NoPath}
         /\ editor[transfer.name] # "closed" => dest[transfer.name] = transfer.path

(* OwnInv holds at the start.                                              *)
LEMMA OwnInit == SfInit => OwnInv
  BY DEF SfInit, OwnInv

(* What runs is a transfer of a name, a path and a content.                 *)
LEMMA TransferIs ==
  ASSUME SfTypeInv, transfer # NoTransfer
  PROVE  /\ transfer \in Transfers
         /\ transfer.name \in Names /\ transfer.path \in Paths
         /\ transfer.content \in Content \cup NoContent
  BY DEF SfTypeInv, SfTypeOK, Transfers

(* A copy of a file's own content is opened.                               *)
LEMMA OwnOpened ==
  ASSUME SfTypeInv, OwnInv, NEW p \in Paths, NEW content, Opened(p, content),
         ~mixed' => content.of \in {p, NoPath}
  PROVE  OwnInv'
<1> SUFFICES ASSUME ~mixed' PROVE OwnInv'
  BY DEF OwnInv
<1>1. BaseName[p] \in Names
  BY Constants
<1>2. /\ ~mixed /\ UNCHANGED <<remote, transfer>>
      /\ editor[BaseName[p]] # "closed" => dest[BaseName[p]] = p
      /\ transfer.name = BaseName[p] => transfer.path = p
      /\ local' = [local EXCEPT ![BaseName[p]] = content]
      /\ dest' = [dest EXCEPT ![BaseName[p]] = p]
      /\ buffer' = [buffer EXCEPT ![BaseName[p]] =
                      IF editor[BaseName[p]] = "dirty" THEN @ ELSE content]
      /\ editor' = [editor EXCEPT ![BaseName[p]] = IF @ = "closed" THEN "clean" ELSE @]
  BY DEF Opened
<1>3. \A n \in Names : editor'[n] # "closed" =>
         buffer'[n].of \in {dest'[n], NoPath} /\ local'[n].of \in {dest'[n], NoPath}
  BY <1>1, <1>2 DEF OwnInv, SfTypeInv, SfTypeOK
<1>4. transfer # NoTransfer =>
        /\ local'[transfer.name].of \in {transfer.path, NoPath}
        /\ editor'[transfer.name] # "closed" => dest'[transfer.name] = transfer.path
  BY <1>1, <1>2, TransferIs DEF OwnInv, SfTypeInv, SfTypeOK
<1> QED BY <1>2, <1>3, <1>4 DEF OwnInv

(* Every step keeps OwnInv.                                                *)
LEMMA OwnStep == SfTypeInv /\ OwnInv /\ [SfNext]_sfVars => OwnInv'
<1> SUFFICES ASSUME SfTypeInv, OwnInv, [SfNext]_sfVars PROVE OwnInv'
  OBVIOUS
<1>1. ASSUME NEW p \in Paths, Fetch(p) PROVE OwnInv'
  <2>1. ~mixed' => remote[p].of \in {p, NoPath}
    BY <1>1 DEF Fetch, Opened, OwnInv
  <2> QED BY <1>1, <2>1, OwnOpened DEF Fetch
<1>2. ASSUME NEW p \in Paths, FetchFails(p) PROVE OwnInv'
  <2>1. EmptyFile.of = NoPath
    BY DEF EmptyFile
  <2> QED BY <1>2, <2>1, OwnOpened DEF FetchFails
<1>3. ASSUME NEW p \in Paths, FetchRaises(p) PROVE OwnInv'
  <2>1. BaseName[p] \in Names /\ Cut.of = NoPath
    BY Constants
  <2>2. \A n \in Names : local'[n].of = local[n].of \/ local'[n].of = NoPath
    BY <1>3, <2>1 DEF FetchRaises, SfTypeInv, SfTypeOK
  <2>3. \A n \in Names : buffer'[n] = buffer[n] \/ (buffer'[n] = local'[n] /\ editor[n] = "clean")
    BY <1>3, <2>1 DEF FetchRaises, SfTypeInv, SfTypeOK
  <2>4. UNCHANGED <<mixed, editor, dest, remote, transfer>>
    BY <1>3 DEF FetchRaises
  <2> QED BY <2>2, <2>3, <2>4, TransferIs DEF OwnInv
<1>4. ASSUME NEW n \in Names, EditCopy(n) PROVE OwnInv'
  <2>1. ~mixed => buffer'[n].of \in {dest[n], NoPath}
    BY <1>4 DEF EditCopy, OwnInv, SfTypeInv, SfTypeOK
  <2> QED BY <1>4, <2>1 DEF EditCopy, OwnInv, SfTypeInv, SfTypeOK
<1>5. ASSUME NEW n \in Names, Save(n) PROVE OwnInv'
  BY <1>5, TransferIs DEF Save, OwnInv, SfTypeInv, SfTypeOK
<1>6. CASE BeginUpload
  <2> DEFINE n == Head(uploads)
  <2>1. n # Gone => n \in Names /\ dest[n] \in Paths
    BY <1>6, BeginQueue
  <2>2. n # Gone => editor[n] # "closed"
    BY <1>6, <2>1, BeginQueue, NoPathAssumption DEF SfTypeInv, ViewInv
  <2>3. \/ UNCHANGED <<transfer, remote>>
        \/ /\ n # Gone
           /\ transfer' = [name |-> n, path |-> dest[n], content |-> local[n]]
           /\ remote' = [remote EXCEPT ![dest[n]] = Cut]
    BY <1>6 DEF BeginUpload
  <2>4. UNCHANGED <<mixed, editor, buffer, local, dest>>
    BY <1>6 DEF BeginUpload
  <2> HIDE DEF n
  <2>5. Cut.of = NoPath
    BY DEF Cut
  <2>6. CASE UNCHANGED <<transfer, remote>>
    BY <2>4, <2>6 DEF OwnInv
  <2>7. CASE ~UNCHANGED <<transfer, remote>>
    <3>1. /\ transfer'.name = n /\ transfer'.path = dest[n] /\ transfer'.content = local[n]
          /\ remote' = [remote EXCEPT ![dest[n]] = Cut] /\ n \in Names
          /\ editor[n] # "closed"
      BY <2>1, <2>2, <2>3, <2>7
    <3>2. \A p \in Paths : remote'[p] = remote[p] \/ remote'[p] = Cut
      BY <2>1, <3>1 DEF SfTypeInv, SfTypeOK
    <3> QED BY <2>4, <2>5, <3>1, <3>2 DEF OwnInv
  <2> QED BY <2>6, <2>7
<1>7. CASE EndUpload
  <2>1. PICK content \in {transfer.content, local[transfer.name]} :
          remote' = [remote EXCEPT ![transfer.path] = content]
    BY <1>7 DEF EndUpload
  <2>2. ~mixed => content.of \in {transfer.path, NoPath}
    BY <1>7, <2>1, TransferIs DEF EndUpload, OwnInv
  <2> QED BY <1>7, <2>1, <2>2, TransferIs DEF EndUpload, OwnInv, SfTypeInv, SfTypeOK
<1>8. CASE UploadFails
  BY <1>8 DEF UploadFails, OwnInv
<1>9. ASSUME NEW n \in Names, CloseEditor(n) PROVE OwnInv'
  <2>1. UNCHANGED <<mixed, remote, transfer>> /\ \A m \in Names \ {n} :
          UNCHANGED <<editor[m], buffer[m], local[m], dest[m]>>
    BY <1>9 DEF CloseEditor, SfTypeInv, SfTypeOK
  <2>2. editor'[n] = "closed" /\ (transfer.name = n => local'[n] = local[n])
    BY <1>9 DEF CloseEditor, SfTypeInv, SfTypeOK
  <2> QED BY <2>1, <2>2, TransferIs DEF OwnInv
<1>10. CASE CloseRepl
  BY <1>10 DEF CloseRepl, OwnInv
<1>11. CASE UNCHANGED sfVars
  BY <1>11 DEF sfVars, OwnInv
<1> QED
  BY <1>1, <1>2, <1>3, <1>4, <1>5, <1>6, <1>7, <1>8, <1>9, <1>10, <1>11 DEF SfNext
-----------------------------------------------------------------------------
(* Nothing is damaged, and every save arrives.                             *)

\* A remote file is whole and has what was saved last, or an upload will see to
\* it, or the save was lost.
FileOK(p) ==
  /\ remote[p] \in Content \cup {Cut}
  /\ remote[p] = Cut => Pending(p) \/ p \in lostSave
  /\ p \notin lostSave => Pending(p) \/ remote[p] = saved[p]

\* A copy in a view is whole, and while it waits for its upload it is what was
\* saved last.
CopyOK(n) ==
  /\ editor[n] # "closed" => local[n] \in Content /\ buffer[n] \in Content
  /\ n \in Waiting => local[n] = saved[dest[n]]

\* The upload that comes last for a file has what was saved last.
TransferOK ==
  transfer # NoTransfer =>
    /\ transfer.content \in Content /\ local[transfer.name] \in Content
    /\ transfer.path \notin lostSave /\ (\A n \in Waiting : dest[n] # transfer.path) =>
         /\ transfer.content = saved[transfer.path]
         /\ local[transfer.name] = saved[transfer.path]

SaveInv ==
  ~mixed /\ ~badFetch => /\ \A p \in Paths : FileOK(p)
                         /\ \A n \in Names : CopyOK(n)
                         /\ TransferOK

(* SaveInv holds at the start.                                             *)
LEMMA SaveInit == SfInit => SaveInv
<1> SUFFICES ASSUME SfInit PROVE SaveInv
  OBVIOUS
<1>1. Waiting = {}
  BY EmptySeq DEF SfInit, Waiting, Range
<1>2. \A p \in Paths : remote[p] = saved[p] /\ remote[p] \in Content /\ remote[p] # Cut
  BY Constants DEF SfInit
<1> QED BY <1>1, <1>2 DEF SfInit, SaveInv, FileOK, CopyOK, TransferOK

(* Views that wait are open, and their path tells which view it is.         *)
WaitingInv ==
  /\ Waiting \subseteq Names
  /\ \A n \in Waiting : editor[n] # "closed" /\ dest[n] \in Paths /\ BaseName[dest[n]] = n
  /\ \A p \in Paths : Pending(p) <=> transfer.path = p \/ \E n \in Waiting : dest[n] = p

(* So it is whenever the types are right.                                  *)
LEMMA WaitingOpen == SfTypeInv => WaitingInv
<1> SUFFICES ASSUME SfTypeInv PROVE WaitingInv
  OBVIOUS
<1>1. Waiting \subseteq Names
  <2>1. Range(uploads) \subseteq Names \cup {Gone}
    <3>1. DOMAIN uploads = 1..Len(uploads) /\ \A i \in 1..Len(uploads) : uploads[i] \in Names \cup {Gone}
      BY LenProperties, ElementOfSeq DEF SfTypeInv, SfTypeOK
    <3> QED BY <3>1 DEF Range
  <2> QED BY <2>1 DEF Waiting
<1> QED BY <1>1, NoPathAssumption DEF WaitingInv, SfTypeInv, ViewInv, Pending, Waiting

(* Every step keeps SaveInv.                                               *)
LEMMA SaveStep == SfTypeInv /\ OwnInv /\ SaveInv /\ [SfNext]_sfVars => SaveInv'
<1> SUFFICES ASSUME SfTypeInv, OwnInv, SaveInv, [SfNext]_sfVars, ~mixed', ~badFetch'
             PROVE  (\A p \in Paths : FileOK(p)') /\ (\A n \in Names : CopyOK(n)') /\ TransferOK'
  BY DEF SaveInv
<1>a. SfTypeOK /\ ViewInv /\ WaitingInv
  BY WaitingOpen DEF SfTypeInv
<1>b. WaitingInv'
  BY SfTypeStep, WaitingOpen, PTL
<1>c. ASSUME ~mixed, ~badFetch
      PROVE  (\A p \in Paths : FileOK(p)) /\ (\A n \in Names : CopyOK(n)) /\ TransferOK
  BY <1>c DEF SaveInv
<1>d. transfer = NoTransfer => \A p \in Paths : transfer.path # p
  BY NoPathAssumption DEF NoTransfer
<1> DEFINE Goal == (\A p \in Paths : FileOK(p)') /\ (\A n \in Names : CopyOK(n)') /\ TransferOK'
<1>1. ASSUME NEW p \in Paths, Fetch(p) PROVE Goal
  <2> DEFINE n == BaseName[p]
  <2>1. /\ ~mixed /\ ~badFetch /\ ~Pending(p) /\ remote[p] # Cut
        /\ UNCHANGED <<remote, uploads, transfer, saved, lostSave>>
        /\ n \in Names /\ (editor[n] # "closed" => dest[n] = p)
        /\ (transfer.name = n => transfer.path = p)
    BY <1>1, Constants DEF Fetch, Opened
  <2>2. /\ local' = [local EXCEPT ![n] = remote[p]]
        /\ dest' = [dest EXCEPT ![n] = p]
        /\ editor' = [editor EXCEPT ![n] = IF @ = "closed" THEN "clean" ELSE @]
        /\ buffer' = [buffer EXCEPT ![n] = IF editor[n] = "dirty" THEN @ ELSE remote[p]]
    BY <1>1 DEF Fetch, Opened
  <2> HIDE DEF n
  <2>3. n \notin Waiting /\ Waiting' = Waiting
    BY <1>a, <2>1 DEF WaitingInv, Waiting
  <2>4. \A m \in Waiting : dest'[m] = dest[m] /\ local'[m] = local[m]
    BY <1>a, <2>2, <2>3 DEF WaitingInv, SfTypeOK
  <2>5. remote[p] \in Content
    BY <1>c, <2>1 DEF FileOK
  <2>6. \A q \in Paths : FileOK(q)'
    <3>1. \A q \in Paths : Pending(q) <=> Pending(q)'
      BY <1>a, <1>b, <2>1, <2>3, <2>4 DEF WaitingInv
    <3> QED BY <1>c, <2>1, <3>1 DEF FileOK
  <2>7. \A m \in Names : CopyOK(m)'
    BY <1>a, <1>c, <2>1, <2>2, <2>3, <2>4, <2>5 DEF CopyOK, SfTypeOK
  <2>8. TransferOK'
    <3>1. transfer.name # n
      BY <2>1, <1>a DEF WaitingInv
    <3> QED BY <1>a, <1>c, <2>1, <2>2, <2>3, <2>4, <3>1, TransferIs DEF TransferOK, SfTypeOK
  <2> QED BY <2>6, <2>7, <2>8
<1>2. ASSUME NEW p \in Paths, FetchFails(p) PROVE Goal
  BY <1>2 DEF FetchFails
<1>3. ASSUME NEW p \in Paths, FetchRaises(p) PROVE Goal
  BY <1>3 DEF FetchRaises
\* Steps that change neither a file nor who is waiting for what.
<1>e. ASSUME ~mixed, ~badFetch,
             UNCHANGED <<remote, local, dest, uploads, transfer, saved, lostSave>>,
             \A n \in Names : editor'[n] # "closed" => editor[n] # "closed" /\ buffer'[n] \in Content
      PROVE  Goal
  <2>1. Waiting' = Waiting /\ \A p \in Paths : Pending(p)' = Pending(p)
    BY <1>e DEF Waiting, Pending
  <2> QED BY <1>c, <1>e, <2>1 DEF FileOK, CopyOK, TransferOK
<1>4. ASSUME NEW n \in Names, EditCopy(n) PROVE Goal
  <2>1. edits + 1 \in 0..MaxEdits
    BY <1>4, <1>a, SftpBoundsAssumption DEF EditCopy, SfTypeOK
  <2>2. (IF buffer[n].of = NoPath THEN dest[n] ELSE buffer[n].of) \in Paths
    BY <1>4, <1>a, Constants DEF EditCopy, SfTypeOK, ViewInv
  <2>3. buffer'[n] \in Content
    BY <1>4, <1>a, <2>1, <2>2 DEF EditCopy, SfTypeOK, Content
  <2> QED BY <1>4, <1>a, <1>c, <1>e, <2>3 DEF EditCopy, SfTypeOK, CopyOK
<1>5. ASSUME NEW n \in Names, Save(n) PROVE Goal
  <2> DEFINE q == dest[n]
  <2>1. /\ ~mixed /\ ~badFetch /\ UNCHANGED <<remote, dest, transfer, buffer>>
        /\ local' = [local EXCEPT ![n] = buffer[n]]
        /\ saved' = [saved EXCEPT ![q] = buffer[n]]
        /\ lostSave' = lostSave \ {q}
        /\ editor' = [editor EXCEPT ![n] = "clean"]
        /\ editor[n] # "closed" /\ q \in Paths /\ BaseName[q] = n
    BY <1>5, <1>a DEF Save, ViewInv
  <2>2. Waiting' = Waiting \cup {n}
    <3>1. Range(uploads') = Range(uploads) \cup {n}
      BY <1>5, <1>a, QueueAppend DEF Save, SfTypeOK
    <3> QED BY <3>1, Constants DEF Waiting
  <2> HIDE DEF q
  <2>3. \A m \in Waiting : dest[m] = q => m = n
    BY <1>a, <2>1 DEF WaitingInv
  <2>4. dest'[n] = q
    BY <2>1 DEF q
  <2>5. \A p \in Paths : p # q => saved'[p] = saved[p]
    BY <1>a, <2>1 DEF SfTypeOK
  <2>6. \A p \in Paths : Pending(p)' <=> Pending(p) \/ p = q
    BY <1>a, <1>b, <2>1, <2>2, <2>4 DEF WaitingInv
  <2>7. \A p \in Paths : FileOK(p)'
    BY <1>c, <2>1, <2>5, <2>6 DEF FileOK
  <2>8. \A m \in Names : CopyOK(m)'
    <3>1. CopyOK(n)'
      BY <1>a, <1>c, <2>1, <2>4 DEF CopyOK, SfTypeOK
    <3>2. ASSUME NEW m \in Names, m # n PROVE CopyOK(m)'
      BY <1>a, <1>c, <2>1, <2>2, <2>3, <2>5, <3>2 DEF CopyOK, SfTypeOK, WaitingInv
    <3> QED BY <3>1, <3>2
  <2>9. TransferOK'
    <3> SUFFICES ASSUME transfer # NoTransfer PROVE TransferOK'
      BY <2>1 DEF TransferOK
    <3>1. CASE transfer.path = q
      <4>1. local'[transfer.name] \in Content
        BY <1>a, <1>c, <2>1, TransferIs DEF SfTypeOK, TransferOK, CopyOK
      <4> QED BY <1>c, <2>1, <2>2, <2>4, <3>1, <4>1 DEF TransferOK
    <3>2. CASE transfer.path # q
      <4>1. saved'[transfer.path] = saved[transfer.path]
        BY <2>5, <3>2, TransferIs
      <4>2. transfer.name # n
        BY <2>1, <3>2 DEF OwnInv, q
      <4>3. local'[transfer.name] = local[transfer.name]
        BY <1>a, <2>1, <4>2, TransferIs DEF SfTypeOK
      <4> QED BY <1>c, <2>1, <2>2, <3>2, <4>1, <4>3 DEF TransferOK
    <3> QED BY <3>1, <3>2
  <2> QED BY <2>7, <2>8, <2>9
<1>6. CASE BeginUpload
  <2> DEFINE n == Head(uploads)
  <2>1. /\ n \in Names \cup {Gone} /\ (n # Gone => dest[n] \in Paths)
        /\ Range(uploads) = {n} \cup Range(uploads')
        /\ ~mixed /\ ~badFetch /\ transfer = NoTransfer
        /\ UNCHANGED <<local, dest, editor, buffer, saved>>
    BY <1>6, BeginQueue DEF BeginUpload
  <2>2. \/ n = Gone /\ UNCHANGED <<transfer, remote, lostSave>>
        \/ /\ n # Gone /\ UNCHANGED lostSave
           /\ transfer' = [name |-> n, path |-> dest[n], content |-> local[n]]
           /\ remote' = [remote EXCEPT ![dest[n]] = Cut]
        \/ /\ n # Gone /\ UNCHANGED <<transfer, remote>>
           /\ lostSave' = lostSave \cup {dest[n]}
    BY <1>6 DEF BeginUpload
  <2> HIDE DEF n
  <2>3. /\ Waiting' \subseteq Waiting /\ Waiting \subseteq Waiting' \cup {n}
        /\ n # Gone => n \in Waiting
        /\ n = Gone => Waiting' = Waiting
    BY <2>1 DEF Waiting
  <2>4. \A m \in Names : CopyOK(m)'
    BY <1>c, <2>1, <2>3 DEF CopyOK
  <2>5. CASE transfer' = NoTransfer
    <3>1. UNCHANGED remote /\ (n # Gone => lostSave' = lostSave \cup {dest[n]})
          /\ (n = Gone => UNCHANGED lostSave)
      BY <2>1, <2>2, <2>5, NoPathAssumption DEF NoTransfer
    <3>2. \A p \in Paths : Pending(p) => Pending(p)' \/ (n # Gone /\ p = dest[n])
      BY <1>a, <1>b, <1>d, <2>1, <2>3, <2>5 DEF WaitingInv
    <3>3. \A p \in Paths : FileOK(p)'
      BY <1>c, <2>1, <3>1, <3>2 DEF FileOK
    <3> QED BY <2>4, <2>5, <3>3 DEF TransferOK
  <2>6. CASE transfer' # NoTransfer
    <3>1. /\ n # Gone /\ UNCHANGED lostSave /\ dest[n] \in Paths
          /\ transfer'.path = dest[n] /\ transfer'.content = local[n]
          /\ transfer'.name = n
          /\ remote' = [remote EXCEPT ![dest[n]] = Cut]
      BY <2>1, <2>2, <2>6
    <3>2. \A p \in Paths : Pending(p)' <=> Pending(p)
      BY <1>a, <1>b, <1>d, <2>1, <2>3, <3>1 DEF WaitingInv
    <3>3. \A p \in Paths : p = dest[n] => Pending(p)'
      BY <1>b, <3>1 DEF WaitingInv
    <3>4. \A p \in Paths : p # dest[n] => remote'[p] = remote[p]
      BY <1>a, <3>1 DEF SfTypeOK
    <3>5. remote'[dest[n]] = Cut
      BY <1>a, <3>1 DEF SfTypeOK
    <3>6. ASSUME NEW p \in Paths PROVE FileOK(p)'
      <4>1. CASE p = dest[n]
        BY <3>3, <3>5, <4>1 DEF FileOK
      <4>2. CASE p # dest[n]
        BY <1>c, <2>1, <3>1, <3>2, <3>4, <4>2 DEF FileOK
      <4> QED BY <4>1, <4>2
    <3>7. n \in Names /\ editor[n] # "closed" /\ n \in Waiting
      BY <1>a, <2>3, <3>1 DEF WaitingInv
    <3>8. local[n] \in Content /\ local[n] = saved[dest[n]]
      BY <1>c, <2>1, <3>7 DEF CopyOK
    <3>9. TransferOK'
      BY <2>1, <3>1, <3>8 DEF TransferOK
    <3> QED BY <2>4, <3>6, <3>9
  <2> QED BY <2>5, <2>6
<1>7. CASE EndUpload
  <2>1. PICK content \in {transfer.content, local[transfer.name]} :
          remote' = [remote EXCEPT ![transfer.path] = content]
    BY <1>7 DEF EndUpload
  <2>2. /\ ~mixed /\ ~badFetch /\ transfer # NoTransfer /\ transfer' = NoTransfer
        /\ UNCHANGED <<local, editor, buffer, dest, uploads, saved, lostSave>>
        /\ transfer.path \in Paths /\ transfer.name \in Names
    BY <1>7, TransferIs DEF EndUpload
  <2>3. Waiting' = Waiting /\ \A p \in Paths :
          /\ p # transfer.path => (Pending(p)' <=> Pending(p)) /\ remote'[p] = remote[p]
          /\ (Pending(p)' <=> \E n \in Waiting : dest[n] = p)
    <3>1. Waiting' = Waiting
      BY <2>2 DEF Waiting
    <3>2. \A p \in Paths : transfer'.path # p
      BY <2>2, NoPathAssumption DEF NoTransfer
    <3>3. \A p \in Paths : p # transfer.path => remote'[p] = remote[p]
      BY <1>a, <2>1, <2>2 DEF SfTypeOK
    <3> QED BY <1>a, <1>b, <2>2, <3>1, <3>2, <3>3 DEF WaitingInv
  <2>4. remote'[transfer.path] = content
    BY <1>a, <2>1, <2>2 DEF SfTypeOK
  <2>5. content \in Content
    BY <1>c, <2>1, <2>2 DEF TransferOK
  <2>6. transfer.path \notin lostSave =>
          content = saved[transfer.path] \/ \E n \in Waiting : dest[n] = transfer.path
    BY <1>c, <2>1, <2>2 DEF TransferOK
  <2>7. content # Cut
    BY <2>5, Constants
  <2>8. ASSUME NEW p \in Paths PROVE FileOK(p)'
    <3>1. CASE p = transfer.path
      BY <2>2, <2>3, <2>4, <2>5, <2>6, <2>7, <3>1 DEF FileOK
    <3>2. CASE p # transfer.path
      BY <1>c, <2>2, <2>3, <3>2 DEF FileOK
    <3> QED BY <3>1, <3>2
  <2> QED BY <1>c, <2>2, <2>3, <2>8 DEF CopyOK, TransferOK
<1>8. CASE UploadFails
  <2>1. /\ ~mixed /\ ~badFetch /\ transfer # NoTransfer /\ transfer' = NoTransfer
        /\ UNCHANGED <<remote, local, editor, buffer, dest, uploads, saved>>
        /\ lostSave' = lostSave \cup {transfer.path}
    BY <1>8 DEF UploadFails
  <2>2. Waiting' = Waiting
    BY <2>1 DEF Waiting
  <2>3. \A p \in Paths : Pending(p) => Pending(p)' \/ p = transfer.path
    BY <1>a, <1>b, <2>1, <2>2 DEF WaitingInv
  <2>4. \A p \in Paths : FileOK(p)'
    BY <1>c, <2>1, <2>3 DEF FileOK
  <2> QED BY <1>c, <2>1, <2>2, <2>4 DEF CopyOK, TransferOK
<1>9. ASSUME NEW n \in Names, CloseEditor(n) PROVE Goal
  <2>1. /\ ~mixed /\ ~badFetch /\ UNCHANGED <<remote, saved>>
        /\ lostSave' = lostSave \cup (IF n \in Range(uploads) THEN {dest[n]} ELSE {})
        /\ editor'[n] = "closed"
        /\ \A m \in Names \ {n} : UNCHANGED <<editor[m], local[m], buffer[m], dest[m]>>
    BY <1>9, <1>a DEF CloseEditor, SfTypeOK
  <2>2. Waiting' = Waiting \ {n}
    BY <1>9, <1>a, QueueGone DEF CloseEditor, SfTypeOK, Waiting
  <2>3. n \in Waiting <=> n \in Range(uploads)
    BY Constants DEF Waiting
  <2>4. UNCHANGED transfer /\ (transfer.name = n => local'[n] = local[n])
    BY <1>9, <1>a DEF CloseEditor, SfTypeOK
  <2>5. \A p \in Paths : Pending(p) => Pending(p)' \/ p \in lostSave'
    BY <1>a, <1>b, <2>1, <2>2, <2>3, <2>4 DEF WaitingInv
  <2>6. \A p \in Paths : FileOK(p)'
    BY <1>c, <2>1, <2>5 DEF FileOK
  <2>7. \A m \in Names : CopyOK(m)'
    BY <1>c, <2>1, <2>2 DEF CopyOK
  <2>8. TransferOK'
    <3> SUFFICES ASSUME transfer # NoTransfer, transfer' # NoTransfer PROVE TransferOK'
      BY <2>4 DEF TransferOK
    <3>1. transfer.name \in Names
      BY TransferIs
    <3>2. transfer.path \notin lostSave' /\ (\A m \in Waiting' : dest'[m] # transfer.path)
            => transfer.path \notin lostSave /\ \A m \in Waiting : dest[m] # transfer.path
      BY <1>a, <2>1, <2>2, <2>3 DEF WaitingInv
    <3>3. local'[transfer.name] = local[transfer.name]
      BY <2>1, <2>4, <3>1
    <3> QED BY <1>c, <2>1, <2>4, <3>2, <3>3 DEF TransferOK
  <2> QED BY <2>6, <2>7, <2>8
<1>10. CASE CloseRepl
  BY <1>10, <1>c, <1>e DEF CloseRepl, CopyOK
<1>11. CASE UNCHANGED sfVars
  BY <1>11, <1>c, <1>e DEF sfVars, CopyOK
<1> QED
  BY <1>1, <1>2, <1>3, <1>4, <1>5, <1>6, <1>7, <1>8, <1>9, <1>10, <1>11 DEF SfNext

(* Every step keeps CopiesRemoved.                                         *)
LEMMA CopiesStep == SfTypeInv /\ CopiesRemoved /\ [SfNext]_sfVars => CopiesRemoved'
<1> SUFFICES ASSUME SfTypeInv, CopiesRemoved, [SfNext]_sfVars PROVE CopiesRemoved'
  OBVIOUS
<1> USE DEF CopiesRemoved, SfTypeInv, SfTypeOK
<1>1. ASSUME NEW p \in Paths, Fetch(p) PROVE CopiesRemoved'
  BY <1>1, Constants DEF Fetch, Opened
<1>2. ASSUME NEW p \in Paths, FetchFails(p) \/ FetchRaises(p) PROVE CopiesRemoved'
  BY <1>2 DEF FetchFails, FetchRaises
<1>3. ASSUME NEW n \in Names, EditCopy(n) \/ Save(n) PROVE CopiesRemoved'
  BY <1>3 DEF EditCopy, Save
<1>4. CASE BeginUpload \/ EndUpload \/ UploadFails \/ CloseRepl
  BY <1>4 DEF BeginUpload, EndUpload, UploadFails, CloseRepl
<1>5. ASSUME NEW n \in Names, CloseEditor(n) PROVE CopiesRemoved'
  BY <1>5 DEF CloseEditor
<1>6. CASE UNCHANGED sfVars
  BY <1>6 DEF sfVars
<1> QED BY <1>1, <1>2, <1>3, <1>4, <1>5, <1>6 DEF SfNext

(* As long as no copies of two files are mixed and no download goes wrong,  *)
(* no order of editing, saving and closing damages a remote file, loses a   *)
(* save unseen, or leaves a copy behind, whatever uploads break; and        *)
(* contents of one file never get into another one.                         *)
THEOREM FilesSafe == SfSpec => []FilesAreSafe
<1>1. SfInit => CopiesRemoved
  BY DEF SfInit, CopiesRemoved
<1>2. SfSpec => [](SfTypeInv /\ OwnInv /\ SaveInv /\ CopiesRemoved)
  BY <1>1, SfTypeInit, SfTypeStep, OwnInit, OwnStep, SaveInit, SaveStep, CopiesStep, PTL
  DEF SfSpec
<1>3. OwnInv => OwnContent
  BY DEF OwnInv, OwnContent
<1>4. SfTypeInv /\ SaveInv => NoDamage /\ SavesArrive
  BY Constants DEF SaveInv, FileOK, NoDamage, SavesArrive
<1> QED BY <1>2, <1>3, <1>4, PTL DEF FilesAreSafe
-----------------------------------------------------------------------------
(* Tab: prefixes, and what names have in common.                           *)

(* What it means to be a prefix, letter by letter.                         *)
LEMMA PrefixIs ==
  ASSUME NEW A, NEW s \in Seq(A), NEW t \in Seq(A)
  PROVE  IsPrefix(s, t) <=> Len(s) <= Len(t) /\ \A i \in 1..Len(s) : s[i] = t[i]
<1> DEFINE m == Len(s)
           n == Len(t)
<1>1. m \in Nat /\ n \in Nat
  BY LenProperties
<1>2. SubSeq(s, 1, m) \in Seq(A) /\ Len(SubSeq(s, 1, m)) = m
      /\ \A i \in 1..m : SubSeq(s, 1, m)[i] = s[i]
  BY <1>1
<1>3. ASSUME m <= n
      PROVE  SubSeq(t, 1, m) \in Seq(A) /\ Len(SubSeq(t, 1, m)) = m
             /\ \A i \in 1..m : SubSeq(t, 1, m)[i] = t[i]
  BY <1>1, <1>3
<1>4. ASSUME m <= n, \A i \in 1..m : s[i] = t[i]
      PROVE  SubSeq(s, 1, m) = SubSeq(t, 1, m)
  <2> DEFINE u == SubSeq(s, 1, m)
             v == SubSeq(t, 1, m)
  <2>1. /\ u \in Seq(A) /\ v \in Seq(A) /\ Len(u) = Len(v)
        /\ \A i \in 1..Len(u) : u[i] = v[i]
    BY <1>2, <1>3, <1>4
  <2> HIDE DEF u, v
  <2>2. u = v
    BY <2>1, SeqEqual
  <2> QED BY <2>2 DEF u, v
<1>5. ASSUME m <= n, SubSeq(s, 1, m) = SubSeq(t, 1, m)
      PROVE  \A i \in 1..m : s[i] = t[i]
  BY <1>2, <1>3, <1>5
<1> QED BY <1>4, <1>5 DEF IsPrefix

\* The first j letters of the first name are those of all names.
Shared(names, j) ==
  \A k \in 1..Len(names) : IsPrefix(SubSeq(names[1], 1, j), names[k])

\* c is the beginning of the first name that all names have, and the longest.
LongestShared(names, c) ==
  \E m \in 0..Len(names[1]) :
    /\ c = SubSeq(names[1], 1, m) /\ Shared(names, m)
    /\ \A j \in 0..Len(names[1]) : Shared(names, j) => j <= m

\* The same of the first i letters.
SharedUpTo(names, c, i) ==
  \E m \in 0..i :
    /\ c = SubSeq(names[1], 1, m) /\ Shared(names, m)
    /\ \A j \in 0..i : Shared(names, j) => j <= m

(* The letters of a beginning of a text.                                   *)
LEMMA Beginning ==
  ASSUME NEW A, NEW t \in Seq(A), NEW j \in 0..Len(t)
  PROVE  /\ SubSeq(t, 1, j) \in Seq(A) /\ Len(SubSeq(t, 1, j)) = j
         /\ \A i \in 1..j : SubSeq(t, 1, j)[i] = t[i]
<1>1. Len(t) \in Nat /\ j \in Nat /\ j <= Len(t)
  BY LenProperties
<1> QED BY <1>1

(* What names share, letter by letter; with j letters they share fewer.    *)
LEMMA SharedIs ==
  ASSUME NEW A, NEW names \in Seq(Seq(A)), names # <<>>, NEW j \in 0..Len(names[1])
  PROVE  /\ Shared(names, j) <=>
              \A k \in 1..Len(names) :
                j <= Len(names[k]) /\ \A i \in 1..j : names[1][i] = names[k][i]
         /\ \A l \in 0..j : Shared(names, j) => Shared(names, l)
<1>1. /\ \A k \in 1..Len(names) : names[k] \in Seq(A) /\ Len(names[k]) \in Nat
      /\ Len(names) \in Nat \ {0} /\ 1 \in 1..Len(names)
  BY LenProperties, EmptySeq, ElementOfSeq
<1>2. ASSUME NEW l \in 0..Len(names[1])
      PROVE  Shared(names, l) <=>
               \A k \in 1..Len(names) :
                 l <= Len(names[k]) /\ \A i \in 1..l : names[1][i] = names[k][i]
  <2>1. /\ SubSeq(names[1], 1, l) \in Seq(A) /\ Len(SubSeq(names[1], 1, l)) = l
        /\ \A i \in 1..l : SubSeq(names[1], 1, l)[i] = names[1][i]
    BY <1>1, Beginning
  <2> DEFINE b == SubSeq(names[1], 1, l)
  <2>2. ASSUME NEW k \in 1..Len(names)
        PROVE  IsPrefix(b, names[k]) <=>
                 l <= Len(names[k]) /\ \A i \in 1..l : names[1][i] = names[k][i]
    <3>1. b \in Seq(A) /\ names[k] \in Seq(A)
      BY <1>1, <2>1
    <3> HIDE DEF b
    <3>2. IsPrefix(b, names[k]) <=>
            Len(b) <= Len(names[k]) /\ \A i \in 1..Len(b) : b[i] = names[k][i]
      BY <3>1, PrefixIs
    <3> QED BY <2>1, <3>2 DEF b
  <2> QED BY <2>2 DEF Shared
<1>3. ASSUME NEW l \in 0..j, Shared(names, j) PROVE Shared(names, l)
  <2>1. l \in 0..Len(names[1]) /\ l <= j /\ j \in Nat /\ l \in Nat
    BY <1>1, <1>3
  <2>2. \A k \in 1..Len(names) :
          j <= Len(names[k]) /\ \A i \in 1..j : names[1][i] = names[k][i]
    BY <1>2, <1>3
  <2>3. \A k \in 1..Len(names) :
          l <= Len(names[k]) /\ \A i \in 1..l : names[1][i] = names[k][i]
    BY <1>1, <2>1, <2>2
  <2> QED BY <1>2, <2>1, <2>3
<1> QED BY <1>2, <1>3

(* One letter more: the step of _common_prefix's loop.                     *)
LEMMA SharedNext ==
  ASSUME NEW A, NEW names \in Seq(Seq(A)), names # <<>>, NEW i \in 1..Len(names[1]),
         NEW q, SharedUpTo(names, q, i - 1)
  PROVE  SharedUpTo(names,
                    IF Len(q) = i - 1 /\ \A k \in 1..Len(names) : IsPrefix(Append(q, names[1][i]), names[k])
                      THEN Append(q, names[1][i]) ELSE q, i)
<1> DEFINE t == names[1]
           n == Len(t)
<1>1. t \in Seq(A) /\ n \in Nat /\ i \in Nat /\ i >= 1 /\ i <= n
  BY LenProperties, EmptySeq, ElementOfSeq
<1>2. PICK m \in 0..(i - 1) : /\ q = SubSeq(t, 1, m) /\ Shared(names, m)
                              /\ \A j \in 0..(i - 1) : Shared(names, j) => j <= m
  BY DEF SharedUpTo
<1>3. m \in 0..n /\ m \in Nat /\ m <= i - 1
  BY <1>1, <1>2
<1>4. Len(q) = m /\ q \in Seq(A) /\ \A k \in 1..m : q[k] = t[k]
  BY <1>1, <1>2, <1>3, Beginning
<1>5. m = i - 1 => Append(q, t[i]) = SubSeq(t, 1, i)
  <2> SUFFICES ASSUME m = i - 1 PROVE Append(q, t[i]) = SubSeq(t, 1, i)
    OBVIOUS
  <2>0. i \in 0..n /\ t[i] \in A
    BY <1>1, ElementOfSeq
  <2>1. /\ SubSeq(t, 1, i) \in Seq(A) /\ Len(SubSeq(t, 1, i)) = i
        /\ \A k \in 1..i : SubSeq(t, 1, i)[k] = t[k]
    BY <1>1, <2>0, Beginning
  <2>2. /\ Append(q, t[i]) \in Seq(A) /\ Len(Append(q, t[i])) = Len(q) + 1
        /\ \A k \in 1..(Len(q) + 1) :
             Append(q, t[i])[k] = IF k <= Len(q) THEN q[k] ELSE t[i]
    BY <1>4, <2>0, AppendProperties
  <2> DEFINE u == Append(q, t[i])
             v == SubSeq(t, 1, i)
  <2>3. Len(u) = i /\ Len(v) = i
    BY <1>1, <1>4, <2>1, <2>2
  <2>4. \A k \in 1..i : u[k] = v[k]
    <3> TAKE k \in 1..i
    <3>1. k \in 1..(m + 1) /\ v[k] = t[k] /\ (k <= m => k \in 1..m) /\ (~(k <= m) => k = i)
      BY <1>1, <1>3, <2>1
    <3>2. u[k] = IF k <= m THEN q[k] ELSE t[i]
      BY <1>4, <2>2, <3>1
    <3> HIDE DEF u, v
    <3> QED BY <1>4, <3>1, <3>2
  <2>5. u \in Seq(A) /\ v \in Seq(A)
    BY <2>1, <2>2
  <2> HIDE DEF u, v
  <2>6. u = v
    BY <2>3, <2>4, <2>5, SeqEqual
  <2> QED BY <2>6 DEF u, v
<1>6. CASE Len(q) = i - 1 /\ \A k \in 1..Len(names) : IsPrefix(Append(q, names[1][i]), names[k])
  <2>1. m = i - 1 /\ Append(q, t[i]) = SubSeq(t, 1, i)
    BY <1>4, <1>5, <1>6
  <2>2. Shared(names, i)
    BY <1>6, <2>1 DEF Shared
  <2>3. i \in 0..i /\ \A j \in 0..i : j <= i
    BY <1>1
  <2>4. SharedUpTo(names, Append(q, t[i]), i)
    BY <2>1, <2>2, <2>3 DEF SharedUpTo
  <2> QED BY <1>6, <2>4
<1>7. CASE ~(Len(q) = i - 1 /\ \A k \in 1..Len(names) : IsPrefix(Append(q, names[1][i]), names[k]))
  <2>1. ~Shared(names, i)
    <3> SUFFICES ASSUME Shared(names, i) PROVE FALSE
      OBVIOUS
    <3>0. i \in 0..Len(names[1]) /\ i - 1 \in 0..i /\ i - 1 \in 0..(i - 1)
      BY <1>1
    <3>1. Shared(names, i - 1)
      BY <3>0, SharedIs
    <3>2. m = i - 1
      BY <1>1, <1>2, <1>3, <3>0, <3>1
    <3>3. Append(q, names[1][i]) = SubSeq(names[1], 1, i)
      BY <1>5, <3>2
    <3>4. \A k \in 1..Len(names) : IsPrefix(Append(q, names[1][i]), names[k])
      BY <3>3 DEF Shared
    <3> QED BY <1>4, <1>7, <3>2, <3>4
  <2>2. \A j \in 0..i : Shared(names, j) => j <= m
    <3> TAKE j \in 0..i
    <3>1. j = i \/ j \in 0..(i - 1)
      BY <1>1
    <3> QED BY <1>2, <2>1, <3>1
  <2>3. m \in 0..i
    BY <1>1, <1>3
  <2>4. SharedUpTo(names, q, i)
    BY <1>2, <2>2, <2>3 DEF SharedUpTo
  <2> QED BY <1>7, <2>4
<1> QED BY <1>6, <1>7

(* _common_prefix returns the longest beginning that all names share.      *)
LEMMA CommonPrefixIs ==
  ASSUME NEW A, NEW names \in Seq(Seq(A)), names # <<>>
  PROVE  LongestShared(names, CommonPrefix(names))
<1> DEFINE t == names[1]
           n == Len(t)
           More(q, i) == IF Len(q) = i - 1
                            /\ \A k \in 1..Len(names) : IsPrefix(Append(q, names[1][i]), names[k])
                           THEN Append(q, names[1][i]) ELSE q
           Unfold(f, i) == IF i = 0 THEN <<>> ELSE More(f[i - 1], i)
           F == CHOOSE f : f = [i \in 0..n |-> Unfold(f, i)]
<1>1. CommonPrefix(names) = F[n]
  BY DEF CommonPrefix
<1>2. /\ t \in Seq(A) /\ n \in Nat /\ \A i \in 1..n : t[i] \in A
      /\ Len(names) \in Nat /\ \A k \in 1..Len(names) : names[k] \in Seq(A)
  BY LenProperties, EmptySeq, ElementOfSeq
<1>3. \A q \in Seq(A), i \in 1..n : More(q, i) \in Seq(A)
  BY <1>2, AppendProperties
<1>4. <<>> \in Seq(A)
  BY EmptySeq
<1> HIDE DEF More
<1>5. \E f : f = [i \in 0..n |-> Unfold(f, i)]
  <2> DEFINE step == [p \in Seq(A) \X (1..n) |-> More(p[1], p[2])]
  <2>1. step \in [Seq(A) \X (1..n) -> Seq(A)]
    BY <1>3
  <2>2. \A q \in Seq(A), i \in 1..n : step[<<q, i>>] = More(q, i)
    OBVIOUS
  <2> DEFINE Texts == Seq(A)
             empty == <<>>
  <2>3. PICK f \in [0..n -> Texts] :
          f[0] = empty /\ \A i \in 1..n : f[i] = step[<<f[i - 1], i>>]
    <3>1. n \in Nat
      BY <1>2
    <3>2. empty \in Texts
      BY <1>4
    <3>3. step \in [Texts \X (1..n) -> Texts]
      BY <2>1
    <3> HIDE DEF step, Texts, n, empty
    <3>4. PICK f \in [0..n -> Texts] : Recursive(f, empty, step, n)
      BY <3>1, <3>2, <3>3, PrimitiveRecursion
    <3> QED BY <3>4 DEF Recursive
  <2> HIDE DEF step
  <2>4. \A i \in 1..n : i - 1 \in 0..n /\ f[i - 1] \in Seq(A)
    <3>1. \A i \in 1..n : i - 1 \in 0..n
      BY <1>2
    <3> HIDE DEF Texts, n
    <3>2. \A i \in 1..n : f[i - 1] \in Texts
      BY <2>3, <3>1
    <3> QED BY <3>1, <3>2 DEF Texts
  <2>5. \A i \in 1..n : f[i] = More(f[i - 1], i)
    BY <2>2, <2>3, <2>4
  <2>6. \A i \in 0..n : f[i] = Unfold(f, i)
    <3> TAKE i \in 0..n
    <3>1. i = 0 \/ i \in 1..n
      BY <1>2
    <3> QED BY <2>3, <2>5, <3>1, <1>2
  <2>7. f = [i \in 0..n |-> Unfold(f, i)]
    <3>1. f = [i \in 0..n |-> f[i]]
      BY <2>3
    <3> QED BY <2>6, <3>1
  <2> QED BY <2>7
<1>6. F = [i \in 0..n |-> Unfold(F, i)]
  BY <1>5
<1> HIDE DEF F
<1>7. F[0] = <<>> /\ \A i \in 1..n : F[i] = More(F[i - 1], i)
  <2>1. 0 \in 0..n /\ \A i \in 1..n : i \in 0..n /\ i # 0
    BY <1>2
  <2>2. \A i \in 0..n : F[i] = Unfold(F, i)
    <3> HIDE DEF Unfold
    <3> QED BY <1>6
  <2> QED BY <2>1, <2>2
<1> DEFINE S == {i \in Nat : i <= n => SharedUpTo(names, F[i], i)}
<1>8. 0 \in S
  <2>1. SubSeq(t, 1, 0) = <<>>
    BY <1>2
  <2>2. \A k \in 1..Len(names) : IsPrefix(<<>>, names[k])
    <3> TAKE k \in 1..Len(names)
    <3>1. Len(<<>>) = 0 /\ Len(names[k]) \in Nat
      BY <1>2, LenProperties, EmptySeq
    <3>2. SubSeq(<<>>, 1, 0) = <<>> /\ SubSeq(names[k], 1, 0) = <<>>
      BY <1>2, <1>4
    <3> QED BY <3>1, <3>2 DEF IsPrefix
  <2>3. Shared(names, 0)
    BY <2>1, <2>2 DEF Shared
  <2>4. SharedUpTo(names, F[0], 0)
    BY <1>7, <2>1, <2>3 DEF SharedUpTo
  <2> QED BY <2>4
<1>9. ASSUME NEW i \in S PROVE i + 1 \in S
  <2> SUFFICES ASSUME i + 1 <= n PROVE SharedUpTo(names, F[i + 1], i + 1)
    OBVIOUS
  <2>1. i + 1 \in 1..n /\ (i + 1) - 1 = i /\ SharedUpTo(names, F[i], i)
    BY <1>2
  <2>2. SharedUpTo(names, F[i], (i + 1) - 1)
    BY <2>1
  <2>3. SharedUpTo(names, More(F[i], i + 1), i + 1)
    BY <2>1, <2>2, SharedNext DEF More
  <2>4. F[i + 1] = More(F[i], i + 1)
    BY <1>7, <2>1
  <2> QED BY <2>3, <2>4
<1>10. S = Nat
  <2>1. S \in SUBSET Nat
    OBVIOUS
  <2> HIDE DEF S
  <2> QED BY <1>8, <1>9, <2>1, SetInduction
<1>11. SharedUpTo(names, F[n], n)
  BY <1>2, <1>10
<1> QED BY <1>1, <1>11 DEF SharedUpTo, LongestShared

(* So it is a beginning of every name, and every other one is a beginning  *)
(* of it.                                                                  *)
LEMMA SharedByAll ==
  ASSUME NEW A, NEW names \in Seq(Seq(A)), names # <<>>, NEW c, LongestShared(names, c)
  PROVE  /\ c \in Seq(A) /\ Len(c) <= Len(names[1])
         /\ \A k \in 1..Len(names) : IsPrefix(c, names[k])
         /\ \A w \in Seq(A) : (\A k \in 1..Len(names) : IsPrefix(w, names[k])) => IsPrefix(w, c)
<1> DEFINE t == names[1]
<1>1. /\ t \in Seq(A) /\ Len(t) \in Nat /\ Len(names) \in Nat \ {0} /\ 1 \in 1..Len(names)
  BY LenProperties, EmptySeq, ElementOfSeq
<1>2. PICK m \in 0..Len(t) : /\ c = SubSeq(t, 1, m) /\ Shared(names, m)
                             /\ \A j \in 0..Len(t) : Shared(names, j) => j <= m
  BY DEF LongestShared
<1>3. c \in Seq(A) /\ Len(c) = m /\ \A i \in 1..m : c[i] = t[i]
  BY <1>1, <1>2, Beginning
<1>4. \A k \in 1..Len(names) : IsPrefix(c, names[k])
  BY <1>2 DEF Shared
<1>5. ASSUME NEW w \in Seq(A), \A k \in 1..Len(names) : IsPrefix(w, names[k])
      PROVE  IsPrefix(w, c)
  <2>0. IsPrefix(w, t)
    BY <1>1, <1>5
  <2>1. Len(w) \in Nat /\ Len(w) <= Len(t) /\ \A i \in 1..Len(w) : w[i] = t[i]
    BY <1>1, <2>0, PrefixIs, LenProperties
  <2>2. Len(w) \in 0..Len(t)
    BY <1>1, <2>1
  <2>3. SubSeq(t, 1, Len(w)) = w
    <3> DEFINE v == SubSeq(t, 1, Len(w))
    <3>1. v \in Seq(A) /\ Len(v) = Len(w) /\ \A i \in 1..Len(w) : v[i] = w[i]
      BY <1>1, <2>1, <2>2, Beginning
    <3> HIDE DEF v
    <3>2. v = w
      BY <3>1, SeqEqual
    <3> QED BY <3>2 DEF v
  <2>4. Shared(names, Len(w))
    BY <1>5, <2>3 DEF Shared
  <2>5. Len(w) <= m
    BY <1>2, <2>2, <2>4
  <2>6. \A i \in 1..Len(w) : w[i] = c[i]
    BY <1>2, <1>3, <2>1, <2>5
  <2> QED BY <1>3, <2>5, <2>6, PrefixIs
<1> QED BY <1>1, <1>2, <1>3, <1>4, <1>5

(* And it is what the library calls the longest common prefix.             *)
LEMMA CommonIsLongest ==
  ASSUME NEW A, NEW names \in Seq(Seq(A)), names # <<>>
  PROVE  CommonPrefix(names) = LongestCommonPrefix(Range(names))
<1> DEFINE c == CommonPrefix(names)
           S == Range(names)
<1>1. LongestShared(names, c)
  BY CommonPrefixIs
<1> HIDE DEF c
<1>2. /\ c \in Seq(A) /\ \A k \in 1..Len(names) : IsPrefix(c, names[k])
      /\ \A w \in Seq(A) : (\A k \in 1..Len(names) : IsPrefix(w, names[k])) => IsPrefix(w, c)
  BY <1>1, SharedByAll
<1>3. /\ Len(names) \in Nat \ {0} /\ 1 \in 1..Len(names) /\ DOMAIN names = 1..Len(names)
      /\ \A k \in 1..Len(names) : names[k] \in Seq(A)
  BY LenProperties, EmptySeq, ElementOfSeq
<1>4. \A s \in S : \E k \in 1..Len(names) : s = names[k]
  BY <1>3 DEF Range
<1>5. \A k \in 1..Len(names) : names[k] \in S
  BY <1>3 DEF Range
<1> HIDE DEF S
<1>6. c \in CommonPrefixes(S)
  <2>1. names[1] \in S /\ \A s \in S : IsPrefix(c, s)
    BY <1>2, <1>3, <1>4, <1>5
  <2>2. PICK m \in 0..Len(names[1]) : c = SubSeq(names[1], 1, m)
    BY <1>1 DEF LongestShared
  <2>3. c \in Prefixes(names[1])
    BY <2>2 DEF Prefixes
  <2> QED BY <2>1, <2>3 DEF CommonPrefixes
<1>7. \A w \in CommonPrefixes(S) : w \in Seq(A) /\ IsPrefix(w, c)
  <2> TAKE w \in CommonPrefixes(S)
  <2>1. \A s \in S : IsPrefix(w, s)
    BY DEF CommonPrefixes
  <2>2. PICK s \in S : w \in Prefixes(s)
    BY DEF CommonPrefixes
  <2>3. PICK l \in 0..Len(s) : w = SubSeq(s, 1, l)
    BY <2>2 DEF Prefixes
  <2>4. s \in Seq(A)
    BY <1>3, <1>4
  <2>5. w \in Seq(A)
    BY <2>3, <2>4, Beginning
  <2>6. \A k \in 1..Len(names) : IsPrefix(w, names[k])
    BY <1>5, <2>1
  <2> QED BY <1>2, <2>5, <2>6
<1>8. \A w \in CommonPrefixes(S) : Len(w) <= Len(c)
  BY <1>7 DEF IsPrefix
<1>9. ASSUME NEW w \in CommonPrefixes(S), \A other \in CommonPrefixes(S) : Len(other) <= Len(w)
      PROVE  w = c
  <2>1. w \in Seq(A) /\ c \in Seq(A) /\ IsPrefix(w, c)
    BY <1>2, <1>7
  <2>2. Len(w) = Len(c)
    <3>1. Len(w) <= Len(c) /\ Len(c) <= Len(w)
      BY <1>6, <1>8, <1>9
    <3>2. Len(w) \in Nat /\ Len(c) \in Nat
      BY <2>1, LenProperties
    <3> QED BY <3>1, <3>2
  <2>3. \A i \in 1..Len(w) : w[i] = c[i]
    BY <2>1, PrefixIs
  <2> QED BY <2>1, <2>2, <2>3, SeqEqual
<1>10. LongestCommonPrefix(S) = c
  BY <1>6, <1>8, <1>9 DEF LongestCommonPrefix
<1> QED BY <1>10 DEF c, S
-----------------------------------------------------------------------------
(* The invariant.                                                          *)

(* Words are texts of one to MaxLetters letters.                           *)
LEMMA WordsAre ==
  \A w : w \in Words <=> w \in Seq(Letters) /\ Len(w) \in 1..MaxLetters
<1> TAKE w
<1>1. MaxLetters \in Nat
  BY TabBoundsAssumption
<1>2. ASSUME w \in Words PROVE w \in Seq(Letters) /\ Len(w) \in 1..MaxLetters
  <2>1. PICK n \in 1..MaxLetters : w \in [1..n -> Letters]
    BY <1>2 DEF Words
  <2>2. n \in Nat
    BY <1>1, <2>1
  <2> QED BY <2>1, <2>2
<1>3. ASSUME w \in Seq(Letters), Len(w) \in 1..MaxLetters PROVE w \in Words
  <2>1. w \in [1..Len(w) -> Letters]
    BY <1>3, LenProperties
  <2> QED BY <1>3, <2>1 DEF Words
<1> QED BY <1>2, <1>3

\* What answers of the shell consist of.
AnswersTo(w) ==
  {<<Echo>> \o names \o <<Prompt>> : names \in Seq(NamesOn(w))}

TcInv ==
  /\ TcTypeOK /\ TabCompletes
  /\ tab = "type" => typed = <<>> /\ word = <<>>
  /\ tab # "type" => typed \in Words
  /\ tab \in {"ask", "asked"} => word = typed
  /\ tab = "asked" /\ ~isCmd => answer \in AnswersTo(word)
  /\ tab = "asked" /\ isCmd => answer \in NamesOn(word)

\* A text whose lines are these names, but for the first and the last of them.
Framed(a, names) ==
  /\ Len(a) = Len(names) + 2
  /\ \A i \in 1..Len(names) : a[i + 1] = names[i]

(* The answer of a shell is such a text.                                   *)
LEMMA AnswerFramed ==
  ASSUME NEW N, NEW names \in Seq(N), NEW a, a = <<Echo>> \o names \o <<Prompt>>
  PROVE  a \in Seq(N \cup {Echo, Prompt}) /\ Framed(a, names)
<1> DEFINE T == N \cup {Echo, Prompt}
           m == Len(names)
<1>1. m \in Nat /\ \A i \in 1..m : names[i] \in N
  BY LenProperties, ElementOfSeq
<1>2. names \in Seq(T)
  BY <1>1
<1>3. <<Echo>> \in Seq(T) /\ <<Prompt>> \in Seq(T) /\ Len(<<Echo>>) = 1 /\ Len(<<Prompt>>) = 1
  OBVIOUS
<1> DEFINE e == <<Echo>>
           p == <<Prompt>>
           b == e \o names
<1>4. /\ b \in Seq(T) /\ Len(b) = m + 1
      /\ \A i \in 1..(m + 1) : b[i] = IF i = 1 THEN Echo ELSE names[i - 1]
  <2>1. e \in Seq(T) /\ names \in Seq(T) /\ Len(e) = 1 /\ e[1] = Echo
    BY <1>2, <1>3
  <2> HIDE DEF e
  <2>2. /\ b \in Seq(T) /\ Len(b) = Len(e) + Len(names)
        /\ \A i \in 1..(Len(e) + Len(names)) : b[i] = IF i <= Len(e) THEN e[i] ELSE names[i - Len(e)]
    BY <2>1, ConcatProperties
  <2> QED BY <1>1, <2>1, <2>2
<1>5. /\ a \in Seq(T) /\ Len(a) = m + 2
      /\ \A i \in 1..m : a[i + 1] = names[i]
  <2>1. p \in Seq(T) /\ Len(p) = 1 /\ p[1] = Prompt
    BY <1>3
  <2>2. a = b \o p
    OBVIOUS
  <2> HIDE DEF e, p, b
  <2>3. /\ b \o p \in Seq(T) /\ Len(b \o p) = Len(b) + Len(p)
        /\ \A i \in 1..(Len(b) + Len(p)) : (b \o p)[i] = IF i <= Len(b) THEN b[i] ELSE p[i - Len(b)]
    BY <1>4, <2>1, ConcatProperties
  <2>4. \A i \in 1..m : i + 1 \in 1..(m + 1) /\ i + 1 # 1 /\ (i + 1) - 1 = i
    BY <1>1
  <2> QED BY <1>1, <1>4, <2>1, <2>2, <2>3, <2>4
<1> QED BY <1>5 DEF Framed

(* bytes.split(b'\n')[1:-1] of a whole answer are the names, whatever its    *)
(* first and its last line are; of its first lines they are the first names. *)
LEMMA ResultsAre ==
  ASSUME NEW N, NEW names \in Seq(N), NEW T, NEW a \in Seq(T), Framed(a, names),
         NEW n \in 0..Len(a)
  PROVE  /\ Results(a) = names /\ Len(a) = Len(names) + 2
         /\ n > 2 => /\ Results(SubSeq(a, 1, n)) \in Seq(N)
                     /\ Results(SubSeq(a, 1, n)) # <<>>
                     /\ Results(SubSeq(a, 1, n))[1] = names[1]
                     /\ n = Len(a) => Results(SubSeq(a, 1, n)) = names
<1> DEFINE m == Len(names)
<1>1. m \in Nat /\ \A i \in 1..m : names[i] \in N
  BY LenProperties, ElementOfSeq
<1>2. /\ a \in Seq(T) /\ Len(a) = m + 2
      /\ \A i \in 1..m : a[i + 1] = names[i]
  BY DEF Framed
\* The first k lines, without the first and the last.
<1>3. ASSUME NEW k \in 2..Len(a)
      PROVE  LET r == Results(SubSeq(a, 1, k))
             IN  /\ r \in Seq(N) /\ Len(r) = k - 2
                 /\ \A i \in 1..(k - 2) : r[i] = names[i]
  <2> DEFINE l == SubSeq(a, 1, k)
             r == SubSeq(l, 2, k - 1)
  <2>1. k \in 0..Len(a) /\ k \in Nat /\ k >= 2 /\ k <= m + 2
    BY <1>1, <1>2
  <2>2. l \in Seq(T) /\ Len(l) = k /\ \A i \in 1..k : l[i] = a[i]
    BY <1>2, <2>1, Beginning
  <2> HIDE DEF l
  <2>3. r \in Seq(T) /\ Len(r) = k - 2 /\ \A i \in 1..(k - 2) : r[i] = l[i + 1]
    BY <2>1, <2>2
  <2>4. \A i \in 1..(k - 2) : i \in 1..m /\ i + 1 \in 1..k
    BY <1>1, <2>1
  <2>5. \A i \in 1..(k - 2) : r[i] = names[i] /\ r[i] \in N
    BY <1>1, <1>2, <2>2, <2>3, <2>4
  <2> HIDE DEF r
  <2>6. r \in Seq(N)
    <3>1. r = [i \in 1..Len(r) |-> r[i]]
      BY <2>3
    <3>2. Len(r) \in Nat /\ \A i \in 1..Len(r) : r[i] \in N
      BY <2>1, <2>3, <2>5
    <3>3. [i \in 1..Len(r) |-> r[i]] \in [1..Len(r) -> N]
      BY <3>2
    <3>4. [i \in 1..Len(r) |-> r[i]] \in Seq(N)
      BY <3>2, <3>3
    <3> QED BY <3>1, <3>4
  <2>7. Results(l) = r
    BY <2>2 DEF Results, r
  <2> QED BY <2>3, <2>5, <2>6, <2>7 DEF l
<1>4. SubSeq(a, 1, Len(a)) = a
  <2> DEFINE l == SubSeq(a, 1, Len(a))
  <2>1. l \in Seq(T) /\ Len(l) = Len(a) /\ \A i \in 1..Len(a) : l[i] = a[i]
    BY <1>2, Beginning, LenProperties
  <2> HIDE DEF l
  <2>2. l = a
    BY <1>2, <2>1, SeqEqual
  <2> QED BY <2>2 DEF l
<1>5. Results(a) = names
  <2> DEFINE r == Results(a)
  <2>1. Len(a) \in 2..Len(a) /\ Len(a) - 2 = m
    BY <1>1, <1>2
  <2>2. r \in Seq(N) /\ Len(r) = m /\ \A i \in 1..m : r[i] = names[i]
    BY <1>3, <1>4, <2>1
  <2> HIDE DEF r
  <2>3. r = names
    BY <2>2, SeqEqual
  <2> QED BY <2>3 DEF r
<1>6. ASSUME n > 2
      PROVE  /\ Results(SubSeq(a, 1, n)) \in Seq(N)
             /\ Results(SubSeq(a, 1, n)) # <<>>
             /\ Results(SubSeq(a, 1, n))[1] = names[1]
  <2> DEFINE r == Results(SubSeq(a, 1, n))
  <2>1. n \in 2..Len(a) /\ 1 \in 1..(n - 2) /\ n - 2 # 0
    BY <1>1, <1>2, <1>6
  <2>2. r \in Seq(N) /\ Len(r) = n - 2 /\ \A i \in 1..(n - 2) : r[i] = names[i]
    BY <1>3, <2>1
  <2> HIDE DEF r
  <2>3. r # <<>>
    BY <2>1, <2>2, EmptySeq
  <2> QED BY <2>1, <2>2, <2>3 DEF r
<1> QED BY <1>2, <1>4, <1>5, <1>6

\* What a text that is taken consists of.
TcLetters == Letters \cup {"echo", "prompt"}
TcLines == Seq(TcLetters)

(* TcInv holds at the start.                                               *)
LEMMA TcStart == TcInit => TcInv
<1> SUFFICES ASSUME TcInit PROVE TcInv
  OBVIOUS
<1>1. IsPrefix(<<>>, <<>>)
  BY DEF IsPrefix
<1>2. <<>> \in Seq(TcLetters)
  OBVIOUS
<1> QED BY <1>1, <1>2 DEF TcLetters, TcInit, TcInv, TcTypeOK, TabCompletes, TypedStays, GrowsToCommon

(* Every word is a beginning of itself.                                    *)
LEMMA PrefixOfItself == \A w : IsPrefix(w, w)
  BY DEF IsPrefix

(* What a name that begins with a word is.                                 *)
LEMMA NameIs ==
  ASSUME NEW w, NEW name \in NamesOn(w)
  PROVE  name \in Seq(Letters) /\ Len(name) \in 1..MaxLetters /\ IsPrefix(w, name)
  BY WordsAre DEF NamesOn

(* A word that all names of a list begin with is a word of the program.    *)
LEMMA SharedIsWord ==
  ASSUME NEW w, NEW r \in Seq(NamesOn(w)), w \in Words, r # <<>>
  PROVE  LET c == CommonPrefix(r)
         IN  /\ c \in Words \cup {<<>>} /\ IsPrefix(w, c) /\ IsPrefix(c, r[1])
             /\ c = LongestCommonPrefix(Range(r))
<1> DEFINE c == CommonPrefix(r)
<1>1. \A x \in NamesOn(w) : x \in Seq(Letters)
  BY NameIs
<1>2. r \in Seq(Seq(Letters)) /\ w \in Seq(Letters)
  BY <1>1, WordsAre
<1>3. Len(r) \in Nat \ {0} /\ 1 \in 1..Len(r) /\ \A k \in 1..Len(r) : r[k] \in NamesOn(w)
  BY LenProperties, EmptySeq, ElementOfSeq
<1>4. c = LongestCommonPrefix(Range(r)) /\ LongestShared(r, c)
  BY <1>2, CommonIsLongest, CommonPrefixIs
<1> HIDE DEF c
<1>5. /\ c \in Seq(Letters) /\ Len(c) <= Len(r[1])
      /\ \A k \in 1..Len(r) : IsPrefix(c, r[k])
      /\ \A x \in Seq(Letters) : (\A k \in 1..Len(r) : IsPrefix(x, r[k])) => IsPrefix(x, c)
  BY <1>2, <1>4, SharedByAll
<1>6. IsPrefix(w, c)
  <2>1. \A k \in 1..Len(r) : IsPrefix(w, r[k])
    BY <1>3, NameIs
  <2> QED BY <1>2, <1>5, <2>1
<1>7. c \in Words \cup {<<>>}
  <2>1. Len(r[1]) \in 1..MaxLetters /\ MaxLetters \in Nat
    BY <1>3, NameIs, TabBoundsAssumption
  <2>2. Len(c) \in Nat
    BY <1>5, LenProperties
  <2>3. CASE Len(c) = 0
    BY <1>5, <2>3, EmptySeq
  <2>4. CASE Len(c) # 0
    <3>1. Len(c) \in 1..MaxLetters
      BY <1>5, <2>1, <2>2, <2>4
    <3> QED BY <1>5, <3>1, WordsAre
  <2> QED BY <2>3, <2>4
<1> QED BY <1>3, <1>4, <1>5, <1>6, <1>7 DEF c

(* Words, a prompt, and texts that come besides an answer are made of them. *)
LEMMA StrayTypes ==
  /\ Echo \in TcLines /\ Prompt \in TcLines /\ <<>> \in TcLines
  /\ Words \subseteq TcLines
  /\ \A stray \in StrayTexts : stray \in Seq(TcLines) /\ stray # <<>>
<1>1. Words \subseteq TcLines
  <2>1. \A w \in Words : w \in Seq(Letters)
    BY WordsAre
  <2> QED BY <2>1 DEF TcLines, TcLetters
<1>2. Echo \in TcLines /\ Prompt \in TcLines /\ <<>> \in TcLines
  BY DEF Echo, Prompt, TcLines, TcLetters
<1>3. ASSUME NEW stray \in StrayTexts PROVE stray \in Seq(TcLines) /\ stray # <<>>
  <2>1. PICK whole \in UNION {[1..n -> Words] : n \in 0..MaxStray}, last \in {<<>>, Prompt} :
          stray = Append(whole, last)
    BY <1>3 DEF StrayTexts
  <2>2. PICK n \in 0..MaxStray : whole \in [1..n -> Words]
    BY <2>1
  <2>3. n \in Nat
    BY <2>2, TabBoundsAssumption
  <2>4. whole \in [1..n -> TcLines]
    BY <1>1, <2>2
  <2>5. whole \in Seq(TcLines) /\ last \in TcLines
    BY <1>2, <2>1, <2>3, <2>4
  <2> HIDE DEF TcLines
  <2> QED BY <2>1, <2>5, AppendProperties, EmptySeq
<1> QED BY <1>1, <1>2, <1>3

(* One text behind another: the last piece of the one and the first piece  *)
(* of the other become one.                                                *)
LEMMA GlueIs ==
  ASSUME NEW text \in Seq(TcLines), text # <<>>, NEW next \in Seq(TcLines), next # <<>>
  PROVE  LET g == Glue(text, next)
         IN  /\ g \in Seq(TcLines) /\ g # <<>> /\ Len(g) = Len(text) + Len(next) - 1
             /\ \A i \in 1..(Len(text) - 1) : g[i] = text[i]
             /\ \A i \in 2..Len(next) : g[Len(text) - 1 + i] = next[i]
<1> DEFINE l == Len(text)
           f == SubSeq(text, 1, l - 1)
           m == <<Last(text) \o Head(next)>>
           t == Tail(next)
<1>1. l \in Nat \ {0} /\ l - 1 \in 0..Len(text) /\ Len(next) \in Nat \ {0}
  BY LenProperties, EmptySeq
<1>2. f \in Seq(TcLines) /\ Len(f) = l - 1 /\ \A i \in 1..(l - 1) : f[i] = text[i]
  BY <1>1, Beginning
<1>3. /\ t \in Seq(TcLines) /\ Len(t) = Len(next) - 1
      /\ \A i \in 1..(Len(next) - 1) : t[i] = next[i + 1]
  <2>1. /\ Tail(next) \in Seq(TcLines) /\ Len(Tail(next)) = Len(next) - 1
        /\ \A i \in 1..Len(Tail(next)) : Tail(next)[i] = next[i + 1]
    BY HeadTailProperties
  <2> QED BY <2>1
<1>4. m \in Seq(TcLines) /\ Len(m) = 1
  <2>1. text[l] \in TcLines
    BY <1>1, ElementOfSeq
  <2>2. Last(text) \in TcLines /\ Head(next) \in TcLines
    BY <2>1, HeadTailProperties DEF Last
  <2>3. Last(text) \o Head(next) \in TcLines
    BY <2>2, ConcatProperties DEF TcLines
  <2> HIDE DEF TcLines
  <2> QED BY <2>3
<1> DEFINE h == f \o m
           g == h \o t
<1>5. Glue(text, next) = g
  BY DEF Glue, Front
<1> HIDE DEF f, m, t, TcLines
<1>6. /\ h \in Seq(TcLines) /\ Len(h) = l
      /\ \A i \in 1..(l - 1) : h[i] = text[i]
  <2>1. /\ h \in Seq(TcLines) /\ Len(h) = Len(f) + Len(m)
        /\ \A i \in 1..(Len(f) + Len(m)) : h[i] = IF i <= Len(f) THEN f[i] ELSE m[i - Len(f)]
    BY <1>2, <1>4, ConcatProperties
  <2> QED BY <1>1, <1>2, <1>4, <2>1
<1> HIDE DEF h
<1>7. /\ g \in Seq(TcLines) /\ Len(g) = Len(h) + Len(t)
      /\ \A i \in 1..(Len(h) + Len(t)) : g[i] = IF i <= Len(h) THEN h[i] ELSE t[i - Len(h)]
  <2>1. h \in Seq(TcLines) /\ t \in Seq(TcLines)
    BY <1>3, <1>6
  <2> QED BY <2>1, ConcatProperties
<1> HIDE DEF g
<1>8. Len(g) = l + Len(next) - 1 /\ g # <<>>
  BY <1>1, <1>3, <1>6, <1>7, EmptySeq
<1>9. ASSUME NEW i \in 1..(l - 1) PROVE g[i] = text[i]
  <2>1. i \in 1..(Len(h) + Len(t)) /\ i <= Len(h)
    BY <1>1, <1>3, <1>6
  <2>2. g[i] = h[i]
    BY <1>7, <2>1
  <2> QED BY <1>6, <2>2
<1>10. ASSUME NEW i \in 2..Len(next) PROVE g[l - 1 + i] = next[i]
  <2>1. l - 1 + i \in 1..(Len(h) + Len(t)) /\ ~(l - 1 + i <= Len(h)) /\ l - 1 + i - Len(h) = i - 1
    BY <1>1, <1>3, <1>6
  <2>2. g[l - 1 + i] = t[l - 1 + i - Len(h)]
    <3> DEFINE j == l - 1 + i
    <3>1. j \in 1..(Len(h) + Len(t)) /\ ~(j <= Len(h))
      BY <2>1
    <3> HIDE DEF j
    <3>2. g[j] = t[j - Len(h)]
      BY <1>7, <3>1
    <3> QED BY <3>2 DEF j
  <2>3. i - 1 \in 1..(Len(next) - 1) /\ (i - 1) + 1 = i
    BY <1>1
  <2>4. t[i - 1] = next[(i - 1) + 1]
    BY <1>3, <2>3
  <2> QED BY <2>1, <2>2, <2>3, <2>4
<1> QED BY <1>5, <1>7, <1>8, <1>9, <1>10

(* What is taken when another text comes between.  Before the command, and *)
(* behind the prompt, less than a line leaves the names where they are.    *)
LEMMA StrayIs ==
  ASSUME answer \in Seq(TcLines), answer # <<>>,
         NEW k \in 0..Len(answer), NEW stray \in StrayTexts
  PROVE  LET came == WithStray(k, stray)
         IN  /\ came \in Seq(TcLines)
             /\ Len(stray) <= 1 /\ k \in {0, Len(answer)} =>
                  /\ Len(came) = Len(answer)
                  /\ \A i \in 2..(Len(answer) - 1) : came[i] = answer[i]
<1> DEFINE n == Len(answer)
           empty == <<>>
           none == <<empty>>
           to == LinesTo(k)
           from == LinesFrom(k)
           g == Glue(to, stray)
           came == Glue(g, from)
<1>1. n \in Nat \ {0} /\ k \in Nat /\ k <= n
  BY LenProperties, EmptySeq
<1>2. none \in Seq(TcLines) /\ none # <<>> /\ Len(none) = 1 /\ empty \in TcLines
  <2>1. empty \in TcLines
    BY StrayTypes
  <2> HIDE DEF empty, TcLines
  <2> QED BY <2>1
<1>3. /\ stray \in Seq(TcLines) /\ stray # <<>> /\ Len(stray) \in Nat /\ Len(stray) # 0
  BY StrayTypes, LenProperties, EmptySeq
<1> HIDE DEF empty, TcLines
<1>4. ASSUME k < n
      PROVE  /\ to \in Seq(TcLines) /\ to # <<>> /\ Len(to) = k + 1
             /\ from \in Seq(TcLines) /\ from # <<>> /\ Len(from) = n - k
             /\ \A i \in 1..(n - k) : from[i] = answer[k + i]
  <2> DEFINE a == SubSeq(answer, 1, k)
             b == SubSeq(answer, k + 1, n)
  <2>1. a \in Seq(TcLines) /\ Len(a) = k
    BY <1>1, Beginning
  <2>2. b \in Seq(TcLines) /\ Len(b) = n - k /\ \A i \in 1..(n - k) : b[i] = answer[k + i]
    BY <1>1, <1>4
  <2>3. k # n /\ n - k # 0
    BY <1>1, <1>4
  <2>4. to = Append(a, empty) /\ from = b
    BY <2>3 DEF LinesTo, LinesFrom, empty
  <2> HIDE DEF a, b, to, from, n
  <2>5. Append(a, empty) \in Seq(TcLines) /\ Append(a, empty) # <<>> /\ Len(Append(a, empty)) = k + 1
    BY <1>2, <2>1, AppendProperties
  <2>6. b # <<>>
    BY <2>2, <2>3, EmptySeq
  <2> QED BY <2>2, <2>4, <2>5, <2>6
<1>5. k = n => to = answer /\ from = none
  BY DEF LinesTo, LinesFrom, none, empty
<1>6. /\ to \in Seq(TcLines) /\ to # <<>> /\ from \in Seq(TcLines) /\ from # <<>>
      /\ Len(to) \in Nat /\ Len(from) \in Nat
  <2>1. to \in Seq(TcLines) /\ to # <<>> /\ from \in Seq(TcLines) /\ from # <<>>
    <3> HIDE DEF to, from, none
    <3> QED BY <1>1, <1>2, <1>4, <1>5
  <2> HIDE DEF to, from
  <2> QED BY <2>1, LenProperties
<1> HIDE DEF to, from, none
<1>7. /\ g \in Seq(TcLines) /\ g # <<>> /\ Len(g) = Len(to) + Len(stray) - 1
      /\ \A i \in 1..(Len(to) - 1) : g[i] = to[i]
  BY <1>3, <1>6, GlueIs
<1> HIDE DEF g
<1>8. /\ came \in Seq(TcLines) /\ Len(came) = Len(g) + Len(from) - 1
      /\ \A i \in 1..(Len(g) - 1) : came[i] = g[i]
      /\ \A i \in 2..Len(from) : came[Len(g) - 1 + i] = from[i]
  BY <1>6, <1>7, GlueIs
<1>9. WithStray(k, stray) = came
  BY DEF WithStray, g, to, from
<1> HIDE DEF came
<1>10. ASSUME Len(stray) <= 1, k \in {0, n}
       PROVE  Len(came) = n /\ \A i \in 2..(n - 1) : came[i] = answer[i]
  <2>1. Len(stray) = 1
    <3> DEFINE d == Len(stray)
    <3>1. d \in Nat /\ d # 0 /\ d <= 1
      BY <1>3, <1>10
    <3> HIDE DEF d
    <3>2. d = 1
      BY <3>1
    <3> QED BY <3>2 DEF d
  <2>2. CASE k = n
    <3>1. to = answer /\ Len(to) = n /\ Len(from) = 1
      BY <1>2, <1>5, <2>2
    <3> QED BY <1>1, <1>6, <1>7, <1>8, <2>1, <3>1
  <2>3. CASE k = 0
    <3>1. Len(to) = 1 /\ Len(from) = n /\ \A i \in 1..n : from[i] = answer[i]
      BY <1>1, <1>4, <2>3
    <3>2. Len(g) = 1
      BY <1>7, <2>1, <3>1
    <3>3. \A i \in 2..n : came[Len(g) - 1 + i] = from[i] /\ Len(g) - 1 + i = i
      BY <1>1, <1>8, <3>1, <3>2
    <3> QED BY <1>1, <1>8, <3>1, <3>2, <3>3
  <2> QED BY <1>10, <2>2, <2>3
<1> QED BY <1>8, <1>9, <1>10

(* Taking names that are all names of the answer, its first ones.          *)
LEMMA TcCompleteFramed ==
  ASSUME TcInv, tab = "asked", ~isCmd, tab' = "done", UNCHANGED <<isCmd, typed, answer>>,
         NEW names \in Seq(NamesOn(word)), answer = <<Echo>> \o names \o <<Prompt>>,
         NEW T, NEW came \in Seq(T), Framed(came, names), TakeFrom(came), joined' \in BOOLEAN
  PROVE  TcInv'
<1>1. word = typed /\ typed \in Words
  BY DEF TcInv
<1>2. PICK n \in 0..Len(came) :
        /\ word' = IF n <= 2 THEN word ELSE CommonPrefix(Results(SubSeq(came, 1, n)))
        /\ cutOff' = (n < Len(came))
  BY DEF TakeFrom
<1> DEFINE N == NamesOn(word)
           r == Results(SubSeq(came, 1, n))
<1> HIDE DEF N, r
<1>4. /\ Len(came) = Len(names) + 2
      /\ n > 2 => /\ r \in Seq(N) /\ r # <<>> /\ r[1] = names[1]
                  /\ n = Len(came) => r = names
  BY ResultsAre DEF r, N
<1>3. Results(answer) = names
  <2>1. answer \in Seq(N \cup {Echo, Prompt}) /\ Framed(answer, names)
    BY AnswerFramed DEF N
  <2>2. 0 \in 0..Len(answer)
    BY <2>1, LenProperties
  <2>3. names \in Seq(N)
    BY DEF N
  <2>4. \A S, a : a \in Seq(S) /\ Framed(a, names) /\ 0 \in 0..Len(a) => Results(a) = names
    BY <2>3, ResultsAre
  <2> QED BY <2>1, <2>2, <2>4
<1>5. Len(names) \in Nat /\ n \in Nat /\ n <= Len(came)
  BY <1>2, <1>4, LenProperties
<1>6. Len(names) = 0 => names = <<>>
  BY EmptySeq
<1>7. cutOff' \in BOOLEAN /\ tab' \in {"type", "ask", "asked", "done"} /\ isCmd' \in BOOLEAN
  BY <1>2 DEF TcInv, TcTypeOK
<1>8. ~cutOff' => n = Len(came)
  <2>1. cutOff' <=> n < Len(came)
    BY <1>2
  <2> QED BY <1>4, <1>5, <2>1
<1>12. Words \cup {<<>>} \subseteq Seq(TcLetters)
  BY StrayTypes DEF TcLines
<1>9. CASE n <= 2
  <2>1. word' = typed
    BY <1>1, <1>2, <1>9
  <2>2. ~cutOff' => names = <<>>
    BY <1>4, <1>5, <1>6, <1>9, <1>8
  <2>3. TypedStays'
    BY <2>1, PrefixOfItself DEF TypedStays
  <2>4. GrowsToCommon'
    BY <1>3, <2>1, <2>2 DEF GrowsToCommon
  <2>5. word' \in Seq(TcLetters) /\ typed' \in Words
    BY <1>1, <1>12, <2>1
  <2> QED BY <1>7, <2>3, <2>4, <2>5 DEF TcInv, TcTypeOK, TabCompletes, TcLetters
<1>10. CASE n > 2
  <2>1. word' = CommonPrefix(r)
    BY <1>2, <1>5, <1>10 DEF r
  <2>2. r \in Seq(NamesOn(word)) /\ r # <<>> /\ r[1] = names[1] /\ (n = Len(came) => r = names)
    BY <1>4, <1>10 DEF N
  <2>3. /\ word' \in Words \cup {<<>>} /\ IsPrefix(word, word') /\ IsPrefix(word', r[1])
        /\ word' = LongestCommonPrefix(Range(r))
    BY <1>1, <2>1, <2>2, SharedIsWord
  <2>4. 1 \in 1..Len(names)
    BY <1>4, <1>5, <1>10
  <2>5. ~cutOff' => r = names
    BY <1>8, <2>2
  <2>6. TypedStays'
    BY <1>1, <2>3 DEF TypedStays
  <2>7. \E i \in 1..Len(names) : IsPrefix(word', names[i])
    BY <2>2, <2>3, <2>4
  <2>8. GrowsToCommon'
    BY <1>3, <2>3, <2>5, <2>7 DEF GrowsToCommon
  <2>9. word' \in Seq(TcLetters) /\ typed' \in Words
    BY <1>1, <1>12, <2>3
  <2> QED BY <1>7, <2>6, <2>8, <2>9 DEF TcInv, TcTypeOK, TabCompletes, TcLetters
<1>11. n <= 2 \/ n > 2
  BY <1>5
<1> QED BY <1>9, <1>10, <1>11

(* Taking what has something else between its lines: nothing is claimed,   *)
(* and the word is a text.                                                 *)
LEMMA TcCompleteStray ==
  ASSUME TcInv, tab = "asked", ~isCmd, tab' = "done", UNCHANGED <<isCmd, typed, answer>>,
         NEW came \in Seq(TcLines), TakeFrom(came), joined' = TRUE
  PROVE  TcInv'
<1>1. word = typed /\ typed \in Words /\ typed' = typed
  BY DEF TcInv
<1>2. PICK n \in 0..Len(came) :
        /\ word' = IF n <= 2 THEN word ELSE CommonPrefix(Results(SubSeq(came, 1, n)))
        /\ cutOff' = (n < Len(came))
  BY DEF TakeFrom
<1> DEFINE l == SubSeq(came, 1, n)
           r == SubSeq(l, 2, Len(l) - 1)
<1>3. n \in Nat /\ Len(came) \in Nat /\ n <= Len(came)
  BY <1>2, LenProperties
<1>4. l \in Seq(TcLines) /\ Len(l) = n
  BY <1>2, Beginning
<1>5. Words \subseteq Seq(TcLetters)
  BY StrayTypes DEF TcLines
<1>6. Results(l) = r
  BY DEF Results
<1> HIDE DEF l, TcLines
<1>7. n > 2 => r \in Seq(TcLines) /\ Len(r) = n - 2
  BY <1>3, <1>4
<1> HIDE DEF r
<1>8. CASE n > 2
  <2>1. r \in Seq(TcLines) /\ r # <<>>
    BY <1>3, <1>7, <1>8, EmptySeq
  <2>2. CommonPrefix(r) \in Seq(TcLetters)
    BY <2>1, CommonPrefixIs, SharedByAll DEF TcLines
  <2>3. word' = CommonPrefix(r)
    BY <1>2, <1>3, <1>6, <1>8 DEF l
  <2> QED BY <1>1, <1>2, <2>2, <2>3
       DEF TcInv, TcTypeOK, TabCompletes, TypedStays, GrowsToCommon, TcLetters
<1>9. CASE n <= 2
  <2>1. word' \in Seq(TcLetters)
    BY <1>1, <1>2, <1>5, <1>9
  <2> QED BY <1>1, <1>2, <2>1
       DEF TcInv, TcTypeOK, TabCompletes, TypedStays, GrowsToCommon, TcLetters
<1>10. n <= 2 \/ n > 2
  BY <1>3
<1> QED BY <1>8, <1>9, <1>10

(* Taking the names, from a part of the answer or from all of it, whatever *)
(* comes besides it.                                                       *)
LEMMA TcTakeNames ==
  ASSUME TcInv, TakeNames
  PROVE  TcInv'
<1>1. /\ tab = "asked" /\ ~isCmd /\ tab' = "done" /\ UNCHANGED <<isCmd, typed, answer>>
      /\ answer \in AnswersTo(word)
  BY DEF TcInv, TakeNames
<1>2. PICK names \in Seq(NamesOn(word)) : answer = <<Echo>> \o names \o <<Prompt>>
  BY <1>1 DEF AnswersTo
<1>3. /\ answer \in Seq(NamesOn(word) \cup {Echo, Prompt}) /\ Framed(answer, names)
  BY <1>2, AnswerFramed
<1>4. answer \in Seq(TcLines) /\ answer # <<>>
  <2>1. NamesOn(word) \cup {Echo, Prompt} \subseteq TcLines
    BY StrayTypes DEF NamesOn
  <2>2. Len(answer) # 0
    BY <1>3, LenProperties DEF Framed
  <2> HIDE DEF TcLines
  <2> QED BY <1>3, <2>1, <2>2
<1>5. CASE TakeFrom(answer) /\ joined' = FALSE
  BY <1>1, <1>2, <1>3, <1>4, <1>5, TcCompleteFramed
<1>6. ASSUME NEW k \in 0..Len(answer), NEW stray \in StrayTexts,
             TakeFrom(WithStray(k, stray)),
             joined' = (Len(stray) > 1 \/ k \notin {0, Len(answer)})
      PROVE  TcInv'
  <2> DEFINE came == WithStray(k, stray)
  <2>1. /\ came \in Seq(TcLines)
        /\ Len(stray) <= 1 /\ k \in {0, Len(answer)} =>
             /\ Len(came) = Len(answer)
             /\ \A i \in 2..(Len(answer) - 1) : came[i] = answer[i]
    BY <1>4, StrayIs
  <2> HIDE DEF came, TcLines
  <2>2. CASE joined' = TRUE
    BY <1>1, <1>6, <2>1, <2>2, TcCompleteStray DEF came
  <2>3. CASE joined' = FALSE
    <3>1. Len(stray) <= 1 /\ k \in {0, Len(answer)}
      <4>1. stray \in Seq(TcLines)
        BY StrayTypes
      <4>2. Len(stray) \in Nat
        BY <4>1, LenProperties
      <4>3. ~(Len(stray) > 1 \/ k \notin {0, Len(answer)})
        BY <1>6, <2>3
      <4> QED BY <4>2, <4>3
    <3>2. Framed(came, names)
      <4>1. Len(names) \in Nat /\ Len(answer) = Len(names) + 2
        BY <1>3, LenProperties DEF Framed
      <4>2. ASSUME NEW i \in 1..Len(names) PROVE came[i + 1] = names[i]
        <5>1. i + 1 \in 2..(Len(answer) - 1)
          BY <4>1
        <5> QED BY <1>3, <2>1, <3>1, <5>1 DEF Framed
      <4> QED BY <2>1, <3>1, <4>1, <4>2 DEF Framed
    <3> QED BY <1>1, <1>2, <1>6, <2>1, <2>3, <3>2, TcCompleteFramed DEF came
  <2>4. joined' \in BOOLEAN
    BY <1>6
  <2> QED BY <2>2, <2>3, <2>4
<1> QED BY <1>5, <1>6 DEF TakeNames

(* Taking the line of cmd.exe: a part of what comes, or all of it.         *)
LEMMA TcTakeLine ==
  ASSUME TcInv, TakeLine
  PROVE  TcInv'
<1>1. /\ tab = "asked" /\ isCmd /\ tab' = "done" /\ isCmd' = isCmd
      /\ typed' = typed /\ answer' = answer /\ word = typed /\ typed \in Words
      /\ answer \in NamesOn(word)
  BY DEF TcInv, TcTypeOK, TakeLine
<1>2. PICK k \in 0..Len(answer), stray \in StrayLetters :
        \E n \in 0..Len(SubSeq(answer, 1, k) \o stray \o SubSeq(answer, k + 1, Len(answer))) :
          /\ word' = IF n = 0 THEN word
                     ELSE SubSeq(SubSeq(answer, 1, k) \o stray \o SubSeq(answer, k + 1, Len(answer)), 1, n)
          /\ cutOff' = (n < Len(SubSeq(answer, 1, k) \o stray \o SubSeq(answer, k + 1, Len(answer))))
          /\ joined' = (stray # <<>>)
  BY DEF TakeLine
<1> DEFINE a == SubSeq(answer, 1, k)
           b == SubSeq(answer, k + 1, Len(answer))
           came == a \o stray \o b
<1>3. PICK n \in 0..Len(came) :
        /\ word' = IF n = 0 THEN word ELSE SubSeq(came, 1, n)
        /\ cutOff' = (n < Len(came))
        /\ joined' = (stray # <<>>)
  BY <1>2
<1>4. /\ answer \in Seq(Letters) /\ Len(answer) \in Nat \ {0} /\ IsPrefix(word, answer)
  BY <1>1, NameIs, LenProperties, TabBoundsAssumption
<1>5. /\ a \in Seq(Letters) /\ Len(a) = k /\ \A i \in 1..k : a[i] = answer[i]
  BY <1>4, Beginning
<1>6. /\ b \in Seq(Letters) /\ Len(b) = Len(answer) - k
      /\ \A i \in 1..(Len(answer) - k) : b[i] = answer[k + i]
  BY <1>4
<1>7. stray \in Seq(Letters)
  <2>1. PICK m \in 0..MaxStray : stray \in [1..m -> Letters]
    BY DEF StrayLetters
  <2> QED BY <2>1, TabBoundsAssumption
<1> HIDE DEF a, b
<1>8. came \in Seq(Letters)
  BY <1>5, <1>6, <1>7, ConcatProperties
<1>9. stray = <<>> => came = answer
  <2> SUFFICES ASSUME stray = <<>> PROVE came = answer
    OBVIOUS
  <2>1. a \o stray = a
    BY <1>5
  <2> DEFINE c == a \o b
  <2>2. /\ c \in Seq(Letters) /\ Len(c) = Len(a) + Len(b)
        /\ \A i \in 1..(Len(a) + Len(b)) : c[i] = IF i <= Len(a) THEN a[i] ELSE b[i - Len(a)]
    BY <1>5, <1>6, ConcatProperties
  <2> HIDE DEF c
  <2>3. Len(c) = Len(answer)
    BY <1>4, <1>5, <1>6, <2>2
  <2>4. ASSUME NEW i \in 1..Len(answer) PROVE c[i] = answer[i]
    <3>1. i \in 1..(Len(a) + Len(b))
      BY <1>4, <1>5, <1>6
    <3>2. CASE i <= k
      BY <1>4, <1>5, <2>2, <3>1, <3>2
    <3>3. CASE ~(i <= k)
      <4>1. i - k \in 1..(Len(answer) - k) /\ k + (i - k) = i
        BY <1>4, <3>3
      <4>2. c[i] = b[i - k]
        BY <1>5, <2>2, <3>1, <3>3
      <4> QED BY <1>6, <4>1, <4>2
    <3> QED BY <3>2, <3>3
  <2>5. c = answer
    BY <1>4, <2>2, <2>3, <2>4, SeqEqual
  <2> QED BY <2>1, <2>5 DEF c
<1> HIDE DEF came
<1> DEFINE w == SubSeq(came, 1, n)
<1>10. Len(came) \in Nat /\ n \in Nat /\ n <= Len(came)
  BY <1>3, <1>8, LenProperties
<1>11. w \in Seq(Letters) /\ Len(w) = n /\ \A i \in 1..n : w[i] = came[i]
  BY <1>8, Beginning
<1>12. n = Len(came) => w = came
  <2> HIDE DEF w
  <2> QED BY <1>8, <1>11, SeqEqual
<1> HIDE DEF w
<1>13. word' \in Seq(TcLetters) /\ typed' \in Words
  <2>1. Words \subseteq Seq(TcLetters)
    BY StrayTypes DEF TcLines
  <2>2. w \in Seq(TcLetters)
    BY <1>11 DEF TcLetters
  <2> QED BY <1>1, <1>3, <2>1, <2>2 DEF w
<1>14. TypedStays'
  <2> SUFFICES ASSUME ~joined', ~cutOff' PROVE IsPrefix(typed, word')
    BY <1>1 DEF TypedStays
  <2>1. came = answer
    BY <1>3, <1>9
  <2>2. n = Len(came)
    <3>1. ~(n < Len(came))
      BY <1>3
    <3> QED BY <1>10, <3>1
  <2>3. word' = answer
    BY <1>3, <1>4, <1>12, <2>1, <2>2 DEF w
  <2> QED BY <1>1, <1>4, <2>3
<1>15. GrowsToCommon'
  BY <1>1 DEF GrowsToCommon
<1>16. cutOff' \in BOOLEAN /\ joined' \in BOOLEAN
  BY <1>3
<1> QED BY <1>1, <1>13, <1>14, <1>15, <1>16 DEF TcInv, TcTypeOK, TabCompletes, TcLetters

(* Every step keeps TcInv.                                                 *)
LEMMA TcStep == TcInv /\ [TcNext]_tcVars => TcInv'
<1> SUFFICES ASSUME TcInv, [TcNext]_tcVars PROVE TcInv'
  OBVIOUS
<1>1. CASE TypeWord
  <2>1. /\ tab' = "ask" /\ isCmd' \in BOOLEAN /\ typed' \in Words /\ word' = typed'
        /\ cutOff' = cutOff /\ cutOff \in BOOLEAN
        /\ joined' = joined /\ joined \in BOOLEAN /\ word' \in Seq(TcLetters)
    BY <1>1, StrayTypes DEF TcLines, TypeWord, TcInv, TcTypeOK, TcLetters
  <2>2. TabCompletes'
    BY <2>1, PrefixOfItself DEF TabCompletes, TypedStays, GrowsToCommon
  <2> QED BY <2>1, <2>2 DEF TcInv, TcTypeOK, TcLetters
<1>2. CASE ShellAnswers
  <2>1. /\ tab = "ask" /\ ~isCmd /\ tab' = "asked" /\ isCmd' = isCmd /\ typed' = typed
        /\ word' = word /\ cutOff' = cutOff /\ word = typed /\ typed \in Words
        /\ cutOff \in BOOLEAN /\ isCmd \in BOOLEAN
        /\ joined' = joined /\ joined \in BOOLEAN /\ word' \in Seq(TcLetters)
    BY <1>2 DEF ShellAnswers, TcInv, TcTypeOK, TcLetters
  <2>2. PICK n \in 0..MaxNames :
          \E names \in [1..n -> NamesOn(word)] : answer' = <<Echo>> \o names \o <<Prompt>>
    BY <1>2 DEF ShellAnswers
  <2>3. PICK names \in [1..n -> NamesOn(word)] : answer' = <<Echo>> \o names \o <<Prompt>>
    BY <2>2
  <2>4. names \in Seq(NamesOn(word))
    BY <2>3, TabBoundsAssumption
  <2>5. answer' \in AnswersTo(word')
    BY <2>1, <2>3, <2>4 DEF AnswersTo
  <2>6. TabCompletes'
    BY <2>1, PrefixOfItself DEF TabCompletes, TypedStays, GrowsToCommon
  <2> QED BY <2>1, <2>5, <2>6 DEF TcInv, TcTypeOK, TcLetters
<1>3. CASE CmdAnswers
  <2>1. /\ tab = "ask" /\ isCmd /\ tab' = "asked" /\ isCmd' = isCmd /\ typed' = typed
        /\ word' = word /\ cutOff' = cutOff /\ word = typed /\ typed \in Words
        /\ cutOff \in BOOLEAN /\ isCmd \in BOOLEAN /\ answer' \in NamesOn(word)
        /\ joined' = joined /\ joined \in BOOLEAN /\ word' \in Seq(TcLetters)
    BY <1>3 DEF CmdAnswers, TcInv, TcTypeOK, TcLetters
  <2>2. answer' \in NamesOn(word')
    BY <2>1
  <2>3. TabCompletes'
    BY <2>1, PrefixOfItself DEF TabCompletes, TypedStays, GrowsToCommon
  <2> QED BY <2>1, <2>2, <2>3 DEF TcInv, TcTypeOK, TcLetters
<1>4. CASE TakeNames
  BY <1>4, TcTakeNames
<1>5. CASE TakeLine
  BY <1>5, TcTakeLine
<1>6. CASE UNCHANGED tcVars
  BY <1>6 DEF tcVars, TcInv, TcTypeOK, TabCompletes, TypedStays, GrowsToCommon
<1> QED BY <1>1, <1>2, <1>3, <1>4, <1>5, <1>6 DEF TcNext

(* Tab's variables keep their types.                                       *)
THEOREM TcTypeCorrect == TcSpec => []TcTypeOK
<1>1. TcInv => TcTypeOK
  BY DEF TcInv
<1> QED BY TcStart, TcStep, <1>1, PTL DEF TcSpec

(* Tab completes what was typed: it grows to what all names that begin     *)
(* with it have in common, however the names are ordered and however       *)
(* little of the answer comes in time.                                     *)
THEOREM TabAlwaysCompletes == TcSpec => []TabCompletes
<1>1. TcInv => TabCompletes
  BY DEF TcInv
<1> QED BY TcStart, TcStep, <1>1, PTL DEF TcSpec
=============================================================================
