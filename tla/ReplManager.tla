---------------------------- MODULE ReplManager ----------------------------
(***************************************************************************)
(* ReplManager: REPLs are opened into views, restarted in the same view,   *)
(* closed by the user or, when they are over, by their own update thread.  *)
(* repl_views finds the REPL of a view by the setting "repl_id".           *)
(*                                                                         *)
(* open() runs in Sublime's main thread, but the program, its reader and   *)
(* its update thread run before it has registered them; and the update     *)
(* thread of a REPL goes on when the REPL is gone and its view shows the   *)
(* next one.                                                               *)
(***************************************************************************)
EXTENDS Integers

CONSTANTS
  MaxRepls,   \* bound: REPLs opened
  ReplTabs    \* the views REPLs may be shown in

File == 0     \* a file of the user
NoView == -1

ASSUME ReplsAssumption == MaxRepls \in Nat
ASSUME TabsAssumption == ReplTabs \subseteq Nat \ {File}

ReplIds == 1..MaxRepls
Tabs == ReplTabs \cup {File}

VARIABLES
  opened,     \* REPLs opened so far
  process,    \* per REPL: "none", "running" or "over"
  updater,    \* per REPL: "none", "polling", "focus", "close" or "over"
  place,      \* per REPL: rv._view
  replViews,  \* the REPLs in repl_views
  opening,    \* the REPL open() is about to register, or 0
  shown,      \* per view: the setting repl_id, or 0
  openViews,
  focused,    \* the active view
  orphans,    \* history: ReplView.__init__ raised
  astray      \* history: the focus moved between focus_view and close

rmVars == <<opened, process, updater, place, replViews, opening, shown,
            openViews, focused, orphans, astray>>

RmInit ==
  /\ opened = 0
  /\ process = [i \in ReplIds |-> "none"]
  /\ updater = [i \in ReplIds |-> "none"]
  /\ place = [i \in ReplIds |-> NoView]
  /\ replViews = {} /\ opening = 0
  /\ shown = [v \in Tabs |-> 0]
  /\ openViews = {File} /\ focused = File
  /\ orphans = {} /\ astray = {}

MainIdle == opening = 0

\* manager.repl_view(view): the REPL of a view, if it is registered.
ReplOf(v) == {shown[v]} \cap replViews

\* rv.on_close(): close() kills a REPL that is alive.
Killed(repls) == [i \in ReplIds |-> IF i \in repls THEN "over" ELSE process[i]]

\* The focus is on v now; who was about to close what has it, goes astray.
FocusOn(v) ==
  /\ focused' = v
  /\ astray' = astray \cup {i \in ReplIds : updater[i] = "close" /\ v # focused}
-----------------------------------------------------------------------------
(* open() of the main thread.                                              *)

\* What if the old REPL were left in repl_views?
StartForgets(v, old) ==
  LET i == opened + 1
  IN  /\ i \in ReplIds /\ opened' = i
      /\ process' = [process EXCEPT ![i] = "running"]
      /\ place' = [place EXCEPT ![i] = v]
      /\ shown' = [shown EXCEPT ![v] = i]
      /\ updater' = [updater EXCEPT ![i] = "polling"] /\ opening' = i
      /\ UNCHANGED <<replViews, orphans>>

\* Repl.subclass(type)(...) runs the program, ReplView.__init__ the reader and
\* last the update thread.  Either may raise: the first one leaves nothing,
\* the second one a program without a manager, and perhaps its repl_id.
Start(v, old) ==
  /\ replViews' = replViews \ old
  /\ \/ /\ process' = Killed(old)
        /\ UNCHANGED <<opened, updater, place, opening, shown, orphans>>
     \/ LET i == opened + 1
        IN  /\ i \in ReplIds /\ opened' = i
            /\ process' = [Killed(old) EXCEPT ![i] = "running"]
            /\ place' = [place EXCEPT ![i] = v]
            /\ \/ /\ orphans' = orphans \cup {i}
                  /\ shown' \in {shown, [shown EXCEPT ![v] = i]}
                  /\ UNCHANGED <<updater, opening>>
               \/ /\ shown' = [shown EXCEPT ![v] = i]
                  /\ updater' = [updater EXCEPT ![i] = "polling"]
                  /\ opening' = i
                  /\ UNCHANGED orphans

\* A new view, window.new_file(), is created before ReplView and gets the focus.
OpenNew ==
  /\ MainIdle
  /\ \E v \in ReplTabs \ openViews :
       /\ shown[v] = 0
       /\ Start(v, {}) /\ opened' # opened
       /\ openViews' = openViews \cup {v}
       /\ FocusOn(v)

\* restart(): the REPL, if it is registered, is closed as on_close closes it.
Restart ==
  /\ MainIdle /\ focused \in ReplTabs /\ shown[focused] # 0
  /\ Start(focused, ReplOf(focused))
  /\ UNCHANGED <<openViews, focused, astray>>

\* repl_views[r.id] = rv
Register ==
  /\ ~MainIdle
  /\ replViews' = replViews \cup {opening} /\ opening' = 0
  /\ UNCHANGED <<opened, process, updater, place, shown, openViews, focused,
                 orphans, astray>>
-----------------------------------------------------------------------------
(* Views, programs, the user.                                              *)

\* What if a view took its REPL out of the table before closing it?
CloseUnfound ==
  /\ openViews' = openViews \ {focused}
  /\ replViews' = replViews \ ReplOf(focused)
  /\ UNCHANGED process
  /\ \E v \in IF openViews' = {} THEN {NoView} ELSE openViews' : FocusOn(v)

\* The active view closes: on_close() kills the REPL and deregisters it -- or
\* raises, when the program dies before kill() can write to it, and leaves it
\* in repl_views.  Some other view becomes active.
CloseActive ==
  /\ openViews' = openViews \ {focused}
  /\ process' = Killed(ReplOf(focused))
  /\ \/ replViews' = replViews \ ReplOf(focused)
     \/ replViews' = replViews /\ process' # process
  /\ \E v \in IF openViews' = {} THEN {NoView} ELSE openViews' : FocusOn(v)

UserCloses ==
  /\ MainIdle /\ focused \in ReplTabs /\ CloseActive
  /\ UNCHANGED <<opened, updater, place, opening, shown, orphans>>

UserFocuses ==
  /\ MainIdle /\ \E v \in openViews \ {focused} : FocusOn(v)
  /\ UNCHANGED <<opened, process, updater, place, replViews, opening, shown,
                 openViews, orphans>>

ProgramEnds ==
  /\ \E i \in ReplIds : process[i] = "running"
                        /\ process' = [process EXCEPT ![i] = "over"]
  /\ UNCHANGED <<opened, updater, place, replViews, opening, shown, openViews,
                 focused, orphans, astray>>
-----------------------------------------------------------------------------
(* The update threads.                                                     *)

\* None has come: the banner is written; a view that is in a window is closed
\* if the user wants it.
Notice(i) ==
  /\ updater[i] = "polling" /\ process[i] = "over"
  /\ \E next \in IF place[i] \in openViews THEN {"focus", "over"} ELSE {"over"} :
       updater' = [updater EXCEPT ![i] = next]
  /\ UNCHANGED <<opened, process, place, replViews, opening, shown, openViews,
                 focused, orphans, astray>>

\* What if the view were not brought to the front?
FocusNothing(i) ==
  /\ updater[i] = "focus" /\ MainIdle
  /\ updater' = [updater EXCEPT ![i] = "close"]
  /\ UNCHANGED <<opened, process, place, replViews, opening, shown, openViews,
                 focused, orphans, astray>>

\* What if a view that has been closed were brought to the front?
FocusClosed(i) ==
  /\ updater[i] = "focus" /\ MainIdle
  /\ updater' = [updater EXCEPT ![i] = "close"]
  /\ FocusOn(place[i])
  /\ UNCHANGED <<opened, process, place, replViews, opening, shown, openViews,
                 orphans>>

\* window.focus_view(self._view): nothing if it has been closed meanwhile.
FocusView(i) ==
  /\ updater[i] = "focus" /\ MainIdle
  /\ updater' = [updater EXCEPT ![i] = "close"]
  /\ IF place[i] \in openViews
       THEN FocusOn(place[i])
       ELSE astray' = astray \cup {i} /\ UNCHANGED focused
  /\ UNCHANGED <<opened, process, place, replViews, opening, shown, openViews,
                 orphans>>

\* window.run_command("close") closes what is active then.
AutoClose(i) ==
  /\ updater[i] = "close" /\ MainIdle
  /\ updater' = [updater EXCEPT ![i] = "over"]
  /\ IF focused = NoView
       THEN UNCHANGED <<process, replViews, openViews, focused, astray>>
       ELSE CloseActive
  /\ UNCHANGED <<opened, place, opening, shown, orphans>>

RmNext ==
  \/ OpenNew \/ Restart \/ Register
  \/ UserCloses \/ UserFocuses \/ ProgramEnds
  \/ \E i \in ReplIds : Notice(i) \/ FocusView(i) \/ AutoClose(i)

RmSpec == RmInit /\ [][RmNext]_rmVars
-----------------------------------------------------------------------------
RmTypeOK ==
  /\ opened \in 0..MaxRepls
  /\ process \in [ReplIds -> {"none", "running", "over"}]
  /\ updater \in [ReplIds -> {"none", "polling", "focus", "close", "over"}]
  /\ place \in [ReplIds -> Tabs \cup {NoView}]
  /\ replViews \subseteq 1..opened /\ opening \in 0..opened
  /\ shown \in [Tabs -> 0..opened]
  /\ openViews \subseteq Tabs /\ focused \in openViews \cup {NoView}
  /\ orphans \subseteq ReplIds /\ astray \subseteq ReplIds

(* The REPL a view writes for is the one its keys and commands reach,       *)
(* through any restarts, so no two registered REPLs write into one view.    *)
CommandsReachTheirRepl ==
  \A i \in replViews :
    /\ place[i] \in openViews => shown[place[i]] = i
    /\ \A j \in replViews : place[i] = place[j] => i = j \/ process[i] = "over"
                                                        \/ process[j] = "over"

(* A program runs only as long as a command can end it: whoever is running  *)
(* is registered, unless ReplView.__init__ raised after the program was     *)
(* started -- then it runs on and nothing can reach it.                     *)
RunningIsRegistered ==
  MainIdle => \A i \in ReplIds : process[i] = "running" => i \in replViews \cup orphans

(* repl_views says which REPL a view shows, and forgets none that runs.     *)
RegistryIsTrue == CommandsReachTheirRepl /\ RunningIsRegistered

(* The auto close of a REPL closes its own view, and no other one and no    *)
(* file, unless the focus has moved between focus_view and close.           *)
ClosesItsOwn ==
  [][\A i \in ReplIds :
       updater[i] = "close" /\ updater'[i] = "over" /\ i \notin astray
         => openViews \ openViews' \subseteq {place[i]}]_rmVars
=============================================================================
