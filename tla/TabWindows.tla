----------------------------- MODULE TabWindows -----------------------------
(***************************************************************************)
(* The tabs of a workspace and the windows of its tmux session.  A tab row *)
(* keeps the number of its window; tmux gives a new window the lowest      *)
(* number that is free, and everything that is typed, respawned or killed  *)
(* is addressed by number.  Sessions are healed, tabs are opened, resumed, *)
(* switched to another engine, renamed and closed, an Agent Review looks   *)
(* for its tab or opens one; all of it in the lane of the workspace, one   *)
(* request at a time, while windows end, tmux dies and the daemon crashes. *)
(***************************************************************************)
EXTENDS Naturals, FiniteSets

CONSTANTS
  Tabs,         \* names of tabs
  Nobody,       \* the window does not exist
  MaxWindow,    \* bound: the highest window number
  MaxFaults     \* bound: deaths of tmux, crashes of the daemon, programs that end by themselves

ASSUME TabWindowsAssumption ==
  /\ Tabs # {} /\ Nobody \notin Tabs
  /\ {MaxWindow, MaxFaults} \subseteq Nat

VARIABLES
  kind, win, review,   \* the rows: kind of a tab, its window number, whether its title is Review
  runs,                \* the windows: the tab whose engine or shell each was started for
  op,                  \* the request in the lane
  faults,              \* budget
  ended, crashed, lent,   \* history: a program ended by itself; the daemon crashed; window 0 was
                       \* a shell's
  muddled,             \* history: a window was opened past rows whose own was yet to be healed
  stray, hurt          \* history: a prompt reached another tab; another tab's program was killed

rows == <<kind, win, review>>
past == <<ended, crashed, lent, muddled, stray, hurt>>
tabVars == <<rows, runs, op, faults, past>>

-----------------------------------------------------------------------------
Indices == 0..MaxWindow
NoWindow == MaxWindow + 1      \* tmux_window IS NULL: after every number

Engines == {t \in Tabs : kind[t] = "engine"}
Unused == {t \in Tabs : kind[t] = "none"}
NewTab == CHOOSE t \in Unused : TRUE     \* names of tabs are interchangeable
Live(i) == i \in Indices /\ runs[i] # Nobody
Session == \E i \in Indices : Live(i)
NoWindows == [i \in Indices |-> Nobody]

\* As FirstOf, but tabs without a window come before the others.
FirstOf_NullsFirst(S) ==
  CHOOSE t \in S : \A u \in S : win[u] = NoWindow => win[t] = NoWindow

\* Rows of other tabs whose window is not there, as a heal that fails half way leaves them.
Unhealed(t) == {u \in Tabs \ {t} : kind[u] # "none" /\ ~Live(win[u])}
OpensPast(t) == muddled' = (muddled \/ (Session /\ Unhealed(t) # {}))

\* ORDER BY CASE WHEN tmux_window IS NULL THEN 1 ELSE 0 END, tmux_window, id
FirstOf(S) == CHOOSE t \in S : \A u \in S : win[t] <= win[u]

\* tmux new-window: the lowest free number.
FreeWindow(i) == i \in Indices /\ ~Live(i) /\ \A j \in Indices : j < i => Live(j)

Free == [at |-> "free", tab |-> Nobody, window |-> NoWindow, todo |-> {}, next |-> "done",
         ensured |-> FALSE]
OpAt(step) == op.at = step
AskOp(step, next) == OpAt("free") /\ op' = [Free EXCEPT !.at = step, !.next = next]

\* Text goes to the window of the row, or to window 0 when the row has none.
Lands(t) ==
  LET i == IF win[t] = NoWindow THEN 0 ELSE win[t] IN
  stray' = (stray \/ runs[i] \notin {Nobody, t})

\* respawn-window -k: whatever runs in the window is replaced by the engine of t.
Respawn(t) ==
  /\ hurt' = (hurt \/ runs[win[t]] \notin {Nobody, t})
  /\ runs' = IF Live(win[t]) THEN [runs EXCEPT ![win[t]] = t] ELSE runs

\* Rows of shells whose window is not there are dropped.
Pruned(windows) ==
  [t \in Tabs |-> IF kind[t] = "shell" /\ ~(win[t] \in Indices /\ windows[win[t]] # Nobody)
                  THEN "none" ELSE kind[t]]

-----------------------------------------------------------------------------
(* ensure: heal the session, then every engine tab without a window.        *)

AskEnsure ==
  /\ AskOp("observe", "done")
  /\ UNCHANGED <<rows, runs, faults, past>>

Observe ==
  /\ OpAt("observe")
  /\ Session
  /\ kind' = Pruned(runs)
  /\ op' = [op EXCEPT !.at = "resume", !.todo = {t \in Engines : ~Live(win[t])}, !.ensured = TRUE]
  /\ UNCHANGED <<win, review, runs, faults, past>>

\* No session: a new one, with the engine of the first tab in window 0, or of a new tab when there
\* is none.
Recreate(t) ==
  /\ OpAt("observe")
  /\ ~Session
  /\ IF Engines = {}
     THEN /\ t = NewTab
          /\ kind' = [kind EXCEPT ![t] = "engine"]
          /\ win' = [win EXCEPT ![t] = 0]
          /\ review' = [review EXCEPT ![t] = FALSE]
     ELSE t = FirstOf(Engines) /\ UNCHANGED rows
  /\ runs' = [NoWindows EXCEPT ![0] = t]
  /\ op' = [op EXCEPT !.at = "number", !.tab = t, !.window = IF Engines = {} THEN 0 ELSE NoWindow]
  /\ UNCHANGED <<faults, past>>

\* The session is made but cannot be labelled: a row made for it goes, one that was there keeps
\* its number.
StartFails ==
  /\ OpAt("number")
  /\ kind' = [kind EXCEPT ![op.tab] = IF op.window = 0 THEN "none" ELSE @]
  /\ op' = Free
  /\ UNCHANGED <<win, review, runs, faults, past>>

\* list-windows may fail, as when the session died meanwhile, and the request with it.
Number ==
  /\ OpAt("number")
  /\ win' = [win EXCEPT ![op.tab] = 0]
  /\ \/ /\ Session
        /\ kind' = Pruned(runs)
        /\ op' = [op EXCEPT !.at = "resume", !.window = NoWindow, !.todo = Engines \ {op.tab},
                           !.ensured = TRUE]
     \/ op' = Free /\ UNCHANGED kind
  /\ UNCHANGED <<review, runs, faults, past>>

-----------------------------------------------------------------------------
(* resumeTab: the engine again in its window, or in a new one.              *)

AskResume(t) ==
  /\ t \in Engines
  /\ OpAt("free")
  /\ op' = [Free EXCEPT !.at = "resume", !.todo = {t}]
  /\ OpensPast(t)
  /\ UNCHANGED <<rows, runs, faults, ended, crashed, lent, stray, hurt>>

Resume(t) ==
  /\ OpAt("resume")
  /\ op.todo # {} /\ t = FirstOf(op.todo)
  /\ \/ /\ ~Session
        /\ op' = [op EXCEPT !.at = "observe", !.todo = {}]
        /\ UNCHANGED <<runs, hurt>>
     \/ /\ Live(win[t])
        /\ Respawn(t)
        /\ op' = [op EXCEPT !.todo = @ \ {t}]
     \/ /\ Session /\ ~Live(win[t])
        /\ \E i \in Indices :
             /\ FreeWindow(i)
             /\ runs' = [runs EXCEPT ![i] = t]
             /\ op' = [op EXCEPT !.at = "record", !.tab = t, !.window = i, !.todo = @ \ {t}]
        /\ UNCHANGED hurt
  /\ UNCHANGED <<rows, faults, ended, crashed, lent, muddled, stray>>

\* As Record, but a tab keeps the number it had.
Record_KeepsNumber ==
  /\ OpAt("record")
  /\ win' = [win EXCEPT ![op.tab] = IF @ = NoWindow THEN op.window ELSE @]
  /\ op' = IF Live(op.window) THEN [op EXCEPT !.at = "resume"] ELSE Free
  /\ UNCHANGED <<kind, review, runs, faults, past>>

\* setTmuxWindow, then the label, which fails when the window is gone.
Record ==
  /\ OpAt("record")
  /\ win' = [win EXCEPT ![op.tab] = op.window]
  /\ op' = IF Live(op.window) THEN [op EXCEPT !.at = "resume"] ELSE Free
  /\ UNCHANGED <<kind, review, runs, faults, past>>

\* In the middle of a heal a step fails, and the request with it: select-window, when the zen layout
\* has its focus on a tab that is yet to be healed, an engine that the registry no longer has, the
\* keep-alive script, tmux.  What was healed stays, and the other rows stay as they are.
RequestFails ==
  /\ op.at \in {"observe", "resume", "insert", "deliver"}
  /\ op' = Free
  /\ UNCHANGED <<rows, runs, faults, past>>

\* The request is answered, or goes on to what it needed the session for.
HealEnds ==
  /\ OpAt("resume")
  /\ op.todo = {}
  /\ op' = CASE op.next \in {"create", "review"} -> [op EXCEPT !.at = "insert"]
             [] op.next = "deliver" -> [op EXCEPT !.at = "deliver"]
             [] OTHER -> Free
  /\ UNCHANGED <<rows, runs, faults, past>>

-----------------------------------------------------------------------------
(* POST /tabs with kind engine, and the tab an Agent Review opens.          *)

AskEngine ==
  /\ AskOp(IF Session THEN "insert" ELSE "observe", "create")
  /\ UNCHANGED <<rows, runs, faults, past>>

InsertRow(t) ==
  /\ OpAt("insert")
  /\ Unused # {} /\ t = NewTab
  /\ kind' = [kind EXCEPT ![t] = "engine"]
  /\ win' = [win EXCEPT ![t] = NoWindow]
  /\ review' = [review EXCEPT ![t] = op.next = "review"]
  /\ op' = [op EXCEPT !.at = "window", !.tab = t, !.ensured = FALSE,
                      !.next = IF @ = "review" THEN "deliver" ELSE "done"]
  /\ UNCHANGED <<runs, faults, past>>

\* When new-window fails, with or without a session, the row is removed again.
OpenWindow ==
  /\ OpAt("window")
  /\ \/ /\ kind' = [kind EXCEPT ![op.tab] = "none"]
        /\ op' = Free
        /\ UNCHANGED <<runs, muddled>>
     \/ /\ Session
        /\ \E i \in Indices :
             /\ FreeWindow(i)
             /\ runs' = [runs EXCEPT ![i] = op.tab]
             /\ op' = [op EXCEPT !.at = "record", !.window = i]
        /\ OpensPast(op.tab)
        /\ UNCHANGED kind
  /\ UNCHANGED <<win, review, faults, ended, crashed, lent, stray, hurt>>

\* No tab name is left: the bound of the model ends the request.
OutOfNames ==
  /\ OpAt("insert") /\ Unused = {}
  /\ op' = Free
  /\ UNCHANGED <<rows, runs, faults, past>>

-----------------------------------------------------------------------------
(* The other requests.                                                      *)

\* planReviewTab: a tab with the title Review, or a new one.
AskReview ==
  /\ IF \E t \in Engines : review[t]
     THEN \E t \in Engines : review[t] /\ OpAt("free") /\ op' = [Free EXCEPT !.at = "deliver", !.tab = t]
     ELSE AskOp(IF Session THEN "insert" ELSE "observe", "review")
  /\ UNCHANGED <<rows, runs, faults, past>>

DeliverReview ==
  /\ OpAt("deliver")
  /\ Lands(op.tab)
  /\ op' = Free
  /\ UNCHANGED <<rows, runs, faults, ended, crashed, lent, muddled, hurt>>

\* POST /input, or the drain of the queue.
Input(t) ==
  /\ OpAt("free")
  /\ t \in Engines
  /\ Lands(t)
  /\ UNCHANGED <<rows, runs, op, faults, ended, crashed, lent, muddled, hurt>>

AskShell(t) ==
  /\ OpAt("free")
  /\ Session
  /\ Unused # {} /\ t = NewTab
  /\ \E i \in Indices :
       /\ FreeWindow(i)
       /\ runs' = [runs EXCEPT ![i] = t]
       /\ op' = [Free EXCEPT !.at = "row", !.tab = t, !.window = i]
       /\ lent' = (lent \/ i = 0)
  /\ OpensPast(t)
  /\ UNCHANGED <<rows, faults, ended, crashed, stray, hurt>>

InsertShell ==
  /\ OpAt("row")
  /\ kind' = [kind EXCEPT ![op.tab] = "shell"]
  /\ win' = [win EXCEPT ![op.tab] = op.window]
  /\ review' = [review EXCEPT ![op.tab] = FALSE]
  /\ op' = Free
  /\ UNCHANGED <<runs, faults, past>>

\* DELETE /tabs/:id: kill the window of that number, then drop the row; never the last engine.
AskClose(t) ==
  /\ OpAt("free")
  /\ kind[t] = "shell" \/ (t \in Engines /\ Cardinality(Engines) > 1)
  /\ op' = [Free EXCEPT !.at = "remove", !.tab = t]
  /\ IF Live(win[t])
     THEN /\ hurt' = (hurt \/ runs[win[t]] # t)
          /\ runs' = [runs EXCEPT ![win[t]] = Nobody]
     ELSE UNCHANGED <<runs, hurt>>
  /\ UNCHANGED <<rows, faults, ended, crashed, lent, muddled, stray>>

RemoveRow ==
  /\ OpAt("remove")
  /\ kind' = [kind EXCEPT ![op.tab] = "none"]
  /\ op' = Free
  /\ UNCHANGED <<win, review, runs, faults, past>>

\* switchEngine: another engine in the window of the tab.
SwitchEngine(t) ==
  /\ OpAt("free")
  /\ t \in Engines /\ win[t] # NoWindow /\ Session
  /\ Respawn(t)
  /\ UNCHANGED <<rows, op, faults, ended, crashed, lent, muddled, stray>>

\* POST /tabs/:id/rename, to Review or away from it.
Rename(t) ==
  /\ OpAt("free")
  /\ kind[t] # "none"
  /\ review' = [review EXCEPT ![t] = ~@]
  /\ UNCHANGED <<kind, win, runs, op, faults, past>>

-----------------------------------------------------------------------------
(* What ends by itself.                                                     *)

\* A shell exits, or the shell that keep-alive left behind an engine.
WindowEnds(i) ==
  /\ Live(i)
  /\ faults < MaxFaults /\ faults' = faults + 1
  /\ ended' = TRUE
  /\ runs' = [runs EXCEPT ![i] = Nobody]
  /\ UNCHANGED <<rows, op, crashed, lent, muddled, stray, hurt>>

TmuxServerEnds ==
  /\ Session
  /\ faults < MaxFaults /\ faults' = faults + 1
  /\ runs' = NoWindows
  /\ op' = [op EXCEPT !.ensured = FALSE]
  /\ UNCHANGED <<rows, past>>

DaemonCrashes ==
  /\ ~OpAt("free")
  /\ faults < MaxFaults /\ faults' = faults + 1
  /\ crashed' = TRUE
  /\ op' = Free
  /\ UNCHANGED <<rows, runs, ended, lent, muddled, stray, hurt>>

-----------------------------------------------------------------------------
\* A task whose bootstrap is over has one engine tab, in window 0; one that is adopted has neither
\* tab nor session.
TabsInit ==
  /\ LET t == CHOOSE t \in Tabs : TRUE IN
     \/ /\ kind = [u \in Tabs |-> IF u = t THEN "engine" ELSE "none"]
        /\ win = [u \in Tabs |-> IF u = t THEN 0 ELSE NoWindow]
        /\ runs = [NoWindows EXCEPT ![0] = t]
     \/ /\ kind = [u \in Tabs |-> "none"]
        /\ win = [u \in Tabs |-> NoWindow]
        /\ runs = NoWindows
  /\ review = [u \in Tabs |-> FALSE]
  /\ op = Free
  /\ faults = 0 /\ ended = FALSE /\ crashed = FALSE /\ lent = FALSE /\ muddled = FALSE
  /\ stray = FALSE /\ hurt = FALSE

TabsNext ==
  \/ AskEnsure \/ Observe \/ StartFails \/ Number \/ RequestFails \/ Record \/ HealEnds
  \/ AskEngine \/ OpenWindow \/ OutOfNames \/ AskReview \/ DeliverReview \/ InsertShell \/ RemoveRow
  \/ TmuxServerEnds \/ DaemonCrashes
  \/ \E i \in Indices : WindowEnds(i)
  \/ \E t \in Tabs : Recreate(t) \/ AskResume(t) \/ Resume(t) \/ InsertRow(t) \/ Input(t)
                     \/ AskShell(t) \/ AskClose(t) \/ SwitchEngine(t) \/ Rename(t)

TabsSpec == TabsInit /\ [][TabsNext]_tabVars

-----------------------------------------------------------------------------
TabsTypeOK ==
  /\ kind \in [Tabs -> {"none", "engine", "shell"}]
  /\ win \in [Tabs -> 0..NoWindow]
  /\ review \in [Tabs -> BOOLEAN]
  /\ runs \in [Indices -> Tabs \cup {Nobody}]
  /\ op.at \in {"free", "observe", "number", "resume", "record", "insert", "window", "row",
                "remove", "deliver"}
  /\ faults \in 0..MaxFaults
  /\ {ended, crashed, lent, muddled, stray, hurt} \subseteq BOOLEAN

Undisturbed == ~ended /\ ~crashed /\ ~lent /\ ~muddled

\* As long as no window ends by itself, no crash cuts a request in two and no window is opened
\* past rows that a failed heal left behind, nothing that is typed, respawned or closed reaches
\* the program of another tab, however often tmux dies and heals fail half way: healing numbers
\* the windows anew, in the order of the numbers the rows still keep, so no row is given a window
\* that a later row still believes to be its own.
TabsStayApart == Undisturbed => ~hurt /\ ~stray

\* An ensure that comes to its end, with tmux alive since, leaves every engine tab with a
\* window that runs its engine, wherever tmux died or an earlier heal failed on the way before.
HealIsDone == OpAt("resume") /\ op.todo = {} /\ op.ensured
EnginesRun == \A t \in Engines : win[t] \in Indices /\ runs[win[t]] = t
EnsureHeals == HealIsDone /\ Undisturbed => EnginesRun

\* What heal.ts says of a heal (lines 141-142): the rebuild heals the engine tabs too and keeps
\* them alive, also when a tab was opened after a heal that failed half way.
EngineTabsHeal == HealIsDone /\ ~ended /\ ~crashed /\ ~lent => EnginesRun

\* What heal.ts says of a heal (line 139): rows of other tabs that point at windows of the
\* lost session are pruned, so a shell row that is left has its window.
ShellRowsAreReal ==
  OpAt("resume") /\ op.todo = {} /\ op.ensured /\ ~ended /\ ~crashed
    => \A t \in Tabs : kind[t] = "shell" => runs[win[t]] = t
=============================================================================
