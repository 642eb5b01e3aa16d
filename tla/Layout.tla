------------------------------- MODULE Layout -------------------------------
(***************************************************************************)
(* The layout of the tmux session of a workspace and its zen mode          *)
(* (tmux/layout.ts, getLayoutState and setLayoutState of                   *)
(* repo/workspaces.ts, POST /workspaces/:id/zen, toggleZen of the desktop  *)
(* client).  Entering zen writes down the tab in front and the sizes of    *)
(* the windows, and brings an engine to the front; leaving it brings back  *)
(* the tab.  Between the two, tabs are opened and closed, tmux ends and is *)
(* healed, as a whole or half way, users select windows in an attached     *)
(* terminal, and the buttons of several desktop windows ask for the        *)
(* opposite of what they last saw.                                         *)
(*                                                                         *)
(* What a program that ends by itself does to the rows is in TabWindows.   *)
(* The labels of the windows (@role, @tab_id) are left out: what is        *)
(* modelled here never reads them.                                         *)
(***************************************************************************)
EXTENDS Naturals, FiniteSets

CONSTANTS
  EngineTabs, ShellTabs,   \* names of tabs
  Desktops,     \* desktop windows
  NoTab,
  MaxFrame, MaxPresses, MaxHands, MaxBreaks   \* bounds: window numbers, presses of the
                \* button, what users do in a terminal, deaths and failures of tmux

ASSUME LayoutAssumption ==
  /\ EngineTabs \cap ShellTabs = {} /\ NoTab \notin EngineTabs \cup ShellTabs
  /\ {MaxFrame, MaxPresses, MaxHands, MaxBreaks} \subseteq Nat

VARIABLES
  place,        \* the rows: of each tab that is open, its tmux_window
  frames,       \* the windows of the session, with the size of each
  front,        \* its active window
  todo,         \* the ensure that is in the lane: the engine tabs it has yet to resume, and NoTab for
                \* the arrangement at its end; empty when the lane is free
  layout,       \* the state that is persisted
  believed,     \* zenMode in the row that each desktop window has
  presses,      \* requests of the button that are under way
  pressed, hands, breaks,
  came, spoilt  \* history: the tab in front when zen was entered; since then it was entered
                \* again, or tmux failed in the middle

session == <<place, frames, front, todo>>
wishes == <<believed, presses, pressed>>
memory == <<layout, came, spoilt>>
layoutVars == <<session, wishes, memory, hands, breaks>>

-----------------------------------------------------------------------------
Frames == 0..MaxFrame
NoFrame == MaxFrame + 1
Open == DOMAIN place
FrameOf(t) == IF t \in Open THEN place[t] ELSE NoFrame
\* The rows are sorted by window and then by id; after a heal that failed two may have one number.
Holder(i) == IF \E t \in Open : place[t] = i THEN CHOOSE t \in Open : place[t] = i ELSE NoTab
Foremost(E) == CHOOSE t \in E : \A u \in E : place[t] <= place[u]
OpenEngines == Open \cap EngineTabs
FirstEngine == IF OpenEngines = {} THEN NoTab ELSE Foremost(OpenEngines)

\* The window that decideLayout selects in zen.
ZenFrame(state) == FrameOf(IF state.focused \in Open THEN state.focused ELSE FirstEngine)

\* applyLayoutDecision: the sizes of the windows that are there, out of zen.
Arranged(s, state) ==
  [i \in DOMAIN s |-> IF ~state.zen /\ i \in DOMAIN state.sizes THEN state.sizes[i] ELSE s[i]]
\* select-window of a window that is not there fails.
SelectsWindow(s, i) == front' = IF i \in DOMAIN s THEN i ELSE front

\* reconcile of the windows `s` with `f` in front.  It ends with the selection, which fails when in
\* zen the row of the tab in focus names a window that is not there.
Reconciles(s) == s = <<>> \/ ~layout.zen \/ ZenFrame(layout) \in DOMAIN s
Reconcile(s, f) ==
  /\ frames' = Arranged(s, layout)
  /\ front' = IF s # <<>> /\ layout.zen THEN ZenFrame(layout) ELSE f

-----------------------------------------------------------------------------
(* The lane of the workspace.                                               *)

LaneFree == todo = {}
Add(f, x, y) == [k \in DOMAIN f \cup {x} |-> IF k = x THEN y ELSE f[k]]
Keep(f, S) == [k \in DOMAIN f \cap S |-> f[k]]
Lowest(S) == CHOOSE i \in S : \A j \in S : i <= j
Fresh == "wide"

\* new-window takes the lowest number that is free, and its window to the front.  The layout is
\* arranged after a shell only, and the shell stays when that fails; it is never the tab in focus.
\* The name of a tab that was closed stands for a new one when nothing refers to the old one.
Opens(t) ==
  /\ LaneFree
  /\ t \notin Open \cup {layout.focused, layout.restore, came} \cup {p.tab : p \in presses}
  /\ frames # <<>> /\ Frames \ DOMAIN frames # {}
  /\ LET i == Lowest(Frames \ DOMAIN frames)
         s == Add(frames, i, Fresh) IN
     /\ place' = Add(place, t, i)
     /\ IF t \in ShellTabs /\ Reconciles(s) THEN Reconcile(s, i) ELSE frames' = s /\ front' = i
  /\ UNCHANGED <<todo, wishes, memory, hands, breaks>>

\* The last engine is not closed; tmux puts another window to the front, or ends the session with
\* its last window.
Closes(t) ==
  /\ LaneFree
  /\ t \in Open /\ OpenEngines \ {t} # {}
  /\ place' = Keep(place, Open \ {t})
  /\ frames' = Keep(frames, Frames \ {place[t]})
  /\ IF frames' = <<>> THEN front' = NoFrame
     ELSE IF front = place[t] THEN front' \in DOMAIN frames' ELSE UNCHANGED front
  /\ UNCHANGED <<todo, wishes, memory, hands, breaks>>

\* ensure with a session: it is arranged, or all fails; rows of shells without a window go, and
\* engines without one are to be resumed.
Ensures ==
  /\ LaneFree /\ frames # <<>> /\ Reconciles(frames)
  /\ Reconcile(frames, front)
  /\ place' = Keep(place, {t \in Open : t \in EngineTabs \/ place[t] \in DOMAIN frames})
  /\ todo' = {t \in OpenEngines : place[t] \notin DOMAIN frames} \cup {NoTab}
  /\ UNCHANGED <<wishes, memory, hands, breaks>>

\* ensure without a session, at first or on behalf of a tab that is to be resumed: a new one with
\* the first engine in window 0; the other engines keep the numbers they had until they are resumed.
Recreates ==
  /\ frames = <<>> /\ todo # {NoTab}
  /\ frames' = [i \in {0} |-> Fresh] /\ front' = 0
  /\ place' = [t \in OpenEngines \cup {u \in Open : place[u] = 0} |-> IF t = FirstEngine THEN 0 ELSE place[t]]
  /\ todo' = (OpenEngines \ {FirstEngine}) \cup {NoTab}
  /\ UNCHANGED <<wishes, memory, hands, breaks>>

\* resumeTab of the next engine: in the window its row names, or else in a new one.
Resumes(t) ==
  /\ todo \ {NoTab} # {} /\ t = Foremost(todo \ {NoTab})
  /\ frames # <<>> /\ Reconciles(frames)
  /\ todo' = todo \ {t}
  /\ IF place[t] \in DOMAIN frames
     THEN Reconcile(frames, front) /\ UNCHANGED place
     ELSE /\ Frames \ DOMAIN frames # {}
          /\ LET i == Lowest(Frames \ DOMAIN frames) IN
             /\ place' = [place EXCEPT ![t] = i]
             /\ frames' = Add(Arranged(frames, layout), i, Fresh) /\ front' = i
  /\ UNCHANGED <<wishes, memory, hands, breaks>>

EnsureEnds ==
  /\ todo = {NoTab} /\ Reconciles(frames)
  /\ Reconcile(frames, front)
  /\ todo' = {}
  /\ UNCHANGED <<place, wishes, memory, hands, breaks>>

\* The arrangement fails, or the engine of the tab is no longer in the registry, or tmux: the rest
\* of the ensure is not done.
EnsureFails ==
  /\ ~LaneFree /\ todo' = {}
  /\ UNCHANGED <<place, frames, front, wishes, memory, hands, breaks>>

ZenOn(tab) ==
  LET active == Holder(front) IN
  [zen |-> TRUE,
   focused |-> IF tab # NoTab THEN tab ELSE FirstEngine,
   restore |-> IF frames # <<>> /\ active # NoTab THEN active ELSE layout.restore,
   sizes |-> IF frames # <<>> THEN frames ELSE layout.sizes]

\* As ZenOff, but the tab to go back to is forgotten with the focus.
ZenOff_Forgets == [layout EXCEPT !.zen = FALSE, !.focused = NoTab, !.restore = NoTab]
ZenOff == [layout EXCEPT !.zen = FALSE, !.focused = NoTab]

\* setZen.  The state is written first; without a session that is all, and tmux may fail in
\* what follows.
Serves(p) ==
  /\ LaneFree
  /\ p.tab = NoTab \/ p.tab \in OpenEngines
  /\ LET next == IF p.zen THEN ZenOn(p.tab) ELSE ZenOff
         to == IF p.zen THEN ZenFrame(next) ELSE FrameOf(next.restore) IN
     /\ layout' = next
     /\ \/ frames' = Arranged(frames, next) /\ SelectsWindow(frames, to) /\ UNCHANGED breaks
        \/ breaks < MaxBreaks /\ breaks' = breaks + 1 /\ UNCHANGED <<frames, front>>
     /\ spoilt' = IF p.zen /\ ~layout.zen THEN breaks' > breaks ELSE (spoilt \/ p.zen \/ breaks' > breaks)
     /\ came' = IF p.zen /\ ~layout.zen THEN (IF frames # <<>> THEN Holder(front) ELSE NoTab) ELSE came
  /\ presses' = presses \ {p}
  /\ UNCHANGED <<place, todo, believed, pressed, hands>>

Refuses(p) ==
  /\ LaneFree
  /\ p.tab # NoTab /\ p.tab \notin Open
  /\ presses' = presses \ {p}
  /\ UNCHANGED <<session, memory, believed, pressed, hands, breaks>>

-----------------------------------------------------------------------------
(* The desktop, the terminals and tmux.                                     *)

\* toggleZen: the opposite of the row, and the selected engine tab or the first.
PressesZen(d, tab) ==
  /\ pressed < MaxPresses /\ pressed' = pressed + 1
  /\ tab \in OpenEngines \cup {NoTab}
  /\ presses' = presses \cup {[zen |-> ~believed[d], tab |-> tab]}
  /\ UNCHANGED <<session, memory, believed, hands, breaks>>

\* refreshWorkspaces, after the request or after workspace.layout.changed.
Refreshes(d) ==
  /\ believed' = [believed EXCEPT ![d] = layout.zen]
  /\ UNCHANGED <<session, memory, presses, pressed, hands, breaks>>

UserWorks ==
  /\ hands < MaxHands /\ hands' = hands + 1
  /\ \/ front' \in DOMAIN frames /\ UNCHANGED frames
     \/ \E i \in DOMAIN frames : \E size \in {"wide", "narrow"} :
          frames' = [frames EXCEPT ![i] = size] /\ UNCHANGED front
  /\ UNCHANGED <<place, todo, wishes, memory, breaks>>

TmuxEnds ==
  /\ frames # <<>> /\ breaks < MaxBreaks /\ breaks' = breaks + 1
  /\ frames' = <<>> /\ front' = NoFrame
  /\ UNCHANGED <<place, todo, wishes, memory, hands>>

-----------------------------------------------------------------------------
LayoutInit ==
  /\ \E t \in EngineTabs : place = [u \in {t} |-> 0]
  /\ frames = [i \in {0} |-> Fresh] /\ front = 0 /\ todo = {}
  /\ layout = [zen |-> FALSE, focused |-> NoTab, restore |-> NoTab, sizes |-> <<>>]
  /\ believed = [d \in Desktops |-> FALSE] /\ presses = {}
  /\ pressed = 0 /\ hands = 0 /\ breaks = 0
  /\ came = NoTab /\ spoilt = FALSE

LayoutNext ==
  \/ \E t \in EngineTabs \cup ShellTabs : Opens(t) \/ Closes(t)
  \/ \E t \in EngineTabs : Resumes(t)
  \/ Ensures \/ Recreates \/ EnsureEnds \/ EnsureFails \/ UserWorks \/ TmuxEnds
  \/ \E p \in presses : Serves(p) \/ Refuses(p)
  \/ \E d \in Desktops : Refreshes(d) \/ \E tab \in EngineTabs \cup {NoTab} : PressesZen(d, tab)

LayoutSpec == LayoutInit /\ [][LayoutNext]_layoutVars

-----------------------------------------------------------------------------
LayoutTypeOK ==
  /\ Open \subseteq EngineTabs \cup ShellTabs /\ \A t \in Open : place[t] \in Frames
  /\ DOMAIN frames \subseteq Frames /\ front \in Frames \cup {NoFrame}
  /\ todo \subseteq EngineTabs \cup {NoTab}
  /\ layout.zen \in BOOLEAN /\ DOMAIN layout.sizes \subseteq Frames
  /\ believed \in [Desktops -> BOOLEAN]

\* Leaving zen brings back the tab that was in front when it was entered, by the window its row
\* names now: also when tabs were opened and closed meanwhile, or tmux ended and the tab has another
\* window since, or a heal failed half way; unless that window is not there, zen was entered a
\* second time, from a desktop window that did not know, or tmux failed in the middle.
ZenReturns ==
  [][layout.zen /\ ~layout'.zen /\ ~spoilt' /\ came \in Open /\ place[came] \in DOMAIN frames
       => front' = place[came]]_layoutVars
=============================================================================
