----------------------------- MODULE Collecting -----------------------------
(***************************************************************************)
(* What is read off the worktrees again and again: the snapshots of the    *)
(* background collector (collector/background.ts), every 30 seconds of all *)
(* workspaces and on demand of one; and GET /checks (http/checks.ts), which *)
(* the checks panel of a window polls (rightpanel/ChecksPanel.tsx).        *)
(* Collections overlap: those of one workspace or of all are shared, those *)
(* of different keys are not, and a collection keeps the list of           *)
(* workspaces it began with.                                               *)
(*                                                                         *)
(* All that git, gh and the transcripts show of a workspace is one version. *)
(* A behaviour watches the collector or the panel, which only reads what   *)
(* the collector has.                                                      *)
(***************************************************************************)
EXTENDS Naturals, FiniteSets

CONSTANTS
  Workspaces, Nobody,
  MaxWorld,       \* bound: changes of the workspaces
  MaxTrouble,     \* bound: probes that fail or time out, requests that fail
  MaxPolls        \* bound: requests of the panel under way

ASSUME CollectingAssumption == {MaxWorld, MaxTrouble, MaxPolls} \subseteq Nat /\ Nobody \notin Workspaces

VARIABLES
  watched,      \* the collector or the panel
  world,        \* of each workspace: its status and the version of its worktree
  changes,
  collects,     \* the collections under way, of each key: how far each workspace is
  snapshots,    \* the last snapshot of each workspace
  toldOf,       \* the last collector.snapshot.changed of each
  checking,     \* the step of the collection of checks under way of each workspace
  polls,        \* requests of the panel: the workspace, whether the answer is there
  panel,        \* the workspace selected, the one whose checks are shown
  repainted,    \* history: an answer was painted since the selection
  trouble

collectVars == <<watched, world, changes, collects, snapshots, toldOf, checking, polls, panel, repainted, trouble>>
collector == <<watched, collects, snapshots, toldOf>>
window == <<checking, polls, panel, repainted>>

-----------------------------------------------------------------------------
Versions == 0..MaxWorld
Failed == MaxWorld + 1
All == Workspaces
Keys == {{w} : w \in Workspaces} \cup {All}     \* "*" is the key All

Cell(at, as, v) == [at |-> at, as |-> as, v |-> v]
Out == Cell("out", "none", 0)
NoCollect == [w \in Workspaces |-> Out]

Listed(w) == world[w].status # "deleted"
Quiet(w) == world[w].status = "archived"
NoSnapshot == [as |-> "none", v |-> 0]

\* What a snapshot should be by now; a quiet one has no version.
Due(w) == CASE ~Listed(w) -> NoSnapshot
            [] Quiet(w) -> [as |-> "archived", v |-> 0]
            [] OTHER -> [as |-> "active", v |-> world[w].version]

-----------------------------------------------------------------------------
(* The collector.                                                           *)

\* As Collects, but nothing is forgotten.
Collects_KeepsGone(k) ==
  /\ collects[k] = NoCollect
  /\ collects' = [collects EXCEPT ![k] =
       [w \in Workspaces |-> IF w \in k /\ Listed(w) THEN Cell("due", world[w].status, 0) ELSE Out]]
  /\ UNCHANGED <<snapshots, toldOf>>

\* collect of a key: one that is under way is shared.  The collection of all forgets the
\* workspaces that are gone.
Collects(k) ==
  /\ collects[k] = NoCollect
  /\ collects' = [collects EXCEPT ![k] =
       [w \in Workspaces |-> IF w \in k /\ Listed(w) THEN Cell("due", world[w].status, 0) ELSE Out]]
  /\ IF k = All
     THEN snapshots' = [w \in Workspaces |-> IF Listed(w) THEN snapshots[w] ELSE NoSnapshot]
     ELSE UNCHANGED snapshots
  /\ UNCHANGED toldOf

\* The timer.
Ticks ==
  /\ watched = "collector"
  /\ Collects(All)
  /\ UNCHANGED <<watched, world, changes, window, trouble>>

\* POST /collect.
Demanded(w) ==
  /\ watched = "collector"
  /\ Collects({w})
  /\ UNCHANGED <<watched, world, changes, window, trouble>>

\* diffstat, pull request and transcript, each within its time; those of a workspace that
\* was listed as archived are not read.
Probes(k, w) ==
  /\ collects[k][w].at = "due" /\ collects[k][w].as = "active"
  /\ \/ collects' = [collects EXCEPT ![k][w] = Cell("read", "active", world[w].version)] /\ UNCHANGED trouble
     \/ /\ trouble < MaxTrouble /\ trouble' = trouble + 1
        /\ collects' = [collects EXCEPT ![k][w] = Cell("read", "active", Failed)]
  /\ UNCHANGED <<watched, world, changes, snapshots, toldOf, window>>

\* The snapshot is set, and told of when it differs from the one before.
Stores(k, w) ==
  LET cell == collects[k][w]
      snapshot == [as |-> cell.as, v |-> cell.v] IN
  /\ cell.at = IF cell.as = "active" THEN "read" ELSE "due"
  /\ cell.at # "out"
  /\ collects' = [collects EXCEPT ![k][w] = Out]
  /\ snapshots' = [snapshots EXCEPT ![w] = snapshot]
  /\ toldOf' = IF snapshots[w] = snapshot THEN toldOf ELSE [toldOf EXCEPT ![w] = snapshot]
  /\ UNCHANGED <<watched, world, changes, window, trouble>>

-----------------------------------------------------------------------------
(* GET /checks.                                                             *)

Poll(w, ready) == [ws |-> w, ready |-> ready]
ChecksGo(w, from, to) == checking[w] = from /\ checking' = [checking EXCEPT ![w] = to]

\* A collection of checks that is under way is shared; an archived workspace has none.
PanelPolls ==
  LET w == panel.ws IN
  /\ w # Nobody /\ Cardinality(polls) < MaxPolls
  /\ polls' = polls \cup {Poll(w, world[w].status # "active")}
  /\ IF world[w].status = "active" /\ checking[w] = "none" THEN ChecksGo(w, "none", "git") ELSE UNCHANGED checking
  /\ UNCHANGED <<world, changes, collector, panel, repainted, trouble>>

\* git status, then the pull request as the collector knows it, which is asked to collect
\* when it knows of none; of a snapshot it is left open here whether there is one.
ReadsStatus(w) ==
  /\ \/ /\ snapshots[w] # NoSnapshot
        /\ ChecksGo(w, "git", "ci") /\ UNCHANGED collector
     \/ /\ ChecksGo(w, "git", "collect")
        /\ IF collects[{w}] = NoCollect THEN Collects({w}) /\ UNCHANGED watched ELSE UNCHANGED collector
  /\ UNCHANGED <<world, changes, polls, panel, repainted, trouble>>

AwaitsCollect(w) ==
  /\ collects[{w}] = NoCollect
  /\ ChecksGo(w, "collect", "ci")
  /\ UNCHANGED <<world, changes, collector, polls, panel, repainted, trouble>>

\* gh pr checks: its failure is an item of the answer.  All who asked get it.
AnswersChecks(w) ==
  /\ ChecksGo(w, "ci", "none")
  /\ polls' = {IF p.ws = w THEN Poll(w, TRUE) ELSE p : p \in polls}
  /\ UNCHANGED <<world, changes, collector, panel, repainted, trouble>>

\* As PanelPaints, but an answer is painted whoever is selected by then.
PanelPaints_Late(p) ==
  /\ p.ready
  /\ polls' = polls \ {p}
  /\ panel' = [panel EXCEPT !.shows = p.ws, !.error = Nobody] /\ repainted' = TRUE
  /\ UNCHANGED <<world, changes, collector, checking, trouble>>

\* shouldApplyAsyncResult
PanelPaints(p) ==
  /\ p.ready
  /\ polls' = polls \ {p}
  /\ IF p.ws = panel.ws
     THEN panel' = [panel EXCEPT !.shows = p.ws, !.error = Nobody] /\ repainted' = TRUE
     ELSE UNCHANGED <<panel, repainted>>
  /\ UNCHANGED <<world, changes, collector, checking, trouble>>

\* An error is shown, whoever is selected by then.
PanelFails(p) ==
  /\ trouble < MaxTrouble /\ trouble' = trouble + 1
  /\ polls' = polls \ {p}
  /\ panel' = [panel EXCEPT !.error = p.ws]
  /\ UNCHANGED <<world, changes, collector, checking, repainted>>

\* The panel keeps what it shows until the first answer.
Selects(w) ==
  /\ watched = "panel" /\ w # panel.ws
  /\ panel' = [panel EXCEPT !.ws = w]
  /\ repainted' = FALSE
  /\ UNCHANGED <<world, changes, collector, checking, polls, trouble>>

-----------------------------------------------------------------------------
\* The engine works, or the workspace is archived, taken back or deleted.
WorldChanges(w) ==
  /\ changes < MaxWorld /\ changes' = changes + 1
  /\ \/ world[w].status = "active" /\ world' = [world EXCEPT ![w].version = changes']
     \/ /\ world[w].status = "active"
        /\ world' = [world EXCEPT ![w].status = "archived"]
     \/ /\ world[w].status = "archived"
        /\ \E s \in {"active", "deleted"} : world' = [world EXCEPT ![w].status = s]
  /\ UNCHANGED <<collector, window, trouble>>

CollectingInit ==
  /\ watched \in {"collector", "panel"}
  /\ world \in [Workspaces -> [status : {"active", "archived"}, version : {0}]]
  /\ changes = 0 /\ trouble = 0
  /\ collects = [k \in Keys |-> NoCollect]
  /\ snapshots = [w \in Workspaces |-> NoSnapshot] /\ toldOf = snapshots
  /\ checking = [w \in Workspaces |-> "none"]
  /\ polls = {}
  /\ panel = [ws |-> Nobody, shows |-> Nobody, error |-> Nobody]
  /\ repainted = FALSE

CollectingNext ==
  \/ Ticks \/ \E k \in Keys, w \in Workspaces : Probes(k, w) \/ Stores(k, w)
  \/ \E w \in Workspaces :
       Demanded(w) \/ WorldChanges(w) \/ Selects(w) \/ ReadsStatus(w) \/ AwaitsCollect(w) \/ AnswersChecks(w)
  \/ PanelPolls
  \/ \E p \in polls : PanelPaints(p) \/ PanelFails(p)

CollectingSpec == CollectingInit /\ [][CollectingNext]_collectVars

\* The timer goes off again and again, and what reads a worktree ends: it has a timeout.
CollectsAll == \E w \in Workspaces : Probes(All, w) \/ Stores(All, w)
CollectingFairness == WF_collectVars(Ticks) /\ WF_collectVars(CollectsAll)

-----------------------------------------------------------------------------
CollectingTypeOK ==
  /\ watched \in {"collector", "panel"}
  /\ world \in [Workspaces -> [status : {"active", "archived", "deleted"}, version : Versions]]
  /\ collects \in [Keys -> [Workspaces -> [at : {"out", "due", "read"}, as : {"none", "active", "archived"}, v : 0..Failed]]]
  /\ snapshots \in [Workspaces -> [as : {"none", "active", "archived"}, v : 0..Failed]]
  /\ toldOf \in [Workspaces -> [as : {"none", "active", "archived"}, v : 0..Failed]]
  /\ checking \in [Workspaces -> {"none", "git", "collect", "ci"}]
  /\ polls \subseteq [ws : Workspaces, ready : BOOLEAN]
  /\ panel \in [ws : Workspaces \cup {Nobody}, shows : Workspaces \cup {Nobody}, error : Workspaces \cup {Nobody}]

\* Whatever collections overlap, the events tell of the snapshots there are: a client that
\* keeps the last event of a workspace has what GET /collect answers.
EventsTellSnapshots == \A w \in Workspaces : snapshots[w] # NoSnapshot => toldOf[w] = snapshots[w]

\* The checks painted since a workspace was selected are its own.
PaintedIsSelected == repainted => panel.shows = panel.ws

\* The invariant of the collector: its types, what clients were told, and what the panel paints.
CollectingKeeps == CollectingTypeOK /\ EventsTellSnapshots /\ PaintedIsSelected

\* An older collection may put back the snapshot of a workspace that was archived or deleted
\* since; but when nothing changes any more the snapshots become what the worktrees are.
SnapshotsSettle == watched = "collector" => <>[](\A w \in Workspaces : snapshots[w] = Due(w))
=============================================================================
