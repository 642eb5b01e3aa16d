----------------------------- MODULE Provision -----------------------------
(***************************************************************************)
(* The environment of a task: the ignored files that are copied from the   *)
(* main checkout into its worktree (workspace/environment.ts and           *)
(* worktree-environment.ts), and the setup and init scripts, which a       *)
(* runner in a tmux pane runs while the daemon polls for its result file   *)
(* (workspace/setup.ts).  All worktrees of a task have the same path: one  *)
(* is removed when its provision fails or the task is archived, and        *)
(* another is made by a retry or an unarchive.  Lifecycle has the rest of  *)
(* what create, retry, archive and unarchive do.                           *)
(*                                                                         *)
(* Time goes in ticks: a script is killed after Limit of them, and the     *)
(* daemon waits Slack more for the result.                                 *)
(***************************************************************************)
EXTENDS Naturals, FiniteSets

CONSTANTS
  Files,         \* files that the rules select
  Limit, Slack,  \* COOLIE_INIT_TIMEOUT_MS, and 5 s
  MaxScripts,    \* bound: setup scripts
  MaxTrees,      \* bound: worktrees made
  MaxWrites,     \* bound: files written or removed by the user and the engine
  MaxSetbacks     \* bound: ends of the daemon or of tmux, copies that fail

ASSUME ProvisionAssumption ==
  /\ {MaxScripts, MaxTrees, MaxWrites, MaxSetbacks} \subseteq Nat
  /\ {Limit, Slack} \subseteq Nat \ {0}

VARIABLES
  setups, hasInit,   \* the scripts there are: how many for the setup, and init.sh
  row,               \* status of the workspace: creating, active, error, archived
  trees,             \* worktrees made so far
  present,           \* whether there is one at the path
  source,            \* the files of the main checkout
  dest,              \* each file in the worktree: none, copy or own
  manifest,          \* the copy manifest
  marker,            \* the marker of init.sh, named for the path
  step,              \* of the provision in the lane: idle, copy, setup, wait, mark, hooks
  waited,            \* ticks since the daemon began to wait
  runner,            \* the pane: setup scripts left, whether init follows, ticks of the script
  answer,            \* the result file: none, ok, failed
  recopy,            \* POST /environment/recopy: its step, force, the files planned and those there
  ranHere, inited,   \* history: setup scripts and init that ended well in this worktree
  initBefore,        \* history: init ended well in an earlier one
  provisioned,       \* history: this worktree was provisioned, and not unarchived
  unheard,           \* history: how the daemon stopped waiting: never, late or lost
  writes, setbacks

scriptVars == <<waited, runner, answer>>
fileVars == <<source, dest, manifest, recopy>>
historyVars == <<ranHere, inited, initBefore, provisioned, unheard>>
provisionVars ==
  <<setups, hasInit, row, trees, present, fileVars, marker, step, scriptVars, historyVars, writes, setbacks>>
fixed == <<setups, hasInit>>

-----------------------------------------------------------------------------
NoRunner == [alive |-> FALSE, left |-> 0, init |-> FALSE, ran |-> 0]
NoRecopy == [step |-> "none", force |-> FALSE, plan |-> {}, had |-> {}]

There == {f \in Files : dest[f] # "none"}
Bare == dest' = [f \in Files |-> "none"]
Setback == setbacks < MaxSetbacks /\ setbacks' = setbacks + 1

\* A new worktree at the path.
NewTree(provision) ==
  /\ trees < MaxTrees /\ trees' = trees + 1
  /\ present' = TRUE /\ Bare
  /\ ranHere' = 0 /\ inited' = FALSE
  /\ initBefore' = (initBefore \/ inited)
  /\ provisioned' = provision

\* rollbackToError: the session is killed, and the runner with it; the worktree is removed.
RollsBack ==
  /\ row' = "error" /\ step' = "idle"
  /\ present' = FALSE /\ Bare
  /\ runner' = NoRunner /\ answer' = "none" /\ waited' = 0

-----------------------------------------------------------------------------
(* Provision.                                                               *)

\* Create, retry or enter.  A worktree that the end of the daemon left at the path makes
\* git worktree add fail.
Provisions ==
  /\ step = "idle" /\ row \in {"creating", "error"}
  /\ IF present
     THEN RollsBack /\ UNCHANGED <<trees, ranHere, inited, initBefore, provisioned>>
     ELSE /\ NewTree(TRUE)
          /\ row' = "creating" /\ step' = "copy"
          /\ UNCHANGED scriptVars
  /\ UNCHANGED <<fixed, source, manifest, recopy, marker, unheard, writes, setbacks>>

\* apply: the plan is all there is in the main checkout; a failure takes back what was
\* copied, and here the worktree too.
Copies ==
  /\ step = "copy"
  /\ \/ /\ dest' = [f \in Files |-> IF f \in source THEN "copy" ELSE dest[f]]
        /\ manifest' = source
        /\ step' = "setup"
        /\ UNCHANGED <<row, present, scriptVars, setbacks>>
     \/ Setback /\ RollsBack /\ UNCHANGED manifest
  /\ UNCHANGED <<fixed, trees, source, recopy, marker, historyVars, writes>>

\* As StartsScripts, but the marker of init.sh stands for the setup scripts too.
StartsScripts_SkipsSetup ==
  LET init == hasInit /\ ~marker IN
  /\ step = "setup"
  /\ IF (setups = 0 \/ marker) /\ ~init
     THEN step' = "hooks" /\ UNCHANGED scriptVars
     ELSE /\ step' = "wait" /\ waited' = 0 /\ answer' = "none"
          /\ runner' = [alive |-> TRUE, left |-> setups, init |-> init, ran |-> 0]
  /\ UNCHANGED <<fixed, row, trees, present, fileVars, marker, historyVars, writes, setbacks>>

\* resolveInitContract, and the runner is started in a window of its own.
StartsScripts ==
  LET init == hasInit /\ ~marker IN
  /\ step = "setup"
  /\ IF setups = 0 /\ ~init
     THEN step' = "hooks" /\ UNCHANGED scriptVars
     ELSE /\ step' = "wait" /\ waited' = 0 /\ answer' = "none"
          /\ runner' = [alive |-> TRUE, left |-> setups, init |-> init, ran |-> 0]
  /\ UNCHANGED <<fixed, row, trees, present, fileVars, marker, historyVars, writes, setbacks>>

\* A script ends well: the next one, or the result.
ScriptEnds ==
  LET init == runner.left = 0 IN
  /\ runner.alive
  /\ IF init THEN inited' = TRUE /\ UNCHANGED ranHere ELSE ranHere' = ranHere + 1 /\ UNCHANGED inited
  /\ IF init \/ (runner.left = 1 /\ ~runner.init)
     THEN runner' = NoRunner /\ answer' = "ok"
     ELSE runner' = [runner EXCEPT !.left = @ - 1, !.ran = 0] /\ UNCHANGED answer
  /\ UNCHANGED <<fixed, row, trees, present, fileVars, marker, step, waited, initBefore, provisioned, unheard, writes, setbacks>>

\* It fails, or it is killed when its time is up.
ScriptFails ==
  /\ runner.alive
  /\ runner' = NoRunner /\ answer' = "failed"
  /\ UNCHANGED <<fixed, row, trees, present, fileVars, marker, step, waited, historyVars, writes, setbacks>>

Tick ==
  /\ step = "wait" \/ runner.alive
  /\ runner.alive => runner.ran < Limit
  /\ step = "wait" => waited < Limit + Slack /\ answer = "none"
  /\ waited' = IF step = "wait" THEN waited + 1 ELSE waited
  /\ runner' = IF runner.alive THEN [runner EXCEPT !.ran = @ + 1] ELSE runner
  /\ UNCHANGED <<fixed, row, trees, present, fileVars, marker, step, answer, historyVars, writes, setbacks>>

\* waitForPaneResult.  What the runner began is waited for once, however many scripts it has.
HearsRunner ==
  /\ step = "wait"
  /\ \/ /\ answer = "ok"
        /\ step' = "mark" /\ answer' = "none"
        /\ UNCHANGED <<row, present, dest, runner, waited, unheard>>
     \/ answer = "failed" /\ RollsBack /\ UNCHANGED unheard
     \/ /\ answer = "none" /\ waited = Limit + Slack
        /\ unheard' = IF runner.alive THEN "late" ELSE "lost"
        /\ RollsBack
  /\ UNCHANGED <<fixed, trees, source, manifest, recopy, marker, ranHere, inited, initBefore, provisioned, writes, setbacks>>

\* markInitComplete, when init was among the scripts.
Marks ==
  /\ step = "mark"
  /\ marker' = (marker \/ hasInit)
  /\ step' = "hooks"
  /\ UNCHANGED <<fixed, row, trees, present, fileVars, scriptVars, historyVars, writes, setbacks>>

\* The layout, the session of the engine, its first prompt.
Activates ==
  /\ step = "hooks"
  /\ \/ row' = "active" /\ step' = "idle" /\ UNCHANGED <<present, dest, scriptVars, setbacks>>
     \/ Setback /\ RollsBack
  /\ UNCHANGED <<fixed, trees, source, manifest, recopy, marker, historyVars, writes>>

-----------------------------------------------------------------------------
(* Archive, and unarchive, which makes the worktree and nothing in it.      *)

ArchivesTree ==
  /\ step = "idle" /\ row = "active"
  /\ row' = "archived" /\ present' = FALSE /\ Bare
  /\ UNCHANGED <<fixed, trees, source, manifest, recopy, marker, step, scriptVars, historyVars, writes, setbacks>>

Unarchives ==
  /\ step = "idle" /\ row = "archived"
  /\ NewTree(FALSE)
  /\ row' = "active"
  /\ UNCHANGED <<fixed, source, manifest, recopy, marker, step, scriptVars, unheard, writes, setbacks>>

-----------------------------------------------------------------------------
(* Copy again, outside the lane.                                            *)

\* As PlansRecopy, but files that are there are copied again.
PlansRecopy_Everything ==
  /\ recopy = NoRecopy
  /\ \E force \in BOOLEAN : recopy' = [step |-> "planned", force |-> force, had |-> There, plan |-> source]
  /\ UNCHANGED <<fixed, row, trees, present, source, dest, manifest, marker, step, scriptVars, historyVars, writes, setbacks>>

\* Without force, files that are there are left out.
PlansRecopy ==
  /\ recopy = NoRecopy
  /\ \E force \in BOOLEAN :
       recopy' = [step |-> "planned", force |-> force, had |-> There,
                  plan |-> IF force THEN source ELSE source \ There]
  /\ UNCHANGED <<fixed, row, trees, present, source, dest, manifest, marker, step, scriptVars, historyVars, writes, setbacks>>

\* The manifest is replaced by what was planned.  When a file fails, those that were copied
\* before it are removed, and what they replaced is not put back.
Recopies ==
  /\ recopy.step = "planned"
  /\ recopy' = NoRecopy
  /\ CASE ~present -> UNCHANGED <<dest, setbacks>> /\ manifest' = IF recopy.plan = {} THEN {} ELSE manifest
       [] OTHER ->
            \/ /\ dest' = [f \in Files |-> IF f \in recopy.plan THEN "copy" ELSE dest[f]]
               /\ manifest' = recopy.plan
               /\ UNCHANGED setbacks
            \/ /\ Setback
               /\ \E copied \in SUBSET recopy.plan :
                    /\ copied # recopy.plan
                    /\ dest' = [f \in Files |-> IF f \in copied THEN "none" ELSE dest[f]]
               /\ UNCHANGED manifest
  /\ UNCHANGED <<fixed, row, trees, present, source, marker, step, scriptVars, historyVars, writes>>

-----------------------------------------------------------------------------
\* The user and the engine write files of their own.
WritesFile(f) ==
  /\ writes < MaxWrites /\ writes' = writes + 1
  /\ \/ row = "active" /\ dest' = [dest EXCEPT ![f] = "own"] /\ UNCHANGED source
     \/ source' = (IF f \in source THEN source \ {f} ELSE source \cup {f}) /\ UNCHANGED dest
  /\ UNCHANGED <<fixed, row, trees, present, manifest, recopy, marker, step, scriptVars, historyVars, setbacks>>

\* The runner lives in tmux and goes on; nobody reads its result.
DaemonEnds ==
  /\ Setback
  /\ step' = "idle" /\ waited' = 0 /\ recopy' = NoRecopy
  /\ UNCHANGED <<fixed, row, trees, present, source, dest, manifest, marker, runner, answer, historyVars, writes>>

RunnerDies ==
  /\ Setback /\ runner.alive
  /\ runner' = NoRunner
  /\ UNCHANGED <<fixed, row, trees, present, fileVars, marker, step, waited, answer, historyVars, writes>>

-----------------------------------------------------------------------------
ProvisionInit ==
  /\ setups \in 0..MaxScripts /\ hasInit \in BOOLEAN
  /\ row = "creating" /\ trees = 0 /\ present = FALSE
  /\ source = Files /\ dest = [f \in Files |-> "none"] /\ manifest = {}
  /\ marker = FALSE /\ step = "idle" /\ waited = 0
  /\ runner = NoRunner /\ answer = "none" /\ recopy = NoRecopy
  /\ ranHere = 0 /\ inited = FALSE /\ initBefore = FALSE /\ provisioned = FALSE /\ unheard = "never"
  /\ writes = 0 /\ setbacks = 0

ProvisionNext ==
  \/ Provisions \/ Copies \/ StartsScripts \/ ScriptEnds \/ ScriptFails \/ Tick
  \/ HearsRunner \/ Marks \/ Activates
  \/ ArchivesTree \/ Unarchives
  \/ PlansRecopy \/ Recopies \/ \E f \in Files : WritesFile(f)
  \/ DaemonEnds \/ RunnerDies

ProvisionSpec == ProvisionInit /\ [][ProvisionNext]_provisionVars

-----------------------------------------------------------------------------
ProvisionTypeOK ==
  /\ setups \in 0..MaxScripts /\ trees \in 0..MaxTrees
  /\ row \in {"creating", "active", "error", "archived"}
  /\ source \subseteq Files /\ manifest \subseteq Files
  /\ dest \in [Files -> {"none", "copy", "own"}]
  /\ step \in {"idle", "copy", "setup", "wait", "mark", "hooks"}
  /\ waited \in 0..(Limit + Slack)
  /\ runner \in [alive : BOOLEAN, left : 0..MaxScripts, init : BOOLEAN, ran : 0..Limit]
  /\ answer \in {"none", "ok", "failed"}
  /\ recopy \in [step : {"none", "planned"}, force : BOOLEAN, plan : SUBSET Files, had : SUBSET Files]
  /\ {hasInit, present, marker, inited, initBefore, provisioned} \subseteq BOOLEAN

\* The engine of a task that was created or retried finds a worktree in which every setup
\* script ended well, and init too, here or in an earlier worktree of the task; and no
\* runner is given up while it still works, unless it has several scripts.
SetupIsComplete ==
  /\ row = "active" /\ provisioned => ranHere = setups /\ (hasInit => inited \/ initBefore)
  /\ unheard = "late" => setups + (IF hasInit THEN 1 ELSE 0) > 1

\* A recopy that was not forced takes nothing from the user: no file that was there when it
\* was planned is replaced, or removed when a copy fails.
OwnWritesKept ==
  [][\A f \in recopy.had : dest[f] = "own" /\ dest'[f] # "own" /\ present' /\ trees' = trees => recopy.force]_provisionVars

\* README: init.sh ends well once in each physical worktree.
InitPerWorktree == row = "active" /\ hasInit => inited
=============================================================================
