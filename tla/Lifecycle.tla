------------------------------ MODULE Lifecycle ------------------------------
(***************************************************************************)
(* The life of one workspace of the Coolie daemon: its row, its git        *)
(* worktree and branch, its tmux session and its engine tab, and every     *)
(* operation that moves them: create, ensure, retry, archive, unarchive,   *)
(* delete, rename of the branch, adoption of a foreign worktree, healing   *)
(* of the session, and the reconciliation of archives at start-up.         *)
(*                                                                         *)
(* Four stores are changed one after the other and none of them knows of   *)
(* the others: SQLite and git and tmux outlive the daemon.  One call to    *)
(* git or tmux, or one write to the database, is one step, so a crash or a *)
(* failure falls between any two.  Operations on a workspace exclude each  *)
(* other (the lane of the HTTP routes and the lock of the lifecycle), save *)
(* for the adoption, which starts its session outside both.  Workspaces    *)
(* share nothing but the base branch, so one of them is enough.            *)
(***************************************************************************)
EXTENDS Naturals, FiniteSets

CONSTANTS
  Names,        \* the names its branch can have
  Ops,          \* the operations this instance issues
  MaxBase,      \* bound: how often the base branch advances
  MaxCrashes, MaxMishaps   \* bounds: ends of the daemon, failures of git, tmux or SQLite

AllOps == {"create", "adopt", "ensure", "retry", "archive", "unarchive", "delete", "rename"}

ASSUME LifecycleAssumption ==
  /\ Names # {}
  /\ Ops \subseteq AllOps
  /\ {MaxBase, MaxCrashes, MaxMishaps} \subseteq Nat

VARIABLES
  \* the row of the workspace and the row of its engine tab
  status, ownership, materialized, ctx, force, rowBranch, baseRef, tabs,
  \* git and tmux
  wt, head, tips, base, session,
  \* the daemon process: the operation under way and where its fibers stand
  daemon, op, reqForce, reqBranch, pc,
  \* history and budgets
  prompted, everPrompted, consent, crashes, mishaps

rowVars == <<status, ownership, materialized, ctx, force, rowBranch, baseRef>>
gitVars == <<wt, head, tips, base>>
tmuxVars == <<session, tabs>>
opVars == <<daemon, op, reqForce, reqBranch, pc>>
promptVars == <<prompted, everPrompted>>
vars == <<rowVars, gitVars, tmuxVars, opVars, promptVars, consent, crashes, mishaps>>

-----------------------------------------------------------------------------
Statuses == {"none", "creating", "active", "archiving", "archived", "error", "gone"}
Points == 0..MaxBase
Own == MaxBase + 1        \* a tip with commits of the workspace on it
Missing == MaxBase + 2    \* no branch, or no base recorded yet
Fibers == {"lane", "adopt"}
Labels ==
  {"idle", "saveCtx", "resolve", "addNew", "addExisting", "setup", "scripts", "tabRow", "launch",
   "deliver", "materialize", "activate", "rbKill", "rbTabs", "rbTree", "rbMark",
   "observe", "relaunch", "relaunchNew", "markError", "reactivate",
   "kill", "guard", "remove", "complete", "assess", "cancel", "readd", "reopen",
   "delGuard", "delKill", "delTabs", "delTree", "delRow", "gitRename", "setBranch", "undo"}

Managed == ownership = "managed"
Present == wt # "absent"

\* Outcomes of a call that leaves the daemon: it works, or one of the bounded failures happens.
Works == UNCHANGED mishaps
Mishap == mishaps < MaxMishaps /\ mishaps' = mishaps + 1

At(label) == pc["lane"] = label

Move(p, label) ==
  /\ pc' = [pc EXCEPT ![p] = label]
  /\ UNCHANGED <<daemon, op, reqForce, reqBranch, consent>>

Goto(label) == Move("lane", label)

\* The operation answers and leaves the lane.  What the user agreed to lose stays agreed
\* only while the archive it belongs to is open.
Finish ==
  /\ pc' = [pc EXCEPT !["lane"] = "idle"]
  /\ op' = "none"
  /\ daemon' = "up"
  /\ reqForce' = FALSE
  /\ consent' = (consent /\ status' = "archiving")
  /\ UNCHANGED reqBranch

Begin(kind, label) ==
  /\ kind \in Ops
  /\ daemon = "up"
  /\ At("idle")
  /\ op' = kind
  /\ pc' = [pc EXCEPT !["lane"] = label]
  /\ UNCHANGED <<daemon, crashes, mishaps>>

RowKept == UNCHANGED rowVars
GitKept == UNCHANGED gitVars
TmuxKept == UNCHANGED tmuxVars
PromptsKept == UNCHANGED promptVars

-----------------------------------------------------------------------------
(* POST /workspaces: the row, then the first prompt and the engine to start. *)

\* Assumed of the world, not checked by the code: the path of a new task, below the directory
\* that is the daemon's own, holds nobody's worktree.  (One that is adopted lies elsewhere.)
PathIsFree == ~Present
CreateIntent ==
  /\ Begin("create", "saveCtx")
  /\ status = "none"
  /\ PathIsFree
  /\ status' = "creating"
  /\ UNCHANGED <<ownership, materialized, ctx, force, rowBranch, baseRef, reqForce, reqBranch, consent>>
  /\ GitKept /\ TmuxKept /\ PromptsKept

SavesCtx ==
  /\ At("saveCtx")
  /\ ctx' \in BOOLEAN
  /\ UNCHANGED status
  /\ Finish
  /\ UNCHANGED <<ownership, materialized, force, rowBranch, baseRef, crashes, mishaps>>
  /\ GitKept /\ TmuxKept /\ PromptsKept

-----------------------------------------------------------------------------
(* ensure and retry, and the pipeline that provisions a worktree.            *)

Ensure_Rematerializes ==
  /\ Begin("ensure", "resolve")
  /\ status \in {"creating", "error"}
  /\ status' = "creating"
  /\ UNCHANGED <<ownership, materialized, ctx, force, rowBranch, baseRef, reqForce, reqBranch, consent>>
  /\ GitKept /\ TmuxKept /\ PromptsKept

Ensure ==
  /\ \/ /\ Begin("ensure", "resolve")
        /\ ~materialized
        /\ status \in {"creating", "error"}
        /\ status' = "creating"
     \/ /\ Begin("ensure", "observe")
        /\ materialized
        /\ status = "active"
        /\ UNCHANGED status
  /\ UNCHANGED <<ownership, materialized, ctx, force, rowBranch, baseRef, reqForce, reqBranch, consent>>
  /\ GitKept /\ TmuxKept /\ PromptsKept

Retry_Provisions ==
  /\ Begin("retry", "resolve")
  /\ status = "error"
  /\ status' = "creating"
  /\ UNCHANGED <<ownership, materialized, ctx, force, rowBranch, baseRef, reqForce, reqBranch, consent>>
  /\ GitKept /\ TmuxKept /\ PromptsKept

\* A foreign worktree is never provisioned again, only its session is.
Retry ==
  /\ Begin("retry", IF Managed THEN "resolve" ELSE "reactivate")
  /\ status = "error"
  /\ status' = "creating"
  /\ UNCHANGED <<ownership, materialized, ctx, force, rowBranch, baseRef, reqForce, reqBranch, consent>>
  /\ GitKept /\ TmuxKept /\ PromptsKept

\* A branch that exists is reused at the fresh base, or where the last attempt recorded it.
Reusable(tip) == tip = base \/ tip = baseRef

ResolvesBase ==
  LET tip == tips[rowBranch] IN
  /\ At("resolve")
  /\ \/ /\ tip = Missing
        /\ baseRef' = base
        /\ Goto("addNew")
        /\ Works
     \/ /\ tip # Missing /\ Reusable(tip)
        /\ baseRef' = tip
        /\ Goto("addExisting")
        /\ Works
     \/ /\ tip # Missing /\ ~Reusable(tip)
        /\ Goto("rbKill")
        /\ Works
        /\ UNCHANGED baseRef
     \/ /\ Mishap
        /\ Goto("rbKill")
        /\ UNCHANGED baseRef
  /\ UNCHANGED <<status, ownership, materialized, ctx, force, rowBranch, crashes>>
  /\ GitKept /\ TmuxKept /\ PromptsKept

\* git worktree add: a new directory at the tip of the branch, and a new engine to prompt.
CheckOut(branch) ==
  /\ wt' = "clean"
  /\ head' = branch
  /\ prompted' = 0
  /\ UNCHANGED everPrompted

\* git worktree add -b starts the branch at what the base is now, and refuses a path that
\* is there: with or without the branch it has just made.
AddsNewBranch ==
  LET branched == [tips EXCEPT ![rowBranch] = base] IN
  /\ At("addNew")
  /\ \/ /\ ~Present
        /\ CheckOut(rowBranch)
        /\ tips' = branched
        /\ Goto("setup")
        /\ Works
     \/ /\ \/ Present /\ Works
           \/ Mishap
        /\ tips' \in {tips, branched}
        /\ Goto("rbKill")
        /\ UNCHANGED <<wt, head, promptVars>>
  /\ UNCHANGED <<base, crashes>>
  /\ RowKept /\ TmuxKept

\* git refuses a path that is there.
AddsExistingBranch ==
  /\ At("addExisting")
  /\ \/ /\ ~Present
        /\ CheckOut(rowBranch)
        /\ Goto("setup")
        /\ Works
     \/ /\ \/ Present /\ Works
           \/ Mishap
        /\ Goto("rbKill")
        /\ UNCHANGED <<wt, head, promptVars>>
  /\ UNCHANGED <<tips, base, crashes>>
  /\ RowKept /\ TmuxKept

\* Without setup scripts the hooks run at once; with them a session with a placeholder
\* window comes first, and tmux refuses a second session of that name.
PreparesSetup ==
  /\ At("setup")
  /\ \/ Works /\ Goto("tabRow") /\ UNCHANGED session
     \/ /\ session = "none"
        /\ session' = "placeholder"
        /\ Works
        /\ Goto("scripts")
     \/ session # "none" /\ Works /\ Goto("rbKill") /\ UNCHANGED session
     \/ Mishap /\ Goto("rbKill") /\ UNCHANGED session
  /\ UNCHANGED <<tabs, crashes>>
  /\ RowKept /\ GitKept /\ PromptsKept

\* A script may fail for reasons of its own.
RunsScripts ==
  /\ At("scripts")
  /\ Goto("tabRow") \/ Goto("rbKill")
  /\ UNCHANGED <<crashes, mishaps>>
  /\ RowKept /\ GitKept /\ TmuxKept /\ PromptsKept

InsertsTab ==
  /\ At("tabRow")
  /\ \/ tabs' = TRUE /\ Works /\ Goto("launch")
     \/ Mishap /\ Goto("rbKill") /\ UNCHANGED tabs
  /\ UNCHANGED <<session, crashes>>
  /\ RowKept /\ GitKept /\ PromptsKept

LaunchesEngine_Forgets ==
  /\ At("launch")
  /\ session' = "engine"
  /\ Goto("materialize")
  /\ UNCHANGED <<tabs, crashes, mishaps>>
  /\ RowKept /\ GitKept /\ PromptsKept

LaunchesEngine ==
  /\ At("launch")
  /\ \/ /\ session' = "engine"
        /\ Works
        /\ Goto(IF ctx THEN "deliver" ELSE "materialize")
     \/ /\ Mishap
        /\ session' \in {session, "engine"}
        /\ Goto("rbKill")
  /\ UNCHANGED <<tabs, crashes>>
  /\ RowKept /\ GitKept /\ PromptsKept

\* The hook waits for the engine, at most 90 s, and types the prompt.  A failure may be
\* reported after the pane took it.
DeliversPrompt ==
  LET typed == prompted' = prompted + 1 /\ everPrompted' = TRUE IN
  /\ At("deliver")
  /\ \/ session = "engine" /\ typed /\ Works /\ Goto("materialize")
     \/ session # "engine" /\ PromptsKept /\ Works /\ Goto("rbKill")
     \/ Mishap /\ (typed \/ PromptsKept) /\ Goto("rbKill")
  /\ UNCHANGED crashes
  /\ RowKept /\ GitKept /\ TmuxKept

Materializes ==
  /\ At("materialize")
  /\ materialized' = TRUE
  /\ Goto("activate")
  /\ UNCHANGED <<status, ownership, ctx, force, rowBranch, baseRef, crashes, mishaps>>
  /\ GitKept /\ TmuxKept /\ PromptsKept

\* retry answers here; ensure goes on to the session.
Activates ==
  /\ At("activate")
  /\ status' = "active"
  /\ IF op = "retry" THEN Finish ELSE Goto("observe")
  /\ UNCHANGED <<ownership, materialized, ctx, force, rowBranch, baseRef, crashes, mishaps>>
  /\ GitKept /\ TmuxKept /\ PromptsKept

-----------------------------------------------------------------------------
(* Rollback: every call is best effort, the branch stays.                    *)

RollbackKills ==
  /\ At("rbKill")
  /\ \/ session' = "none" /\ Works
     \/ Mishap /\ UNCHANGED session
  /\ Goto("rbTabs")
  /\ UNCHANGED <<tabs, crashes>>
  /\ RowKept /\ GitKept /\ PromptsKept

RollbackDropsTabs ==
  /\ At("rbTabs")
  /\ tabs' = FALSE
  /\ Goto("rbTree")
  /\ UNCHANGED <<session, crashes, mishaps>>
  /\ RowKept /\ GitKept /\ PromptsKept

RollbackRemoves ==
  /\ At("rbTree")
  /\ \/ wt' = "absent" /\ Works
     \/ Mishap /\ UNCHANGED wt
  /\ Goto("rbMark")
  /\ UNCHANGED <<head, tips, base, crashes>>
  /\ RowKept /\ TmuxKept /\ PromptsKept

RollbackMarks ==
  /\ At("rbMark")
  /\ status' = "error"
  /\ Finish
  /\ UNCHANGED <<ownership, materialized, ctx, force, rowBranch, baseRef, crashes, mishaps>>
  /\ GitKept /\ TmuxKept /\ PromptsKept

-----------------------------------------------------------------------------
(* SessionEnsurer: find the session, or start the engine again.  Inside an   *)
(* operation p is "lane"; the adoption runs it on its own.                   *)

\* Who asked decides what a healed session leads to.
HealSucceeds(p) ==
  \/ p = "adopt" /\ Move(p, "idle")
  \/ p = "lane" /\ op = "archive" /\ Goto("cancel")
  \/ p = "lane" /\ op # "archive" /\ Finish

HealFails(p) ==
  \/ (p = "adopt" \/ op = "retry") /\ Move(p, "markError")
  \/ p = "lane" /\ op # "retry" /\ Finish

\* Only the compensation of an archive may heal a workspace that is archiving.
Healable(p) == status = "active" \/ (p = "lane" /\ op = "archive" /\ status = "archiving")

HealObserves(p) ==
  /\ pc[p] = "observe"
  /\ RowKept
  /\ \/ /\ Healable(p) /\ session # "none"
        /\ HealSucceeds(p)
        /\ Works
        /\ UNCHANGED tabs
     \/ /\ Healable(p) /\ session = "none"
        /\ Move(p, IF tabs THEN "relaunch" ELSE "relaunchNew")
        /\ tabs' = TRUE
        /\ Works
     \/ /\ \/ ~Healable(p) /\ Works
           \/ Mishap
        /\ HealFails(p)
        /\ UNCHANGED tabs
  /\ UNCHANGED <<session, crashes>>
  /\ GitKept /\ PromptsKept

\* The status is not read again: what was observed may be over by now.
HealStarts(p) ==
  /\ pc[p] \in {"relaunch", "relaunchNew"}
  /\ RowKept
  /\ \/ /\ session' = "engine"
        /\ IF tabs THEN HealSucceeds(p) ELSE HealFails(p)
        /\ Works
        /\ UNCHANGED tabs
     \/ /\ Mishap
        /\ HealFails(p)
        /\ \/ session' \in {session, "engine"} /\ tabs' = (tabs /\ pc[p] = "relaunch")
           \/ session' = "engine" /\ UNCHANGED tabs
  /\ UNCHANGED crashes
  /\ GitKept /\ PromptsKept

\* setStatus refuses to leave archiving, archived or a deleted row.
MarksError(p) ==
  /\ pc[p] = "markError"
  /\ status' = IF status \in {"creating", "active"} THEN "error" ELSE status
  /\ IF p = "lane" THEN Finish ELSE Move(p, "idle")
  /\ UNCHANGED <<ownership, materialized, ctx, force, rowBranch, baseRef, crashes, mishaps>>
  /\ GitKept /\ TmuxKept /\ PromptsKept

\* retry of a foreign worktree: active first, then its session.
Reactivates ==
  /\ At("reactivate")
  /\ status' = "active"
  /\ Goto("observe")
  /\ UNCHANGED <<ownership, materialized, ctx, force, rowBranch, baseRef, crashes, mishaps>>
  /\ GitKept /\ TmuxKept /\ PromptsKept

\* A worktree git knows of becomes a workspace; its session starts outside the lane.
Adopt ==
  /\ "adopt" \in Ops
  /\ daemon = "up"
  /\ status = "none"
  /\ Present
  /\ status' = "active"
  /\ ownership' = "adopted"
  /\ materialized' = TRUE
  /\ Move("adopt", "observe")
  /\ UNCHANGED <<ctx, force, rowBranch, baseRef, crashes, mishaps>>
  /\ GitKept /\ TmuxKept /\ PromptsKept

-----------------------------------------------------------------------------
(* archive: the row freezes, the session ends, the tree goes, the row closes. *)

ArchiveBegins_Forgets(f) ==
  /\ Begin("archive", "kill")
  /\ status \in {"active", "archiving"}
  /\ status' = "archiving"
  /\ force' = f
  /\ consent' = (f \/ consent)
  /\ UNCHANGED <<ownership, materialized, ctx, rowBranch, baseRef, reqForce, reqBranch>>
  /\ GitKept /\ TmuxKept /\ PromptsKept

\* force, once asked for, holds until the archive is over.
ArchiveBegins(f) ==
  /\ Begin("archive", "kill")
  /\ status \in {"active", "archiving"}
  /\ status' = "archiving"
  /\ force' = (f \/ (status = "archiving" /\ force))
  /\ consent' = (f \/ consent)
  /\ UNCHANGED <<ownership, materialized, ctx, rowBranch, baseRef, reqForce, reqBranch>>
  /\ GitKept /\ TmuxKept /\ PromptsKept

\* The session may be gone and its other tabs not yet: that is a failure too.
KillsSession ==
  /\ At("kill")
  /\ \/ /\ session' = "none"
        /\ Works
        /\ Goto(IF Managed THEN "guard" ELSE "complete")
     \/ Mishap /\ session' \in {session, "none"} /\ Goto("assess")
  /\ UNCHANGED <<tabs, crashes>>
  /\ RowKept /\ GitKept /\ PromptsKept

\* What git worktree remove may take: a tree with changes only under --force.
Removable(forced) == wt = "clean" \/ (wt = "dirty" /\ forced)

GuardsTree_NeedsTree ==
  /\ At("guard")
  /\ Goto(IF Removable(force) THEN "remove" ELSE "assess")
  /\ UNCHANGED <<crashes, mishaps>>
  /\ RowKept /\ GitKept /\ TmuxKept /\ PromptsKept

GuardsTree ==
  /\ At("guard")
  /\ \/ ~Present /\ Works /\ Goto("complete")
     \/ Removable(force) /\ Works /\ Goto("remove")
     \/ Present /\ ~Removable(force) /\ Works /\ Goto("assess")
     \/ Mishap /\ Goto("assess")
  /\ UNCHANGED crashes
  /\ RowKept /\ GitKept /\ TmuxKept /\ PromptsKept

\* The tree may have changed since the guard, and the removal may fail after the tree went.
RemovesTree ==
  /\ At("remove")
  /\ \/ Removable(force) /\ wt' = "absent" /\ Works /\ Goto("complete")
     \/ ~Removable(force) /\ UNCHANGED wt /\ Works /\ Goto("assess")
     \/ /\ Mishap
        /\ wt' \in IF Removable(force) THEN {wt, "absent"} ELSE {wt}
        /\ Goto("assess")
  /\ UNCHANGED <<head, tips, base, crashes>>
  /\ RowKept /\ TmuxKept /\ PromptsKept

Completes ==
  /\ At("complete")
  /\ status' = "archived"
  /\ force' = FALSE
  /\ Finish
  /\ UNCHANGED <<ownership, materialized, ctx, rowBranch, baseRef, crashes, mishaps>>
  /\ GitKept /\ TmuxKept /\ PromptsKept

\* After a failure: with the tree still there the session is healed and the archive
\* cancelled; without it the row stays archiving, for another archive or the next start.
Assesses ==
  /\ At("assess")
  /\ RowKept
  /\ \/ Present /\ Works /\ Goto("observe")
     \/ ~Present /\ Works /\ Finish
     \/ Mishap /\ Finish
  /\ UNCHANGED crashes
  /\ GitKept /\ TmuxKept /\ PromptsKept

Cancels ==
  /\ At("cancel")
  /\ status' = "active"
  /\ force' = FALSE
  /\ Finish
  /\ UNCHANGED <<ownership, materialized, ctx, rowBranch, baseRef, crashes, mishaps>>
  /\ GitKept /\ TmuxKept /\ PromptsKept

-----------------------------------------------------------------------------
(* unarchive: the tree comes back from the branch, then the row, then the session. *)

Unarchive_NeedsPath ==
  /\ Begin("unarchive", IF Managed THEN "readd" ELSE "reopen")
  /\ status = "archived"
  /\ Managed <=> ~Present
  /\ tips[rowBranch] # Missing
  /\ UNCHANGED <<reqForce, reqBranch, consent>>
  /\ RowKept /\ GitKept /\ TmuxKept /\ PromptsKept

Unarchive ==
  /\ Begin("unarchive", IF Managed /\ ~Present THEN "readd" ELSE "reopen")
  /\ status = "archived"
  /\ Managed \/ Present
  /\ tips[rowBranch] # Missing
  /\ UNCHANGED <<reqForce, reqBranch, consent>>
  /\ RowKept /\ GitKept /\ TmuxKept /\ PromptsKept

\* A failure is cleaned up with --force.
ReaddsTree ==
  /\ At("readd")
  /\ RowKept
  /\ \/ ~Present /\ CheckOut(rowBranch) /\ Works /\ Goto("reopen")
     \/ /\ \/ Present /\ Works
           \/ Mishap
        /\ wt' = "absent"
        /\ UNCHANGED <<head, promptVars>>
        /\ Finish
  /\ UNCHANGED <<tips, base, crashes>>
  /\ TmuxKept

Reopens ==
  /\ At("reopen")
  /\ status' = "active"
  /\ Goto("observe")
  /\ UNCHANGED <<ownership, materialized, ctx, force, rowBranch, baseRef, crashes, mishaps>>
  /\ GitKept /\ TmuxKept /\ PromptsKept

-----------------------------------------------------------------------------
(* delete: runtime, tree, row.  A foreign tree is left alone.                *)

DeleteBegins(f) ==
  /\ Begin("delete", IF Managed THEN "delGuard" ELSE "delKill")
  /\ status \notin {"none", "gone", "archiving"}
  /\ reqForce' = f
  /\ consent' = f
  /\ UNCHANGED reqBranch
  /\ RowKept /\ GitKept /\ TmuxKept /\ PromptsKept

DeleteGuards ==
  /\ At("delGuard")
  /\ RowKept
  /\ \/ (Present => Removable(reqForce)) /\ Works /\ Goto("delKill")
     \/ Present /\ ~Removable(reqForce) /\ Works /\ Finish
     \/ Mishap /\ Finish
  /\ UNCHANGED crashes
  /\ GitKept /\ TmuxKept /\ PromptsKept

DeleteKills ==
  /\ At("delKill")
  /\ \/ session' = "none" /\ Works
     \/ Mishap /\ UNCHANGED session
  /\ Goto("delTabs")
  /\ UNCHANGED <<tabs, crashes>>
  /\ RowKept /\ GitKept /\ PromptsKept

DeleteDropsTabs ==
  /\ At("delTabs")
  /\ tabs' = FALSE
  /\ Goto(IF Managed THEN "delTree" ELSE "delRow")
  /\ UNCHANGED <<session, crashes, mishaps>>
  /\ RowKept /\ GitKept /\ PromptsKept

DeleteRemovesTree_BestEffort ==
  /\ At("delTree")
  /\ wt' = IF Removable(reqForce) THEN "absent" ELSE wt
  /\ Goto("delRow")
  /\ UNCHANGED <<head, tips, base, crashes, mishaps>>
  /\ RowKept /\ TmuxKept /\ PromptsKept

DeleteRemovesTree ==
  /\ At("delTree")
  /\ RowKept
  /\ \/ ~Present /\ UNCHANGED wt /\ Works /\ Goto("delRow")
     \/ Removable(reqForce) /\ wt' = "absent" /\ Works /\ Goto("delRow")
     \/ Present /\ ~Removable(reqForce) /\ UNCHANGED wt /\ Works /\ Finish
     \/ /\ Mishap
        /\ wt' \in IF Removable(reqForce) THEN {wt, "absent"} ELSE {wt}
        /\ Finish
  /\ UNCHANGED <<head, tips, base, crashes>>
  /\ TmuxKept /\ PromptsKept

\* The foreign key of tabs keeps a row that a late heal has given a tab again.
DeleteForgets ==
  /\ At("delRow")
  /\ status' = IF tabs THEN status ELSE "gone"
  /\ Finish
  /\ UNCHANGED <<ownership, materialized, ctx, force, rowBranch, baseRef, crashes, mishaps>>
  /\ GitKept /\ TmuxKept /\ PromptsKept

-----------------------------------------------------------------------------
(* renameBranch: git first, then the row; a row that cannot follow is undone. *)

RenameBranch(b) ==
  /\ status \notin {"none", "gone", "archiving"}
  /\ b # rowBranch
  /\ tips[b] = Missing
  /\ \/ /\ materialized
        /\ Begin("rename", "gitRename")
        /\ reqBranch' = b
        /\ UNCHANGED <<reqForce, consent>>
        /\ RowKept
     \/ /\ ~materialized
        /\ "rename" \in Ops /\ daemon = "up" /\ At("idle")
        /\ rowBranch' = b
        /\ UNCHANGED <<status, ownership, materialized, ctx, force, baseRef, crashes, mishaps>>
        /\ UNCHANGED <<opVars, consent>>
  /\ GitKept /\ TmuxKept /\ PromptsKept

\* git branch -m; the worktree that has the branch checked out follows.
BranchMoves(from, to) ==
  /\ tips' = [tips EXCEPT ![from] = Missing, ![to] = tips[from]]
  /\ head' = IF head = from THEN to ELSE head

RenamesInGit ==
  /\ At("gitRename")
  /\ RowKept
  /\ \/ /\ tips[rowBranch] # Missing
        /\ BranchMoves(rowBranch, reqBranch)
        /\ Works
        /\ Goto("setBranch")
     \/ /\ \/ tips[rowBranch] = Missing /\ Works
           \/ Mishap
        /\ UNCHANGED <<tips, head>>
        /\ Finish
  /\ UNCHANGED <<wt, base, crashes>>
  /\ TmuxKept /\ PromptsKept

\* Another workspace of the project may hold the name.
SetsBranch ==
  /\ At("setBranch")
  /\ UNCHANGED <<status, ownership, materialized, ctx, force, baseRef>>
  /\ \/ rowBranch' = reqBranch /\ Works /\ Finish
     \/ Mishap /\ UNCHANGED rowBranch /\ Goto("undo")
  /\ UNCHANGED crashes
  /\ GitKept /\ TmuxKept /\ PromptsKept

UndoesRename_Not ==
  /\ At("undo")
  /\ RowKept
  /\ Finish
  /\ UNCHANGED <<crashes, mishaps>>
  /\ GitKept /\ TmuxKept /\ PromptsKept

UndoesRename ==
  /\ At("undo")
  /\ RowKept
  /\ \/ BranchMoves(reqBranch, rowBranch) /\ Works
     \/ Mishap /\ UNCHANGED <<tips, head>>
  /\ Finish
  /\ UNCHANGED <<wt, base, crashes>>
  /\ TmuxKept /\ PromptsKept

-----------------------------------------------------------------------------
(* The daemon's end and start, and the world around it.                      *)

Crash ==
  /\ daemon # "down"
  /\ crashes < MaxCrashes
  /\ crashes' = crashes + 1
  /\ daemon' = "down"
  /\ op' = "none"
  /\ reqForce' = FALSE
  /\ pc' = [p \in Fibers |-> "idle"]
  /\ consent' = (consent /\ status = "archiving")
  /\ UNCHANGED <<reqBranch, mishaps>>
  /\ RowKept /\ GitKept /\ TmuxKept /\ PromptsKept

\* An archive that was open goes on, with the force it was asked for, before any request.
Boot ==
  /\ daemon = "down"
  /\ \/ /\ status = "archiving"
        /\ daemon' = "reconciling"
        /\ op' = "archive"
        /\ pc' = [pc EXCEPT !["lane"] = "kill"]
     \/ /\ status # "archiving"
        /\ daemon' = "up"
        /\ UNCHANGED <<op, pc>>
  /\ UNCHANGED <<reqForce, reqBranch, consent, crashes, mishaps>>
  /\ RowKept /\ GitKept /\ TmuxKept /\ PromptsKept

WorldOnly == UNCHANGED <<rowVars, opVars, promptVars, consent, crashes, mishaps>>

\* The engine, or the user, works in the tree.
Edits ==
  /\ wt = "clean"
  /\ wt' = "dirty"
  /\ UNCHANGED <<head, tips, base>>
  /\ TmuxKept /\ WorldOnly

CommitsWork ==
  /\ wt = "dirty"
  /\ wt' = "clean"
  /\ tips' = [tips EXCEPT ![head] = Own]
  /\ UNCHANGED <<head, base>>
  /\ TmuxKept /\ WorldOnly

\* The owner of a foreign worktree removes it; git lets that happen to a clean one.
OwnerRemoves ==
  /\ ~Managed
  /\ wt = "clean"
  /\ wt' = "absent"
  /\ UNCHANGED <<head, tips, base>>
  /\ TmuxKept /\ WorldOnly

TmuxDies ==
  /\ session # "none"
  /\ session' = "none"
  /\ UNCHANGED tabs
  /\ GitKept /\ WorldOnly

\* Another fetch, of any workspace of the project, brings new commits of the base.
BaseAdvances ==
  /\ base < MaxBase
  /\ base' = base + 1
  /\ UNCHANGED <<wt, head, tips>>
  /\ TmuxKept /\ WorldOnly

-----------------------------------------------------------------------------
\* The branch name of the workspace may be taken before it is created, and there may be a
\* foreign worktree to adopt.
Init ==
  /\ status = "none" /\ ownership = "managed" /\ materialized = FALSE
  /\ ctx = FALSE /\ force = FALSE /\ baseRef = Missing /\ tabs = FALSE
  /\ rowBranch \in Names
  /\ head = rowBranch
  /\ base = 0
  /\ \/ wt = "absent" /\ \E tip \in {Missing, 0, Own} :
                          tips = [b \in Names |-> IF b = rowBranch THEN tip ELSE Missing]
     \/ wt = "clean" /\ tips = [b \in Names |-> IF b = rowBranch THEN Own ELSE Missing]
  /\ session = "none"
  /\ daemon = "up" /\ op = "none" /\ reqForce = FALSE /\ reqBranch = rowBranch
  /\ pc = [p \in Fibers |-> "idle"]
  /\ prompted = 0 /\ everPrompted = FALSE /\ consent = FALSE
  /\ crashes = 0 /\ mishaps = 0

Provisions ==
  \/ SavesCtx \/ ResolvesBase \/ AddsNewBranch \/ AddsExistingBranch \/ PreparesSetup \/ RunsScripts
  \/ InsertsTab \/ LaunchesEngine \/ DeliversPrompt \/ Materializes \/ Activates
RollsBack == RollbackKills \/ RollbackDropsTabs \/ RollbackRemoves \/ RollbackMarks
Heals(p) == HealObserves(p) \/ HealStarts(p) \/ MarksError(p)
Archives == KillsSession \/ GuardsTree \/ RemovesTree \/ Completes \/ Assesses \/ Cancels
Deletes == DeleteGuards \/ DeleteKills \/ DeleteDropsTabs \/ DeleteRemovesTree \/ DeleteForgets
Renames == RenamesInGit \/ SetsBranch \/ UndoesRename

LaneSteps ==
  Provisions \/ RollsBack \/ Heals("lane") \/ Archives \/ Reactivates \/ ReaddsTree \/ Reopens
    \/ Deletes \/ Renames

Requested ==
  \/ CreateIntent \/ Ensure \/ Retry \/ Unarchive \/ Adopt
  \/ \E f \in BOOLEAN : ArchiveBegins(f) \/ DeleteBegins(f)
  \/ \E b \in Names : RenameBranch(b)

World == Edits \/ CommitsWork \/ OwnerRemoves \/ TmuxDies \/ BaseAdvances

Next == Requested \/ LaneSteps \/ Heals("adopt") \/ Crash \/ Boot \/ World

Spec == Init /\ [][Next]_vars

-----------------------------------------------------------------------------
(* What is required of it.                                                   *)

TypeOK ==
  /\ status \in Statuses
  /\ ownership \in {"managed", "adopted"}
  /\ materialized \in BOOLEAN /\ ctx \in BOOLEAN /\ force \in BOOLEAN /\ tabs \in BOOLEAN
  /\ reqForce \in BOOLEAN /\ everPrompted \in BOOLEAN /\ consent \in BOOLEAN
  /\ rowBranch \in Names /\ reqBranch \in Names /\ head \in Names
  /\ baseRef \in Points \cup {Own, Missing}
  /\ wt \in {"absent", "clean", "dirty"}
  /\ tips \in [Names -> Points \cup {Own, Missing}]
  /\ base \in Points
  /\ session \in {"none", "placeholder", "engine"}
  /\ daemon \in {"down", "reconciling", "up"}
  /\ op \in AllOps \cup {"none"}
  /\ pc \in [Fibers -> Labels]
  /\ prompted \in Nat
  /\ crashes \in 0..MaxCrashes /\ mishaps \in 0..MaxMishaps

\* Uncommitted work is lost only if the user forced an archive or a delete that is still
\* open, or if the workspace never became one: no retry, no rollback, no unarchive and no
\* start-up after a crash may take it (guardClean, worktreeRemove, rollbackToError).
WorkIsKept == [][wt = "dirty" /\ wt' = "absent" => consent \/ ~materialized]_vars

\* A foreign worktree with work in it is never removed, not by a forced archive or delete
\* and not by the rollback of a retry.
AdoptedIsNotOurs == [][~Managed /\ wt = "dirty" => wt' # "absent"]_vars

\* Once the user forced an archive, it stays forced over failures, further requests and
\* restarts until it is over (beginArchive keeps force; reconcileArchives passes none).
ForceIsDurable == status = "archiving" /\ consent => force

\* The engine of one checkout is typed the first prompt at most once, however often the
\* provisioning failed, was retried or was cut off by a crash.
OncePerWorktree == prompted <= 1

\* A managed workspace that ever became active has had its first prompt, also when it took
\* several attempts by ensure and retry (the prompt is kept in createCtx).
FirstPromptDelivered == Managed /\ ctx /\ status \in {"active", "archiving", "archived"} => everPrompted

\* The engine of a managed workspace is asked its first prompt, and once in a checkout.
PromptedOnce == OncePerWorktree /\ FirstPromptDelivered

\* error means that nothing half made is left, as long as git and tmux do what they are
\* asked: no worktree, no session and no tab, whatever step failed and whatever a crash left.
ErrorIsRolledBack ==
  Managed /\ status = "error" /\ mishaps = 0 => ~Present /\ session = "none" /\ ~tabs

\* No engine runs in a managed workspace whose row is archived: the archive completes only
\* after the session ended, and nothing heals it before the row is active again.
ArchivedIsQuiet == Managed /\ status = "archived" => session = "none"

\* An engine that runs can be found: its tab row is written before the session starts and
\* dropped after it ended, so a crash between the two leaves no session without a row.
EngineHasTab == Managed /\ session = "engine" /\ mishaps = 0 => tabs

\* Without a crash, and with at most one failure, the branch the row names exists and is
\* the one the worktree has checked out, however renames, archives and retries follow.
BranchKnown ==
  crashes = 0 /\ mishaps <= 1 /\ At("idle") /\ materialized /\ status # "gone" =>
    /\ tips[rowBranch] # Missing
    /\ Present => head = rowBranch

\* What the rows say of the worktree, the session and the branch is so, whichever step failed.
RecordsAreTrue == ErrorIsRolledBack /\ EngineHasTab /\ BranchKnown

\* The operations together keep the contract of a workspace.
Contract == INSTANCE WorkspaceContract
ImplementsContract == Contract!Spec

-----------------------------------------------------------------------------
(* Liveness.  Calls to git and tmux return, a daemon that died is started    *)
(* again, and the user repeats what failed.                                  *)

FairSpec ==
  /\ Spec
  /\ WF_vars(LaneSteps)
  /\ WF_vars(Heals("adopt"))
  /\ WF_vars(Boot)
  /\ WF_vars(status = "archiving" /\ ArchiveBegins(FALSE))
  /\ WF_vars(Unarchive)
  /\ WF_vars(status = "creating" /\ (Ensure \/ Retry))

\* An archive never wedges: with the tree gone, or dirty, or the session dead, another
\* archive or the next start ends it.
ArchivingResolves == status = "archiving" ~> status # "archiving"

\* A managed workspace that is archived can be had back, also after an unarchive that was
\* cut off between the worktree and the row.
UnarchiveWorks == (status = "archived" /\ Managed) ~> status # "archived"

\* Both: no end of the daemon and no failed step leaves an archive that cannot be ended or undone.
ArchivesResolve == ArchivingResolves /\ UnarchiveWorks

-----------------------------------------------------------------------------
(* What the repository says of the program, and the program does not do.     *)

\* A workspace that a dead daemon left in creating is brought on by repeating the request,
\* as coolie doctor advises.
CreatingResolves == status = "creating" ~> status # "creating"

\* archive ends the session, also of an adopted workspace.
ArchivedHasNoSession == status = "archived" => session = "none"

\* The branch of a failed attempt that nobody touched is reused by the next attempt, also
\* after the base advanced.
UntouchedIsReusable ==
  At("resolve") /\ baseRef # Missing /\ tips[rowBranch] \in Points => Reusable(tips[rowBranch])
=============================================================================
