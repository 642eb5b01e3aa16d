-------------------------- MODULE Lifecycle_proofs ---------------------------
(***************************************************************************)
(* Theorems about Lifecycle, for every set of names, every choice of       *)
(* operations and every bound: the state is well typed, uncommitted work   *)
(* is kept, a forced archive stays forced, an archived workspace is quiet, *)
(* the operations implement WorkspaceContract, the first prompt is typed   *)
(* once, and what the rows say of tree, session and branch is so.          *)
(***************************************************************************)
EXTENDS Lifecycle, TLAPS

USE LifecycleAssumption DEF LifecycleAssumption

-----------------------------------------------------------------------------
(* Where the lane stands, and what that says of the row, the tree and the session.  *)

HealLabels == {"observe", "relaunch", "relaunchNew"}
TreeLabels == {"setup", "scripts", "tabRow", "launch", "deliver", "materialize"}
ProvisionLabels == TreeLabels \cup {"resolve", "addNew", "addExisting"}
RollbackLabels == {"rbKill", "rbTabs", "rbTree", "rbMark"}
ArchiveLabels == {"kill", "guard", "remove", "complete", "assess", "cancel"}
DeleteLabels == {"delGuard", "delKill", "delTabs", "delTree", "delRow"}

LabelsOf(kind) ==
  CASE kind = "none" -> {"idle"}
    [] kind = "create" -> {"saveCtx"}
    [] kind = "ensure" -> ProvisionLabels \cup RollbackLabels \cup {"activate"} \cup HealLabels
    [] kind = "retry" ->
         ProvisionLabels \cup RollbackLabels \cup {"activate", "reactivate", "markError"} \cup HealLabels
    [] kind = "archive" -> ArchiveLabels \cup HealLabels
    [] kind = "unarchive" -> {"readd", "reopen"} \cup HealLabels
    [] kind = "delete" -> DeleteLabels
    [] kind = "rename" -> {"gitRename", "setBranch", "undo"}
    [] OTHER -> {}

\* An operation is under way exactly while the lane is busy, and a daemon that is down does nothing.
Placed ==
  /\ pc["lane"] \in LabelsOf(op)
  /\ pc["adopt"] \in HealLabels \cup {"idle", "markError"}
  /\ daemon = "down" => pc["lane"] = "idle" /\ pc["adopt"] = "idle"

\* A foreign worktree came with its row, and its adoption runs only while the row has
\* left creation, so no retry meets it.
Owned ==
  /\ status = "none" => Managed /\ ~materialized
  /\ ~Managed => materialized
  /\ pc["adopt"] # "idle" => ~Managed /\ status \notin {"none", "creating", "error"}
  /\ pc["lane"] \in ProvisionLabels \cup RollbackLabels \cup {"activate", "guard", "remove", "delGuard", "delTree", "readd"}
       => Managed
  /\ op = "retry" /\ pc["lane"] \in HealLabels \cup {"reactivate", "markError"} => ~Managed
  /\ op = "retry" => pc["adopt"] = "idle"

\* The row while an operation runs.
Rowed ==
  /\ op = "archive" => status = "archiving"
  /\ op \notin {"none", "archive"} => status \notin {"none", "gone", "archiving"}
  /\ pc["lane"] \in ProvisionLabels \cup RollbackLabels \cup {"activate", "reactivate"} => status = "creating"
  /\ pc["lane"] \in ProvisionLabels \cup RollbackLabels => ~materialized
  /\ pc["lane"] \in {"readd", "reopen"} => status = "archived"
  /\ Managed /\ pc["lane"] \in HealLabels => status \in {"active", "archiving"}
  /\ Managed /\ status = "error" => ~materialized

\* The tree while an operation runs.
Treed ==
  /\ pc["lane"] \in TreeLabels \cup {"activate", "remove"} => Present
  /\ Managed /\ pc["lane"] \in {"complete", "delRow", "readd"} => ~Present
  /\ Managed /\ pc["lane"] \in {"cancel", "reopen"} => Present
  /\ Managed /\ op = "archive" /\ pc["lane"] \in HealLabels => Present

\* What the user agreed to lose is what the archive or the delete under way was told.
Agreed ==
  /\ consent => status = "archiving" \/ op = "delete"
  /\ status = "archiving" => force = consent
  /\ status # "archiving" => ~force
  /\ op = "delete" => reqForce = consent

\* No engine where the archive has ended it.
Quiet ==
  /\ Managed /\ pc["lane"] \in {"guard", "remove", "complete"} => session = "none"
  /\ ArchivedIsQuiet

Inv == TypeOK /\ Placed /\ Owned /\ Rowed /\ Treed /\ Agreed /\ Quiet
-----------------------------------------------------------------------------
(* Type correctness: one step for each action.                               *)

USE DEF At, Present, Managed, Works, Mishap, Goto, Move, RowKept, GitKept, TmuxKept, PromptsKept,
        rowVars, gitVars, tmuxVars, promptVars, opVars

OpTyped ==
  /\ daemon \in {"down", "reconciling", "up"}
  /\ op \in AllOps \cup {"none"}
  /\ reqForce \in BOOLEAN
  /\ reqBranch \in Names
  /\ pc \in [Fibers -> Labels]
  /\ consent \in BOOLEAN

LEMMA Bounds == MaxBase \in Nat /\ MaxCrashes \in Nat /\ MaxMishaps \in Nat
  OBVIOUS

LEMMA Lanes == "lane" \in Fibers /\ "adopt" \in Fibers
  BY DEF Fibers

\* What the end of an operation leaves is well typed.
LEMMA FinishTyped ==
  ASSUME TypeOK, Finish
  PROVE  OpTyped'
<1>1. consent' \in BOOLEAN
  BY DEF Finish
<1> QED
  BY <1>1, Lanes DEF Finish, TypeOK, Labels, OpTyped

\* Creation and the pipeline that provisions.
LEMMA ProvisionsTyped ==
  ASSUME TypeOK, Provisions
  PROVE  TypeOK'
<1>1. CASE SavesCtx
  BY <1>1, Bounds, Lanes, FinishTyped DEF TypeOK, OpTyped, SavesCtx, Points, Own, Missing
<1>2. CASE ResolvesBase
  BY <1>2, Bounds, Lanes DEF TypeOK, ResolvesBase, Reusable, Labels, Points, Own, Missing
<1>3. CASE AddsNewBranch
  BY <1>3, Bounds, Lanes DEF TypeOK, AddsNewBranch, CheckOut, Labels, Points, Own, Missing
<1>4. CASE AddsExistingBranch
  BY <1>4, Bounds, Lanes DEF TypeOK, AddsExistingBranch, CheckOut, Labels, Points, Own, Missing
<1>5. CASE PreparesSetup
  BY <1>5, Bounds, Lanes DEF TypeOK, PreparesSetup, Labels
<1>6. CASE RunsScripts
  BY <1>6, Bounds, Lanes DEF TypeOK, RunsScripts, Labels
<1>7. CASE InsertsTab
  <2>1. tabs' \in BOOLEAN
    BY <1>7 DEF InsertsTab, TypeOK
  <2> QED
    BY <1>7, <2>1, Bounds, Lanes DEF TypeOK, InsertsTab, Labels
<1>8. CASE LaunchesEngine
  BY <1>8, Bounds, Lanes DEF TypeOK, LaunchesEngine, Labels
<1>9. CASE DeliversPrompt
  <2>1. everPrompted' \in BOOLEAN
    BY <1>9 DEF DeliversPrompt, TypeOK
  <2> QED
    BY <1>9, <2>1, Bounds, Lanes DEF TypeOK, DeliversPrompt, Labels
<1>10. CASE Materializes
  BY <1>10, Bounds, Lanes DEF TypeOK, Materializes, Labels, Points, Own, Missing
<1>11. CASE Activates
  BY <1>11, Bounds, Lanes, FinishTyped DEF TypeOK, OpTyped, Activates, Statuses, Labels, Points,
     Own, Missing
<1> QED
  BY <1>1, <1>2, <1>3, <1>4, <1>5, <1>6, <1>7, <1>8, <1>9, <1>10, <1>11 DEF Provisions

\* The rollback of a failed provisioning.
LEMMA RollsBackTyped ==
  ASSUME TypeOK, RollsBack
  PROVE  TypeOK'
<1>1. CASE RollbackKills
  BY <1>1, Bounds, Lanes DEF TypeOK, RollbackKills, Labels
<1>2. CASE RollbackDropsTabs
  <2>1. tabs' \in BOOLEAN
    BY <1>2 DEF RollbackDropsTabs, TypeOK
  <2> QED
    BY <1>2, <2>1, Bounds, Lanes DEF TypeOK, RollbackDropsTabs, Labels
<1>3. CASE RollbackRemoves
  BY <1>3, Bounds, Lanes DEF TypeOK, RollbackRemoves, Labels, Points, Own, Missing
<1>4. CASE RollbackMarks
  BY <1>4, Bounds, Lanes, FinishTyped DEF TypeOK, OpTyped, RollbackMarks, Statuses, Points, Own,
     Missing
<1> QED
  BY <1>1, <1>2, <1>3, <1>4 DEF RollsBack

\* The steps of an archive.
LEMMA ArchivesTyped ==
  ASSUME TypeOK, Archives
  PROVE  TypeOK'
<1>1. CASE KillsSession
  BY <1>1, Bounds, Lanes DEF TypeOK, KillsSession, Labels
<1>2. CASE GuardsTree
  BY <1>2, Bounds, Lanes DEF TypeOK, GuardsTree, Removable, Labels
<1>3. CASE RemovesTree
  BY <1>3, Bounds, Lanes DEF TypeOK, RemovesTree, Removable, Labels, Points, Own, Missing
<1>4. CASE Completes
  <2>1. force' \in BOOLEAN
    BY <1>4 DEF Completes, TypeOK
  <2> QED
    BY <1>4, <2>1, Bounds, Lanes, FinishTyped DEF TypeOK, OpTyped, Completes, Statuses, Points, Own,
       Missing
<1>5. CASE Assesses
  BY <1>5, Bounds, Lanes, FinishTyped DEF TypeOK, OpTyped, Assesses, Labels
<1>6. CASE Cancels
  <2>1. force' \in BOOLEAN
    BY <1>6 DEF Cancels, TypeOK
  <2> QED
    BY <1>6, <2>1, Bounds, Lanes, FinishTyped DEF TypeOK, OpTyped, Cancels, Statuses, Points, Own,
       Missing
<1> QED
  BY <1>1, <1>2, <1>3, <1>4, <1>5, <1>6 DEF Archives

\* The steps of a delete.
LEMMA DeletesTyped ==
  ASSUME TypeOK, Deletes
  PROVE  TypeOK'
<1>1. CASE DeleteGuards
  BY <1>1, Bounds, Lanes, FinishTyped DEF TypeOK, OpTyped, DeleteGuards, Removable, Labels
<1>2. CASE DeleteKills
  BY <1>2, Bounds, Lanes DEF TypeOK, DeleteKills, Labels
<1>3. CASE DeleteDropsTabs
  <2>1. tabs' \in BOOLEAN
    BY <1>3 DEF DeleteDropsTabs, TypeOK
  <2> QED
    BY <1>3, <2>1, Bounds, Lanes DEF TypeOK, DeleteDropsTabs, Labels
<1>4. CASE DeleteRemovesTree
  BY <1>4, Bounds, Lanes, FinishTyped DEF TypeOK, OpTyped, DeleteRemovesTree, Removable, Labels,
     Points, Own, Missing
<1>5. CASE DeleteForgets
  BY <1>5, Bounds, Lanes, FinishTyped DEF TypeOK, OpTyped, DeleteForgets, Statuses, Points, Own,
     Missing
<1> QED
  BY <1>1, <1>2, <1>3, <1>4, <1>5 DEF Deletes

\* The steps of a rename.
LEMMA RenamesTyped ==
  ASSUME TypeOK, Renames
  PROVE  TypeOK'
<1>1. CASE RenamesInGit
  BY <1>1, Bounds, Lanes, FinishTyped DEF TypeOK, OpTyped, RenamesInGit, BranchMoves, Labels,
     Points, Own, Missing
<1>2. CASE SetsBranch
  BY <1>2, Bounds, Lanes, FinishTyped DEF TypeOK, OpTyped, SetsBranch, Labels, Points, Own, Missing
<1>3. CASE UndoesRename
  BY <1>3, Bounds, Lanes, FinishTyped DEF TypeOK, OpTyped, UndoesRename, BranchMoves, Labels,
     Points, Own, Missing
<1> QED
  BY <1>1, <1>2, <1>3 DEF Renames

\* What happens outside the daemon.
LEMMA WorldTyped ==
  ASSUME TypeOK, World
  PROVE  TypeOK'
<1>1. CASE Edits
  BY <1>1, Bounds, Lanes DEF TypeOK, Edits, WorldOnly, Points, Own, Missing
<1>2. CASE CommitsWork
  BY <1>2, Bounds, Lanes DEF TypeOK, CommitsWork, WorldOnly, Points, Own, Missing
<1>3. CASE OwnerRemoves
  BY <1>3, Bounds, Lanes DEF TypeOK, OwnerRemoves, WorldOnly, Points, Own, Missing
<1>4. CASE TmuxDies
  BY <1>4, Bounds, Lanes DEF TypeOK, TmuxDies, WorldOnly
<1>5. CASE BaseAdvances
  BY <1>5, Bounds, Lanes DEF TypeOK, BaseAdvances, WorldOnly, Points, Own, Missing
<1> QED
  BY <1>1, <1>2, <1>3, <1>4, <1>5 DEF World

\* The session ensurer, in an operation or for the adoption.
LEMMA HealsTyped ==
  ASSUME TypeOK, NEW p \in Fibers, Heals(p)
  PROVE  TypeOK'
<1>1. CASE HealObserves(p)
  <2>1. tabs' \in BOOLEAN
    BY <1>1 DEF HealObserves, TypeOK
  <2> QED
    BY <1>1, <2>1, Bounds, Lanes, FinishTyped DEF TypeOK, OpTyped, HealObserves, HealSucceeds,
       HealFails, Healable, Labels
<1>2. CASE HealStarts(p)
  <2>1. tabs' \in BOOLEAN
    BY <1>2 DEF HealStarts, TypeOK
  <2> QED
    <3>1. session' \in {"none", "placeholder", "engine"} /\ mishaps' \in 0..MaxMishaps
      BY <1>2, Bounds DEF HealStarts, TypeOK
    <3>2. RowKept /\ GitKept /\ PromptsKept /\ UNCHANGED crashes
      BY <1>2 DEF HealStarts
    <3>3. HealSucceeds(p) \/ HealFails(p)
      BY <1>2 DEF HealStarts
    <3>4. OpTyped'
      BY <3>3, Lanes, FinishTyped DEF OpTyped, TypeOK, HealSucceeds, HealFails, Labels
    <3> QED
      BY <2>1, <3>1, <3>2, <3>4 DEF TypeOK, OpTyped
<1>3. CASE MarksError(p)
  <2>1. tabs' \in BOOLEAN
    BY <1>3 DEF MarksError, TypeOK
  <2> QED
    BY <1>3, <2>1, Bounds, Lanes, FinishTyped DEF TypeOK, OpTyped, MarksError, Statuses, Labels,
       Points, Own, Missing
<1> QED
  BY <1>1, <1>2, <1>3 DEF Heals

\* What a client asks for.
LEMMA RequestedTyped ==
  ASSUME TypeOK, Requested
  PROVE  TypeOK'
<1>1. CASE CreateIntent
  BY <1>1, Bounds, Lanes DEF TypeOK, CreateIntent, Begin, Statuses, AllOps, Labels, Points, Own,
     Missing
<1>2. CASE Ensure
  BY <1>2, Bounds, Lanes DEF TypeOK, Ensure, Begin, Statuses, AllOps, Labels, Points, Own, Missing
<1>3. CASE Retry
  BY <1>3, Bounds, Lanes DEF TypeOK, Retry, Begin, Statuses, AllOps, Labels, Points, Own, Missing
<1>4. CASE Unarchive
  BY <1>4, Bounds, Lanes DEF TypeOK, Unarchive, Begin, AllOps, Labels, Points, Own, Missing
<1>5. CASE Adopt
  BY <1>5, Bounds, Lanes DEF TypeOK, Adopt, Statuses, Labels, Points, Own, Missing
<1>6. ASSUME NEW f \in BOOLEAN, ArchiveBegins(f)
      PROVE  TypeOK'
  <2>1. force' \in BOOLEAN /\ consent' \in BOOLEAN
    BY <1>6 DEF ArchiveBegins, TypeOK
  <2> QED
    BY <1>6, <2>1, Bounds, Lanes DEF TypeOK, ArchiveBegins, Begin, Statuses, AllOps, Labels, Points,
       Own, Missing
<1>7. ASSUME NEW f \in BOOLEAN, DeleteBegins(f)
      PROVE  TypeOK'
  <2>1. consent' \in BOOLEAN /\ reqForce' \in BOOLEAN
    BY <1>7 DEF DeleteBegins, TypeOK
  <2> QED
    BY <1>7, <2>1, Bounds, Lanes DEF TypeOK, DeleteBegins, Begin, AllOps, Labels
<1>8. ASSUME NEW b \in Names, RenameBranch(b)
      PROVE  TypeOK'
  <2>1. force' \in BOOLEAN
    BY <1>8 DEF RenameBranch, TypeOK
  <2> QED
    BY <1>8, <2>1, Bounds, Lanes DEF TypeOK, RenameBranch, Begin, AllOps, Labels, Points, Own,
       Missing
<1> QED
  BY <1>1, <1>2, <1>3, <1>4, <1>5, <1>6, <1>7, <1>8 DEF Requested

LEMMA TypeKept ==
  ASSUME TypeOK, [Next]_vars
  PROVE  TypeOK'
<1>1. CASE Crash
  <2>1. consent' \in BOOLEAN /\ reqForce' \in BOOLEAN
    BY <1>1 DEF Crash
  <2> QED
    BY <1>1, <2>1, Bounds, Lanes DEF TypeOK, Crash, Labels
<1>2. CASE Boot
  BY <1>2, Lanes DEF TypeOK, Boot, AllOps, Labels
<1>3. CASE LaneSteps
  <2>1. CASE Reactivates
    BY <2>1, Lanes DEF TypeOK, Reactivates, Statuses, Labels
  <2>2. CASE ReaddsTree
    BY <2>2, Bounds, Lanes, FinishTyped DEF TypeOK, OpTyped, ReaddsTree, CheckOut, Labels
  <2>3. CASE Reopens
    BY <2>3, Lanes DEF TypeOK, Reopens, Statuses, Labels
  <2> QED
    BY <1>3, <2>1, <2>2, <2>3, Lanes, ProvisionsTyped, RollsBackTyped, HealsTyped, ArchivesTyped,
       DeletesTyped, RenamesTyped DEF LaneSteps
<1>4. CASE UNCHANGED vars
  BY <1>4 DEF TypeOK, vars
<1> QED
  BY <1>1, <1>2, <1>3, <1>4, Lanes, RequestedTyped, HealsTyped, WorldTyped DEF Next

-----------------------------------------------------------------------------
(* The invariant: each part is kept by every group of steps.                 *)

USE DEF Inv, LabelsOf, HealLabels, TreeLabels, ProvisionLabels, RollbackLabels, ArchiveLabels, DeleteLabels,
        Fibers

LEMMA PlacedKept ==
  ASSUME Inv, [Next]_vars
  PROVE  Placed'
<1>1. CASE Requested
  BY <1>1 DEF TypeOK, Placed, Requested, CreateIntent, Ensure, Retry, Unarchive, Adopt,
     ArchiveBegins, DeleteBegins, RenameBranch, Begin
<1>2. CASE Provisions
  BY <1>2 DEF TypeOK, Placed, Provisions, SavesCtx, ResolvesBase, AddsNewBranch, AddsExistingBranch,
     PreparesSetup, RunsScripts, InsertsTab, LaunchesEngine, DeliversPrompt, Materializes,
     Activates, CheckOut, Reusable, Finish
<1>3. CASE RollsBack
  BY <1>3 DEF TypeOK, Placed, RollsBack, RollbackKills, RollbackDropsTabs, RollbackRemoves,
     RollbackMarks, Finish
<1>4. CASE Heals("lane")
  BY <1>4 DEF TypeOK, Placed, Heals, HealObserves, HealStarts, MarksError, HealSucceeds, HealFails,
     Healable, Finish
<1>5. CASE Archives
  BY <1>5 DEF TypeOK, Placed, Archives, KillsSession, GuardsTree, RemovesTree, Completes, Assesses,
     Cancels, Removable, Finish
<1>6. CASE Reactivates
  BY <1>6 DEF TypeOK, Placed, Reactivates
<1>7. CASE ReaddsTree
  BY <1>7 DEF TypeOK, Placed, ReaddsTree, CheckOut, Finish
<1>8. CASE Reopens
  BY <1>8 DEF TypeOK, Placed, Reopens
<1>9. CASE Deletes
  BY <1>9 DEF TypeOK, Placed, Deletes, DeleteGuards, DeleteKills, DeleteDropsTabs,
     DeleteRemovesTree, DeleteForgets, Removable, Finish
<1>10. CASE Renames
  BY <1>10 DEF TypeOK, Placed, Renames, RenamesInGit, SetsBranch, UndoesRename, BranchMoves, Finish
<1>11. CASE Heals("adopt")
  BY <1>11 DEF TypeOK, Placed, Heals, HealObserves, HealStarts, MarksError, HealSucceeds, HealFails,
     Healable
<1>12. CASE Crash
  BY <1>12 DEF TypeOK, Placed, Crash
<1>13. CASE Boot
  BY <1>13 DEF TypeOK, Placed, Boot
<1>14. CASE World
  BY <1>14 DEF TypeOK, Placed, World, Edits, CommitsWork, OwnerRemoves, TmuxDies, BaseAdvances,
     WorldOnly
<1>15. CASE UNCHANGED vars
  BY <1>15 DEF TypeOK, Placed, vars
<1> QED
  BY <1>1, <1>2, <1>3, <1>4, <1>5, <1>6, <1>7, <1>8, <1>9, <1>10, <1>11, <1>12, <1>13, <1>14, <1>15
     DEF Next, LaneSteps

LEMMA OwnedKept ==
  ASSUME Inv, [Next]_vars
  PROVE  Owned'
<1>1. CASE Requested
  BY <1>1 DEF TypeOK, Placed, Owned, Rowed, Requested, CreateIntent, Ensure, Retry, Unarchive,
     Adopt, ArchiveBegins, DeleteBegins, RenameBranch, Begin
<1>2. CASE Provisions
  BY <1>2 DEF TypeOK, Placed, Owned, Rowed, Provisions, SavesCtx, ResolvesBase, AddsNewBranch,
     AddsExistingBranch, PreparesSetup, RunsScripts, InsertsTab, LaunchesEngine, DeliversPrompt,
     Materializes, Activates, CheckOut, Reusable, Finish
<1>3. CASE RollsBack
  BY <1>3 DEF TypeOK, Placed, Owned, Rowed, RollsBack, RollbackKills, RollbackDropsTabs,
     RollbackRemoves, RollbackMarks, Finish
<1>4. CASE Heals("lane")
  <2>1. CASE HealObserves("lane")
    BY <2>1 DEF TypeOK, Placed, Owned, Rowed, HealObserves, HealSucceeds, HealFails, Finish
  <2>2. CASE HealStarts("lane")
    <3>1. HealSucceeds("lane") \/ HealFails("lane")
      BY <2>2 DEF HealStarts
    <3>2. RowKept /\ pc["lane"] \in HealLabels
      BY <2>2 DEF HealStarts, HealLabels
    <3>3. CASE HealSucceeds("lane")
      BY <3>2, <3>3 DEF TypeOK, Placed, Owned, Rowed, HealSucceeds, Finish
    <3>4. CASE HealFails("lane")
      <4>1. CASE op = "retry" /\ Move("lane", "markError")
        BY <3>2, <4>1, Lanes DEF TypeOK, Placed, Owned
      <4>2. CASE Finish
        BY <3>2, <4>2, Lanes DEF TypeOK, Placed, Owned, Finish
      <4> QED
        BY <3>4, <4>1, <4>2 DEF HealFails
    <3> QED
      BY <3>1, <3>3, <3>4
  <2>3. CASE MarksError("lane")
    BY <2>3 DEF TypeOK, Placed, Owned, Rowed, MarksError, Finish
  <2> QED
    BY <1>4, <2>1, <2>2, <2>3 DEF Heals
<1>5. CASE Archives
  BY <1>5 DEF TypeOK, Placed, Owned, Rowed, Archives, KillsSession, GuardsTree, RemovesTree,
     Completes, Assesses, Cancels, Removable, Finish
<1>6. CASE Reactivates
  BY <1>6 DEF TypeOK, Placed, Owned, Rowed, Reactivates
<1>7. CASE ReaddsTree
  BY <1>7 DEF TypeOK, Placed, Owned, Rowed, ReaddsTree, CheckOut, Finish
<1>8. CASE Reopens
  BY <1>8 DEF TypeOK, Placed, Owned, Rowed, Reopens
<1>9. CASE Deletes
  BY <1>9 DEF TypeOK, Placed, Owned, Rowed, Deletes, DeleteGuards, DeleteKills, DeleteDropsTabs,
     DeleteRemovesTree, DeleteForgets, Removable, Finish
<1>10. CASE Renames
  BY <1>10 DEF TypeOK, Placed, Owned, Rowed, Renames, RenamesInGit, SetsBranch, UndoesRename,
     BranchMoves, Finish
<1>11. CASE Heals("adopt")
  BY <1>11 DEF TypeOK, Placed, Owned, Rowed, Heals, HealObserves, HealStarts, MarksError,
     HealSucceeds, HealFails, Healable
<1>12. CASE Crash
  BY <1>12 DEF TypeOK, Placed, Owned, Rowed, Crash
<1>13. CASE Boot
  BY <1>13 DEF TypeOK, Placed, Owned, Rowed, Boot
<1>14. CASE World
  BY <1>14 DEF TypeOK, Placed, Owned, Rowed, World, Edits, CommitsWork, OwnerRemoves, TmuxDies,
     BaseAdvances, WorldOnly
<1>15. CASE UNCHANGED vars
  BY <1>15 DEF TypeOK, Placed, Owned, Rowed, vars
<1> QED
  BY <1>1, <1>2, <1>3, <1>4, <1>5, <1>6, <1>7, <1>8, <1>9, <1>10, <1>11, <1>12, <1>13, <1>14, <1>15
     DEF Next, LaneSteps

LEMMA RowedKept ==
  ASSUME Inv, [Next]_vars
  PROVE  Rowed'
<1>1. CASE Requested
  BY <1>1 DEF TypeOK, Placed, Owned, Rowed, Requested, CreateIntent, Ensure, Retry, Unarchive,
     Adopt, ArchiveBegins, DeleteBegins, RenameBranch, Begin
<1>2. CASE Provisions
  BY <1>2 DEF TypeOK, Placed, Owned, Rowed, Provisions, SavesCtx, ResolvesBase, AddsNewBranch,
     AddsExistingBranch, PreparesSetup, RunsScripts, InsertsTab, LaunchesEngine, DeliversPrompt,
     Materializes, Activates, CheckOut, Reusable, Finish
<1>3. CASE RollsBack
  BY <1>3 DEF TypeOK, Placed, Owned, Rowed, RollsBack, RollbackKills, RollbackDropsTabs,
     RollbackRemoves, RollbackMarks, Finish
<1>4. CASE Heals("lane")
  BY <1>4 DEF TypeOK, Placed, Owned, Rowed, Heals, HealObserves, HealStarts, MarksError,
     HealSucceeds, HealFails, Healable, Finish
<1>5. CASE Archives
  BY <1>5 DEF TypeOK, Placed, Owned, Rowed, Archives, KillsSession, GuardsTree, RemovesTree,
     Completes, Assesses, Cancels, Removable, Finish
<1>6. CASE Reactivates
  BY <1>6 DEF TypeOK, Placed, Owned, Rowed, Reactivates
<1>7. CASE ReaddsTree
  BY <1>7 DEF TypeOK, Placed, Owned, Rowed, ReaddsTree, CheckOut, Finish
<1>8. CASE Reopens
  BY <1>8 DEF TypeOK, Placed, Owned, Rowed, Reopens
<1>9. CASE Deletes
  BY <1>9 DEF TypeOK, Placed, Owned, Rowed, Deletes, DeleteGuards, DeleteKills, DeleteDropsTabs,
     DeleteRemovesTree, DeleteForgets, Removable, Finish
<1>10. CASE Renames
  BY <1>10 DEF TypeOK, Placed, Owned, Rowed, Renames, RenamesInGit, SetsBranch, UndoesRename,
     BranchMoves, Finish
<1>11. CASE Heals("adopt")
  BY <1>11 DEF TypeOK, Placed, Owned, Rowed, Heals, HealObserves, HealStarts, MarksError,
     HealSucceeds, HealFails, Healable
<1>12. CASE Crash
  BY <1>12 DEF TypeOK, Placed, Owned, Rowed, Crash
<1>13. CASE Boot
  BY <1>13 DEF TypeOK, Placed, Owned, Rowed, Boot
<1>14. CASE World
  BY <1>14 DEF TypeOK, Placed, Owned, Rowed, World, Edits, CommitsWork, OwnerRemoves, TmuxDies,
     BaseAdvances, WorldOnly
<1>15. CASE UNCHANGED vars
  BY <1>15 DEF TypeOK, Placed, Owned, Rowed, vars
<1> QED
  BY <1>1, <1>2, <1>3, <1>4, <1>5, <1>6, <1>7, <1>8, <1>9, <1>10, <1>11, <1>12, <1>13, <1>14, <1>15
     DEF Next, LaneSteps

LEMMA TreedKept ==
  ASSUME Inv, [Next]_vars
  PROVE  Treed'
<1>1. CASE Requested
  BY <1>1 DEF TypeOK, Placed, Owned, Rowed, Treed, Requested, CreateIntent, Ensure, Retry,
     Unarchive, Adopt, ArchiveBegins, DeleteBegins, RenameBranch, Begin
<1>2. CASE Provisions
  BY <1>2 DEF TypeOK, Placed, Owned, Rowed, Treed, Provisions, SavesCtx, ResolvesBase,
     AddsNewBranch, AddsExistingBranch, PreparesSetup, RunsScripts, InsertsTab, LaunchesEngine,
     DeliversPrompt, Materializes, Activates, CheckOut, Reusable, Finish
<1>3. CASE RollsBack
  BY <1>3 DEF TypeOK, Placed, Owned, Rowed, Treed, RollsBack, RollbackKills, RollbackDropsTabs,
     RollbackRemoves, RollbackMarks, Finish
<1>4. CASE Heals("lane")
  BY <1>4 DEF TypeOK, Placed, Owned, Rowed, Treed, Heals, HealObserves, HealStarts, MarksError,
     HealSucceeds, HealFails, Healable, Finish
<1>5. CASE Archives
  BY <1>5 DEF TypeOK, Placed, Owned, Rowed, Treed, Archives, KillsSession, GuardsTree, RemovesTree,
     Completes, Assesses, Cancels, Removable, Finish
<1>6. CASE Reactivates
  BY <1>6 DEF TypeOK, Placed, Owned, Rowed, Treed, Reactivates
<1>7. CASE ReaddsTree
  BY <1>7 DEF TypeOK, Placed, Owned, Rowed, Treed, ReaddsTree, CheckOut, Finish
<1>8. CASE Reopens
  BY <1>8 DEF TypeOK, Placed, Owned, Rowed, Treed, Reopens
<1>9. CASE Deletes
  BY <1>9 DEF TypeOK, Placed, Owned, Rowed, Treed, Deletes, DeleteGuards, DeleteKills,
     DeleteDropsTabs, DeleteRemovesTree, DeleteForgets, Removable, Finish
<1>10. CASE Renames
  BY <1>10 DEF TypeOK, Placed, Owned, Rowed, Treed, Renames, RenamesInGit, SetsBranch, UndoesRename,
     BranchMoves, Finish
<1>11. CASE Heals("adopt")
  BY <1>11 DEF TypeOK, Placed, Owned, Rowed, Treed, Heals, HealObserves, HealStarts, MarksError,
     HealSucceeds, HealFails, Healable
<1>12. CASE Crash
  BY <1>12 DEF TypeOK, Placed, Owned, Rowed, Treed, Crash
<1>13. CASE Boot
  BY <1>13 DEF TypeOK, Placed, Owned, Rowed, Treed, Boot
<1>14. CASE World
  BY <1>14 DEF TypeOK, Placed, Owned, Rowed, Treed, World, Edits, CommitsWork, OwnerRemoves,
     TmuxDies, BaseAdvances, WorldOnly
<1>15. CASE UNCHANGED vars
  BY <1>15 DEF TypeOK, Placed, Owned, Rowed, Treed, vars
<1> QED
  BY <1>1, <1>2, <1>3, <1>4, <1>5, <1>6, <1>7, <1>8, <1>9, <1>10, <1>11, <1>12, <1>13, <1>14, <1>15
     DEF Next, LaneSteps

LEMMA AgreedKept ==
  ASSUME Inv, [Next]_vars
  PROVE  Agreed'
<1>1. CASE Requested
  BY <1>1 DEF TypeOK, Placed, Rowed, Agreed, Requested, CreateIntent, Ensure, Retry, Unarchive,
     Adopt, ArchiveBegins, DeleteBegins, RenameBranch, Begin
<1>2. CASE Provisions
  BY <1>2 DEF TypeOK, Placed, Rowed, Agreed, Provisions, SavesCtx, ResolvesBase, AddsNewBranch,
     AddsExistingBranch, PreparesSetup, RunsScripts, InsertsTab, LaunchesEngine, DeliversPrompt,
     Materializes, Activates, CheckOut, Reusable, Finish
<1>3. CASE RollsBack
  BY <1>3 DEF TypeOK, Placed, Rowed, Agreed, RollsBack, RollbackKills, RollbackDropsTabs,
     RollbackRemoves, RollbackMarks, Finish
<1>4. CASE Heals("lane")
  BY <1>4 DEF TypeOK, Placed, Rowed, Agreed, Heals, HealObserves, HealStarts, MarksError,
     HealSucceeds, HealFails, Healable, Finish
<1>5. CASE Archives
  BY <1>5 DEF TypeOK, Placed, Rowed, Agreed, Archives, KillsSession, GuardsTree, RemovesTree,
     Completes, Assesses, Cancels, Removable, Finish
<1>6. CASE Reactivates
  BY <1>6 DEF TypeOK, Placed, Rowed, Agreed, Reactivates
<1>7. CASE ReaddsTree
  BY <1>7 DEF TypeOK, Placed, Rowed, Agreed, ReaddsTree, CheckOut, Finish
<1>8. CASE Reopens
  BY <1>8 DEF TypeOK, Placed, Rowed, Agreed, Reopens
<1>9. CASE Deletes
  BY <1>9 DEF TypeOK, Placed, Rowed, Agreed, Deletes, DeleteGuards, DeleteKills, DeleteDropsTabs,
     DeleteRemovesTree, DeleteForgets, Removable, Finish
<1>10. CASE Renames
  BY <1>10 DEF TypeOK, Placed, Rowed, Agreed, Renames, RenamesInGit, SetsBranch, UndoesRename,
     BranchMoves, Finish
<1>11. CASE Heals("adopt")
  BY <1>11 DEF TypeOK, Placed, Rowed, Agreed, Heals, HealObserves, HealStarts, MarksError,
     HealSucceeds, HealFails, Healable
<1>12. CASE Crash
  BY <1>12 DEF TypeOK, Placed, Rowed, Agreed, Crash
<1>13. CASE Boot
  BY <1>13 DEF TypeOK, Placed, Rowed, Agreed, Boot
<1>14. CASE World
  BY <1>14 DEF TypeOK, Placed, Rowed, Agreed, World, Edits, CommitsWork, OwnerRemoves, TmuxDies,
     BaseAdvances, WorldOnly
<1>15. CASE UNCHANGED vars
  BY <1>15 DEF TypeOK, Placed, Rowed, Agreed, vars
<1> QED
  BY <1>1, <1>2, <1>3, <1>4, <1>5, <1>6, <1>7, <1>8, <1>9, <1>10, <1>11, <1>12, <1>13, <1>14, <1>15
     DEF Next, LaneSteps

LEMMA QuietKept ==
  ASSUME Inv, [Next]_vars
  PROVE  Quiet'
<1>1. CASE Requested
  BY <1>1 DEF TypeOK, Placed, Owned, Rowed, Quiet, ArchivedIsQuiet, Requested, CreateIntent, Ensure,
     Retry, Unarchive, Adopt, ArchiveBegins, DeleteBegins, RenameBranch, Begin
<1>2. CASE Provisions
  BY <1>2 DEF TypeOK, Placed, Owned, Rowed, Quiet, ArchivedIsQuiet, Provisions, SavesCtx,
     ResolvesBase, AddsNewBranch, AddsExistingBranch, PreparesSetup, RunsScripts, InsertsTab,
     LaunchesEngine, DeliversPrompt, Materializes, Activates, CheckOut, Reusable, Finish
<1>3. CASE RollsBack
  BY <1>3 DEF TypeOK, Placed, Owned, Rowed, Quiet, ArchivedIsQuiet, RollsBack, RollbackKills,
     RollbackDropsTabs, RollbackRemoves, RollbackMarks, Finish
<1>4. CASE Heals("lane")
  BY <1>4 DEF TypeOK, Placed, Owned, Rowed, Quiet, ArchivedIsQuiet, Heals, HealObserves, HealStarts,
     MarksError, HealSucceeds, HealFails, Healable, Finish
<1>5. CASE Archives
  BY <1>5 DEF TypeOK, Placed, Owned, Rowed, Quiet, ArchivedIsQuiet, Archives, KillsSession,
     GuardsTree, RemovesTree, Completes, Assesses, Cancels, Removable, Finish
<1>6. CASE Reactivates
  BY <1>6 DEF TypeOK, Placed, Owned, Rowed, Quiet, ArchivedIsQuiet, Reactivates
<1>7. CASE ReaddsTree
  BY <1>7 DEF TypeOK, Placed, Owned, Rowed, Quiet, ArchivedIsQuiet, ReaddsTree, CheckOut, Finish
<1>8. CASE Reopens
  BY <1>8 DEF TypeOK, Placed, Owned, Rowed, Quiet, ArchivedIsQuiet, Reopens
<1>9. CASE Deletes
  BY <1>9 DEF TypeOK, Placed, Owned, Rowed, Quiet, ArchivedIsQuiet, Deletes, DeleteGuards,
     DeleteKills, DeleteDropsTabs, DeleteRemovesTree, DeleteForgets, Removable, Finish
<1>10. CASE Renames
  BY <1>10 DEF TypeOK, Placed, Owned, Rowed, Quiet, ArchivedIsQuiet, Renames, RenamesInGit,
     SetsBranch, UndoesRename, BranchMoves, Finish
<1>11. CASE Heals("adopt")
  BY <1>11 DEF TypeOK, Placed, Owned, Rowed, Quiet, ArchivedIsQuiet, Heals, HealObserves,
     HealStarts, MarksError, HealSucceeds, HealFails, Healable
<1>12. CASE Crash
  BY <1>12 DEF TypeOK, Placed, Owned, Rowed, Quiet, ArchivedIsQuiet, Crash
<1>13. CASE Boot
  BY <1>13 DEF TypeOK, Placed, Owned, Rowed, Quiet, ArchivedIsQuiet, Boot
<1>14. CASE World
  BY <1>14 DEF TypeOK, Placed, Owned, Rowed, Quiet, ArchivedIsQuiet, World, Edits, CommitsWork,
     OwnerRemoves, TmuxDies, BaseAdvances, WorldOnly
<1>15. CASE UNCHANGED vars
  BY <1>15 DEF TypeOK, Placed, Owned, Rowed, Quiet, ArchivedIsQuiet, vars
<1> QED
  BY <1>1, <1>2, <1>3, <1>4, <1>5, <1>6, <1>7, <1>8, <1>9, <1>10, <1>11, <1>12, <1>13, <1>14, <1>15
     DEF Next, LaneSteps

LEMMA Initially == Init => Inv
<1> SUFFICES ASSUME Init PROVE Inv
  OBVIOUS
<1>1. tips \in [Names -> Points \cup {Own, Missing}]
  BY Bounds DEF Init, Points, Own, Missing
<1>2. pc \in [Fibers -> Labels] /\ pc["lane"] = "idle" /\ pc["adopt"] = "idle"
  BY Lanes DEF Init, Labels
<1>3. status \in Statuses /\ ownership \in {"managed", "adopted"} /\ baseRef \in Points \cup {Own, Missing}
  BY DEF Init, Statuses
<1>4. /\ materialized \in BOOLEAN /\ ctx \in BOOLEAN /\ force \in BOOLEAN /\ tabs \in BOOLEAN
      /\ reqForce \in BOOLEAN /\ everPrompted \in BOOLEAN /\ consent \in BOOLEAN
  BY DEF Init
<1>5. TypeOK
  BY <1>1, <1>2, <1>3, <1>4, Bounds DEF Init, TypeOK, AllOps, Points
<1> QED
  BY <1>2, <1>5 DEF Init, LabelsOf, HealLabels, Placed, Owned, Rowed, Treed, Agreed, Quiet, ArchivedIsQuiet

\* The inductive invariant holds in every reachable state: where the lane stands determines
\* what row, tree, session and consent can be.
THEOREM Invariant == Spec => []Inv
<1>1. Inv /\ [Next]_vars => Inv'
  BY TypeKept, PlacedKept, OwnedKept, RowedKept, TreedKept, AgreedKept, QuietKept
<1> QED
  BY Initially, <1>1, PTL DEF Spec
-----------------------------------------------------------------------------
(* The properties.                                                           *)

\* Every variable keeps to its type, whatever fails and whenever the daemon dies.
THEOREM TypeCorrect == Spec => []TypeOK
  BY Invariant, PTL

\* ArchivedIsQuiet: no engine runs where an archive of a managed workspace has completed.
THEOREM ArchiveIsQuiet == Spec => []ArchivedIsQuiet
<1>1. Inv => ArchivedIsQuiet
  BY DEF Quiet
<1> QED
  BY Invariant, <1>1, PTL

\* ForceIsDurable: a forced archive stays forced until it is over.
THEOREM ForceHolds == Spec => []ForceIsDurable
<1>1. Inv => ForceIsDurable
  BY DEF Agreed, ForceIsDurable
<1> QED
  BY Invariant, <1>1, PTL

\* Only the removals of a rollback, an archive and a delete take a worktree with work in it, and
\* each of them either was agreed to or is of a workspace that never became one.
LEMMA DirtyGoes ==
  ASSUME Inv, [Next]_vars, wt = "dirty", wt' = "absent"
  PROVE  Managed /\ (consent \/ ~materialized)
<1>1. CASE Requested
  BY <1>1 DEF Requested, CreateIntent, Ensure, Retry, Unarchive, Adopt, ArchiveBegins, DeleteBegins,
     RenameBranch
<1>2. CASE Provisions
  BY <1>2 DEF Provisions, SavesCtx, ResolvesBase, AddsNewBranch, AddsExistingBranch, PreparesSetup,
     RunsScripts, InsertsTab, LaunchesEngine, DeliversPrompt, Materializes, Activates, CheckOut
<1>3. CASE RollsBack
  BY <1>3 DEF RollsBack, RollbackKills, RollbackDropsTabs, RollbackRemoves, RollbackMarks, Owned, Rowed
<1>4. CASE Heals("lane") \/ Heals("adopt")
  BY <1>4 DEF Heals, HealObserves, HealStarts, MarksError
<1>5. CASE Archives
  BY <1>5 DEF Archives, KillsSession, GuardsTree, RemovesTree, Completes, Assesses, Cancels,
     Removable, Placed, Owned, Rowed, Agreed
<1>6. CASE Reactivates \/ Reopens
  BY <1>6 DEF Reactivates, Reopens
<1>7. CASE ReaddsTree
  BY <1>7 DEF ReaddsTree, Treed, Owned
<1>8. CASE Deletes
  BY <1>8 DEF Deletes, DeleteGuards, DeleteKills, DeleteDropsTabs, DeleteRemovesTree, DeleteForgets,
     Removable, Placed, Owned, Agreed
<1>9. CASE Renames
  BY <1>9 DEF Renames, RenamesInGit, SetsBranch, UndoesRename
<1>10. CASE Crash \/ Boot
  BY <1>10 DEF Crash, Boot
<1>11. CASE World
  BY <1>11 DEF World, Edits, CommitsWork, OwnerRemoves, TmuxDies, BaseAdvances, WorldOnly
<1>12. CASE UNCHANGED vars
  BY <1>12 DEF vars
<1> QED
  BY <1>1, <1>2, <1>3, <1>4, <1>5, <1>6, <1>7, <1>8, <1>9, <1>10, <1>11, <1>12 DEF Next, LaneSteps

\* WorkIsKept: uncommitted work is lost only where the user agreed to lose it, or where the
\* workspace never came to be.
THEOREM KeepsWork == Spec => WorkIsKept
<1>1. Inv /\ [Next]_vars => [wt = "dirty" /\ wt' = "absent" => consent \/ ~materialized]_vars
  BY DirtyGoes DEF vars
<1> QED
  BY Invariant, <1>1, PTL DEF Spec, WorkIsKept

\* AdoptedIsNotOurs: no operation removes a foreign worktree with work in it.
THEOREM KeepsAdopted == Spec => AdoptedIsNotOurs
<1>1. Inv /\ [Next]_vars => [~Managed /\ wt = "dirty" => wt' # "absent"]_vars
  BY DirtyGoes DEF vars
<1> QED
  BY Invariant, <1>1, PTL DEF Spec, AdoptedIsNotOurs
-----------------------------------------------------------------------------
(* Refinement: each step of the daemon is a step of the contract, or none.   *)

ContractStep == [Contract!Next]_<<status, ownership, materialized, wt, consent>>

USE DEF Contract!Managed, Contract!Present

\* What the contract does not speak of may change.
LEMMA Stutters ==
  ASSUME UNCHANGED <<status, ownership, materialized, wt, consent>>
  PROVE  ContractStep
  BY DEF ContractStep

\* The end of an operation that moved no row: what was agreed may lapse.
LEMMA AnswersContract ==
  ASSUME TypeOK, Finish, UNCHANGED <<status, ownership, materialized, wt>>
  PROVE  ContractStep
<1>1. consent' \in {consent, consent /\ status = "archiving"}
  BY DEF Finish
<1> QED
  BY <1>1 DEF ContractStep, Contract!Next, Contract!Answered, Contract!Lapses

\* A row that moves along an edge of the contract.
LEMMA MovesContract ==
  ASSUME NEW next \in Statuses,
         <<status, next>> \in Contract!Edges,
         Managed => (next = "active" => Present) /\ (next \in {"archived", "gone"} => ~Present),
         status' = next,
         consent' \in BOOLEAN,
         next # "archiving" /\ consent' => consent /\ status # "archiving",
         UNCHANGED <<ownership, materialized, wt>>
  PROVE  ContractStep
<1>1. next \in Contract!Statuses
  BY DEF Statuses, Contract!Statuses
<1>2. Contract!Moves(next)
  BY DEF Contract!Moves
<1> QED
  BY <1>1, <1>2 DEF ContractStep, Contract!Next

\* Creation, ensure, retry, unarchive and rename as a client asks for them.
LEMMA RequestContract ==
  ASSUME Inv, TypeOK', Requested
  PROVE  ContractStep
<1>1. CASE CreateIntent
  <2>1. "creating" \in Statuses /\ <<status, "creating">> \in Contract!Edges
    BY <1>1 DEF CreateIntent, Statuses, Contract!Edges
  <2> QED
    BY <1>1, <2>1, MovesContract DEF CreateIntent, TypeOK
<1>2. CASE Ensure
  <2>1. CASE status \in {"creating", "active"}
    BY <1>2, <2>1, Stutters DEF Ensure
  <2>2. CASE status = "error"
    <3>1. "creating" \in Statuses /\ <<status, "creating">> \in Contract!Edges
      BY <2>2 DEF Statuses, Contract!Edges
    <3> QED
      BY <1>2, <2>2, <3>1, MovesContract DEF Ensure, TypeOK
  <2> QED
    BY <1>2, <2>1, <2>2 DEF Ensure
<1>3. CASE Retry
  <2>1. "creating" \in Statuses /\ <<status, "creating">> \in Contract!Edges
    BY <1>3 DEF Retry, Statuses, Contract!Edges
  <2> QED
    BY <1>3, <2>1, MovesContract DEF Retry, TypeOK
<1>4. CASE Unarchive
  BY <1>4, Stutters DEF Unarchive
<1>5. CASE Adopt
  BY <1>5 DEF Adopt, ContractStep, Contract!Next, Contract!Adopted
<1>6. ASSUME NEW f \in BOOLEAN, ArchiveBegins(f) PROVE ContractStep
  <2>1. CASE status = "active"
    <3>1. "archiving" \in Statuses /\ <<status, "archiving">> \in Contract!Edges
      BY <2>1 DEF Statuses, Contract!Edges
    <3>2. consent' \in BOOLEAN
      BY <1>6 DEF ArchiveBegins
    <3> QED
      BY <1>6, <2>1, <3>1, <3>2, MovesContract DEF ArchiveBegins
  <2>2. CASE status = "archiving"
    <3>1. CASE f = TRUE
      BY <1>6, <2>2, <3>1 DEF ArchiveBegins, ContractStep, Contract!Next, Contract!Agrees
    <3>2. CASE f = FALSE
      <4>1. consent' = consent
        BY <1>6, <3>2 DEF ArchiveBegins, TypeOK
      <4> QED
        BY <1>6, <2>2, <4>1, Stutters DEF ArchiveBegins
    <3> QED
      BY <3>1, <3>2
  <2> QED
    BY <1>6, <2>1, <2>2 DEF ArchiveBegins
<1>7. ASSUME NEW f \in BOOLEAN, DeleteBegins(f) PROVE ContractStep
  <2>1. CASE f = TRUE
    BY <1>7, <2>1 DEF DeleteBegins, ContractStep, Contract!Next, Contract!Agrees
  <2>2. CASE f = FALSE
    <3>1. consent = FALSE
      BY <1>7 DEF DeleteBegins, Agreed, TypeOK, Begin, Placed
    <3> QED
      BY <1>7, <2>2, <3>1, Stutters DEF DeleteBegins
  <2> QED
    BY <2>1, <2>2
<1>8. ASSUME NEW b \in Names, RenameBranch(b) PROVE ContractStep
  BY <1>8, Stutters DEF RenameBranch
<1> QED
  BY <1>1, <1>2, <1>3, <1>4, <1>5, <1>6, <1>7, <1>8 DEF Requested

\* The pipeline and the rollback.
LEMMA ProvisionContract ==
  ASSUME Inv, TypeOK', Provisions \/ RollsBack
  PROVE  ContractStep
<1>1. CASE SavesCtx
  BY <1>1, AnswersContract DEF SavesCtx
<1>2. CASE ResolvesBase
  BY <1>2, Stutters DEF ResolvesBase
<1>3. CASE AddsNewBranch
  <2>1. CASE UNCHANGED wt
    BY <1>3, <2>1, Stutters DEF AddsNewBranch
  <2>2. CASE ~Present /\ wt' = "clean"
    BY <1>3, <2>2 DEF AddsNewBranch, Owned, Rowed, ContractStep, Contract!Next, Contract!TreeAppears
  <2> QED
    BY <1>3, <2>1, <2>2 DEF AddsNewBranch, CheckOut
<1>4. CASE AddsExistingBranch
  <2>1. CASE UNCHANGED wt
    BY <1>4, <2>1, Stutters DEF AddsExistingBranch
  <2>2. CASE ~Present /\ wt' = "clean"
    BY <1>4, <2>2 DEF AddsExistingBranch, Owned, Rowed, ContractStep, Contract!Next, Contract!TreeAppears
  <2> QED
    BY <1>4, <2>1, <2>2 DEF AddsExistingBranch, CheckOut
<1>5. CASE PreparesSetup \/ RunsScripts \/ InsertsTab \/ LaunchesEngine \/ DeliversPrompt
  BY <1>5, Stutters DEF PreparesSetup, RunsScripts, InsertsTab, LaunchesEngine, DeliversPrompt
<1>6. CASE Materializes
  BY <1>6 DEF Materializes, Rowed, Treed, ContractStep, Contract!Next, Contract!Materialized
<1>7. CASE Activates
  <2>1. "active" \in Statuses /\ <<status, "active">> \in Contract!Edges
    BY <1>7 DEF Activates, Rowed, Statuses, Contract!Edges
  <2>2. status = "creating" /\ Present
    BY <1>7 DEF Activates, Rowed, Treed
  <2>3. consent' => consent
    BY <1>7 DEF Activates, Finish
  <2> QED
    BY <1>7, <2>1, <2>2, <2>3, MovesContract DEF Activates, TypeOK
<1>8. CASE RollbackKills \/ RollbackDropsTabs
  BY <1>8, Stutters DEF RollbackKills, RollbackDropsTabs
<1>9. CASE RollbackRemoves
  <2>1. CASE UNCHANGED wt
    BY <1>9, <2>1, Stutters DEF RollbackRemoves
  <2>2. CASE wt' = "absent"
    BY <1>9, <2>2 DEF RollbackRemoves, Owned, Rowed, ContractStep, Contract!Next, Contract!TreeGoes,
       Contract!Lapses
  <2> QED
    BY <1>9, <2>1, <2>2 DEF RollbackRemoves
<1>10. CASE RollbackMarks
  <2>1. "error" \in Statuses /\ <<status, "error">> \in Contract!Edges /\ status = "creating"
    BY <1>10 DEF RollbackMarks, Rowed, Statuses, Contract!Edges
  <2>2. consent' => consent
    BY <1>10 DEF RollbackMarks, Finish
  <2> QED
    BY <1>10, <2>1, <2>2, MovesContract DEF RollbackMarks, TypeOK
<1> QED
  BY <1>1, <1>2, <1>3, <1>4, <1>5, <1>6, <1>7, <1>8, <1>9, <1>10 DEF Provisions, RollsBack

\* Healing moves no row; only its failure may.
LEMMA HealContract ==
  ASSUME Inv, TypeOK', NEW p \in Fibers, Heals(p)
  PROVE  ContractStep
<1>1. CASE HealObserves(p) \/ HealStarts(p)
  <2>1. HealSucceeds(p) \/ HealFails(p) \/ UNCHANGED consent
    BY <1>1 DEF HealObserves, HealStarts
  <2>2. UNCHANGED <<status, ownership, materialized, wt>>
    BY <1>1 DEF HealObserves, HealStarts
  <2>3. Finish \/ UNCHANGED consent
    BY <2>1 DEF HealSucceeds, HealFails
  <2> QED
    BY <2>2, <2>3, AnswersContract, Stutters
<1>2. CASE MarksError(p)
  <2>1. CASE status \in {"creating", "active"}
    <3>1. "error" \in Statuses /\ <<status, "error">> \in Contract!Edges
      BY <2>1 DEF Statuses, Contract!Edges
    <3>2. consent' => consent
      BY <1>2 DEF MarksError, Finish
    <3> QED
      BY <1>2, <2>1, <3>1, <3>2, MovesContract DEF MarksError, TypeOK
  <2>2. CASE status \notin {"creating", "active"}
    BY <1>2, <2>2, AnswersContract, Stutters DEF MarksError
  <2> QED
    BY <2>1, <2>2
<1> QED
  BY <1>1, <1>2 DEF Heals

\* A removal that took the tree, and what the answer leaves of the agreement.
LEMMA RemovesContract ==
  ASSUME Inv, [Next]_vars, TypeOK', wt' = "absent", Finish \/ UNCHANGED consent,
         UNCHANGED <<status, ownership, materialized>>
  PROVE  ContractStep
<1>1. Contract!Lapses
  BY DEF Contract!Lapses, Finish
<1>2. wt = "dirty" => Managed /\ (consent \/ ~materialized)
  BY DirtyGoes
<1> QED
  BY <1>1, <1>2 DEF ContractStep, Contract!Next, Contract!TreeGoes

\* archive and unarchive.
LEMMA ArchiveContract ==
  ASSUME Inv, [Next]_vars, TypeOK', Archives \/ Reactivates \/ ReaddsTree \/ Reopens
  PROVE  ContractStep
<1>1. CASE KillsSession \/ GuardsTree
  BY <1>1, Stutters DEF KillsSession, GuardsTree
<1>2. CASE RemovesTree
  <2>1. CASE UNCHANGED wt
    BY <1>2, <2>1, Stutters DEF RemovesTree
  <2>2. CASE wt' = "absent"
    BY <1>2, <2>2, RemovesContract DEF RemovesTree
  <2> QED
    BY <1>2, <2>1, <2>2 DEF RemovesTree
<1>3. CASE Completes
  <2>1. "archived" \in Statuses /\ <<status, "archived">> \in Contract!Edges
    BY <1>3 DEF Completes, Placed, Rowed, Statuses, Contract!Edges
  <2>2. Managed => ~Present
    BY <1>3 DEF Completes, Treed
  <2>3. ~consent'
    BY <1>3 DEF Completes, Finish
  <2> QED
    BY <1>3, <2>1, <2>2, <2>3, MovesContract DEF Completes, TypeOK
<1>4. CASE Assesses
  BY <1>4, AnswersContract, Stutters DEF Assesses
<1>5. CASE Cancels
  <2>1. "active" \in Statuses /\ <<status, "active">> \in Contract!Edges
    BY <1>5 DEF Cancels, Placed, Rowed, Statuses, Contract!Edges
  <2>2. Managed => Present
    BY <1>5 DEF Cancels, Treed
  <2>3. ~consent'
    BY <1>5 DEF Cancels, Finish
  <2> QED
    BY <1>5, <2>1, <2>2, <2>3, MovesContract DEF Cancels, TypeOK
<1>6. CASE Reactivates
  <2>1. "active" \in Statuses /\ <<status, "active">> \in Contract!Edges /\ status = "creating"
    BY <1>6 DEF Reactivates, Rowed, Statuses, Contract!Edges
  <2>2. ~Managed
    BY <1>6 DEF Reactivates, Placed, Owned
  <2> QED
    BY <1>6, <2>1, <2>2, MovesContract DEF Reactivates, TypeOK
<1>7. CASE ReaddsTree
  <2>1. CASE ~Present /\ wt' = "clean" /\ UNCHANGED consent
    BY <1>7, <2>1 DEF ReaddsTree, Owned, Rowed, ContractStep, Contract!Next, Contract!TreeAppears
  <2>2. CASE wt' = "absent" /\ Finish
    BY <1>7, <2>2, RemovesContract DEF ReaddsTree
  <2> QED
    BY <1>7, <2>1, <2>2 DEF ReaddsTree, CheckOut
<1>8. CASE Reopens
  <2>1. "active" \in Statuses /\ <<status, "active">> \in Contract!Edges /\ status = "archived"
    BY <1>8 DEF Reopens, Rowed, Statuses, Contract!Edges
  <2>2. Managed => Present
    BY <1>8 DEF Reopens, Treed
  <2> QED
    BY <1>8, <2>1, <2>2, MovesContract DEF Reopens, TypeOK
<1> QED
  BY <1>1, <1>2, <1>3, <1>4, <1>5, <1>6, <1>7, <1>8 DEF Archives

\* delete and the rename of the branch.
LEMMA DeleteContract ==
  ASSUME Inv, [Next]_vars, TypeOK', Deletes \/ Renames
  PROVE  ContractStep
<1>1. CASE DeleteGuards
  BY <1>1, AnswersContract, Stutters DEF DeleteGuards
<1>2. CASE DeleteKills \/ DeleteDropsTabs
  BY <1>2, Stutters DEF DeleteKills, DeleteDropsTabs
<1>3. CASE DeleteRemovesTree
  <2>1. UNCHANGED <<status, ownership, materialized>> /\ (Finish \/ UNCHANGED consent)
    BY <1>3 DEF DeleteRemovesTree
  <2>2. CASE UNCHANGED wt
    BY <2>1, <2>2, AnswersContract, Stutters
  <2>3. CASE wt' = "absent"
    BY <2>1, <2>3, RemovesContract
  <2> QED
    BY <1>3, <2>2, <2>3 DEF DeleteRemovesTree
<1>4. CASE DeleteForgets
  <2>1. CASE status' = status
    BY <1>4, <2>1, AnswersContract DEF DeleteForgets
  <2>2. CASE status' = "gone"
    <3>1. "gone" \in Statuses /\ <<status, "gone">> \in Contract!Edges /\ status # "archiving"
      BY <1>4 DEF DeleteForgets, Placed, Rowed, TypeOK, Statuses, Contract!Edges
    <3>2. Managed => ~Present
      BY <1>4 DEF DeleteForgets, Treed
    <3>3. ~consent'
      BY <1>4, <2>2 DEF DeleteForgets, Finish
    <3> QED
      BY <1>4, <2>2, <3>1, <3>2, <3>3, MovesContract DEF DeleteForgets, TypeOK
  <2> QED
    BY <1>4, <2>1, <2>2 DEF DeleteForgets
<1>5. CASE RenamesInGit \/ SetsBranch \/ UndoesRename
  BY <1>5, AnswersContract, Stutters DEF RenamesInGit, SetsBranch, UndoesRename
<1> QED
  BY <1>1, <1>2, <1>3, <1>4, <1>5 DEF Deletes, Renames

\* What happens around the daemon, and its own end.
LEMMA WorldContract ==
  ASSUME Inv, TypeOK', World \/ Crash \/ Boot
  PROVE  ContractStep
<1>1. CASE Edits \/ CommitsWork
  BY <1>1 DEF Edits, CommitsWork, WorldOnly, ContractStep, Contract!Next, Contract!TreeChanges
<1>2. CASE OwnerRemoves
  BY <1>2 DEF OwnerRemoves, WorldOnly, ContractStep, Contract!Next, Contract!TreeGoes, Contract!Lapses
<1>3. CASE TmuxDies \/ BaseAdvances
  BY <1>3, Stutters DEF TmuxDies, BaseAdvances, WorldOnly
<1>4. CASE Crash
  <2>1. Contract!Lapses
    BY <1>4 DEF Crash, Contract!Lapses
  <2> QED
    BY <1>4, <2>1 DEF Crash, ContractStep, Contract!Next, Contract!Answered
<1>5. CASE Boot
  BY <1>5, Stutters DEF Boot
<1> QED
  BY <1>1, <1>2, <1>3, <1>4, <1>5 DEF World

\* Every operation, failure, crash and restart keeps the contract of a workspace: its row moves
\* along the edges only, with a worktree when active and none when archived or deleted.
THEOREM KeepsContract == Spec => ImplementsContract
<1>1. Init => Contract!Init
  BY DEF Init, Contract!Init
<1>2. Inv /\ [Next]_vars => [Contract!Next]_Contract!vars
  <2> SUFFICES ASSUME Inv, [Next]_vars PROVE ContractStep
    BY DEF ContractStep, Contract!vars
  <2>1. TypeOK'
    BY TypeKept
  <2>2. CASE Requested
    BY <2>1, <2>2, RequestContract
  <2>3. CASE Provisions \/ RollsBack
    BY <2>1, <2>3, ProvisionContract
  <2>4. CASE Heals("lane") \/ Heals("adopt")
    BY <2>1, <2>4, Lanes, HealContract
  <2>5. CASE Archives \/ Reactivates \/ ReaddsTree \/ Reopens
    BY <2>1, <2>5, ArchiveContract
  <2>6. CASE Deletes \/ Renames
    BY <2>1, <2>6, DeleteContract
  <2>7. CASE World \/ Crash \/ Boot
    BY <2>1, <2>7, WorldContract
  <2>8. CASE UNCHANGED vars
    BY <2>8, Stutters DEF vars
  <2> QED
    BY <2>2, <2>3, <2>4, <2>5, <2>6, <2>7, <2>8 DEF Next, LaneSteps
<1> QED
  BY Invariant, <1>1, <1>2, PTL DEF Spec, ImplementsContract, Contract!Spec
-----------------------------------------------------------------------------
(* What the rows and the history say of git, tmux and the engine.            *)

\* From the checkout to the step that types the prompt.
ToldLabels == {"setup", "scripts", "tabRow", "launch", "deliver"}

\* A checkout has not been prompted before the step that types the prompt, and a managed
\* workspace that came to be has been.
Told ==
  /\ prompted <= 1
  /\ pc["lane"] \in ToldLabels => prompted = 0
  /\ At("saveCtx") => Managed /\ status = "creating" /\ ~materialized
  /\ Managed /\ status \in {"active", "archiving", "archived"} => materialized
  /\ At("activate") => materialized
  /\ Managed /\ ctx /\ (materialized \/ At("materialize")) => everPrompted

\* How far a rollback or a delete has come, while no call has failed.
RolledBack ==
  Managed /\ mishaps = 0 =>
    /\ pc["lane"] \in {"rbTabs", "rbTree", "rbMark", "delTabs"} \/ status = "error" => session = "none"
    /\ pc["lane"] \in {"rbTree", "rbMark"} \/ status = "error" => ~tabs
    /\ At("rbMark") \/ status = "error" => ~Present

\* The tab row is there from before the engine starts until after it ended.
Tabbed ==
  Managed /\ mishaps = 0 /\ (pc["lane"] \in {"launch", "relaunch", "relaunchNew"} \/ session = "engine")
    => tabs

\* Branch b exists and is the one the worktree, if there is one, has checked out.
Known(b) == tips[b] # Missing /\ (Present => head = b)

\* The branch of the workspace, under the name it has while a rename is under way.
Branched ==
  /\ pc["lane"] \in TreeLabels \/ (status = "none" /\ Present) => Known(rowBranch)
  /\ At("addExisting") => tips[rowBranch] # Missing
  /\ pc["lane"] \in {"gitRename", "setBranch", "undo"} => reqBranch # rowBranch /\ materialized
  /\ At("undo") => mishaps # 0
  /\ crashes = 0 /\ mishaps <= 1 /\ materialized /\ status # "gone" =>
       Known(IF pc["lane"] \in {"setBranch", "undo"} THEN reqBranch ELSE rowBranch)

USE DEF ToldLabels

\* No tip of the base and no tip with work on it stands for a branch that is missing.
LEMMA Tips == Own # Missing /\ (\A n \in Points : n # Missing) /\ Own \notin Points
  BY DEF Own, Missing, Points

LEMMA ToldKept ==
  ASSUME Inv, Told, [Next]_vars
  PROVE  Told'
<1>1. CASE Requested
  BY <1>1 DEF TypeOK, Placed, Owned, Rowed, Told, Requested, CreateIntent, Ensure, Retry, Unarchive,
     Adopt, ArchiveBegins, DeleteBegins, RenameBranch, Begin
<1>2. CASE Provisions
  BY <1>2 DEF TypeOK, Placed, Owned, Rowed, Told, Provisions, SavesCtx, ResolvesBase, AddsNewBranch,
     AddsExistingBranch, PreparesSetup, RunsScripts, InsertsTab, LaunchesEngine, DeliversPrompt,
     Materializes, Activates, CheckOut, Reusable, Finish
<1>3. CASE RollsBack
  BY <1>3 DEF TypeOK, Placed, Owned, Rowed, Told, RollsBack, RollbackKills, RollbackDropsTabs,
     RollbackRemoves, RollbackMarks, Finish
<1>4. CASE Heals("lane")
  BY <1>4 DEF TypeOK, Placed, Owned, Rowed, Told, Heals, HealObserves, HealStarts, MarksError,
     HealSucceeds, HealFails, Healable, Finish
<1>5. CASE Archives
  BY <1>5 DEF TypeOK, Placed, Owned, Rowed, Told, Archives, KillsSession, GuardsTree, RemovesTree,
     Completes, Assesses, Cancels, Removable, Finish
<1>6. CASE Reactivates
  BY <1>6 DEF TypeOK, Placed, Owned, Rowed, Told, Reactivates
<1>7. CASE ReaddsTree
  BY <1>7 DEF TypeOK, Placed, Owned, Rowed, Told, ReaddsTree, CheckOut, Finish
<1>8. CASE Reopens
  BY <1>8 DEF TypeOK, Placed, Owned, Rowed, Told, Reopens
<1>9. CASE Deletes
  BY <1>9 DEF TypeOK, Placed, Owned, Rowed, Told, Deletes, DeleteGuards, DeleteKills,
     DeleteDropsTabs, DeleteRemovesTree, DeleteForgets, Removable, Finish
<1>10. CASE Renames
  BY <1>10 DEF TypeOK, Placed, Owned, Rowed, Told, Renames, RenamesInGit, SetsBranch, UndoesRename,
     BranchMoves, Finish
<1>11. CASE Heals("adopt")
  BY <1>11 DEF TypeOK, Placed, Owned, Rowed, Told, Heals, HealObserves, HealStarts, MarksError,
     HealSucceeds, HealFails, Healable
<1>12. CASE Crash
  BY <1>12 DEF TypeOK, Placed, Owned, Rowed, Told, Crash
<1>13. CASE Boot
  BY <1>13 DEF TypeOK, Placed, Owned, Rowed, Told, Boot
<1>14. CASE World
  BY <1>14 DEF TypeOK, Placed, Owned, Rowed, Told, World, Edits, CommitsWork, OwnerRemoves,
     TmuxDies, BaseAdvances, WorldOnly
<1>15. CASE UNCHANGED vars
  BY <1>15 DEF TypeOK, Placed, Owned, Rowed, Told, vars
<1> QED
  BY <1>1, <1>2, <1>3, <1>4, <1>5, <1>6, <1>7, <1>8, <1>9, <1>10, <1>11, <1>12, <1>13, <1>14, <1>15
     DEF Next, LaneSteps

LEMMA RolledBackKept ==
  ASSUME Inv, RolledBack, [Next]_vars
  PROVE  RolledBack'
<1>1. CASE Requested
  BY <1>1 DEF TypeOK, Placed, Owned, Rowed, RolledBack, Requested, CreateIntent, Ensure, Retry,
     Unarchive, Adopt, ArchiveBegins, DeleteBegins, RenameBranch, Begin
<1>2. CASE Provisions
  BY <1>2 DEF TypeOK, Placed, Owned, Rowed, RolledBack, Provisions, SavesCtx, ResolvesBase,
     AddsNewBranch, AddsExistingBranch, PreparesSetup, RunsScripts, InsertsTab, LaunchesEngine,
     DeliversPrompt, Materializes, Activates, CheckOut, Reusable, Finish
<1>3. CASE RollsBack
  BY <1>3 DEF TypeOK, Placed, Owned, Rowed, RolledBack, RollsBack, RollbackKills, RollbackDropsTabs,
     RollbackRemoves, RollbackMarks, Finish
<1>4. CASE Heals("lane")
  BY <1>4 DEF TypeOK, Placed, Owned, Rowed, RolledBack, Heals, HealObserves, HealStarts, MarksError,
     HealSucceeds, HealFails, Healable, Finish
<1>5. CASE Archives
  BY <1>5 DEF TypeOK, Placed, Owned, Rowed, RolledBack, Archives, KillsSession, GuardsTree,
     RemovesTree, Completes, Assesses, Cancels, Removable, Finish
<1>6. CASE Reactivates
  BY <1>6 DEF TypeOK, Placed, Owned, Rowed, RolledBack, Reactivates
<1>7. CASE ReaddsTree
  BY <1>7 DEF TypeOK, Placed, Owned, Rowed, RolledBack, ReaddsTree, CheckOut, Finish
<1>8. CASE Reopens
  BY <1>8 DEF TypeOK, Placed, Owned, Rowed, RolledBack, Reopens
<1>9. CASE Deletes
  BY <1>9 DEF TypeOK, Placed, Owned, Rowed, RolledBack, Deletes, DeleteGuards, DeleteKills,
     DeleteDropsTabs, DeleteRemovesTree, DeleteForgets, Removable, Finish
<1>10. CASE Renames
  BY <1>10 DEF TypeOK, Placed, Owned, Rowed, RolledBack, Renames, RenamesInGit, SetsBranch,
     UndoesRename, BranchMoves, Finish
<1>11. CASE Heals("adopt")
  BY <1>11 DEF TypeOK, Placed, Owned, Rowed, RolledBack, Heals, HealObserves, HealStarts,
     MarksError, HealSucceeds, HealFails, Healable
<1>12. CASE Crash
  BY <1>12 DEF TypeOK, Placed, Owned, Rowed, RolledBack, Crash
<1>13. CASE Boot
  BY <1>13 DEF TypeOK, Placed, Owned, Rowed, RolledBack, Boot
<1>14. CASE World
  BY <1>14 DEF TypeOK, Placed, Owned, Rowed, RolledBack, World, Edits, CommitsWork, OwnerRemoves,
     TmuxDies, BaseAdvances, WorldOnly
<1>15. CASE UNCHANGED vars
  BY <1>15 DEF TypeOK, Placed, Owned, Rowed, RolledBack, vars
<1> QED
  BY <1>1, <1>2, <1>3, <1>4, <1>5, <1>6, <1>7, <1>8, <1>9, <1>10, <1>11, <1>12, <1>13, <1>14, <1>15
     DEF Next, LaneSteps

LEMMA TabbedKept ==
  ASSUME Inv, RolledBack, Tabbed, [Next]_vars
  PROVE  Tabbed'
<1>1. CASE Requested
  BY <1>1 DEF TypeOK, Placed, Owned, Rowed, RolledBack, Tabbed, Requested, CreateIntent, Ensure,
     Retry, Unarchive, Adopt, ArchiveBegins, DeleteBegins, RenameBranch, Begin
<1>2. CASE Provisions
  BY <1>2 DEF TypeOK, Placed, Owned, Rowed, RolledBack, Tabbed, Provisions, SavesCtx, ResolvesBase,
     AddsNewBranch, AddsExistingBranch, PreparesSetup, RunsScripts, InsertsTab, LaunchesEngine,
     DeliversPrompt, Materializes, Activates, CheckOut, Reusable, Finish
<1>3. CASE RollsBack
  BY <1>3 DEF TypeOK, Placed, Owned, Rowed, RolledBack, Tabbed, RollsBack, RollbackKills,
     RollbackDropsTabs, RollbackRemoves, RollbackMarks, Finish
<1>4. CASE Heals("lane")
  BY <1>4 DEF TypeOK, Placed, Owned, Rowed, RolledBack, Tabbed, Heals, HealObserves, HealStarts,
     MarksError, HealSucceeds, HealFails, Healable, Finish
<1>5. CASE Archives
  BY <1>5 DEF TypeOK, Placed, Owned, Rowed, RolledBack, Tabbed, Archives, KillsSession, GuardsTree,
     RemovesTree, Completes, Assesses, Cancels, Removable, Finish
<1>6. CASE Reactivates
  BY <1>6 DEF TypeOK, Placed, Owned, Rowed, RolledBack, Tabbed, Reactivates
<1>7. CASE ReaddsTree
  BY <1>7 DEF TypeOK, Placed, Owned, Rowed, RolledBack, Tabbed, ReaddsTree, CheckOut, Finish
<1>8. CASE Reopens
  BY <1>8 DEF TypeOK, Placed, Owned, Rowed, RolledBack, Tabbed, Reopens
<1>9. CASE Deletes
  BY <1>9 DEF TypeOK, Placed, Owned, Rowed, RolledBack, Tabbed, Deletes, DeleteGuards, DeleteKills,
     DeleteDropsTabs, DeleteRemovesTree, DeleteForgets, Removable, Finish
<1>10. CASE Renames
  BY <1>10 DEF TypeOK, Placed, Owned, Rowed, RolledBack, Tabbed, Renames, RenamesInGit, SetsBranch,
     UndoesRename, BranchMoves, Finish
<1>11. CASE Heals("adopt")
  BY <1>11 DEF TypeOK, Placed, Owned, Rowed, RolledBack, Tabbed, Heals, HealObserves, HealStarts,
     MarksError, HealSucceeds, HealFails, Healable
<1>12. CASE Crash
  BY <1>12 DEF TypeOK, Placed, Owned, Rowed, RolledBack, Tabbed, Crash
<1>13. CASE Boot
  BY <1>13 DEF TypeOK, Placed, Owned, Rowed, RolledBack, Tabbed, Boot
<1>14. CASE World
  BY <1>14 DEF TypeOK, Placed, Owned, Rowed, RolledBack, Tabbed, World, Edits, CommitsWork,
     OwnerRemoves, TmuxDies, BaseAdvances, WorldOnly
<1>15. CASE UNCHANGED vars
  BY <1>15 DEF TypeOK, Placed, Owned, Rowed, RolledBack, Tabbed, vars
<1> QED
  BY <1>1, <1>2, <1>3, <1>4, <1>5, <1>6, <1>7, <1>8, <1>9, <1>10, <1>11, <1>12, <1>13, <1>14, <1>15
     DEF Next, LaneSteps

LEMMA BranchedKept ==
  ASSUME Inv, Branched, [Next]_vars
  PROVE  Branched'
<1>1. CASE Requested
  BY <1>1, Tips DEF TypeOK, Placed, Owned, Rowed, Branched, Known, Requested, CreateIntent, Ensure,
     Retry, Unarchive, Adopt, ArchiveBegins, DeleteBegins, RenameBranch, Begin
<1>2. CASE Provisions
  BY <1>2, Tips DEF TypeOK, Placed, Owned, Rowed, Branched, Known, Provisions, SavesCtx,
     ResolvesBase, AddsNewBranch, AddsExistingBranch, PreparesSetup, RunsScripts, InsertsTab,
     LaunchesEngine, DeliversPrompt, Materializes, Activates, CheckOut, Reusable, Finish
<1>3. CASE RollsBack
  BY <1>3, Tips DEF TypeOK, Placed, Owned, Rowed, Branched, Known, RollsBack, RollbackKills,
     RollbackDropsTabs, RollbackRemoves, RollbackMarks, Finish
<1>4. CASE Heals("lane")
  BY <1>4, Tips DEF TypeOK, Placed, Owned, Rowed, Branched, Known, Heals, HealObserves, HealStarts,
     MarksError, HealSucceeds, HealFails, Healable, Finish
<1>5. CASE Archives
  BY <1>5, Tips DEF TypeOK, Placed, Owned, Rowed, Branched, Known, Archives, KillsSession,
     GuardsTree, RemovesTree, Completes, Assesses, Cancels, Removable, Finish
<1>6. CASE Reactivates
  BY <1>6, Tips DEF TypeOK, Placed, Owned, Rowed, Branched, Known, Reactivates
<1>7. CASE ReaddsTree
  BY <1>7, Tips DEF TypeOK, Placed, Owned, Rowed, Branched, Known, ReaddsTree, CheckOut, Finish
<1>8. CASE Reopens
  BY <1>8, Tips DEF TypeOK, Placed, Owned, Rowed, Branched, Known, Reopens
<1>9. CASE Deletes
  BY <1>9, Tips DEF TypeOK, Placed, Owned, Rowed, Branched, Known, Deletes, DeleteGuards,
     DeleteKills, DeleteDropsTabs, DeleteRemovesTree, DeleteForgets, Removable, Finish
<1>10. CASE Renames
  BY <1>10, Tips DEF TypeOK, Placed, Owned, Rowed, Branched, Known, Renames, RenamesInGit,
     SetsBranch, UndoesRename, BranchMoves, Finish
<1>11. CASE Heals("adopt")
  BY <1>11, Tips DEF TypeOK, Placed, Owned, Rowed, Branched, Known, Heals, HealObserves, HealStarts,
     MarksError, HealSucceeds, HealFails, Healable
<1>12. CASE Crash
  BY <1>12, Tips DEF TypeOK, Placed, Owned, Rowed, Branched, Known, Crash
<1>13. CASE Boot
  BY <1>13, Tips DEF TypeOK, Placed, Owned, Rowed, Branched, Known, Boot
<1>14. CASE World
  BY <1>14, Tips DEF TypeOK, Placed, Owned, Rowed, Branched, Known, World, Edits, CommitsWork,
     OwnerRemoves, TmuxDies, BaseAdvances, WorldOnly
<1>15. CASE UNCHANGED vars
  BY <1>15, Tips DEF TypeOK, Placed, Owned, Rowed, Branched, Known, vars
<1> QED
  BY <1>1, <1>2, <1>3, <1>4, <1>5, <1>6, <1>7, <1>8, <1>9, <1>10, <1>11, <1>12, <1>13, <1>14, <1>15
     DEF Next, LaneSteps

\* The invariant together with what the records and the history add to it.
TruthInv == Inv /\ Told /\ RolledBack /\ Tabbed /\ Branched

LEMMA TruthInitially == Init => TruthInv
<1> SUFFICES ASSUME Init PROVE TruthInv
  OBVIOUS
<1>1. Inv
  BY Initially
<1>2. Told /\ RolledBack /\ Tabbed
  BY Lanes DEF Init, Told, RolledBack, Tabbed
<1>3. pc["lane"] = "idle" /\ Missing \notin {0, Own} /\ head = rowBranch /\ rowBranch \in Names
  BY Lanes, Bounds DEF Init, Own, Missing
<1>4. Present => tips[rowBranch] # Missing
  BY <1>3 DEF Init
<1>5. Branched
  BY <1>3, <1>4 DEF Init, Branched, Known
<1> QED
  BY <1>1, <1>2, <1>5 DEF TruthInv

LEMMA TruthKept ==
  ASSUME TruthInv, [Next]_vars
  PROVE  TruthInv'
<1>1. Inv'
  BY TypeKept, PlacedKept, OwnedKept, RowedKept, TreedKept, AgreedKept, QuietKept DEF TruthInv
<1>2. Told' /\ RolledBack' /\ Tabbed' /\ Branched'
  BY ToldKept, RolledBackKept, TabbedKept, BranchedKept DEF TruthInv
<1> QED
  BY <1>1, <1>2 DEF TruthInv

\* The strengthened invariant, for every instance and every fault.
THEOREM Truth == Spec => []TruthInv
<1>1. Init => TruthInv
  BY TruthInitially
<1>2. TruthInv /\ [Next]_vars => TruthInv'
  BY TruthKept
<1> QED
  BY <1>1, <1>2, PTL DEF Spec

\* PromptedOnce: the engine of a managed workspace is typed its first prompt, and at most once
\* in one checkout, however provisioning failed, was retried or was cut off.
THEOREM PromptsOnce == Spec => []PromptedOnce
<1>1. TruthInv => PromptedOnce
  BY DEF TruthInv, Told, PromptedOnce, OncePerWorktree, FirstPromptDelivered
<1> QED
  BY Truth, <1>1, PTL

\* RecordsAreTrue: error means rolled back, a running engine has its tab row, and the branch the
\* row names is the one that is checked out.
THEOREM RecordsHold == Spec => []RecordsAreTrue
<1>1. TruthInv => ErrorIsRolledBack /\ EngineHasTab
  BY DEF TruthInv, RolledBack, Tabbed, ErrorIsRolledBack, EngineHasTab
<1>2. TruthInv => BranchKnown
  BY DEF TruthInv, Branched, Known, BranchKnown
<1> QED
  BY Truth, <1>1, <1>2, PTL DEF RecordsAreTrue
=============================================================================
