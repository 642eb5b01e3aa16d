------------------------------- MODULE Finish -------------------------------
(***************************************************************************)
(* Finishing a task (workspace/finish.ts): push and pull request, and the  *)
(* merge of its branch into the base branch.  Each task has a lane of its  *)
(* own, but the main checkout, in which the merge is made, is shared by    *)
(* all of them and by the user, and the engine edits and commits in the    *)
(* worktree all the while.  A command of git or gh is one step.            *)
(*                                                                         *)
(* Contents are versions: of a worktree, how often it was edited; of a     *)
(* branch, the version that was committed last.                            *)
(***************************************************************************)
EXTENDS Naturals, FiniteSets

CONSTANTS
  Tasks,       \* tasks of one project
  MaxEdits,    \* bound: edits of a worktree
  MaxRequests, \* bound: requests to finish
  MaxUser,     \* bound: what the user does in the main checkout
  MaxCrashes   \* bound: ends of the daemon

ASSUME FinishAssumption == {MaxEdits, MaxRequests, MaxUser, MaxCrashes} \subseteq Nat

VARIABLES
  tree, tip,          \* of each worktree: its version, and the one that is committed
  base,               \* what the base branch has of each task
  checkout,           \* the main checkout: its branch, and whether it is clean
  remote, pushed, pr, \* whether there is an origin; what it has of each task; open pull requests
  result,             \* finishResult of each task
  active,             \* whether each task is active or archived
  lane,               \* the request in the lane of each task
  moved,              \* history: the user changed branches under a request for a merge
  requests, userActs, crashes

gitVars == <<tree, tip, base, checkout, remote, pushed, pr>>
taskVars == <<result, active>>
budgets == <<requests, userActs, crashes>>
finishVars == <<gitVars, taskVars, lane, moved, budgets>>

-----------------------------------------------------------------------------
Contents == 0..MaxEdits
CleanTree(t) == tree[t] = tip[t]

NoResult == [pr |-> FALSE, merged |-> FALSE, due |-> 0]
NoWork == [at |-> "free", pr |-> FALSE, merge |-> FALSE, made |-> FALSE, due |-> 0]

At(t, step) == lane[t].at = step
Goes(t, step) == lane' = [lane EXCEPT ![t].at = step]
Ends(t) == lane' = [lane EXCEPT ![t] = NoWork]

-----------------------------------------------------------------------------
(* POST /finish                                                             *)

AskFinish(t) ==
  /\ At(t, "free") /\ active[t]
  /\ requests < MaxRequests /\ requests' = requests + 1
  /\ \E wantPr, wantMerge \in BOOLEAN :
       /\ wantPr \/ wantMerge
       /\ lane' = [lane EXCEPT ![t] = [NoWork EXCEPT !.at = "status", !.pr = wantPr, !.merge = wantMerge]]
  /\ UNCHANGED <<gitVars, taskVars, moved, userActs, crashes>>

\* git status of the worktree: a dirty one is only pushed.
LooksAtTask(t) ==
  /\ At(t, "status")
  /\ IF lane[t].merge /\ ~CleanTree(t) THEN Ends(t)
     ELSE lane' = [lane EXCEPT ![t].at = IF lane[t].merge THEN "main" ELSE "push", ![t].due = tip[t]]
  /\ UNCHANGED <<gitVars, taskVars, moved, budgets>>

\* git status of the main checkout.
LooksAtMain(t) ==
  /\ At(t, "main")
  /\ IF checkout.state = "clean" THEN Goes(t, "branch") ELSE Ends(t)
  /\ UNCHANGED <<gitVars, taskVars, moved, budgets>>

\* git branch --show-current.
LooksAtBranch(t) ==
  /\ At(t, "branch")
  /\ IF checkout.on = "base" THEN Goes(t, IF lane[t].pr THEN "push" ELSE "merge") ELSE Ends(t)
  /\ UNCHANGED <<gitVars, taskVars, moved, budgets>>

\* git push fails without a remote, and for reasons of its own.
Pushes(t) ==
  /\ At(t, "push")
  /\ \/ remote /\ pushed' = [pushed EXCEPT ![t] = tip[t]] /\ Goes(t, "create")
     \/ Ends(t) /\ UNCHANGED pushed
  /\ UNCHANGED <<tree, tip, base, checkout, remote, pr, taskVars, moved, budgets>>

\* gh pr create fails when the branch has a pull request, and for reasons of its own.
CreatesPr(t) ==
  /\ At(t, "create")
  /\ \/ Ends(t) /\ UNCHANGED pr
     \/ /\ ~pr[t]
        /\ pr' = [pr EXCEPT ![t] = TRUE]
        /\ lane' = [lane EXCEPT ![t].at = IF lane[t].merge THEN "merge" ELSE "save", ![t].made = TRUE]
  /\ UNCHANGED <<tree, tip, base, checkout, remote, pushed, taskVars, moved, budgets>>

\* git merge --no-ff, into whatever branch is checked out: it is up to date, it is made, or
\* it fails, with conflicts or because of what is in the checkout.
UpToDate(t) == checkout.state # "merging" /\ checkout.on = "base" /\ base[t] = tip[t]

\* As Merges, but a merge that fails is saved like one that was made.
Merges_Swallows(t) ==
  /\ At(t, "merge")
  /\ \/ /\ checkout.state # "merging"
        /\ base' = IF checkout.on = "base" THEN [base EXCEPT ![t] = tip[t]] ELSE base
        /\ UNCHANGED checkout
     \/ /\ ~UpToDate(t)
        /\ checkout' = [checkout EXCEPT !.state = IF @ = "clean" THEN "merging" ELSE @]
        /\ UNCHANGED base
  /\ Goes(t, "save")
  /\ UNCHANGED <<tree, tip, remote, pushed, pr, taskVars, moved, budgets>>

Merges(t) ==
  /\ At(t, "merge")
  /\ \/ /\ checkout.state # "merging"
        /\ base' = IF checkout.on = "base" THEN [base EXCEPT ![t] = tip[t]] ELSE base
        /\ Goes(t, "save")
        /\ UNCHANGED checkout
     \/ /\ ~UpToDate(t)
        /\ checkout' = [checkout EXCEPT !.state = IF @ = "clean" THEN "merging" ELSE @]
        /\ Ends(t)
        /\ UNCHANGED base
  /\ UNCHANGED <<tree, tip, remote, pushed, pr, taskVars, moved, budgets>>

\* setFinishResult, and workspace.finished.
Saves(t) ==
  /\ At(t, "save")
  /\ result' = [result EXCEPT ![t] = [pr |-> lane[t].made, merged |-> lane[t].merge, due |-> lane[t].due]]
  /\ Ends(t)
  /\ UNCHANGED <<gitVars, active, moved, budgets>>

\* DELETE /finish-result, outside the lane: "keep working".
KeepsWorking(t) ==
  /\ result[t] # NoResult
  /\ result' = [result EXCEPT ![t] = NoResult]
  /\ UNCHANGED <<gitVars, active, lane, moved, budgets>>

\* An archived task has no result; its branch stays.
FinishArchives(t) ==
  /\ At(t, "free") /\ active[t] /\ CleanTree(t)
  /\ active' = [active EXCEPT ![t] = FALSE]
  /\ result' = [result EXCEPT ![t] = NoResult]
  /\ UNCHANGED <<gitVars, lane, moved, budgets>>

-----------------------------------------------------------------------------
(* The others.                                                              *)

Edits(t) ==
  /\ active[t] /\ tree[t] < MaxEdits
  /\ tree' = [tree EXCEPT ![t] = @ + 1]
  /\ UNCHANGED <<tip, base, checkout, remote, pushed, pr, taskVars, lane, moved, budgets>>

Commits(t) ==
  /\ active[t] /\ ~CleanTree(t)
  /\ tip' = [tip EXCEPT ![t] = tree[t]]
  /\ UNCHANGED <<tree, base, checkout, remote, pushed, pr, taskVars, lane, moved, budgets>>

\* The user edits in the main checkout, cleans it up, ends a merge, or changes branches.
UserActs ==
  /\ userActs < MaxUser /\ userActs' = userActs + 1
  /\ \/ /\ checkout' = [checkout EXCEPT !.state = IF @ = "clean" THEN "dirty" ELSE "clean"]
        /\ UNCHANGED moved
     \/ /\ checkout.state # "merging"
        /\ checkout' = [checkout EXCEPT !.on = IF @ = "base" THEN "other" ELSE "base"]
        /\ moved' = [t \in Tasks |-> moved[t] \/ lane[t].merge]
  /\ UNCHANGED <<tree, tip, base, remote, pushed, pr, taskVars, lane, requests, crashes>>

FinishCrashes ==
  /\ crashes < MaxCrashes /\ crashes' = crashes + 1
  /\ lane' = [t \in Tasks |-> NoWork]
  /\ UNCHANGED <<gitVars, taskVars, moved, requests, userActs>>

-----------------------------------------------------------------------------
FinishInit ==
  /\ tree = [t \in Tasks |-> 0] /\ tip = tree /\ base = tree /\ pushed = tree
  /\ checkout = [on |-> "base", state |-> "clean"]
  /\ remote \in BOOLEAN
  /\ pr = [t \in Tasks |-> FALSE] /\ moved = pr
  /\ result = [t \in Tasks |-> NoResult]
  /\ active = [t \in Tasks |-> TRUE]
  /\ lane = [t \in Tasks |-> NoWork]
  /\ requests = 0 /\ userActs = 0 /\ crashes = 0

FinishNext ==
  \/ \E t \in Tasks :
       \/ AskFinish(t) \/ LooksAtTask(t) \/ LooksAtMain(t) \/ LooksAtBranch(t)
       \/ Pushes(t) \/ CreatesPr(t) \/ Merges(t) \/ Saves(t)
       \/ KeepsWorking(t) \/ FinishArchives(t)
       \/ Edits(t) \/ Commits(t)
  \/ UserActs \/ FinishCrashes

FinishSpec == FinishInit /\ [][FinishNext]_finishVars

-----------------------------------------------------------------------------
FinishTypeOK ==
  /\ {tree, tip, base, pushed} \subseteq [Tasks -> Contents]
  /\ checkout \in [on : {"base", "other"}, state : {"clean", "dirty", "merging"}]
  /\ remote \in BOOLEAN
  /\ {pr, active, moved} \subseteq [Tasks -> BOOLEAN]
  /\ result \in [Tasks -> [pr : BOOLEAN, merged : BOOLEAN, due : Contents]]
  /\ requests \in 0..MaxRequests /\ userActs \in 0..MaxUser /\ crashes \in 0..MaxCrashes

\* What a result says is so: all that the worktree held when the merge was asked for is on
\* the base branch, and on the origin with a pull request when one was asked for, whatever
\* other tasks merge, fail to merge or leave unmerged, and whatever is edited and committed
\* meanwhile; but not when the user changes branches between the look and the merge.
FinishIsTrue ==
  \A t \in Tasks :
    /\ result[t].merged /\ ~moved[t] => base[t] >= result[t].due
    /\ result[t].pr => pr[t] /\ pushed[t] >= result[t].due

\* What finish.ts says of its guards: when both are asked for, it does not create the pull
\* request and then find that the merge cannot be made in this checkout.
NoPrThenRefused ==
  [][\A t \in Tasks : Merges(t) /\ lane[t].made /\ checkout.state # "clean" => At(t, "save")']_finishVars
=============================================================================
