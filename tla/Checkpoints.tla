---------------------------- MODULE Checkpoints ----------------------------
(***************************************************************************)
(* The checkpoints of a task (workspace/checkpoint.ts): a commit of the    *)
(* whole worktree that no branch has, kept by a ref of its own, and the    *)
(* events that tell of it.  They are made and deleted in the lane of the   *)
(* task, one git command after the other, while the engine goes on to edit *)
(* and to commit, each command may fail, and the daemon may end between    *)
(* any two.                                                                *)
(***************************************************************************)
EXTENDS Naturals, FiniteSets

CONSTANTS MaxEdited, MaxCheckpoints, MaxKills   \* bounds: edits, checkpoints, ends of the daemon

ASSUME CheckpointsAssumption == {MaxEdited, MaxCheckpoints, MaxKills} \subseteq Nat

VARIABLES
  files, head,     \* the versions of the worktree and of its branch: how often it was edited
  taskIs,          \* active, archived or deleted
  refs,            \* the checkpoints there are
  known,           \* the checkpoints that events speak of
  making,          \* the request in the lane: its step and its checkpoint
  numbered,        \* ids given out
  silent,          \* history: the checkpoints whose ref was made or deleted with no event to tell
                   \* of it, when a command failed or the daemon ended in between
  kills

ckVars == <<files, head, taskIs, refs, known, making, numbered, silent, kills>>

-----------------------------------------------------------------------------
Edited == 0..MaxEdited
Ids == 1..MaxCheckpoints
NoRef == [id |-> 0, tree |-> 0, parent |-> 0, asked |-> 0, from |-> 0]
Idle == [step |-> "idle", ref |-> NoRef]

\* The two versions that the request finds are kept beside those that it takes.
AskCheckpoint ==
  /\ making = Idle /\ taskIs = "active"
  /\ numbered < MaxCheckpoints /\ numbered' = numbered + 1
  /\ making' = [step |-> "add",
                 ref |-> [id |-> numbered', tree |-> 0, parent |-> 0, asked |-> files, from |-> head]]
  /\ UNCHANGED <<files, head, taskIs, refs, known, silent, kills>>

\* As WritesTree, but without git add -A: what is committed already.
WritesTree_NotAdded ==
  /\ making.step = "add"
  /\ making' = [making EXCEPT !.step = "parent", !.ref.tree = head]
  /\ UNCHANGED <<files, head, taskIs, refs, known, numbered, silent, kills>>

\* git add -A and write-tree, in an index of their own.
WritesTree ==
  /\ making.step = "add"
  /\ making' = [making EXCEPT !.step = "parent", !.ref.tree = files]
  /\ UNCHANGED <<files, head, taskIs, refs, known, numbered, silent, kills>>

\* rev-parse HEAD, then commit-tree.
CommitsTree ==
  /\ making.step = "parent"
  /\ making' = [making EXCEPT !.step = "ref", !.ref.parent = head]
  /\ UNCHANGED <<files, head, taskIs, refs, known, numbered, silent, kills>>

UpdatesRef ==
  /\ making.step = "ref"
  /\ refs' = refs \cup {making.ref}
  /\ making' = [making EXCEPT !.step = "show"]
  /\ UNCHANGED <<files, head, taskIs, known, numbered, silent, kills>>

\* git show, for the time of the commit.
ReadsTime ==
  /\ making.step = "show"
  /\ making' = [making EXCEPT !.step = "created"]
  /\ UNCHANGED <<files, head, taskIs, refs, known, numbered, silent, kills>>

\* Any command may fail, and the request with it; a ref that is there by then stays.
GitFails ==
  /\ making.step \in {"add", "parent", "ref", "show"}
  /\ making' = Idle
  /\ silent' = IF making.step = "show" THEN silent \cup {making.ref.id} ELSE silent
  /\ UNCHANGED <<files, head, taskIs, refs, known, numbered, kills>>

TellsCreated ==
  /\ making.step = "created"
  /\ known' = known \cup {making.ref.id}
  /\ making' = Idle
  /\ UNCHANGED <<files, head, taskIs, refs, numbered, silent, kills>>

\* DELETE, of an archived task too: a ref that still has the commit that was listed.  When a command
\* fails nothing was done.
DeletesRef ==
  /\ making = Idle /\ taskIs # "deleted"
  /\ \E c \in refs : refs' = refs \ {c} /\ making' = [step |-> "deleted", ref |-> c]
  /\ UNCHANGED <<files, head, taskIs, known, numbered, silent, kills>>

TellsDeleted ==
  /\ making.step = "deleted"
  /\ known' = known \ {making.ref.id} /\ silent' = silent \ {making.ref.id}
  /\ making' = Idle
  /\ UNCHANGED <<files, head, taskIs, refs, numbered, kills>>

-----------------------------------------------------------------------------
EditsWork ==
  /\ taskIs = "active" /\ files < MaxEdited
  /\ files' = files + 1
  /\ UNCHANGED <<head, taskIs, refs, known, making, numbered, silent, kills>>

CommitsWork ==
  /\ taskIs = "active"
  /\ head # files /\ head' = files
  /\ UNCHANGED <<files, taskIs, refs, known, making, numbered, silent, kills>>

\* In the lane: what was not committed is gone, or archived only when forced; the refs stay,
\* even when the task is deleted.
TaskMovesOn ==
  /\ making = Idle
  /\ \/ taskIs = "active" /\ taskIs' = "archived" /\ files' = head
     \/ taskIs = "archived" /\ taskIs' \in {"active", "deleted"} /\ UNCHANGED files
  /\ UNCHANGED <<head, refs, known, making, numbered, silent, kills>>

LaneIsCut ==
  /\ kills < MaxKills /\ kills' = kills + 1
  /\ making' = Idle
  /\ silent' = IF making.step \in {"show", "created", "deleted"} THEN silent \cup {making.ref.id} ELSE silent
  /\ UNCHANGED <<files, head, taskIs, refs, known, numbered>>

-----------------------------------------------------------------------------
CheckpointsInit ==
  /\ files = 0 /\ head = 0 /\ taskIs = "active"
  /\ refs = {} /\ known = {}
  /\ making = Idle /\ numbered = 0
  /\ silent = {} /\ kills = 0

CheckpointsNext ==
  \/ AskCheckpoint \/ WritesTree \/ CommitsTree \/ UpdatesRef \/ ReadsTime \/ TellsCreated
  \/ GitFails \/ DeletesRef \/ TellsDeleted
  \/ EditsWork \/ CommitsWork \/ TaskMovesOn \/ LaneIsCut

CheckpointsSpec == CheckpointsInit /\ [][CheckpointsNext]_ckVars

-----------------------------------------------------------------------------
Checkpoint == [id : Ids \cup {0}, tree : Edited, parent : Edited, asked : Edited, from : Edited]

CheckpointsTypeOK ==
  /\ head \in Edited /\ files \in Edited /\ head <= files
  /\ taskIs \in {"active", "archived", "deleted"}
  /\ refs \subseteq Checkpoint /\ known \subseteq Ids
  /\ making \in [step : {"idle", "add", "parent", "ref", "show", "created", "deleted"}, ref : Checkpoint]
  /\ numbered \in 0..MaxCheckpoints /\ silent \subseteq Ids /\ kills \in 0..MaxKills

\* A checkpoint misses nothing that was in the worktree or in its history when it was asked
\* for, whatever is edited and committed while it is made; and the events tell of just the
\* checkpoints there are, but for the one under way and for those whose ref was made or deleted by
\* a request that failed or was cut before the event, until their deletion is told.
CheckpointsKeep ==
  /\ \A c \in refs : c.tree >= c.asked /\ c.parent >= c.from
  /\ \A id \in Ids \ (silent \cup {making.ref.id}) : id \in known <=> \E c \in refs : c.id = id
=============================================================================
