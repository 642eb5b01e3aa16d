------------------------------- MODULE Board -------------------------------
(***************************************************************************)
(* The board of projects and tasks (repo/projects.ts, repo/workspaces.ts,   *)
(* workspace/names.ts, ports.ts, adopt.ts) and the sidebar that lists the  *)
(* tasks and sorts them by dragging (sidebar/Sidebar.tsx).                 *)
(*                                                                         *)
(* A project is named by the root of its repository, and so is its main    *)
(* row; tasks are named by the order in which they were inserted.  Each    *)
(* function of the repositories runs in one turn of the event loop, but an *)
(* adoption and a clone wait for git between what they read and what they  *)
(* insert, and the sidebar asks from a list it read before.                *)
(***************************************************************************)
EXTENDS Integers, FiniteSets, SequencesExt

CONSTANTS
  Roots,        \* repositories
  SameName,     \* the roots whose last part is the same
  Names,        \* names of tasks, of the pool or written by users
  MaxTasks, MaxDrags, MaxMoves   \* bounds: tasks inserted, drags, changes of a row

ASSUME BoardAssumption ==
  /\ SameName \subseteq Roots /\ Roots \cap Names = {} /\ Roots \cap Nat = {}
  /\ {MaxTasks, MaxDrags, MaxMoves} \subseteq Nat

VARIABLES
  board,        \* the board of workspaces; a root is a project if its main row is there
  last,         \* the number of tasks ever inserted
  disk,         \* the repositories that are on disk
  cloning,      \* those that git clones now
  adopting,     \* the adoptions between their reads and their insertion
  dragged,      \* the requests to reorder that are under way
  asked,        \* history: of each project, the last order that was accepted
  drags, moves

boardVars == <<board, last, disk, cloning, adopting, dragged, asked, drags, moves>>

-----------------------------------------------------------------------------
Rows == DOMAIN board
Projects == Rows \cap Roots
Of(root) == {w \in Rows : board[w].project = root}
TasksOf(root) == Of(root) \ {root}
Unarchived(root) == {w \in TasksOf(root) : board[w].status # "archived"}
Never == [ids |-> <<>>, others |-> {}, last |-> 0]

\* Where createIntent puts a worktree: projects of the same name share the directory.
Place(root, name) == <<IF root \in SameName THEN "same" ELSE root, name>>

Row(root, name, path, status, port, order) ==
  [project |-> root, name |-> name, path |-> path, branch |-> path, status |-> status,
   port |-> port, pinned |-> FALSE, order |-> order]

\* ORDER BY sort_order; what tells rows that tie apart, created_at, is left open.
Before(a, b) == board[a].order < board[b].order

\* The unique indexes and the foreign key of workspaces.
Fits(r) ==
  /\ r.project \in Projects
  /\ \A w \in Rows : board[w].path # r.path
  /\ \A w \in Of(r.project) : board[w].name # r.name
  /\ \A w \in TasksOf(r.project) : board[w].branch # r.branch

\* As UsedPorts, but archived tasks give theirs back.
UsedPorts_Live == {board[w].port : w \in {v \in Rows : board[v].status # "archived"}}

\* usedPortBases: of every row there is.
UsedPorts == {board[w].port : w \in Rows}

\* allocatePortBase: the first block that is not taken.
FreePort == CHOOSE n \in 1..(Cardinality(Rows) + 1) : n \notin UsedPorts /\ 1..(n - 1) \subseteq UsedPorts

\* Date.now(): far above every index that a reorder writes.
Now == 1000 + last

Inserts(r) ==
  /\ last < MaxTasks
  /\ last' = last + 1
  /\ board' = [w \in Rows \cup {last + 1} |-> IF w \in Rows THEN board[w] ELSE r]
Changes(w, r) ==
  /\ moves < MaxMoves /\ moves' = moves + 1
  /\ board' = [board EXCEPT ![w] = r]
  /\ UNCHANGED <<last, disk, cloning, adopting, dragged, asked, drags>>

-----------------------------------------------------------------------------
(* Projects.                                                                *)

\* ProjectsRepo.add: the project with its main row, in one transaction.
WithMain(root, r) ==
  [w \in DOMAIN r \cup {root} |->
     IF w = root THEN Row(root, root, root, "active", 0, -1) ELSE r[w]]

\* The unique index of paths: a worktree of a task has a .git, too.
Unplaced(root) == \A w \in Rows : board[w].path # root

AddsProject(root) ==
  /\ root \in disk \ Projects /\ Unplaced(root)
  /\ board' = WithMain(root, board)
  /\ UNCHANGED <<last, disk, cloning, adopting, dragged, asked, drags, moves>>

\* remove: refused while a task is left, whatever its status.
RemovesProject(root) ==
  /\ moves < MaxMoves /\ moves' = moves + 1
  /\ root \in Projects /\ TasksOf(root) = {}
  /\ board' = [w \in Rows \ {root} |-> board[w]]
  /\ asked' = [asked EXCEPT ![root] = Never]
  /\ UNCHANGED <<last, disk, cloning, adopting, dragged, drags>>

Clones(root) ==
  /\ root \notin disk
  /\ cloning' = cloning \cup {root}
  /\ UNCHANGED <<board, last, disk, adopting, dragged, asked, drags, moves>>

\* The clone is added, unless git failed, it is a project by now, or the row of a task is there.
ClonesEnd(root) ==
  /\ root \in cloning /\ cloning' = cloning \ {root}
  /\ \/ UNCHANGED <<disk, board>>
     \/ /\ disk' = disk \cup {root}
        /\ board' = IF root \notin Projects /\ Unplaced(root) THEN WithMain(root, board) ELSE board
  /\ UNCHANGED <<last, adopting, dragged, asked, drags, moves>>

-----------------------------------------------------------------------------
(* Tasks.                                                                   *)

\* createIntent: the path is made of the names of the project and the task.
Intent(root, name) == Row(root, name, Place(root, name), "creating", FreePort, Now)

\* A name that was given may be taken, one of the pool is not but its path may be; the indexes
\* decide.
Creates(root, name) ==
  /\ root \in Projects
  /\ Fits(Intent(root, name)) /\ Inserts(Intent(root, name))
  /\ UNCHANGED <<disk, cloning, adopting, dragged, asked, drags, moves>>

\* adopt: what is registered is not adopted twice; then git is asked.
Foreign(root) == <<"outside", root>>
Adoptable(root) == \A w \in Rows : board[w].path # Foreign(root)
AdoptReads(root) ==
  /\ root \in Projects /\ Adoptable(root)
  /\ adopting' = adopting \cup {root}
  /\ UNCHANGED <<board, last, disk, cloning, dragged, asked, drags, moves>>

\* insertAdopted with the name that was chosen before, or the indexes refuse it.
AdoptInserts(root, name) ==
  /\ root \in adopting
  /\ adopting' = adopting \ {root}
  /\ LET r == Row(root, name, Foreign(root), "active", FreePort, Now) IN
     IF Fits(r) THEN Inserts(r) ELSE UNCHANGED <<board, last>>
  /\ UNCHANGED <<disk, cloning, dragged, asked, drags, moves>>

Transitions == [creating |-> {"active", "error"}, active |-> {"archiving", "error"},
                archiving |-> {"active", "archived"}, archived |-> {"active"}, error |-> {"creating"}]
SetsStatus(w) ==
  /\ w \notin Roots /\ board[w].status # "archiving"
  /\ \E next \in Transitions[board[w].status] \ {"archiving"} : Changes(w, [board[w] EXCEPT !.status = next])
BeginsArchive(w) ==
  w \notin Roots /\ board[w].status = "active" /\ Changes(w, [board[w] EXCEPT !.status = "archiving"])
CancelsArchive(w) == board[w].status = "archiving" /\ Changes(w, [board[w] EXCEPT !.status = "active"])
CompletesArchive(w) == board[w].status = "archiving" /\ Changes(w, [board[w] EXCEPT !.status = "archived"])

SetsPinned(w) == Changes(w, [board[w] EXCEPT !.pinned = ~@])

\* rename: the name is in the index of the project, and the path stays what it was.
Named(w, name) ==
  (\A v \in Of(board[w].project) : board[v].name # name) /\ Changes(w, [board[w] EXCEPT !.name = name])
Renames(w, name) == board[w].status # "archiving" /\ Named(w, name)

Removes(w) ==
  /\ w \notin Roots /\ board[w].status # "archiving"
  /\ moves < MaxMoves /\ moves' = moves + 1
  /\ board' = [v \in Rows \ {w} |-> board[v]]
  /\ UNCHANGED <<last, disk, cloning, adopting, dragged, asked, drags>>

\* reorder takes a list of each task of the project that is not archived.
Accepts(root, ids) == root \in Projects /\ ToSet(ids) = Unarchived(root)

Reorders(d) ==
  /\ dragged' = dragged \ {d}
  /\ LET root == d[1]  ids == d[2] IN
     IF Accepts(root, ids)
     THEN /\ board' = [w \in Rows |-> IF w \in ToSet(ids)
                                    THEN [board[w] EXCEPT !.order = CHOOSE i \in DOMAIN ids : ids[i] = w]
                                    ELSE board[w]]
          /\ asked' = [asked EXCEPT ![root] =
               [ids |-> ids, others |-> TasksOf(root) \ Unarchived(root), last |-> last]]
     ELSE UNCHANGED <<board, asked>>
  /\ UNCHANGED <<last, disk, cloning, adopting, drags, moves>>

-----------------------------------------------------------------------------
(* The sidebar.                                                             *)

\* orderedActiveWs: those that are archiving are left out, the pinned ones come first.
Listed == {w \in Rows \ Roots : board[w].status \in {"active", "creating", "error"}}
Above(a, b) ==
  \/ board[a].pinned /\ ~board[b].pinned
  \/ board[a].pinned = board[b].pinned /\ Before(a, b)

\* reorderWorkspaceIds: the source is taken out and put where the target was.
Put(ids, from, to) == InsertAt(RemoveAt(ids, from), to, ids[from])

\* moveWorkspace: among the rows of the project that the search leaves; rows that tie come in
\* any order.  The request goes out from a list that may be old when it arrives.
Drags(root) ==
  /\ drags < MaxDrags /\ drags' = drags + 1
  /\ \E found \in SUBSET (Listed \cap TasksOf(root)) :
     \E ids \in SetToSeqs(found) :
       /\ \A i, j \in DOMAIN ids : Above(ids[i], ids[j]) => i < j
       /\ \E from, to \in DOMAIN ids : from # to /\ dragged' = dragged \cup {<<root, Put(ids, from, to)>>}
  /\ UNCHANGED <<board, last, disk, cloning, adopting, asked, moves>>

-----------------------------------------------------------------------------
BoardInit ==
  /\ board = <<>> /\ last = 0
  /\ disk \in SUBSET Roots /\ cloning = {}
  /\ adopting = {}
  /\ dragged = {}
  /\ asked = [r \in Roots |-> Never]
  /\ drags = 0 /\ moves = 0

BoardNext ==
  \/ \E root \in Roots :
       \/ AddsProject(root) \/ RemovesProject(root) \/ Clones(root) \/ ClonesEnd(root) \/ Drags(root) \/ AdoptReads(root)
       \/ \E name \in Names : Creates(root, name) \/ AdoptInserts(root, name)
  \/ \E w \in Rows : SetsStatus(w) \/ SetsPinned(w) \/ Removes(w) \/ \E name \in Names : Renames(w, name)
  \/ \E w \in Rows : BeginsArchive(w) \/ CancelsArchive(w) \/ CompletesArchive(w)
  \/ \E d \in dragged : Reorders(d)

BoardSpec == BoardInit /\ [][BoardNext]_boardVars

-----------------------------------------------------------------------------
BoardTypeOK ==
  /\ Rows \subseteq Roots \cup 1..last /\ last \in 0..MaxTasks
  /\ \A w \in Rows : board[w].project \in Roots /\ board[w].status \in DOMAIN Transitions
  /\ cloning \subseteq Roots /\ disk \subseteq Roots
  /\ \A d \in dragged : ToSet(d[2]) \subseteq 1..last
  /\ adopting \subseteq Roots

\* No two tasks share a worktree or a block of ports, also with those that are archived and
\* come back, of projects of the same name, and of adoptions that were decided before; and no
\* task is left without its project.
TasksApart ==
  \A v, w \in Rows :
    /\ board[w].project \in Projects
    /\ v # w => board[v].path # board[w].path
    /\ v # w /\ {v, w} \cap Roots = {} => board[v].port # board[w].port

\* Once an order was accepted it stands, whatever is pinned, renamed, archived, removed or
\* inserted since: those it named follow each other as it said, newer tasks come after them, and
\* no task that was there is missing from it but those that were archived.
OrderStands ==
  \A root \in Roots : LET a == asked[root] IN a # Never =>
    /\ \A i, j \in DOMAIN a.ids : i < j /\ {a.ids[i], a.ids[j]} \subseteq Rows => Before(a.ids[i], a.ids[j])
    /\ \A w \in TasksOf(root) \ (ToSet(a.ids) \cup a.others) :
         w > a.last /\ \A i \in DOMAIN a.ids : a.ids[i] \in Rows => Before(a.ids[i], w)

\* Tasks stay apart and in their order, by creations, adoptions and drags together.
BoardHolds == TasksApart /\ OrderStands
=============================================================================
