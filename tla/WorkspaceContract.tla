-------------------------- MODULE WorkspaceContract --------------------------
(***************************************************************************)
(* What the daemon promises about one workspace, whatever fails and        *)
(* whenever the daemon dies: its row moves only along the edges of the     *)
(* life cycle; an active row has a worktree and a row that is archived or  *)
(* deleted has none; and uncommitted work is lost only where the user      *)
(* agreed to lose it, or where the workspace never came to be.  A foreign  *)
(* worktree is the business of its owner.                                  *)
(***************************************************************************)
VARIABLES status, ownership, materialized, wt, consent

vars == <<status, ownership, materialized, wt, consent>>

Statuses == {"none", "creating", "active", "archiving", "archived", "error", "gone"}
Edges ==
  {<<"none", "creating">>, <<"creating", "active">>, <<"creating", "error">>, <<"error", "creating">>,
   <<"active", "error">>, <<"active", "archiving">>, <<"archiving", "active">>,
   <<"archiving", "archived">>, <<"archived", "active">>}
  \cup {<<s, "gone">> : s \in {"creating", "active", "archived", "error"}}

Managed == ownership = "managed"
Present == wt # "absent"

\* What was agreed is agreed until the answer; for an archive, until the archive is over.
Lapses == consent' \in {consent, consent /\ status = "archiving"}

Init ==
  /\ status = "none" /\ ownership = "managed" /\ materialized = FALSE /\ consent = FALSE
  /\ wt \in {"absent", "clean"}

Adopted ==
  /\ status = "none" /\ Present
  /\ status' = "active" /\ ownership' = "adopted" /\ materialized' = TRUE
  /\ UNCHANGED <<wt, consent>>

Moves(next) ==
  /\ <<status, next>> \in Edges
  /\ Managed => /\ next = "active" => Present
                /\ next \in {"archived", "gone"} => ~Present
  /\ status' = next
  /\ consent' \in BOOLEAN
  /\ next # "archiving" /\ consent' => consent /\ status # "archiving"
  /\ UNCHANGED <<ownership, materialized, wt>>

Materialized ==
  /\ status = "creating" /\ Present
  /\ materialized' = TRUE
  /\ UNCHANGED <<status, ownership, wt, consent>>

Agrees ==
  /\ status \notin {"none", "gone"}
  /\ consent' = TRUE
  /\ UNCHANGED <<status, ownership, materialized, wt>>

Answered == Lapses /\ UNCHANGED <<status, ownership, materialized, wt>>

TreeAppears ==
  /\ Managed /\ ~Present
  /\ status \in {"creating", "archived"}
  /\ wt' = "clean"
  /\ UNCHANGED <<status, ownership, materialized, consent>>

TreeChanges ==
  /\ Present
  /\ wt' \in {"clean", "dirty"}
  /\ UNCHANGED <<status, ownership, materialized, consent>>

TreeGoes ==
  /\ wt = "dirty" => Managed /\ (consent \/ ~materialized)
  /\ wt' = "absent"
  /\ Lapses
  /\ UNCHANGED <<status, ownership, materialized>>

Next ==
  \/ Adopted \/ Materialized \/ Agrees \/ Answered
  \/ \E next \in Statuses : Moves(next)
  \/ TreeAppears \/ TreeChanges \/ TreeGoes

Spec == Init /\ [][Next]_vars
=============================================================================
