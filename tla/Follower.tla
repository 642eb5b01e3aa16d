------------------------------ MODULE Follower ------------------------------
(***************************************************************************)
(* What the durable event stream promises: each client is told of every    *)
(* event it asked for, once and in the order of the log, however often it  *)
(* is cut off.                                                             *)
(***************************************************************************)
EXTENDS Naturals, Sequences

CONSTANT Readers

VARIABLES
  rows,   \* the events for each client, in the order of the log
  told    \* those it was told of

Init == rows = [r \in Readers |-> <<>>] /\ told = rows

\* The log grows, and nothing in it changes.
Write ==
  /\ \A r \in Readers : SubSeq(rows'[r], 1, Len(rows[r])) = rows[r]
  /\ UNCHANGED told

Tell(r) ==
  /\ Len(told[r]) < Len(rows[r])
  /\ told' = [told EXCEPT ![r] = SubSeq(rows[r], 1, Len(@) + 1)]
  /\ UNCHANGED rows

Next == Write \/ \E r \in Readers : Tell(r)

\* Each client catches up again and again.
Spec ==
  /\ Init /\ [][Next]_<<rows, told>>
  /\ \A r \in Readers : []<>(told[r] = rows[r])
=============================================================================
