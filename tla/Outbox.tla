------------------------------- MODULE Outbox -------------------------------
(***************************************************************************)
(* What the prompt queue promises: a durable outbox that hands the letters *)
(* of each destination over in the order they were posted, at least once.  *)
(* A letter may be handed over again while it is pending, and it may be    *)
(* discarded, but it is settled only after it was handed over.  There is   *)
(* no crash here: a crash of the implementation must not show.             *)
(***************************************************************************)
EXTENDS Naturals

CONSTANTS
  Letters,        \* 1..n, numbered in the order of posting
  Destinations,
  Nowhere         \* the destination of a letter nobody posted

VARIABLES letter, dest, handed

vars == <<letter, dest, handed>>

Pending == {i \in Letters : letter[i] = "pending"}

Init ==
  /\ letter = [i \in Letters |-> "unposted"]
  /\ dest = [i \in Letters |-> Nowhere]
  /\ handed = [i \in Letters |-> 0]

\* Letters are posted in the order of their numbers.
Post(i) ==
  /\ letter[i] = "unposted"
  /\ \A j \in Letters : letter[j] = "unposted" => i <= j
  /\ letter' = [letter EXCEPT ![i] = "pending"]
  /\ \E d \in Destinations : dest' = [dest EXCEPT ![i] = d]
  /\ UNCHANGED handed

\* No older letter to the same destination is pending.
Hand(i) ==
  /\ i \in Pending
  /\ \A j \in Pending : j < i => dest[j] # dest[i]
  /\ handed' = [handed EXCEPT ![i] = @ + 1]
  /\ UNCHANGED <<letter, dest>>

Settle(i) ==
  /\ i \in Pending
  /\ handed[i] > 0
  /\ letter' = [letter EXCEPT ![i] = "settled"]
  /\ UNCHANGED <<dest, handed>>

Discard(is) ==
  /\ is \subseteq Pending
  /\ letter' = [i \in Letters |-> IF i \in is THEN "discarded" ELSE letter[i]]
  /\ UNCHANGED <<dest, handed>>

Next ==
  \/ \E i \in Letters : Post(i) \/ Hand(i) \/ Settle(i)
  \/ \E is \in SUBSET Pending : Discard(is)

Spec == Init /\ [][Next]_vars
=============================================================================
