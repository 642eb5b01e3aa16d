---------------------------- MODULE EventStream ----------------------------
(***************************************************************************)
(* The event log of coolie-server and the stream that follows it           *)
(* (repo/events.ts, events/bus.ts, http/sse.ts), with the clients that     *)
(* read it (client/src/api/sse.ts, cli/src/wait.ts).                       *)
(*                                                                         *)
(* The handler subscribes to the bus, replays the table page by page, then *)
(* drains what the bus queued meanwhile and goes live.  The read of a page *)
(* and its write are two steps.  A connection may be cut at any moment, a  *)
(* restart of the daemon included; the bytes under way are lost and the    *)
(* client dials again from the last event it was told of.                  *)
(***************************************************************************)
EXTENDS Naturals, FiniteSets, SequencesExt

CONSTANTS
  Readers,     \* clients of the stream
  Filtered,    \* those that ask for one workspace only
  PageSize,    \* rows of a replay page (200)
  MaxEvents, MaxCuts

ASSUME StreamAssumption ==
  /\ Filtered \subseteq Readers
  /\ PageSize \in Nat \ {0}
  /\ {MaxEvents, MaxCuts} \subseteq Nat

VARIABLES
  events,     \* the table: of each event, whether it is about the workspace of the filter
  conn,       \* the handler of each client
  wire,       \* events under way to the client
  online, lastSeq,   \* the client
  heard,      \* history: what the client was told of, in order
  cuts

streamVars == <<events, conn, wire, online, lastSeq, heard, cuts>>

-----------------------------------------------------------------------------
Seqs == 1..MaxEvents
Mine(r, about) == r \notin Filtered \/ about
Rows(r) == SelectSeq([k \in 1..Len(events) |-> k], LAMBDA n : Mine(r, events[n]))

NoHandler == [step |-> "closed", cursor |-> 0, lastSent |-> 0, batch |-> <<>>, queue |-> <<>>]

\* writeEvent: what is not newer than the last one, or not asked for, is not written.
Written(r, table, sent, ns) ==
  FoldLeft(LAMBDA out, n :
             IF Mine(r, table[n]) /\ n > (IF out = <<>> THEN sent ELSE Last(out)) THEN Append(out, n) ELSE out,
           <<>>, ns)

\* One transaction of one or two events, then their broadcast to the handlers there are.
Append1or2 ==
  \E about \in BOOLEAN, n \in 1..2 :
    /\ Len(events) + n <= MaxEvents
    /\ events' = events \o [k \in 1..n |-> about]
    /\ LET fresh == [k \in 1..n |-> Len(events) + k]
           out(r) == IF conn[r].step = "live" THEN Written(r, events', conn[r].lastSent, fresh) ELSE <<>> IN
       /\ wire' = [r \in Readers |-> wire[r] \o out(r)]
       /\ conn' = [r \in Readers |->
                     CASE conn[r].step = "closed" -> conn[r]
                       [] conn[r].step = "live" -> [conn[r] EXCEPT !.lastSent = IF out(r) = <<>> THEN @ ELSE Last(out(r))]
                       [] OTHER -> [conn[r] EXCEPT !.queue = @ \o fresh]]
    /\ UNCHANGED <<online, lastSeq, heard, cuts>>

\* listAfter(cursor, limit).
ReadsPage(r) ==
  /\ conn[r].step = "read"
  /\ LET after == SelectSeq(Rows(r), LAMBDA n : n > conn[r].cursor) IN
     conn' = [conn EXCEPT ![r].step = "write",
                          ![r].batch = SubSeq(after, 1, IF Len(after) < PageSize THEN Len(after) ELSE PageSize)]
  /\ UNCHANGED <<events, wire, online, lastSeq, heard, cuts>>

\* As WritesPage, but it goes live without what was queued meanwhile.
WritesPage_DropsQueue(r) ==
  /\ conn[r].step = "write"
  /\ LET k == conn[r]
         full == Len(k.batch) = PageSize
         out == Written(r, events, k.lastSent, k.batch)
         sent == IF out = <<>> THEN k.lastSent ELSE Last(out) IN
     /\ wire' = [wire EXCEPT ![r] = @ \o out]
     /\ conn' = [conn EXCEPT ![r] =
                   [k EXCEPT !.step = IF full THEN "read" ELSE "live", !.lastSent = sent,
                             !.cursor = IF full THEN Last(k.batch) ELSE @,
                             !.batch = <<>>, !.queue = IF full THEN @ ELSE <<>>]]
  /\ UNCHANGED <<events, online, lastSeq, heard, cuts>>

\* A page that is not full ends the replay, and the queue follows in the same turn.
WritesPage(r) ==
  /\ conn[r].step = "write"
  /\ LET k == conn[r]
         full == Len(k.batch) = PageSize
         out == Written(r, events, k.lastSent, IF full THEN k.batch ELSE k.batch \o k.queue)
         sent == IF out = <<>> THEN k.lastSent ELSE Last(out) IN
     /\ wire' = [wire EXCEPT ![r] = @ \o out]
     /\ conn' = [conn EXCEPT ![r] =
                   IF full
                   THEN [k EXCEPT !.step = "read", !.cursor = Last(k.batch), !.lastSent = sent, !.batch = <<>>]
                   ELSE [k EXCEPT !.step = "live", !.lastSent = sent, !.batch = <<>>, !.queue = <<>>]]
  /\ UNCHANGED <<events, online, lastSeq, heard, cuts>>

Dials(r) ==
  /\ ~online[r]
  /\ online' = [online EXCEPT ![r] = TRUE]
  /\ conn' = [conn EXCEPT ![r] = [NoHandler EXCEPT !.step = "read", !.cursor = lastSeq[r], !.lastSent = lastSeq[r]]]
  /\ UNCHANGED <<events, wire, lastSeq, heard, cuts>>

Hears(r) ==
  /\ wire[r] # <<>>
  /\ LET n == Head(wire[r]) IN
     /\ lastSeq' = [lastSeq EXCEPT ![r] = IF n > @ THEN n ELSE @]
     /\ heard' = [heard EXCEPT ![r] = Append(@, n)]
  /\ wire' = [wire EXCEPT ![r] = Tail(@)]
  /\ UNCHANGED <<events, conn, online, cuts>>

\* The network, a failing read of the table, or the end of the daemon.
CutsOff(r) ==
  /\ online[r]
  /\ cuts < MaxCuts
  /\ cuts' = cuts + 1
  /\ online' = [online EXCEPT ![r] = FALSE]
  /\ conn' = [conn EXCEPT ![r] = NoHandler]
  /\ wire' = [wire EXCEPT ![r] = <<>>]
  /\ UNCHANGED <<events, lastSeq, heard>>

-----------------------------------------------------------------------------
StreamInit ==
  /\ events = <<>>
  /\ conn = [r \in Readers |-> NoHandler]
  /\ wire = [r \in Readers |-> <<>>]
  /\ online = [r \in Readers |-> FALSE]
  /\ lastSeq = [r \in Readers |-> 0]
  /\ heard = [r \in Readers |-> <<>>]
  /\ cuts = 0

Follows(r) == ReadsPage(r) \/ WritesPage(r) \/ Dials(r) \/ Hears(r)

StreamNext == Append1or2 \/ \E r \in Readers : Follows(r) \/ CutsOff(r)

StreamSpec == StreamInit /\ [][StreamNext]_streamVars

\* The server reads and writes on, and a client reads and dials again.
StreamFairness == \A r \in Readers : WF_streamVars(Follows(r))

-----------------------------------------------------------------------------
StreamTypeOK ==
  /\ events \in Seq(BOOLEAN) /\ Len(events) <= MaxEvents
  /\ conn \in [Readers -> [step : {"closed", "read", "write", "live"}, cursor : 0..MaxEvents,
                           lastSent : 0..MaxEvents, batch : Seq(Seqs), queue : Seq(Seqs)]]
  /\ wire \in [Readers -> Seq(Seqs)]
  /\ online \in [Readers -> BOOLEAN]
  /\ lastSeq \in [Readers -> 0..MaxEvents]
  /\ heard \in [Readers -> Seq(Seqs)]
  /\ cuts \in 0..MaxCuts

\* Each client is told of every event it asked for once and in order: nothing is lost,
\* repeated or swapped at the seam of replay, queue and live events, or over a reconnect; and a
\* client that is cut off only finitely often always catches up with the log.
Followed == INSTANCE Follower WITH rows <- [r \in Readers |-> Rows(r)], told <- heard
ImplementsFollower == Followed!Spec
=============================================================================
