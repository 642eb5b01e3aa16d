---------------------------- MODULE ClientStores ----------------------------
(***************************************************************************)
(* What the clients build on the event stream: the inbox and the lists of  *)
(* a window (App.tsx, stores/data.ts, stores/attention.ts), and `coolie    *)
(* wait --for attention` (cli/src/wait.ts).  The stream is the one that    *)
(* EventStream implements: a client is told of every event once and in     *)
(* order, at any later time.  Requests overlap and their answers come in   *)
(* any order, or not at all.  The inbox, the lists and the waiter share    *)
(* nothing but the log: each behaviour watches one of them.                *)
(*                                                                         *)
(* What the database holds is what the log says: the version of an answer  *)
(* is the length of the log when it was made.                              *)
(***************************************************************************)
EXTENDS Naturals, FiniteSets, SequencesExt

CONSTANTS
  ListLimit,   \* items of one GET /attention (100)
  MaxLog, MaxAsks,      \* bounds: events, requests under way
  MaxTroubles           \* bound: times the stream is dialled, answers that are lost

ASSUME StoresAssumption ==
  /\ {ListLimit, MaxAsks} \subseteq Nat \ {0}
  /\ {MaxLog, MaxTroubles} \subseteq Nat

VARIABLES
  log,        \* the events table: the kind of each event and the item it is about
  focus,      \* which of them the behaviour watches: inbox, lists or wait
  phase,      \* of the window: off, boot, online
  told,       \* the last event the window was told of
  began,      \* the length of the log when its session began
  items,      \* the open items of its inbox
  lists,      \* the version of its tab lists
  flights,    \* requests under way, of the window and of the waiter
  owed,       \* history: the version a store must be reread at, after it was set back
  waiter, seen,   \* coolie wait: off, ask, stream, ended; the last event it was told of
  dials, lost

window == <<focus, phase, told, began, items, lists, owed>>
waiting == <<waiter, seen>>
storesVars == <<log, window, flights, waiting, dials, lost>>

-----------------------------------------------------------------------------
(* The database, as of a version.  An item is named by the event it stems   *)
(* from (source_event_seq), the last event of its transaction.              *)

Versions == 0..MaxLog
Kinds == {"working", "awaiting", "finished", "acked", "archived"}
Event(kind, item) == [kind |-> kind, item |-> item]

Of(v, kind) == {n \in 1..v : log[n].kind = kind}

OpenAt(v) == {log[n].item : n \in Of(v, "awaiting")} \ {log[n].item : n \in Of(v, "acked")}

\* tabs.status: an event tells of each change.
StatusAt(v) ==
  LET changes == Of(v, "awaiting") \cup Of(v, "working") IN
  IF changes = {} THEN "idle" ELSE log[Max(changes)].kind

\* GET /attention: the oldest open items, one page of them.
Listed(v) == {i \in OpenAt(v) : Cardinality({j \in OpenAt(v) : j < i}) < ListLimit}

\* matchesWaitCondition for "attention".
Met(v) == OpenAt(v) # {} \/ StatusAt(v) = "awaiting"

Now == Len(log)

-----------------------------------------------------------------------------
(* What happens on the server.                                              *)

Emit(events) ==
  /\ Len(log) + Len(events) <= MaxLog
  /\ log' = log \o events

\* A prompt was typed.
TurnStarts ==
  /\ StatusAt(Now) # "working"
  /\ Emit(<<Event("working", 0)>>)
  /\ UNCHANGED <<window, flights, waiting, dials, lost>>

\* AttentionCompletion.apply: the same status again opens no second item.  A hook also
\* tells of the turn, and that event is then the source.
TurnFinishes ==
  /\ StatusAt(Now) # "awaiting"
  /\ \/ Emit(<<Event("awaiting", Now + 1)>>)
     \/ Emit(<<Event("awaiting", Now + 2), Event("finished", 0)>>)
  /\ UNCHANGED <<window, flights, waiting, dials, lost>>

\* POST /attention/:id/ack: an event only if the item was open.
Acknowledge(i) == IF i \in OpenAt(Now) THEN Emit(<<Event("acked", i)>>) ELSE UNCHANGED log

\* Another window or a command line.
OtherAcks ==
  /\ \E i \in OpenAt(Now) : Acknowledge(i)
  /\ UNCHANGED <<window, flights, waiting, dials, lost>>

Archives ==
  /\ Of(Now, "archived") = {}
  /\ Emit(<<Event("archived", 0)>>)
  /\ UNCHANGED <<window, flights, waiting, dials, lost>>

-----------------------------------------------------------------------------
(* Requests: each is handled once, and its answer delivered or lost.        *)

InFlight == BagToSet(flights)
Ask(kind, item) == [kind |-> kind, item |-> item, at |-> 0, done |-> FALSE]

Exchange(f, requests) ==
  LET rest == flights (-) SetToBag(f) (+) SetToBag(requests) IN
  /\ BagCardinality(rest) <= MaxAsks
  /\ flights' = rest
Sends(requests) == Exchange({}, requests)
Settles(f) == Exchange({f}, {})

\* The server answers as of now; only an acknowledgement changes something there.
Handle(f) ==
  /\ ~f.done
  /\ IF f.kind = "ack" THEN Acknowledge(f.item) ELSE UNCHANGED log
  /\ Exchange({f}, {[f EXCEPT !.done = TRUE, !.at = Now]})
  /\ UNCHANGED <<window, waiting, dials, lost>>

\* The window was told of something that an answer does not know yet.
Overtaken(v, kinds) == \E n \in v + 1..told : log[n].kind \in kinds
Owes(store, v) == owed' = [owed EXCEPT ![store] = v]

\* bootstrap: loadSnapshot replaces the inbox, then the tabs are read again.
LoadsSnapshot(f) ==
  /\ f.kind = "boot"
  /\ phase' = "online"
  /\ IF focus = "lists" THEN Exchange({f}, {Ask("tabs", 0)}) /\ UNCHANGED <<items, owed>>
     ELSE /\ Settles(f)
          /\ items' = OpenAt(f.at)
          /\ IF Overtaken(f.at, {"awaiting", "acked"}) THEN Owes("inbox", Now)
             ELSE Owes("inbox", IF f.at >= owed.inbox THEN 0 ELSE owed.inbox)
  /\ UNCHANGED <<lists, waiting>>

\* syncWorkspace: mergeItems adds the items that are open, and takes none away.
MergesItems(f) ==
  /\ f.kind = "sync"
  /\ items' = items \cup Listed(f.at)
  /\ IF Overtaken(f.at, {"acked"}) \/ Listed(f.at) # OpenAt(f.at) THEN Owes("inbox", Now) ELSE UNCHANGED owed
  /\ Settles(f)
  /\ UNCHANGED <<lists, phase, waiting>>

\* refreshTabs and its siblings set what the answer says, whichever was asked first.
SetsLists(f) ==
  /\ f.kind = "tabs"
  /\ lists' = f.at
  /\ IF f.at < lists THEN Owes("lists", Now)
     ELSE Owes("lists", IF f.at >= owed.lists THEN 0 ELSE owed.lists)
  /\ Settles(f)
  /\ UNCHANGED <<items, phase, waiting>>

RemovesAcked(f) ==
  /\ f.kind = "ack"
  /\ items' = items \ {f.item}
  /\ Settles(f)
  /\ UNCHANGED <<lists, owed, phase, waiting>>

\* checkSnapshot; the stream begins after the version of the first snapshot.
Checks(f) ==
  /\ f.kind = "wait"
  /\ waiter' = CASE waiter = "ended" \/ Met(f.at) -> "ended" [] OTHER -> "stream"
  /\ seen' = IF waiter = "ask" THEN f.at ELSE seen
  /\ Settles(f)
  /\ UNCHANGED <<items, lists, owed, phase>>

Answer(f) ==
  /\ f.done
  /\ LoadsSnapshot(f) \/ MergesItems(f) \/ SetsLists(f) \/ RemovesAcked(f) \/ Checks(f)
  /\ UNCHANGED <<log, focus, told, began, dials, lost>>

\* A request or its answer is lost.  The window swallows it, but shows the error page when
\* it was its first one; the waiter ends with an error.
Lost(f) ==
  /\ dials + lost < MaxTroubles
  /\ lost' = lost + 1
  /\ phase' = IF f.kind = "boot" /\ phase = "boot" THEN "off" ELSE phase
  /\ CASE focus = "inbox" /\ f.kind \in {"boot", "sync"} -> Owes("inbox", Now)
       [] f.kind = "tabs" -> Owes("lists", Now)
       [] OTHER -> UNCHANGED owed
  /\ waiter' = IF f.kind = "wait" THEN "ended" ELSE waiter
  /\ Settles(f)
  /\ UNCHANGED <<log, focus, told, began, items, lists, seen, dials>>

-----------------------------------------------------------------------------
(* The window.                                                              *)

OpensWindow ==
  /\ phase = "off" /\ focus # "wait"
  /\ phase' = "boot"
  /\ began' = IF focus = "inbox" THEN Now ELSE 0
  /\ Sends({Ask("boot", 0)})
  /\ UNCHANGED <<log, focus, told, items, lists, owed, waiting, dials, lost>>

\* Each time the stream is dialled getInfo starts another bootstrap.
Dials ==
  /\ phase = "online"
  /\ dials + lost < MaxTroubles
  /\ dials' = dials + 1
  /\ Sends({Ask("boot", 0)})
  /\ UNCHANGED <<log, window, waiting, lost>>

\* As HearsEvent, but the inbox is not read again.
HearsEvent_NoSync ==
  /\ phase = "online" /\ dials > 0
  /\ told < Now
  /\ told' = told + 1
  /\ LET e == log[told'] IN
     /\ items' = CASE e.kind = "acked" -> items \ {e.item}
                   [] e.kind = "archived" -> {}
                   [] OTHER -> items
     /\ Sends(IF focus = "lists" /\ e.kind # "acked" THEN {Ask("tabs", 0)} ELSE {})
  /\ UNCHANGED <<log, focus, phase, began, lists, owed, waiting, dials, lost>>

\* applyEvent: which lists are read again, and what the inbox does.  Only what happened
\* since the session began may call the user.
HearsEvent ==
  /\ phase = "online" /\ dials > 0
  /\ told < Now
  /\ told' = told + 1
  /\ LET e == log[told'] IN
     /\ items' = CASE e.kind = "acked" -> items \ {e.item}
                   [] e.kind = "archived" -> {}
                   [] OTHER -> items
     /\ IF e.kind = "archived" /\ Max(items \cup {0}) > told' THEN Owes("inbox", Now) ELSE UNCHANGED owed
     /\ Sends(CASE focus = "lists" /\ e.kind # "acked" -> {Ask("tabs", 0)}
                [] focus = "inbox" /\ e.kind = "awaiting" /\ told' > began -> {Ask("sync", 0)}
                [] OTHER -> {})
  /\ UNCHANGED <<log, focus, phase, began, lists, waiting, dials, lost>>

\* tryAckVisible: the window shows the tab of the items; one request after the other.
AcksVisible ==
  /\ focus = "inbox"
  /\ \A f \in InFlight : f.kind # "ack"
  /\ \E i \in items : Sends({Ask("ack", i)})
  /\ UNCHANGED <<log, window, waiting, dials, lost>>

-----------------------------------------------------------------------------
(* coolie wait.                                                             *)

WaitStarts ==
  /\ waiter = "off" /\ focus = "wait"
  /\ waiter' = "ask"
  /\ Sends({Ask("wait", 0)})
  /\ UNCHANGED <<log, window, seen, dials, lost>>

\* Any event of the workspace makes it look again.
WaitHears ==
  /\ waiter = "stream"
  /\ seen < Now
  /\ seen' = seen + 1
  /\ Sends({Ask("wait", 0)})
  /\ UNCHANGED <<log, window, waiter, dials, lost>>

\* --timeout, or the user interrupts it.
WaitStops ==
  /\ waiter = "stream"
  /\ waiter' = "ended"
  /\ UNCHANGED <<log, window, flights, seen, dials, lost>>

-----------------------------------------------------------------------------
StoresInit ==
  /\ log = <<>>
  /\ focus \in {"inbox", "lists", "wait"}
  /\ phase = "off" /\ told = 0 /\ began = 0
  /\ items = {} /\ lists = 0
  /\ flights = EmptyBag
  /\ owed = [inbox |-> 0, lists |-> 0]
  /\ waiter = "off" /\ seen = 0
  /\ dials = 0 /\ lost = 0

Requests == \E f \in InFlight : Handle(f) \/ Answer(f)

StoresNext ==
  \/ TurnStarts \/ TurnFinishes \/ OtherAcks \/ Archives
  \/ Requests \/ \E f \in InFlight : Lost(f)
  \/ OpensWindow \/ Dials \/ HearsEvent \/ AcksVisible
  \/ WaitStarts \/ WaitHears \/ WaitStops

StoresSpec == StoresInit /\ [][StoresNext]_storesVars

-----------------------------------------------------------------------------
StoresTypeOK ==
  /\ log \in Seq([kind : Kinds, item : Versions]) /\ Now \in Versions
  /\ focus \in {"inbox", "lists", "wait"}
  /\ phase \in {"off", "boot", "online"}
  /\ {told, began, lists, seen} \subseteq Versions
  /\ items \subseteq 1..MaxLog
  /\ IsABag(flights)
  /\ InFlight \subseteq [kind : {"boot", "sync", "tabs", "ack", "wait"}, item : Versions, at : Versions, done : BOOLEAN]
  /\ owed \in [inbox : Versions, lists : Versions]
  /\ waiter \in {"off", "ask", "stream", "ended"}
  /\ dials \in 0..MaxTroubles /\ lost \in 0..MaxTroubles

\* When all is quiet, the inbox holds the open items, but perhaps those of an archived
\* workspace, and the lists know every event that changes them, in spite of answers in any
\* order, reconnects and acknowledgements by others; except for a store that a lost or
\* overtaken answer set back and that was not read again since.
Quiet == phase = "online" /\ told = Now /\ \A f \in InFlight : f.kind = "wait"
Unarchived(i) == \A n \in Of(Now, "archived") : n < i
WindowConverges ==
  Quiet =>
    /\ focus = "inbox" /\ owed.inbox = 0 =>
         items \subseteq OpenAt(Now) /\ {i \in OpenAt(Now) : Unarchived(i)} \subseteq items
    /\ focus = "lists" /\ owed.lists = 0 => \A n \in 1..Now : log[n].kind # "acked" => n <= lists

\* A wait does not sleep on a condition that holds: it cannot become true unseen between
\* the snapshot and the stream, while the stream is cut or while an older answer comes in.
WaitSeesIt == waiter = "stream" /\ seen = Now /\ InFlight = {} => ~Met(Now)

\* What every client builds on the stream comes to agree with the database when all is quiet.
StoresConverge == WindowConverges /\ WaitSeesIt
=============================================================================
