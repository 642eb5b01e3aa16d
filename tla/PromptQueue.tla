---------------------------- MODULE PromptQueue ----------------------------
(***************************************************************************)
(* The durable prompt queue of the Coolie daemon and everything that       *)
(* writes to it: the /input route, the drainer, the queue routes, the hook *)
(* routes, the transcript poller, the lifecycle routes that freeze a       *)
(* workspace, and a crash and restart of the daemon.                       *)
(*                                                                         *)
(* The database outlives the daemon, the engines (in tmux) outlive it too, *)
(* and everything else is lost in a crash.  SQLite calls are synchronous,  *)
(* so one repository call is one step; other actors run between the awaits *)
(* of a handler, which is where a pc label stands.  Handlers of one        *)
(* workspace run one after the other in its lane (createWorkspaceSerial);  *)
(* the poller does not go through the lane.                                *)
(***************************************************************************)
EXTENDS Naturals, Sequences, FiniteSets

CONSTANTS
  Workspaces, Tabs, Requests,
  NoReq,           \* the request of a row that was never inserted
  Home,            \* the workspace of each engine tab
  Target, Mode,    \* the tab and the mode of each /input request
  Impatient,       \* requests whose client may time out, or not hear the answer
  NativeAtStart,   \* tabs whose engine queues prompts itself (claude)
  Reports,         \* what an engine without its own queue posts from each tab
  PolledTabs,      \* tabs with a known session id, hence a transcript to poll
  ChoreKinds,      \* the user operations this instance issues
  MaxRows,         \* bound: rows ever inserted in prompt_queue
  MaxLane,         \* bound: requests admitted to a lane at a time
  MaxCrashes, MaxMishaps, MaxChores   \* bounds: crashes, failures, user operations

InputModes == {"send", "interrupt-send", "insert", "interrupt"}
AllChores == {"withdraw", "close", "switch", "resume", "archive", "unarchive", "delete", "typed"}

ASSUME QueueAssumption ==
  /\ IsFiniteSet(Tabs)
  /\ NoReq \notin Requests \cup Tabs
  /\ Home \in [Tabs -> Workspaces]
  /\ Target \in [Requests -> Tabs]
  /\ Mode \in [Requests -> InputModes]
  /\ Impatient \subseteq Requests
  /\ NativeAtStart \subseteq Tabs
  /\ Reports \in [Tabs -> {"hooks", "notify", "silent"}]
  /\ PolledTabs \subseteq Tabs
  /\ ChoreKinds \subseteq AllChores
  /\ {MaxRows, MaxLane, MaxCrashes, MaxMishaps, MaxChores} \subseteq Nat

VARIABLES
  \* the database
  wsStatus, tabStatus, native, authority, rowReq, rowState, lastRow, receipt,
  \* the daemon process
  up, lane, pc, claimed, sawWorking, polled,
  \* the engines in tmux and the clients
  engine, signals, transcript, client,
  \* history: what the panes accepted, and how much of each budget is used
  copies, direct, spent, crashes, mishaps, chores

rowVars == <<rowReq, rowState, lastRow>>
tabVars == <<wsStatus, tabStatus, native, authority>>
laneVars == <<lane, pc, claimed, sawWorking>>
engineVars == <<engine, signals, transcript>>
clientVars == <<client, receipt>>
paneVars == <<copies, direct>>
budgetVars == <<crashes, mishaps, chores>>
vars == <<rowVars, tabVars, laneVars, engineVars, clientVars, paneVars, budgetVars,
          up, polled, spent>>

-----------------------------------------------------------------------------
RowIds == 1..MaxRows
WsStatuses == {"active", "archiving", "archived", "deleted"}
OpenStatuses == {"idle", "working", "awaiting-input", "error"}
TabStatuses == OpenStatuses \cup {"closed"}
\* A row is in the table while it is queued or inflight; the last three say why it left.
RowStates == {"unused", "queued", "inflight", "delivered", "withdrawn", "dropped"}
Live == {"queued", "inflight"}
Signals == {"working", "awaiting-input", "exited"}
Labels == {"start", "claim", "recheck", "deliver", "mark", "settle",
           "enqueue", "pty", "interrupted", "composer", "saveQueued", "saveOk", "teardown", "clear"}
Answers == {"queued", "ok", "refused", "failed"}

Drain(t) == [kind |-> "drain", tab |-> t]
TabTasks == [kind : {"drain", "close", "switch", "resume"}, tab : Tabs]
HookTasks == [kind : {"hook"}, tab : Tabs, signal : Signals, native : BOOLEAN]
Tasks == TabTasks \cup HookTasks \cup [kind : {"input"}, req : Requests]
           \cup [kind : {"withdraw"}, row : RowIds]
           \cup [kind : {"archive", "unarchive", "delete"}]

Active(w) == wsStatus[w] = "active"
Usable(t) == Active(Home[t]) /\ tabStatus[t] # "closed"
\* Claude, the one engine with a queue of its own, always has hooks.
Hooked(t) == native[t] \/ Reports[t] = "hooks"
ReportsTurnEnd(t) == native[t] \/ Reports[t] # "silent"
RowTab(i) == Target[rowReq[i]]
RowsIn(t, states) == {i \in RowIds : rowState[i] \in states /\ RowTab(i) = t}

\* What drainWorkspace demands of a tab, before it claims a row and again after.
Ready_NoActive(t) == ~native[t] /\ tabStatus[t] = "awaiting-input"
Ready(t) == Active(Home[t]) /\ ~native[t] /\ tabStatus[t] = "awaiting-input"

-----------------------------------------------------------------------------
(* The lane of a workspace: its head is the running task, and a task that   *)
(* ends lets the next one start.                                            *)

At(w, kind, label) ==
  /\ up
  /\ lane[w] # <<>>
  /\ Head(lane[w]).kind = kind
  /\ pc[w] = label

Goto(w, label) ==
  /\ pc' = [pc EXCEPT ![w] = label]
  /\ UNCHANGED lane

Finish(w) ==
  /\ lane' = [lane EXCEPT ![w] = Tail(@)]
  /\ pc' = [pc EXCEPT ![w] = "start"]

Admit(w, task) ==
  /\ up
  /\ Len(lane[w]) < MaxLane
  /\ lane' = [lane EXCEPT ![w] = Append(@, task)]
  /\ UNCHANGED <<pc, claimed, sawWorking>>

\* tab.status.changed is broadcast only when the value changes; the drainer reacts to
\* awaiting-input.  `spent` says that a turn was started since that edge, and noted.
IsEdge(t, status) == status = "awaiting-input" /\ tabStatus[t] # status

WriteStatus(t, status) ==
  /\ tabStatus' = [tabStatus EXCEPT ![t] = status]
  /\ spent' = [spent EXCEPT ![t] = @ /\ ~IsEdge(t, status)]

-----------------------------------------------------------------------------
(* POST /workspaces/:id/input *)

Submit(r) ==
  /\ client[r] \in {"idle", "lost", "failed"}
  /\ Admit(Home[Target[r]], [kind |-> "input", req |-> r])
  /\ client' = [client EXCEPT ![r] = "waiting"]
  /\ UNCHANGED <<rowVars, tabVars, engineVars, receipt, paneVars, budgetVars, up, polled, spent>>

\* The client times out while its request may still be in the lane.
GiveUp(r) ==
  /\ r \in Impatient
  /\ client[r] = "waiting"
  /\ client' = [client EXCEPT ![r] = "lost"]
  /\ UNCHANGED <<rowVars, tabVars, laneVars, engineVars, receipt, paneVars, budgetVars,
                 up, polled, spent>>

\* The response reaches a client that still waits for it, or is lost on the way.
Answer(r, answer) ==
  \E heard \in {answer} \cup (IF r \in Impatient THEN {"lost"} ELSE {}) :
    client' = [client EXCEPT ![r] = IF @ = "waiting" THEN heard ELSE @]

\* The answer of a request whose key already has a receipt.
InputReplays(w) ==
  /\ At(w, "input", "start")
  /\ LET r == Head(lane[w]).req IN
       /\ receipt[r] # "none"
       /\ Answer(r, receipt[r])
  /\ Finish(w)
  /\ UNCHANGED <<rowVars, tabVars, claimed, sawWorking, engineVars, receipt, paneVars,
                 budgetVars, up, polled, spent>>

InputRefused(w) ==
  /\ At(w, "input", "start")
  /\ LET r == Head(lane[w]).req IN
       /\ receipt[r] = "none"
       /\ ~Usable(Target[r])
       /\ Answer(r, "refused")
  /\ Finish(w)
  /\ UNCHANGED <<rowVars, tabVars, claimed, sawWorking, engineVars, receipt, paneVars,
                 budgetVars, up, polled, spent>>

ShouldQueue_StatusOnly(r) ==
  /\ Mode[r] = "send"
  /\ ~native[Target[r]]
  /\ tabStatus[Target[r]] = "working"

ShouldQueue(r) ==
  /\ Mode[r] = "send"
  /\ ~native[Target[r]]
  /\ tabStatus[Target[r]] = "working" \/ RowsIn(Target[r], {"queued"}) # {}

\* One synchronous read of the receipt, the workspace, the tab and the queue; the tab
\* status it saw is used after the PTY write.
InputReads(w) ==
  /\ At(w, "input", "start")
  /\ LET r == Head(lane[w]).req IN
       /\ receipt[r] = "none"
       /\ Usable(Target[r])
       /\ Goto(w, IF ShouldQueue(r) THEN "enqueue" ELSE "pty")
       /\ sawWorking' = [sawWorking EXCEPT ![w] = tabStatus[Target[r]] = "working"]
  /\ UNCHANGED <<rowVars, tabVars, claimed, engineVars, clientVars, paneVars, budgetVars,
                 up, polled, spent>>

InputEnqueues_Forgets(w) ==
  /\ At(w, "input", "enqueue")
  /\ Goto(w, "saveQueued")
  /\ UNCHANGED <<rowVars, tabVars, claimed, sawWorking, engineVars, clientVars, paneVars, budgetVars,
                 up, polled, spent>>

InputEnqueues(w) ==
  /\ At(w, "input", "enqueue")
  /\ lastRow < MaxRows
  /\ lastRow' = lastRow + 1
  /\ rowReq' = [rowReq EXCEPT ![lastRow + 1] = Head(lane[w]).req]
  /\ rowState' = [rowState EXCEPT ![lastRow + 1] = "queued"]
  /\ Goto(w, "saveQueued")
  /\ UNCHANGED <<tabVars, claimed, sawWorking, engineVars, clientVars, paneVars, budgetVars,
                 up, polled, spent>>

\* A pane that accepts a prompt starts a turn, unless the engine left a bare shell there.
StartTurn(t) ==
  /\ engine' = [engine EXCEPT ![t] = IF @ = "gone" THEN @ ELSE "busy"]
  /\ signals' = [signals EXCEPT ![t] =
                   IF Hooked(t) /\ engine[t] # "gone" THEN @ \cup {"working"} ELSE @]
  /\ UNCHANGED transcript

\* Escape ends the running turn and no hook reports it.
StopTurn(t) ==
  /\ engine' = [engine EXCEPT ![t] = IF @ = "busy" THEN "ready" ELSE @]
  /\ UNCHANGED <<signals, transcript>>

StartsTurn(r) == Mode[r] \in {"send", "interrupt-send"}

AfterPty(w, r) ==
  IF native[Target[r]] THEN "saveOk"
  ELSE CASE Mode[r] = "interrupt" /\ sawWorking[w] -> "interrupted"
         [] StartsTurn(r) -> "composer"
         [] OTHER -> "saveOk"

InputWritesPty(w) ==
  /\ At(w, "input", "pty")
  /\ LET r == Head(lane[w]).req
         t == Target[r]
     IN  /\ direct' = [direct EXCEPT ![r] = @ + 1]
         /\ spent' = [spent EXCEPT ![t] = @ \/ (StartsTurn(r) /\ ~native[t])]
         /\ CASE StartsTurn(r) -> StartTurn(t)
              [] Mode[r] = "interrupt" -> StopTurn(t)
              [] OTHER -> UNCHANGED engineVars
         /\ Goto(w, AfterPty(w, r))
  /\ UNCHANGED <<rowVars, tabVars, claimed, sawWorking, clientVars, copies, budgetVars, up, polled>>

\* tmux fails before the paste, or after it and before the Enter: 500 and no receipt.
InputPtyFails(w) ==
  /\ At(w, "input", "pty")
  /\ mishaps < MaxMishaps
  /\ mishaps' = mishaps + 1
  /\ LET r == Head(lane[w]).req IN
       /\ \E pasted \in {0, 1} : direct' = [direct EXCEPT ![r] = @ + pasted]
       /\ Answer(r, "failed")
  /\ Finish(w)
  /\ UNCHANGED <<rowVars, tabVars, claimed, sawWorking, engineVars, receipt, copies, crashes,
                 chores, up, polled, spent>>

\* The optimistic awaiting-input of an interrupt carries a source the drainer ignores.
InputMarksInterrupted(w) ==
  /\ At(w, "input", "interrupted")
  /\ LET t == Target[Head(lane[w]).req] IN
       /\ WriteStatus(t, "awaiting-input")
       /\ authority' = [authority EXCEPT ![t] = TRUE]
  /\ Goto(w, "saveOk")
  /\ UNCHANGED <<rowVars, wsStatus, native, claimed, sawWorking, engineVars, clientVars, paneVars,
                 budgetVars, up, polled>>

InputMarksWorking(w) ==
  /\ At(w, "input", "composer")
  /\ WriteStatus(Target[Head(lane[w]).req], "working")
  /\ Goto(w, "saveOk")
  /\ UNCHANGED <<rowVars, wsStatus, native, authority, claimed, sawWorking, engineVars, clientVars,
                 paneVars, budgetVars, up, polled>>

\* The receipt is written after the effect, in a transaction of its own.
InputSaves(w) ==
  \E answer \in {"queued", "ok"} :
    /\ At(w, "input", IF answer = "queued" THEN "saveQueued" ELSE "saveOk")
    /\ receipt' = [receipt EXCEPT ![Head(lane[w]).req] = answer]
    /\ Answer(Head(lane[w]).req, answer)
    /\ Finish(w)
    /\ UNCHANGED <<rowVars, tabVars, claimed, sawWorking, engineVars, paneVars, budgetVars,
                   up, polled, spent>>

-----------------------------------------------------------------------------
(* drainWorkspace *)

DrainUnchanged == UNCHANGED <<rowReq, lastRow, wsStatus, native, authority, sawWorking, transcript,
                              clientVars, direct, crashes, chores, up, polled>>

DrainResolves(w) ==
  /\ At(w, "drain", "start")
  /\ IF Ready(Head(lane[w]).tab) THEN Goto(w, "claim") ELSE Finish(w)
  /\ UNCHANGED <<rowState, tabStatus, claimed, engine, signals, copies, mishaps, spent>>
  /\ DrainUnchanged

\* ORDER BY id ASC LIMIT 1
Oldest(t, i) == i \in RowsIn(t, {"queued"}) /\ \A j \in RowsIn(t, {"queued"}) : i <= j

DrainClaims_HoldsLane(w) ==
  /\ At(w, "drain", "claim")
  /\ \E i \in RowIds :
       /\ Oldest(Head(lane[w]).tab, i)
       /\ rowState' = [rowState EXCEPT ![i] = "inflight"]
       /\ claimed' = [claimed EXCEPT ![w] = i]
       /\ Goto(w, "recheck")
  /\ UNCHANGED <<tabStatus, engine, signals, copies, mishaps, spent>>
  /\ DrainUnchanged

DrainClaims(w) ==
  /\ At(w, "drain", "claim")
  /\ LET t == Head(lane[w]).tab IN
       \/ /\ RowsIn(t, {"queued"}) = {}
          /\ Finish(w)
          /\ UNCHANGED <<rowState, claimed>>
       \/ \E i \in RowIds :
            /\ Oldest(t, i)
            /\ rowState' = [rowState EXCEPT ![i] = "inflight"]
            /\ claimed' = [claimed EXCEPT ![w] = i]
            /\ Goto(w, "recheck")
  /\ UNCHANGED <<tabStatus, engine, signals, copies, mishaps, spent>>
  /\ DrainUnchanged

\* The running drain puts its row back and ends.
Release(w) ==
  /\ rowState' = [rowState EXCEPT ![claimed[w]] = "queued"]
  /\ claimed' = [claimed EXCEPT ![w] = 0]
  /\ Finish(w)

DrainRechecks(w) ==
  /\ At(w, "drain", "recheck")
  /\ IF Ready(RowTab(claimed[w]))
       THEN Goto(w, "deliver") /\ UNCHANGED <<rowState, claimed>>
       ELSE Release(w)
  /\ UNCHANGED <<tabStatus, engine, signals, copies, mishaps, spent>>
  /\ DrainUnchanged

\* The status is read before a delivery that takes seconds; the poller may change it.
DrainDelivers(w) ==
  /\ At(w, "drain", "deliver")
  /\ LET i == claimed[w] IN
       /\ copies' = [copies EXCEPT ![i] = @ + 1]
       /\ spent' = [spent EXCEPT ![RowTab(i)] = TRUE]
       /\ StartTurn(RowTab(i))
  /\ Goto(w, "mark")
  /\ UNCHANGED <<rowState, tabStatus, claimed, mishaps>>
  /\ DrainUnchanged

DrainFails(w) ==
  /\ At(w, "drain", "deliver")
  /\ mishaps < MaxMishaps
  /\ mishaps' = mishaps + 1
  /\ \E pasted \in {0, 1} : copies' = [copies EXCEPT ![claimed[w]] = @ + pasted]
  /\ Release(w)
  /\ UNCHANGED <<tabStatus, engine, signals, spent>>
  /\ DrainUnchanged

\* A status that cannot be written is put up with: the tab is ready for one more prompt.
DrainMarks(w) ==
  /\ At(w, "drain", "mark")
  /\ \/ WriteStatus(RowTab(claimed[w]), "working") /\ UNCHANGED mishaps
     \/ /\ mishaps < MaxMishaps /\ mishaps' = mishaps + 1
        /\ spent' = [spent EXCEPT ![RowTab(claimed[w])] = FALSE]
        /\ UNCHANGED tabStatus
  /\ Goto(w, "settle")
  /\ UNCHANGED <<rowState, claimed, engine, signals, copies>>
  /\ DrainUnchanged

DrainSettles_Releases(w) ==
  /\ At(w, "drain", "settle")
  /\ Release(w)
  /\ UNCHANGED <<tabStatus, engine, signals, copies, mishaps, spent>>
  /\ DrainUnchanged

DrainSettles(w) ==
  /\ At(w, "drain", "settle")
  /\ rowState' = [rowState EXCEPT ![claimed[w]] = "delivered"]
  /\ claimed' = [claimed EXCEPT ![w] = 0]
  /\ Finish(w)
  /\ UNCHANGED <<tabStatus, engine, signals, copies, mishaps, spent>>
  /\ DrainUnchanged

-----------------------------------------------------------------------------
(* POST /hooks/:engine, /notify/:engine and /hooks/engine-exit *)

\* A report carries the id of the engine that posts it: the one in the tab.
HookPost(t, s) ==
  /\ s \in signals[t]
  /\ Admit(Home[t], [kind |-> "hook", tab |-> t, signal |-> s, native |-> native[t]])
  /\ signals' = [signals EXCEPT ![t] = @ \ {s}]
  /\ UNCHANGED <<rowVars, tabVars, engine, transcript, clientVars, paneVars, budgetVars,
                 up, polled, spent>>

\* The daemon is down, or the report never arrives.
SignalLost(t, s) ==
  /\ s \in signals[t]
  /\ ~up \/ mishaps < MaxMishaps
  /\ signals' = [signals EXCEPT ![t] = @ \ {s}]
  /\ mishaps' = IF up THEN mishaps + 1 ELSE mishaps
  /\ UNCHANGED <<rowVars, tabVars, laneVars, engine, transcript, clientVars, paneVars,
                 crashes, chores, up, polled, spent>>

\* resolveEngineTabContext drops the report of an engine the tab no longer runs; an
\* exit report names no engine.
Concerns(task) ==
  /\ Usable(task.tab)
  /\ task.signal # "exited" => task.native = native[task.tab]

\* The statuses a report may leave: the exit code decides between the last two.
Reported(signal) == IF signal = "exited" THEN {"idle", "error"} ELSE {signal}

HookRuns(w) ==
  /\ At(w, "hook", "start")
  /\ LET task == Head(lane[w])
         t == task.tab
     IN  \/ /\ ~Concerns(task)
            /\ Finish(w)
            /\ UNCHANGED <<tabStatus, spent, authority>>
         \/ /\ Concerns(task)
            /\ authority' = [authority EXCEPT ![t] = @ \/ task.signal # "exited"]
            /\ \E status \in Reported(task.signal) :
                 /\ WriteStatus(t, status)
                 /\ lane' = [lane EXCEPT ![w] =
                               Tail(@) \o IF IsEdge(t, status) THEN <<Drain(t)>> ELSE <<>>]
            /\ UNCHANGED pc
  /\ UNCHANGED <<rowVars, wsStatus, native, claimed, sawWorking, engineVars, clientVars,
                 paneVars, budgetVars, up, polled>>

-----------------------------------------------------------------------------
(* The transcript poller, which the lanes do not serialise *)

Polls(t) == t \in PolledTabs /\ Usable(t) /\ ~authority[t]

PollList ==
  /\ up
  /\ \A t \in Tabs : polled[t] = "skip"
  /\ polled' = [t \in Tabs |-> IF Polls(t) THEN tabStatus[t] ELSE "skip"]
  /\ UNCHANGED <<rowVars, tabVars, laneVars, engineVars, clientVars, paneVars, budgetVars, up, spent>>

\* decideStatusFromMtime on the listed status; between the thresholds it says nothing.
MtimeStatus(current, age) ==
  CASE age = "fresh" /\ current # "working" -> {"working"}
    [] age = "old" /\ current = "working" -> {"awaiting-input"}
    [] OTHER -> {}

PollDecides(t) ==
  /\ up
  /\ polled[t] # "skip"
  /\ polled' = [polled EXCEPT ![t] = "skip"]
  /\ LET w == Home[t]
         decided == MtimeStatus(polled[t], transcript[t])
     IN  \/ /\ decided = {} \/ tabStatus[t] = "closed"
            /\ UNCHANGED <<tabStatus, spent, lane>>
         \/ \E status \in decided :
              /\ tabStatus[t] # "closed"
              /\ IsEdge(t, status) => Len(lane[w]) <= MaxLane
              /\ WriteStatus(t, status)
              /\ lane' = IF IsEdge(t, status) THEN [lane EXCEPT ![w] = Append(@, Drain(t))] ELSE lane
  /\ UNCHANGED <<rowVars, wsStatus, native, authority, pc, claimed, sawWorking, engineVars,
                 clientVars, paneVars, budgetVars, up>>

\* The authority window of the last report ends: the poller may speak again.
AuthorityExpires(t) ==
  /\ authority[t]
  /\ authority' = [authority EXCEPT ![t] = FALSE]
  /\ UNCHANGED <<rowVars, wsStatus, tabStatus, native, laneVars, engineVars, clientVars, paneVars,
                 budgetVars, up, polled, spent>>

-----------------------------------------------------------------------------
(* The engines in tmux, and the user who types into a pane *)

EngineUnchanged == UNCHANGED <<rowVars, tabVars, laneVars, clientVars, paneVars, crashes, up, polled, spent>>

EngineWrites(t) ==
  /\ engine[t] = "busy"
  /\ transcript[t] # "fresh"
  /\ transcript' = [transcript EXCEPT ![t] = "fresh"]
  /\ UNCHANGED <<engine, signals, mishaps, chores>>
  /\ EngineUnchanged

TranscriptAges(t) ==
  /\ transcript[t] = "fresh"
  /\ transcript' = [transcript EXCEPT ![t] = "old"]
  /\ UNCHANGED <<engine, signals, mishaps, chores>>
  /\ EngineUnchanged

TurnEnds(t) ==
  /\ engine[t] = "busy"
  /\ engine' = [engine EXCEPT ![t] = "ready"]
  /\ transcript' = [transcript EXCEPT ![t] = "fresh"]
  /\ signals' = [signals EXCEPT ![t] = IF ReportsTurnEnd(t) THEN @ \cup {"awaiting-input"} ELSE @]
  /\ UNCHANGED <<mishaps, chores>>
  /\ EngineUnchanged

\* The user submits a prompt in the attached terminal.
TypedTurn(t) ==
  /\ "typed" \in ChoreKinds
  /\ chores < MaxChores
  /\ chores' = chores + 1
  /\ engine[t] = "ready"
  /\ StartTurn(t)
  /\ UNCHANGED mishaps
  /\ EngineUnchanged

EngineExits(t) ==
  /\ mishaps < MaxMishaps
  /\ mishaps' = mishaps + 1
  /\ engine[t] # "gone"
  /\ engine' = [engine EXCEPT ![t] = "gone"]
  /\ signals' = [signals EXCEPT ![t] = @ \cup {"exited"}]
  /\ UNCHANGED <<transcript, chores>>
  /\ EngineUnchanged

-----------------------------------------------------------------------------
(* The operations of a user, each a task of the lane *)

OpenTabs(w) == {t \in Tabs : Home[t] = w /\ tabStatus[t] # "closed"}

\* tabs.setStatus(id, "idle", "heal") and the tmux windows behind it: idle is never an edge.
Restart(ts) ==
  /\ tabStatus' = [t \in Tabs |-> IF t \in ts THEN "idle" ELSE tabStatus[t]]
  /\ engine' = [t \in Tabs |-> IF t \in ts THEN "ready" ELSE engine[t]]
  /\ signals' = [t \in Tabs |-> IF t \in ts /\ Hooked(t) THEN signals[t] \cup {"awaiting-input"}
                                                         ELSE signals[t]]

\* killSession, which no wrapper lives to report.
KillEngines(w) ==
  engine' = [t \in Tabs |-> IF Home[t] = w THEN "gone" ELSE engine[t]]

DropRows(ts) ==
  rowState' = [i \in RowIds |-> IF rowState[i] \in Live /\ RowTab(i) \in ts THEN "dropped" ELSE rowState[i]]

RemoveTab(t) ==
  /\ tabStatus' = [tabStatus EXCEPT ![t] = "closed"]
  /\ DropRows({t})

RequestChore(w) ==
  /\ chores < MaxChores
  /\ chores' = chores + 1
  /\ \E task \in Tasks :
       /\ task.kind \in ChoreKinds
       /\ task.kind = "withdraw" => task.row <= lastRow /\ Home[RowTab(task.row)] = w
       /\ task.kind \in {"close", "switch", "resume"} => Home[task.tab] = w
       /\ Admit(w, task)
  /\ UNCHANGED <<rowVars, tabVars, engineVars, clientVars, paneVars, crashes, mishaps, up, polled, spent>>

ChoreUnchanged == UNCHANGED <<rowReq, lastRow, authority, claimed, sawWorking, clientVars, paneVars,
                              budgetVars, up, polled, spent>>

\* The route refuses: the state is not the one it asks for, or a check of git or tmux fails.
ChoreRefused(w) ==
  /\ up
  /\ lane[w] # <<>>
  /\ Head(lane[w]).kind \in AllChores
  /\ pc[w] = "start"
  /\ Head(lane[w]).kind = "withdraw" =>
       ~Active(w) \/ rowState[Head(lane[w]).row] # "queued"
  /\ Finish(w)
  /\ UNCHANGED <<rowState, wsStatus, tabStatus, native, engineVars>>
  /\ ChoreUnchanged

Withdraw_Unserialised(w) ==
  \E k \in DOMAIN lane[w] :
    /\ lane[w][k].kind = "withdraw"
    /\ Active(w)
    /\ rowState[lane[w][k].row] \in Live
    /\ rowState' = [rowState EXCEPT ![lane[w][k].row] = "withdrawn"]
    /\ UNCHANGED <<lane, pc, wsStatus, tabStatus, native, engineVars>>
    /\ ChoreUnchanged

\* Only a queued row can be withdrawn.
Withdraw(w) ==
  /\ At(w, "withdraw", "start")
  /\ Active(w)
  /\ LET i == Head(lane[w]).row IN
       /\ rowState[i] = "queued"
       /\ rowState' = [rowState EXCEPT ![i] = "withdrawn"]
  /\ Finish(w)
  /\ UNCHANGED <<wsStatus, tabStatus, native, engineVars>>
  /\ ChoreUnchanged

\* The last engine tab stays.  The rows of the tab go with it, in one transaction.
CloseTab(w) ==
  /\ At(w, "close", "start")
  /\ Active(w)
  /\ LET t == Head(lane[w]).tab IN
       /\ {t} \subseteq OpenTabs(w) /\ OpenTabs(w) # {t}
       /\ RemoveTab(t)
       /\ engine' = [engine EXCEPT ![t] = "gone"]
       /\ signals' = [signals EXCEPT ![t] = {}]
  /\ Finish(w)
  /\ UNCHANGED <<wsStatus, native, transcript>>
  /\ ChoreUnchanged

\* The rows queued for the old engine stay; the new one starts a new session.
SwitchEngine(w) ==
  /\ At(w, "switch", "start")
  /\ LET t == Head(lane[w]).tab IN
       /\ Usable(t)
       /\ native' = [native EXCEPT ![t] = ~@]
       /\ tabStatus' = [tabStatus EXCEPT ![t] = "idle"]
       /\ engine' = [engine EXCEPT ![t] = "ready"]
       /\ signals' = [signals EXCEPT ![t] = IF native'[t] \/ Reports[t] = "hooks"
                                              THEN {"awaiting-input"} ELSE {}]
       /\ transcript' = [transcript EXCEPT ![t] = "none"]
  /\ Finish(w)
  /\ UNCHANGED <<rowState, wsStatus>>
  /\ ChoreUnchanged

Resume(w) ==
  /\ At(w, "resume", "start")
  /\ LET t == Head(lane[w]).tab IN
       /\ Usable(t)
       /\ Restart({t})
  /\ Finish(w)
  /\ UNCHANGED <<rowState, wsStatus, native, transcript>>
  /\ ChoreUnchanged

\* beginArchive is durable before the runtime is torn down.
ArchiveBegins(w) ==
  /\ At(w, "archive", "start")
  /\ wsStatus[w] \in {"active", "archiving"}
  /\ wsStatus' = [wsStatus EXCEPT ![w] = "archiving"]
  /\ Goto(w, "teardown")
  /\ UNCHANGED <<rowState, tabStatus, native, engineVars>>
  /\ ChoreUnchanged

\* How an archive ends: done; the session could not be killed and the workspace is active
\* again; a dirty worktree made it rebuild the session; or it stays archiving.
ArchiveOutcome(w, outcome) ==
  CASE outcome = "archived" ->
         /\ wsStatus' = [wsStatus EXCEPT ![w] = "archived"]
         /\ KillEngines(w)
         /\ UNCHANGED <<tabStatus, signals>>
    [] outcome = "kept" ->
         /\ wsStatus' = [wsStatus EXCEPT ![w] = "active"]
         /\ UNCHANGED <<tabStatus, engine, signals>>
    [] outcome = "rebuilt" ->
         /\ wsStatus' = [wsStatus EXCEPT ![w] = "active"]
         /\ Restart(OpenTabs(w))
    [] outcome = "stuck" ->
         /\ KillEngines(w) \/ UNCHANGED engine
         /\ UNCHANGED <<wsStatus, tabStatus, signals>>

ArchiveOutcomes == {"archived", "kept", "rebuilt", "stuck"}

ArchiveEnds(w) ==
  /\ At(w, "archive", "teardown")
  /\ \E outcome \in ArchiveOutcomes : ArchiveOutcome(w, outcome)
  /\ Finish(w)
  /\ UNCHANGED <<rowState, native, transcript>>
  /\ ChoreUnchanged

\* The heal of an unarchived workspace is best effort.
Unarchive(w) ==
  /\ At(w, "unarchive", "start")
  /\ wsStatus[w] = "archived"
  /\ wsStatus' = [wsStatus EXCEPT ![w] = "active"]
  /\ \/ Restart(OpenTabs(w))
     \/ UNCHANGED <<tabStatus, engine, signals>>
  /\ Finish(w)
  /\ UNCHANGED <<rowState, native, transcript>>
  /\ ChoreUnchanged

TabsOf(w) == {t \in Tabs : Home[t] = w}

\* Tabs, rows and worktree go one after the other, each for good: a crash in between, or git
\* refusing the worktree, leaves the workspace to be deleted again.
DeleteBegins(w) ==
  /\ At(w, "delete", "start")
  /\ wsStatus[w] \in {"active", "archived"}
  /\ tabStatus' = [t \in Tabs |-> IF t \in TabsOf(w) THEN "closed" ELSE tabStatus[t]]
  /\ KillEngines(w)
  /\ signals' = [t \in Tabs |-> IF t \in TabsOf(w) THEN {} ELSE signals[t]]
  /\ Goto(w, "clear")
  /\ UNCHANGED <<rowState, wsStatus, native, transcript>>
  /\ ChoreUnchanged

DeleteEnds(w) ==
  /\ At(w, "delete", "clear")
  /\ DropRows(TabsOf(w))
  /\ \/ wsStatus' = [wsStatus EXCEPT ![w] = "deleted"]
     \/ UNCHANGED wsStatus
  /\ Finish(w)
  /\ UNCHANGED <<tabStatus, native, engineVars>>
  /\ ChoreUnchanged

-----------------------------------------------------------------------------
(* A crash of the daemon, and its next start *)

Crash ==
  /\ up
  /\ crashes < MaxCrashes
  /\ crashes' = crashes + 1
  /\ up' = FALSE
  /\ lane' = [w \in Workspaces |-> <<>>]
  /\ pc' = [w \in Workspaces |-> "start"]
  /\ claimed' = [w \in Workspaces |-> 0]
  /\ sawWorking' = [w \in Workspaces |-> FALSE]
  /\ polled' = [t \in Tabs |-> "skip"]
  /\ client' = [r \in Requests |-> IF client[r] = "waiting" THEN "lost" ELSE client[r]]
  /\ UNCHANGED <<rowVars, tabVars, engineVars, receipt, paneVars, mishaps, chores, spent>>

\* reconcileArchives retries an interrupted archive before the daemon listens.
Reconciles(w) ==
  /\ ~up
  /\ wsStatus[w] = "archiving"
  /\ \E outcome \in ArchiveOutcomes : ArchiveOutcome(w, outcome)
  /\ UNCHANGED <<rowVars, native, authority, laneVars, transcript, clientVars, paneVars, budgetVars,
                 up, polled, spent>>

Waiting_None(w) == {}

\* The tabs with rows in the table, each once, in some order: listTargets.
Waiting(w) == {t \in Tabs : Home[t] = w /\ RowsIn(t, Live) # {}}
Orders(ts) == {o \in [1..Cardinality(ts) -> ts] : \A t \in ts : \E k \in DOMAIN o : o[k] = t}

Recovered_StaysInflight == UNCHANGED rowState

\* recoverInflight
Recovered == rowState' = [i \in RowIds |-> IF rowState[i] = "inflight" THEN "queued" ELSE rowState[i]]

\* resumeQueuedWorkspaces, in the tick in which the drainer subscribes.
Boot ==
  /\ ~up
  /\ up' = TRUE
  /\ Recovered
  /\ \E plan \in [Workspaces -> UNION {Orders(ts) : ts \in SUBSET Tabs}] :
       /\ \A w \in Workspaces : plan[w] \in Orders(Waiting(w))
       /\ lane' = [w \in Workspaces |-> [k \in DOMAIN plan[w] |-> Drain(plan[w][k])]]
  /\ spent' = [t \in Tabs |-> FALSE]
  /\ UNCHANGED <<rowReq, lastRow, tabVars, pc, claimed, sawWorking, engineVars, clientVars, paneVars,
                 budgetVars, polled>>

-----------------------------------------------------------------------------
Init ==
  /\ wsStatus = [w \in Workspaces |-> "active"]
  /\ tabStatus = [t \in Tabs |-> "idle"]
  /\ native = [t \in Tabs |-> t \in NativeAtStart]
  /\ authority = [t \in Tabs |-> FALSE]
  /\ rowReq = [i \in RowIds |-> NoReq]
  /\ rowState = [i \in RowIds |-> "unused"]
  /\ lastRow = 0
  /\ receipt = [r \in Requests |-> "none"]
  /\ up = TRUE
  /\ lane = [w \in Workspaces |-> <<>>]
  /\ pc = [w \in Workspaces |-> "start"]
  /\ claimed = [w \in Workspaces |-> 0]
  /\ sawWorking = [w \in Workspaces |-> FALSE]
  /\ polled = [t \in Tabs |-> "skip"]
  /\ engine = [t \in Tabs |-> "ready"]
  /\ signals = [t \in Tabs |-> IF Hooked(t) THEN {"awaiting-input"} ELSE {}]
  /\ transcript = [t \in Tabs |-> "none"]
  /\ client = [r \in Requests |-> "idle"]
  /\ copies = [i \in RowIds |-> 0]
  /\ direct = [r \in Requests |-> 0]
  /\ spent = [t \in Tabs |-> FALSE]
  /\ crashes = 0
  /\ mishaps = 0
  /\ chores = 0

InputSteps(w) ==
  \/ InputReplays(w) \/ InputRefused(w) \/ InputReads(w)
  \/ InputEnqueues(w) \/ InputWritesPty(w) \/ InputMarksInterrupted(w)
  \/ InputMarksWorking(w) \/ InputSaves(w)

DrainSteps(w) ==
  \/ DrainResolves(w) \/ DrainClaims(w) \/ DrainRechecks(w)
  \/ DrainDelivers(w) \/ DrainMarks(w) \/ DrainSettles(w)

ChoreSteps(w) ==
  \/ ChoreRefused(w) \/ Withdraw(w) \/ CloseTab(w) \/ SwitchEngine(w) \/ Resume(w)
  \/ ArchiveBegins(w) \/ ArchiveEnds(w) \/ Unarchive(w) \/ DeleteBegins(w) \/ DeleteEnds(w)

LaneSteps(w) == InputSteps(w) \/ DrainSteps(w) \/ HookRuns(w) \/ ChoreSteps(w)

PollerSteps == PollList \/ \E t \in Tabs : PollDecides(t)

EngineSteps(t) ==
  \/ EngineWrites(t) \/ TranscriptAges(t) \/ TurnEnds(t) \/ TypedTurn(t) \/ EngineExits(t)
  \/ AuthorityExpires(t)
  \/ \E s \in Signals : HookPost(t, s) \/ SignalLost(t, s)

Next ==
  \/ \E r \in Requests : Submit(r) \/ GiveUp(r)
  \/ \E w \in Workspaces :
       LaneSteps(w) \/ InputPtyFails(w) \/ DrainFails(w) \/ RequestChore(w) \/ Reconciles(w)
  \/ \E t \in Tabs : EngineSteps(t)
  \/ PollerSteps
  \/ Crash
  \/ Boot

Spec == Init /\ [][Next]_vars

\* Handlers run to their end, the poller keeps its interval, turns end, and a daemon that
\* is down is started again.  Nothing says that a user, a client or a fault ever acts.
Fairness ==
  /\ \A w \in Workspaces : WF_vars(LaneSteps(w))
  /\ WF_vars(PollList)
  /\ \A t \in Tabs :
       /\ WF_vars(PollDecides(t))
       /\ WF_vars(AuthorityExpires(t))
       /\ WF_vars(TranscriptAges(t))
       /\ WF_vars(TurnEnds(t))
       /\ \A s \in Signals : WF_vars(HookPost(t, s))
  /\ WF_vars(Boot)

LiveSpec == Spec /\ Fairness

-----------------------------------------------------------------------------
(* Properties *)

TabsOK ==
  /\ wsStatus \in [Workspaces -> WsStatuses]
  /\ tabStatus \in [Tabs -> TabStatuses]
  /\ native \in [Tabs -> BOOLEAN]
  /\ authority \in [Tabs -> BOOLEAN]
  /\ spent \in [Tabs -> BOOLEAN]

RowsOK ==
  /\ rowReq \in [RowIds -> Requests \cup {NoReq}]
  /\ rowState \in [RowIds -> RowStates]
  /\ lastRow \in 0..MaxRows
  /\ \A i \in RowIds : IF i <= lastRow THEN rowReq[i] \in Requests /\ rowState[i] # "unused"
                                       ELSE rowReq[i] = NoReq /\ rowState[i] = "unused"
  /\ copies \in [RowIds -> Nat]

LanesOK ==
  /\ up \in BOOLEAN
  /\ lane \in [Workspaces -> Seq(Tasks)]
  /\ pc \in [Workspaces -> Labels]
  /\ claimed \in [Workspaces -> 0..MaxRows]
  /\ sawWorking \in [Workspaces -> BOOLEAN]
  /\ polled \in [Tabs -> OpenStatuses \cup {"skip"}]

EnginesOK ==
  /\ engine \in [Tabs -> {"ready", "busy", "gone"}]
  /\ signals \in [Tabs -> SUBSET Signals]
  /\ transcript \in [Tabs -> {"none", "fresh", "old"}]

ClientsOK ==
  /\ client \in [Requests -> {"idle", "waiting", "lost"} \cup Answers]
  /\ receipt \in [Requests -> {"none", "queued", "ok"}]
  /\ direct \in [Requests -> Nat]
  /\ crashes \in Nat /\ mishaps \in Nat /\ chores \in Nat

\* Every variable keeps to the values the code gives it, and rows are numbered without gaps.
TypeOK == TabsOK /\ RowsOK /\ LanesOK /\ EnginesOK /\ ClientsOK

\* While the daemon runs, the rows marked inflight are exactly the rows of the drains under
\* way: every way out of drainWorkspace settles its row or puts it back, so none is stranded.
InflightIsClaimed ==
  up => {i \in RowIds : rowState[i] = "inflight"} = {claimed[w] : w \in Workspaces} \ {0}

\* The prompts queued for a tab reach its pane in the order of their rows: none is pasted
\* while an older one still waits, whatever was withdrawn, released or recovered on the way.
FifoPerTab ==
  \A i, j \in RowIds :
    (j < i /\ copies[i] > 0 /\ rowState[j] \in Live /\ rowState[i] # "unused")
      => RowTab(j) # RowTab(i)

\* At-least-once, and no worse: a pane sees a queued prompt again only after a crash or a
\* failed delivery; and a client that repeats a request under its idempotency key gets one row
\* or one paste, plus one for each crash or failure between the effect and the receipt.
DuplicatesExplained ==
  /\ \A i \in RowIds : copies[i] <= 1 + crashes + mishaps
  /\ \A r \in Requests :
       Cardinality({i \in RowIds : rowReq[i] = r}) + direct[r] <= 1 + crashes + mishaps

\* Whoever was told `queued` has a row in the database, crash or not, and a row leaves the
\* table as delivered only after a pane accepted its text.
AcceptedIsDurable ==
  /\ \A r \in Requests :
       "queued" \in {client[r], receipt[r]} => \E i \in RowIds : rowReq[i] = r
  /\ \A i \in RowIds : rowState[i] = "delivered" => copies[i] > 0

\* No prompt waits for a tab that is gone: closing a tab takes its rows with it, and no
\* request that was admitted before can add one after.  The one exception is a workspace whose
\* delete was cut short; it has no tab left to type into, and is deleted again.
NoOrphans ==
  \A i \in RowIds :
    (rowState[i] \in Live /\ tabStatus[RowTab(i)] = "closed") =>
      LET w == Home[RowTab(i)] IN wsStatus[w] # "deleted" /\ OpenTabs(w) = {}

\* Nothing is typed into the pane of a workspace that is not active, or of a closed tab:
\* the lane keeps archive and delete out of every delivery.
FrozenIsSilent ==
  [][/\ \A i \in RowIds : copies'[i] # copies[i] => Usable(RowTab(i))
     /\ \A r \in Requests : direct'[r] # direct[r] => Usable(Target[r])]_vars

\* A workspace or a tab that is taken away is left alone, and takes its queue with it.
FrozenHolds == []NoOrphans /\ FrozenIsSilent

\* A turn-complete edge starts at most one queued turn: a queued prompt is pasted only if
\* the daemon has started no other turn in that tab since its last awaiting-input edge.
OneTurnPerEdge ==
  [][\A i \in RowIds :
       (copies'[i] # copies[i] /\ mishaps' = mishaps) => ~spent[RowTab(i)]]_vars

\* A plain `send` never passes a prompt that waits in the same tab.
NoOvertaking ==
  [][\A r \in Requests :
       (direct'[r] # direct[r] /\ Mode[r] = "send" /\ ~native[Target[r]])
         => RowsIn(Target[r], Live) = {}]_vars

\* The order and the pace of what a pane is given, by sends and drains together: oldest prompt
\* first, none past one that waits, and one queued turn for each edge.
InOrder == []FifoPerTab /\ NoOvertaking /\ OneTurnPerEdge

\* The drainer starts a queued turn only when the engine is at rest, so turns never overlap.
DeliversBetweenTurns ==
  [][\A i \in RowIds : copies'[i] # copies[i] => engine[RowTab(i)] # "busy"]_vars

\* Every prompt that is queued is delivered in the end, across a crash.
QueueDrains ==
  \A i \in RowIds : rowState[i] \in Live ~> rowState[i] \notin Live

\* Every client that waits is answered, or stops waiting, in the end.
ClientsAnswered ==
  \A r \in Requests : client[r] = "waiting" ~> client[r] # "waiting"

\* After an interrupt the queue resumes once the user sends again: a prompt sent to a tab
\* that awaits input, with prompts queued before it, gets the queue to run empty.
QueueResumes ==
  \A r \in Requests :
    (/\ Mode[r] = "send"
     /\ client[r] = "waiting"
     /\ tabStatus[Target[r]] = "awaiting-input"
     /\ RowsIn(Target[r], {"queued"}) # {}) ~> RowsIn(Target[r], Live) = {}

-----------------------------------------------------------------------------
(* The queue as an outbox: the two live states are one, and so are the reasons for a row to *)
(* leave undelivered; the pane's copies are the deliveries.                                 *)

Letter(i) ==
  CASE rowState[i] \in Live -> "pending"
    [] rowState[i] = "delivered" -> "settled"
    [] rowState[i] \in {"withdrawn", "dropped"} -> "discarded"
    [] OTHER -> "unposted"

Box == INSTANCE Outbox WITH
  Letters <- RowIds, Destinations <- Tabs, Nowhere <- NoReq,
  letter <- [i \in RowIds |-> Letter(i)],
  dest <- [i \in RowIds |-> IF rowReq[i] = NoReq THEN NoReq ELSE RowTab(i)],
  handed <- copies

\* The queue is an outbox: first in, first out in each tab, at least once, nothing lost or
\* revived, with crashes, failures, closed tabs and switched engines under the surface.
ImplementsOutbox == Box!Spec
=============================================================================
