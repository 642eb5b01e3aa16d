------------------------------- MODULE Fanout -------------------------------
(***************************************************************************)
(* How tasks are made by clients: `coolie create --agents` of the command  *)
(* line (cli/main.ts, cli/client.ts, cli/fanout.ts) and the dispatch panel *)
(* of the desktop (composer/Dispatch.tsx, composer/dispatchProgress.ts).   *)
(* Each makes a row (POST /workspaces) and then asks for its worktree, its *)
(* setup and its engine (POST /workspaces/:id/ensure).  The command line   *)
(* goes through the socket and, when that fails, once more through TCP,    *)
(* whether or not the first request arrived.  What the daemon does in a    *)
(* task is in Lifecycle and Provision; here it passes its stages, fails,   *)
(* or the daemon ends.                                                     *)
(***************************************************************************)
EXTENDS Naturals, SequencesExt

CONSTANTS
  Agents,       \* instances of the fan-out
  Active,       \* the stages of DISPATCH_STAGES: 1 is intent, 2 environment, the last active
  MaxSubmits, MaxRetries, MaxTrouble   \* bounds: tasks of the panel, presses of Retry, and
                \* connections cut, ends of the daemon, failures of a task

ASSUME FanoutAssumption == {Agents, Active, MaxSubmits, MaxRetries, MaxTrouble} \subseteq Nat /\ Active > 2

VARIABLES
  made,        \* the rows, in the order in which they were made
  requests,    \* the requests: who waits for the answer, and where they are
  unheard,     \* the events that the panel has not heard
  waits, report,       \* the command line: what it waits for, and what it says of each instance
  submitting, progress,   \* the panel: postingIntent, dispatchProgressByWs
  submits, retries, trouble,
  twice         \* history: instances whose row was asked for a second time

fanoutVars == <<made, requests, unheard, waits, report, submitting, progress, submits, retries, trouble, twice>>
client == <<waits, report, submitting, progress, submits, retries>>

-----------------------------------------------------------------------------
Error == 0          \* workspace.error, which is no stage
Panel == 0          \* the panel is the maker of its tasks, as an instance is of its own
TaskIds == DOMAIN made
Call(kind, who, task, via) ==
  [kind |-> kind, who |-> who, task |-> task, via |-> via, state |-> "sent", heard |-> TRUE]
Running(t) == \E c \in requests : c.task = t /\ c.state = "running"
News(t, what) == Append(unheard, [task |-> t, what |-> what])
Replace(c, d) == requests' = (requests \ {c}) \cup {d}

\* The answer is there; it is dropped if nobody waits for it.
Resolved(c, state, t) == IF c.heard THEN {[c EXCEPT !.state = state, !.task = t]} ELSE {}

-----------------------------------------------------------------------------
(* The daemon.                                                              *)

\* POST /workspaces: createIntent.
Intents(c) ==
  /\ c.kind = "create" /\ c.state = "sent"
  /\ made' = Append(made, [by |-> c.who, status |-> "creating", stage |-> 1, failed |-> FALSE, ran |-> FALSE])
  /\ unheard' = News(Len(made'), 1)
  /\ requests' = (requests \ {c}) \cup Resolved(c, "ok", Len(made'))
  /\ UNCHANGED <<client, trouble, twice>>

\* ensure, one at a time for a task: what is active is healed, which may fail; what is in error or
\* creating starts again, and is refused when its worktree was made by an attempt that was cut.
EnsuresTask(c) ==
  /\ c.kind = "ensure" /\ c.state = "sent" /\ ~Running(c.task)
  /\ LET active == made[c.task].status = "active"
         answered(state) == requests' = (requests \ {c}) \cup Resolved(c, state, c.task) /\ UNCHANGED made IN
     \/ active /\ answered("ok")
     \/ (active \/ made[c.task].stage > 1) /\ answered("failed")
     \/ /\ ~active
        /\ Replace(c, [c EXCEPT !.state = "running"])
        /\ made' = [made EXCEPT ![c.task].status = "creating", ![c.task].stage = 1]
  /\ UNCHANGED <<unheard, client, trouble, twice>>

\* retry tells that it began, ensure does not.
Retries(c) ==
  /\ c.kind = "retry" /\ c.state = "sent" /\ ~Running(c.task)
  /\ IF made[c.task].status = "error"
     THEN /\ Replace(c, [c EXCEPT !.state = "running"])
          /\ made' = [made EXCEPT ![c.task].status = "creating", ![c.task].stage = 1]
          /\ unheard' = News(c.task, 1)
     ELSE requests' = (requests \ {c}) \cup Resolved(c, "failed", c.task) /\ UNCHANGED <<made, unheard>>
  /\ UNCHANGED <<client, trouble, twice>>

\* A stage of provision begins: environment.copied, setup.started, setup.finished, engine.started,
\* workspace.created.
Advances(c) ==
  /\ c.state = "running"
  /\ LET stage == made[c.task].stage + 1 IN
     /\ unheard' = News(c.task, stage)
     /\ IF stage < Active
        THEN made' = [made EXCEPT ![c.task].stage = stage] /\ UNCHANGED requests
        ELSE /\ made' = [made EXCEPT ![c.task] = [@ EXCEPT !.stage = Active, !.status = "active", !.ran = TRUE]]
             /\ requests' = (requests \ {c}) \cup Resolved(c, "ok", c.task)
  /\ UNCHANGED <<client, trouble, twice>>

\* rollbackToError.
Fails(c) ==
  /\ c.state = "running"
  /\ trouble < MaxTrouble /\ trouble' = trouble + 1
  /\ made' = [made EXCEPT ![c.task] = [@ EXCEPT !.status = "error", !.failed = TRUE]]
  /\ unheard' = News(c.task, Error)
  /\ requests' = (requests \ {c}) \cup Resolved(c, "failed", c.task)
  /\ UNCHANGED <<client, twice>>

\* The rows stay what they are.
DaemonStops ==
  /\ requests # {}
  /\ trouble < MaxTrouble /\ trouble' = trouble + 1
  /\ requests' = {c \in requests : c.state \notin {"sent", "running"}}
       \cup (UNION {Resolved(c, "failed", c.task) : c \in {d \in requests : d.state \in {"sent", "running"}}})
  /\ UNCHANGED <<made, unheard, client, twice>>

\* A connection is cut, before or after the request arrived; the command line sends what went
\* through the socket a second time.
Cuts(c) ==
  /\ c.state \in {"sent", "running"} /\ c.heard
  /\ trouble < MaxTrouble /\ trouble' = trouble + 1
  /\ LET deaf == [c EXCEPT !.heard = FALSE]
         again == [c EXCEPT !.state = "sent", !.via = "tcp"]
         end == [c EXCEPT !.state = "failed"] IN
     \E arrived \in BOOLEAN :
       /\ c.state = "running" => arrived
       /\ requests' = (requests \ {c}) \cup (IF arrived THEN {deaf} ELSE {})
                     \cup {IF c.via = "socket" THEN again ELSE end}
  /\ twice' = IF c.kind = "create" /\ c.via = "socket" THEN twice \cup {c.who} ELSE twice
  /\ UNCHANGED <<made, unheard, client>>

-----------------------------------------------------------------------------
(* The command line.                                                        *)

Instance == Len(report) + 1

CliAsks ==
  /\ waits = "idle" /\ Instance <= Agents
  /\ waits' = "create"
  /\ requests' = requests \cup {Call("create", Instance, 0, "socket")}
  /\ UNCHANGED <<made, unheard, report, submitting, progress, submits, retries, trouble, twice>>

CliEnsures(c) ==
  /\ waits = "create" /\ c.who = Instance /\ c.kind = "create" /\ c.state = "ok" /\ c.heard
  /\ waits' = "ensure"
  /\ Replace(c, Call("ensure", Instance, c.task, "socket"))
  /\ UNCHANGED <<made, unheard, report, submitting, progress, submits, retries, trouble, twice>>

\* As CliReports, but what ensure answers is not looked at.
CliReports_Created(c) == report' = Append(report, c.task)
\* "created" with the id, or "failed" without one, also when it was ensure that failed.
CliReports(c) == report' = Append(report, IF c.state = "ok" THEN c.task ELSE 0)

CliHears(c) ==
  /\ c.heard /\ c.who = Instance
  /\ \/ waits = "create" /\ c.kind = "create" /\ c.state = "failed"
     \/ waits = "ensure" /\ c.kind = "ensure" /\ c.state \in {"ok", "failed"}
  /\ CliReports(c)
  /\ waits' = "idle"
  /\ requests' = requests \ {c}
  /\ UNCHANGED <<made, unheard, submitting, progress, submits, retries, trouble, twice>>

-----------------------------------------------------------------------------
(* The panel.                                                               *)

Progress(stage, failed) == [current |-> stage, failed |-> failed]
StageOf(t) == IF t \in DOMAIN progress THEN progress[t] ELSE Progress(1, FALSE)
ShowsStage(t, p) == progress' = [u \in DOMAIN progress \cup {t} |-> IF u = t THEN p ELSE progress[u]]

Submits ==
  /\ ~submitting /\ submitting' = TRUE
  /\ submits < MaxSubmits /\ submits' = submits + 1
  /\ requests' = requests \cup {Call("create", Panel, 0, "fetch")}
  /\ UNCHANGED <<made, unheard, waits, report, progress, retries, trouble, twice>>

\* seedDispatchProgress; the form is free again, and ensure goes on behind it.
PanelHears(c) ==
  /\ c.who = Panel /\ c.heard /\ c.state \in {"ok", "failed"}
  /\ IF c.kind = "create" /\ c.state = "ok"
     THEN ShowsStage(c.task, Progress(2, FALSE)) /\ Replace(c, Call("ensure", Panel, c.task, "fetch"))
     ELSE UNCHANGED progress /\ requests' = requests \ {c}
  /\ submitting' = (submitting /\ c.kind # "create")
  /\ UNCHANGED <<made, unheard, waits, report, submits, retries, trouble, twice>>

\* ErrorActions: Retry of any task in error.
PanelRetries(t) ==
  /\ made[t].status = "error"
  /\ retries < MaxRetries /\ retries' = retries + 1
  /\ requests' = requests \cup {Call("retry", Panel, t, "fetch")}
  /\ UNCHANGED <<made, unheard, waits, report, submitting, progress, submits, trouble, twice>>

\* advanceProgress: never back, and a failure stays.
Advanced(p, stage) == IF stage < p.current /\ stage # Active THEN p ELSE Progress(stage, p.failed)

\* applyDispatchEvent and applyEvent: a task that is active without a failure is not shown.
HearsNews ==
  /\ unheard # <<>> /\ unheard' = Tail(unheard)
  /\ LET e == Head(unheard)  t == e.task IN
     IF e.what = Error THEN ShowsStage(t, [StageOf(t) EXCEPT !.failed = TRUE])
     ELSE LET p == Advanced(StageOf(t), e.what) IN
          IF p.current = Active /\ ~p.failed
          THEN progress' = [u \in DOMAIN progress \ {t} |-> progress[u]]
          ELSE ShowsStage(t, p)
  /\ UNCHANGED <<made, requests, waits, report, submitting, submits, retries, trouble, twice>>

-----------------------------------------------------------------------------
FanoutInit ==
  /\ made = <<>> /\ requests = {} /\ unheard = <<>>
  /\ waits = "idle" /\ report = <<>>
  /\ submitting = FALSE /\ progress = <<>>
  /\ submits = 0 /\ retries = 0 /\ trouble = 0 /\ twice = {}

FanoutNext ==
  \/ \E c \in requests : \/ Intents(c) \/ EnsuresTask(c) \/ Retries(c) \/ Advances(c) \/ Fails(c) \/ Cuts(c)
                      \/ CliEnsures(c) \/ CliHears(c) \/ PanelHears(c)
  \/ DaemonStops \/ CliAsks \/ Submits \/ HearsNews
  \/ \E t \in TaskIds : PanelRetries(t)

FanoutSpec == FanoutInit /\ [][FanoutNext]_fanoutVars

-----------------------------------------------------------------------------
FanoutTypeOK ==
  /\ \A t \in TaskIds : made[t].by \in 0..Agents /\ made[t].stage \in 1..Active
  /\ ToSet(report) \subseteq {0} \cup TaskIds /\ Len(report) <= Agents
  /\ DOMAIN progress \subseteq TaskIds /\ twice \subseteq 1..Agents

\* What the table of the command line and the list of the panel say is so.  An instance that was
\* created is a task of its own whose engine was started, one without an answer has at most one
\* row unless its request was sent a second time; and once all events are heard, the list ticks
\* no stage that a first attempt has not passed, and shows no task that became active in it.
CreationIsReported ==
  /\ \A i \in DOMAIN report : report[i] # 0 => made[report[i]].ran /\ made[report[i]].by = i
  /\ \A i \in (1..Agents) \ twice : \A t, u \in TaskIds : made[t].by = i /\ made[u].by = i => t = u
  /\ unheard = <<>> => \A t \in DOMAIN progress :
       /\ ~made[t].failed => ~progress[t].failed /\ made[t].status # "active"
       /\ progress[t].current > 2 /\ ~made[t].failed => progress[t].current <= made[t].stage
=============================================================================
