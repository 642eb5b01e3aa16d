# Coolie, verified

Coolie is a local-first orchestrator of coding agents. A daemon (`packages/server`) keeps
workspaces (git worktrees), runs their engines (claude, codex, ...) in tmux sessions that
outlive it, and serves an HTTP/SSE/WebSocket interface to a desktop client
(`packages/client`), a command line (`packages/cli`) and the engines' own hooks. This
directory holds TLA+ models of that code, the TLC runs that check them, and proofs checked by
TLAPS.

Paths below are relative to `packages/server/src` unless they say otherwise.

## Inventory

How the parts meet: HTTP handlers are the only way in. A handler runs in the *lane* of its
workspace (`createWorkspaceSerial`), except the event stream, the terminal stream and reads.
State lives in SQLite (synchronous calls, one transaction each) and outlives the daemon; so do
worktrees and tmux sessions. Every state change appends an event row and is then broadcast on
an in-process bus, on which the queue drainer and the event streams listen. The transcript
poller and the collector are timers and bypass the lanes.

| Component | State | Operations | What is hard | What makes it correct |
|---|---|---|---|---|
| Prompt queue, `repo/queue.ts`, `engine/queue-drain.ts` | `prompt_queue` rows, lanes, the row a drain holds | enqueue, claim, deliver, settle, release, withdraw, recover, clear | crash after the pane took a prompt; status read before a long delivery; edges that are lost or do not drain | FIFO per tab, at-least-once, nothing stranded, nothing typed into a frozen workspace, the queue drains |
| Input route and receipts, `http/app.ts`, `repo/input-receipts.ts` | receipt per idempotency key | check, act, save, expire | receipt is written after the effect; clients retry while the first copy is in the lane | a repeated key has no second effect, except across a crash or failure |
| Hooks and notify, `http/app.ts` | tab status, `lastHookAt`, session id | status, exit, session sync | reports lost or late, of an engine that was replaced | a report changes only the tab it is about |
| Status monitor, `engine/monitor.ts` | none of its own | poll transcripts by age | not in a lane; decides on a listed status | takes over when hooks are silent, and only then |
| Workspace lifecycle, `workspace/lifecycle.ts`, `workspace/adopt.ts` | `workspaces.status`, archive operation, worktree, branch, tmux session | create, ensure, provision with rollback, retry, archive, reconcile, unarchive, delete, rename the branch, adopt | crash between any two of row, session, worktree; partial failure and compensation | transitions legal, archive finishes or is undone, a worktree is never lost with changes |
| Tabs and heal, `repo/tabs.ts`, `workspace/heal.ts`, `workspace/tabs.ts`, `engine/bootstrap.ts` | rows with a window number, the windows of a tmux session | ensure, resume, open, close, switch engine, rename, review | tmux gives out the lowest free number; rows are addressed by number | a request reaches the program of its own tab; an ensure leaves an engine in every engine tab, also after one that failed half way |
| Attention, event log and stream, `attention/service.ts`, `repo/events.ts`, `http/sse.ts`, client `api/sse.ts`, `stores/*` | event log with sequence numbers, items, client cursor and lists | append, replay in pages of 200, live tail, snapshot, acknowledge | seam of replay and live; reconnect; answers that overtake each other | a client hears every event once, in order; what it shows agrees with the database when all is quiet |
| Client registry and idle exit, `daemon/clients.ts` | leases, grace timer | register, release, expire | timer fires while a client registers | an idle daemon leaves, a window gets a daemon |
| Single instance, `daemon/info.ts`, `main.ts` | `server.json`, claim lock, socket | sweep, claim, recover a stale lock, probe, stop, reset | several processes and files that tell of dead ones | one process serves |
| Run scripts, `runs/manager.ts` | map of records, `run_instances`, processes | start, stop, output, exit, list, restart | stop races exit and start; a restart forgets the map | one process for a script |
| Environment and setup, `workspace/environment.ts`, `worktree-environment.ts`, `setup.ts` | copied files, manifest, marker, result file | copy with rollback, run scripts, wait, recopy | layers under one deadline; the path is used again | an engine finds an environment that is complete; what the user wrote stays |
| Finish and checkpoints, `workspace/finish.ts`, `checkpoint.ts` | branches, pull request, recorded result; refs and their events | push, pull request, merge; make and delete a checkpoint | the engine works on meanwhile; one git call fails between others; a main checkout that all share | a recorded result is true of the repository; a checkpoint misses nothing |
| Collector and checks, `collector/background.ts`, `http/checks.ts` | snapshots, collections under way | collect all, collect one, answer a panel | overlapping rounds; tasks archived meanwhile | events and snapshots agree; snapshots become current |
| tmux control and layout, `tmux/control.ts`, `tmux/layout.ts` | child and generation, commands that wait; zen state | exec, reply, time out, restart; enter and leave zen | late replies and exits of an older child; zen entered twice | a reply goes to the command it answers; the layout comes back |
| Terminal, `http/ws.ts`, `pty/attach.ts`, client `terminal/*` | sockets, grouped sessions, PTY, keys that wait | mount, attach, resume, reconnect, type | reconnects overlap mounts; a socket closes during its set-up | one socket per view, no key lost, no view left behind |
| Engines and database, `engine/registry.ts`, `custom-store.ts`, `copilot-migration.ts`, `db/*` | custom engines, registry in memory, applied migrations | migrate, save, delete, list, launch | two daemons migrate at once; lists of two moments | a tab runs the engine its user gave it |
| Transcripts, `engine/transcript-reader.ts`, `claude/*`, `codex/*`, client `transcript/*` | files of third parties, cursor, cache | read a page, merge it, watch for a session | pages while the file grows; answers of an older request | no line is left out, none of another session is shown |
| Board, `repo/projects.ts`, `repo/workspaces.ts`, `workspace/names.ts`, `ports.ts` | order, pins, names, paths, ports | add and remove projects, create, adopt, rename, reorder | decisions on rows of an earlier moment | no two tasks share a path or ports; an accepted order stands |
| Composer and dispatch, client `composer/*`, `packages/cli/src/main.ts`, `fanout.ts` | drafts, attachments, messages under way, progress | write, attach, send, dispatch, fan out, retry | answers after the user moved on; requests whose answer is lost | words arrive where they were meant for; what is reported is so |
| Dialogs, palette, shortcuts, client `chrome/*`, `hotkeys/*`, `sidebar/*`, `settings/*` | modal stack, dialogs, bindings in the storage | press, ask, answer, bind, import, reset | selection moves before an answer; two windows edit one storage | no dead keyboard; a confirmation acts on the task it named |
| Command line, `packages/cli` | none | wait, start, stop and reset the server | races with the daemon | a wait never sleeps on a condition that holds |
| Protocol types, `packages/protocol` | none | declarations, decoding | | not modelled |
| Tauri shell, `packages/client/src-tauri` | the child it spawned | spawn the server | a claim that is taken | as any other starter |

`PROJECT.json` repeats the list with what is modelled of each, and lists the hazards at their
lines.

## Modules

The two machines at the centre, each with what it promises and with proofs:

- `PromptQueue.tla` models the queue and everything that writes to it; `Outbox.tla` is what it
  promises: a durable outbox, FIFO per destination, at least once, with no crash in it;
  `PromptQueue_proofs.tla` and `PromptQueue_safety.tla` hold its theorems.
- `Lifecycle.tla` models the life of one workspace over its row, git and tmux;
  `WorkspaceContract.tla` is what it promises: the edges a row moves along, that an active row
  has a worktree and an archived or deleted one has none, and what it takes to lose uncommitted
  work; `Lifecycle_proofs.tla` holds its theorems.

They meet in the status of the workspace: `PromptQueue` reads it and lets an archive or a delete
end in every way `Lifecycle` can end it.

Around them, one module for each other component. All follow one pattern: the variables are the
state listed below, an action is a stretch of the code between two points where others may act,
history variables are marked as such, and every bound is a constant named `Max...`.

| Module | State and the code behind it | Actions |
|---|---|---|
| `Daemon` | `info`, `lock`, `sock`: the three files; `pc`, `timer` of each process; `mode` of each window; `robbed`: someone removed a live registration | `Works`: `cmdStart`, sweep, `claimServerInfo` and its recovery, listening, leases, grace timer, shutdown, one file system call a step; `CliSpawn`, `Stop`, `Crash`, `Resets` (`coolie reset`); `Seeks`, `GuiOpens`, `GuiCloses`: a desktop window |
| `EventStream` | `events`: the table; `conn`: the handler of each reader with page, queue and phase; `wire`, `lastSeq` | `Append1or2`; `Follows`: dial with `Last-Event-ID`, subscribe, read a page, write it, drain, go live; `CutsOff` |
| `Follower` | each reader's part of the log and what it was told | the promise that `EventStream` implements, liveness included |
| `ClientStores` | `log`, the stores of a window (`items`, `lists`), `flights`: requests under way; `coolie wait` | turns, acknowledgements and archives; requests that are handled, answered in any order or lost; `Dials`, `HearsEvent`, `AcksVisible`, `WaitStarts`, `WaitHears`, `WaitStops` |
| `Runs` | `entry`: the daemon's map; `row`; `living`, `children`: the processes | `RunStarts`, `StopAsks`, `StopEnds` (200 ms later), `RunPrints`, `RunEnds`, `RunCloses`, `RunsListed`, `DaemonRestarts` |
| `TmuxControl` | `generation`, `child`, `pending`, `awaitingGuard`; `pipe` and `asked` of each child | `Exec`, `Replies` (tmux), `OnLine`, `TimesOut`, `ControlChildExits` |
| `Collecting` | `collects`: collections by key; `snapshots`, `toldOf`; the checks panel | `Ticks`, `Demanded`, `Probes`, `Stores`, `ReadsStatus`, `AwaitsCollect`, `AnswersChecks`, `PanelPolls`, `PanelPaints`, `PanelFails`, `WorldChanges` |
| `TabWindows` | `kind`, `win`: the rows; `runs`: the program in each window; `op`: the request in the lane | `AskEnsure`, `Observe`, `Recreate`, `Number`, `Resume`, `Record`, `HealEnds` (heal, one call a step), and where it fails: `StartFails`, `RequestFails`; open, resume, switch, rename, close, review; `WindowEnds`, `TmuxServerEnds`, `DaemonCrashes` |
| `Finish` | `tree`, `tip`, `base`, `checkout`, `remote`, `pushed`, `pr`: git as versions; `result`; `lane` | `AskFinish`, the three looks, `Pushes`, `CreatesPr`, `Merges`, `Saves`, `KeepsWorking`, `FinishArchives`; `Edits`, `Commits`, `UserActs`, `FinishCrashes` |
| `Checkpoints` | `files`, `head`, `refs`, `known`: the refs that events tell of; `making` | `AskCheckpoint`, `WritesTree`, `CommitsTree`, `UpdatesRef`, `ReadsTime`, `TellsCreated`, `GitFails`, `DeletesRef`, `TellsDeleted`; edits, commits, `TaskMovesOn`, `LaneIsCut` |
| `Provision` | `source`, `dest`, `manifest`, `marker`, `runner`, `answer`: the files; `step`, `waited`: the daemon | `Provisions`, `Copies`, `StartsScripts`, `ScriptEnds`, `ScriptFails`, `Tick`, `HearsRunner`, `Marks`, `Activates`, `ArchivesTree`, `Unarchives`, `PlansRecopy`, `Recopies`; the user, `DaemonEnds`, `RunnerDies` |
| `Receipts` | `receipts` with expiry, `sent`: the lane, `effects` and `told`: history | `Sends` (also of a copy), the route's `Replayed`, `Conflicts`, `Admits`, `ActsOn`, `ActFails`, `SavesReceipt`; `ServerEnds`, `TimePasses` |
| `Board` | `board`: rows with order, pin, name, path, ports; `adopting`, `cloning`, `dragged`: what was read earlier | projects, `Creates`, `AdoptReads` and `AdoptInserts`, `Renames`, `SetsPinned`, archive, `Removes`, `Drags` and `Reorders` |
| `Terminal` | `group`: the session of the workspace; `sock`: the connections with their handler; `sess`, `mounted`, `recovery`: the client | `Mounts`, `Unmounts`, `Served` (the set-up of `ws.ts` and its release, one step each), `SeesClose`, `Reconnects`, `Types`, the resume in its four steps, `Breaks`, `Archive`, `TmuxDies`, `TermDaemonRestarts` |
| `Composer` | `text`, `attached`, `drafts`, `under`: requests under way; `arrived` | `Writes`, `SendsText`, `Dispatches`, `Attaches`, `GoesTo`, `Carries`, `Injects`, and the ends of each request, good and bad |
| `Engines` | `applied`, `rows`, `uses`: the database; `registry` of each daemon; `listing`, `listed` | `Starts`, `Migrates`, `Collides`, `Builds`, `Lives`, `Ends`; lists and edits of two clients; `Launches` |
| `Dialogs` | `stack`, `panels`, `asked`, `calls`, `chosen`, `tasks` | `Presses`, `PaletteRuns`, `Buttons`, `TaskKeys`, `Decides`, `Replies`, `Dismisses`, `Selects`, `Mentions`, `OthersChange` |
| `Keybindings` | `bound`, `effective` of each window; `stored`; `draft` | `OpensPage`, `TypesKeys`, `Applies`, `ResetsKeys`, `Hides`, `Imports`, `ReloadsKeys` |
| `Transcripts` | `logs`: the files; `sid`; `shown`: the cache with its cursor; `flights` | `EngineWrites`, `StartsAfresh`, `Notified`, `WatcherTicks`, `Shows`, `Polls`, `ServesPage`, `AppliesPage` |
| `Layout` | `place`: the rows; `frames`, `front`: the session; `todo`: the ensure in the lane; `layout`: what `setLayoutState` keeps; `believed` | `Opens`, `Closes`; `Ensures`, `Recreates`, `Resumes`, `EnsureEnds`, `EnsureFails`: a heal, with the arrangement that may fail before each step; `UserWorks`, `PressesZen`, `Serves`, `Refuses`, `Refreshes`, `TmuxEnds` |
| `Fanout` | `made`: the rows; `requests`; `waits`, `report`: the command line; `progress`: the panel | `Intents`, `EnsuresTask`, `Retries`, `Advances`, `Fails`, `Cuts`; `CliAsks`, `CliEnsures`, `CliHears`; `Submits`, `PanelHears`, `PanelRetries`, `HearsNews`; `DaemonStops` |

`MCPromptQueue` and `MCLifecycle` give the constants of the two central modules their values.
`MCServices`, `MCTasks` and `MCDesktop` put components that share no state into one run: a variable `part`, chosen at the start, says which of them runs, and the others stay in an
initial state. So each behaviour is a behaviour of one component, the state spaces add up and do
not multiply, and a property of a component is checked over all of its behaviours.

The theorems of these components are in modules grouped by what the components are about:
`Services_proofs` (`Runs`, `TmuxControl`, `Daemon`, `Collecting`), `Tasks_proofs` (`Checkpoints`,
`Receipts`, `Provision`, `Finish`, `Board`), `TabWindows_proofs` (`TabWindows`, `Layout`), `Screens_proofs`
(`Dialogs`, `Keybindings`, `Transcripts`, `Fanout`) and `Windows_proofs` (`Engines`, `Composer`, `Terminal`,
`ClientStores`).

An operator whose name ends in `_Something` after the name of an action is a variant with one
plausible mistake; nothing uses it but the mutation checks listed in `PROJECT.json`.

### PromptQueue: state

| Variables | Code |
|---|---|
| `rowReq`, `rowState`, `lastRow` | the rows of `prompt_queue`, numbered by AUTOINCREMENT. `queued` and `inflight` are the two states of the column; `delivered`, `withdrawn`, `dropped` record why a row was deleted |
| `wsStatus` | `workspaces.status`, plus `deleted` |
| `tabStatus`, `native`, `authority` | `tabs.status` (`closed` when the row is gone), whether the tab's engine queues prompts itself (`capabilities.nativeQueue`), whether `lastHookAt` still keeps the poller silent |
| `receipt` | `input_receipts` by key; one key per request |
| `lane`, `pc`, `claimed`, `sawWorking` | the promise chain of each workspace, where the running handler stands between two awaits, the row a drain holds, the status an input handler read |
| `polled` | what `pollOnce` listed and has not decided yet |
| `engine`, `signals`, `transcript`, `client` | outside the daemon: the engine in tmux, the reports it has yet to post, the age of its transcript, what the client of each request knows |
| `copies`, `direct`, `spent`, `crashes`, `mishaps`, `chores` | history: pastes of each row and each direct send, whether a turn was started, and noted in the status, since the last awaiting-input edge, the budgets used |

Everything that is not the database, tmux or a client is lost in `Crash`.

### PromptQueue: actions

- `Submit`, `GiveUp`: a client posts, times out, posts again under the same key.
- `InputReplays`, `InputRefused`, `InputReads`, `InputEnqueues`, `InputWritesPty`,
  `InputPtyFails`, `InputMarksInterrupted`, `InputMarksWorking`, `InputSaves`:
  the `/input` handler (`http/app.ts`), one action for each stretch between two awaits.
- `DrainResolves`, `DrainClaims`, `DrainRechecks`, `DrainDelivers`, `DrainFails`,
  `DrainMarks`, `DrainSettles`: `drainWorkspace`, in the same way. An awaiting-input edge puts
  a drain at the end of the lane (`startQueueDrainer`).
- `HookPost`, `SignalLost`, `HookRuns`: hooks, notify and engine-exit reports, with the check
  of `resolveEngineTabContext` that the report is of the engine the tab runs.
- `PollList`, `PollDecides`, `AuthorityExpires`: the poller. Time is not modelled: a transcript
  is `fresh`, `old` or absent, and ages when it likes.
- `EngineWrites`, `TranscriptAges`, `TurnEnds`, `TypedTurn`, `EngineExits`: the environment.
- `RequestChore`, `ChoreRefused`, `Withdraw`, `CloseTab`, `SwitchEngine`, `Resume`,
  `ArchiveBegins`, `ArchiveEnds`, `Unarchive`, `DeleteBegins`, `DeleteEnds`: user operations.
- `Crash`, `Reconciles`, `Boot`: the daemon stops anywhere, reconciles archives before it
  listens, recovers inflight rows and starts one drain for each tab with rows.

### Abstractions

- A prompt is its row number or its request. Formatting, events and titles are left out.
- Close, switch and resume are one step each: a crash between the tmux call and the database
  write of these is not in the model. Archive and delete have two steps each.
- How an archive ends is a choice among the four outcomes the code has: done, session kept and
  workspace active again, session rebuilt, stuck in `archiving`.
- One poll runs at a time. `setInterval` would start a second one if the first took over 2 s.
- Receipts do not expire; `Receipts` has their expiry and keys that are used again.
- `DrainMarks` may fail to write the status, which the drainer puts up with (`engine/queue-drain.ts:45-47`).
  The tab then still awaits input, and an edge may start one more queued turn: such a failure spends a
  mishap, and `OneTurnPerEdge` counts the turns whose status was written.
- A mode `insert` or `interrupt-send` is in the actions and in the proofs; no cfg issues one.
- `Reports` fixes what an engine without a native queue posts from each tab: hooks, the notify
  command only, or nothing. A native engine (claude) always has hooks.

### Lifecycle: state

| Variables | Code |
|---|---|
| `status`, `ownership`, `materialized`, `ctx`, `force`, `rowBranch`, `baseRef` | the `workspaces` row; `none` before it and `gone` after it. `ctx` says whether `createCtx` holds a first prompt, `force` is that of `archiveOperation` |
| `tabs` | whether the row of its engine tab is there |
| `wt`, `head`, `tips`, `base` | git: the worktree (`absent`, `clean`, `dirty`), the branch it has checked out, where each branch stands (a commit of the base, `Own` with commits of the workspace, `Missing`), the tip of the base branch |
| `session` | tmux: none, the placeholder of the setup scripts, or the engine |
| `daemon`, `op`, `reqForce`, `reqBranch`, `pc` | the process: the operation in the lane, its arguments, and where it and an adoption outside the lane stand |
| `prompted`, `everPrompted`, `consent`, `crashes`, `mishaps` | history: first prompts typed in this checkout and ever, whether the user agreed to lose work, the budgets used |

### Lifecycle: actions

- `CreateIntent`, `SavesCtx`: `createIntent`. `Ensure`, `Retry`: how `ensure` and `retry` begin.
- `ResolvesBase`, `AddsNewBranch`, `AddsExistingBranch`, `PreparesSetup`, `RunsScripts`,
  `InsertsTab`, `LaunchesEngine`, `DeliversPrompt`, `Materializes`, `Activates`: `provision`
  and the bootstrap hook. `RollbackKills`, `RollbackDropsTabs`, `RollbackRemoves`,
  `RollbackMarks`: `rollbackToError`.
- `HealObserves`, `HealStarts`: `SessionEnsurer.ensure` and `recoverArchive`, in an operation or
  for an adoption; `MarksError`: what retry and adopt do when it fails. `Adopt`, `Reactivates`.
- `ArchiveBegins`, `KillsSession`, `GuardsTree`, `RemovesTree`, `Completes`, and after a failure
  `Assesses`, heal, `Cancels`: `archive`. `Boot` runs it for a row that is archiving
  (`reconcileArchives`), before any request.
- `Unarchive`, `ReaddsTree`, `Reopens`; `DeleteBegins`, `DeleteGuards`, `DeleteKills`,
  `DeleteDropsTabs`, `DeleteRemovesTree`, `DeleteForgets`; `RenameBranch`, `RenamesInGit`,
  `SetsBranch`, `UndoesRename`.
- `Crash`: the process ends; row, git and tmux stay. `Edits`, `CommitsWork`, `OwnerRemoves`,
  `TmuxDies`, `BaseAdvances`: the world.

A call of git or tmux works, or spends one of `MaxMishaps` and fails, before or after its effect
where the caller cannot tell. What git refuses by itself (a path that is there, a dirty tree
without `--force`, a branch that is missing) is a guard and costs nothing.

### Lifecycle: abstractions

- The path of a new task is assumed to be free (`PathIsFree`): it lies below the daemon's own directory of
  worktrees, and that nobody else made a worktree there is assumed, not checked by `createIntent`. Were
  there one, `provision` would fail at `git worktree add` and its rollback would ask git to remove it, which
  refuses when it is dirty. What `AdoptedIsNotOurs` and `WorkIsKept` say is under this assumption.
- One workspace. Workspaces share the base branch, which advances on its own, and the names of
  branches, which `SetsBranch` and `Init` let others hold.
- A write of SQLite fails only where the code has an answer to it (a taken branch name, a tab
  row). Fetch, prune, file copies, hook injection and tmux layout belong to the failures of the
  step they are in. The hook's own teardown of its session is the one rollback does next.
- `HealObserves` reads the status, asks tmux for the session and reads the tab in one step;
  between it and the start of the session anything may happen. Second engine tabs are left out.
- What the user, the engine and the setup scripts write in the tree is `Edits`. The checkout of
  another branch by hand is not modelled.
- `consent` lasts as long as the request, and for an archive until it is over.

### Abstractions of the other modules

- What git, gh, tmux list or a transcript show is a version number or a set; a name, a text or a
  key is a model value. Parsing, formatting, titles, themes and languages are left out.
- A request to the daemon has the steps that its handler has between two awaits where others can
  act in between; the lane of a task is one request at a time, as in the code. Requests and
  answers of clients are overtaken, lost or late where the client handles it.
- `ClientStores` takes the stream as what `EventStream` implements: each event once, in order, at
  any later time. `Fanout` takes a task as stages that pass or fail; `Provision` and `Lifecycle`
  have what happens in them.
- Time is a tick where a bound is about it (`Provision`), and otherwise a timer that fires when
  it likes.
- `Daemon` does not model ports; `Collecting` samples one version of everything; `Terminal` has
  one tab that moves between windows; `Runs` has one script; `Finish` has two tasks of a project.

## Runs

| Run | Question | Result |
|---|---|---|
| `crash` | What survives a crash or a tmux failure between any two steps, while a client gives up and repeats? | `InflightIsClaimed`, `DuplicatesExplained`, `AcceptedIsDurable` hold |
| `order` | Do order and pacing survive the poller, a failed delivery, an engine switch, a resume, a typed prompt? | `InOrder` (`FifoPerTab`, `NoOvertaking`, `OneTurnPerEdge`) holds |
| `freeze` | Do close, withdraw, archive, unarchive, delete and a crash race safely with sends and drains? | `FrozenHolds` (`NoOrphans`, `FrozenIsSilent`) holds and the queue implements `Outbox` |
| `live` | Is every queued prompt delivered and every client answered? | `QueueDrains`, `ClientsAnswered` hold under `LiveSpec` |
| `lc_fail` | Do all operations together keep the contract over two failures and two crashes? | `PromptedOnce`, `RecordsAreTrue`, `ForceIsDurable`, `AdoptedIsNotOurs`, `WorkIsKept` hold and the lifecycle implements `WorkspaceContract` |
| `lc_live` | Does an archive end, and can an archived workspace be had back? | `ArchivesResolve` (`ArchivingResolves`, `UnarchiveWorks`) holds under `FairSpec` |
| `services` | Who serves and for how long; what readers of the stream get; one process for a run; replies of tmux; snapshots of git? | `SoleUnlessRobbed`, `WindowsReconnect`, `IdleDaemonLeaves` (`Daemon`), `ImplementsFollower`, `OneProcess`, `RepliesMatch`, `CollectingKeeps`, `SnapshotsSettle` hold |
| `tasks` | What does the daemon keep of a task: tabs and windows, layout, transcript, finish, checkpoints, environment, place on the board, receipts? | `TabsStayApart`, `EnsureHeals`, `ZenReturns`, `TranscriptHolds`, `FinishIsTrue`, `CheckpointsKeep`, `SetupIsComplete`, `OwnWritesKept`, `BoardHolds`, `OncePerKey` hold |
| `desktop` | Does a window agree with the daemon over late answers, cuts, reconnects and edits of others, and is what the user is shown and asked right? | `StoresConverge`, `TerminalKeeps`, `WordsKept`, `EnginesHold`, `DialogsHold`, `KeysHold`, `CreationIsReported` hold |
| `queue_resume` | Does the queue resume after an interrupt, once the user sends again? | violated, see below |
| `two_daemons` | Is there one daemon, as the claim promises? | violated, see below |
| `half_heal` | Does an ensure heal every engine tab, also after one that failed half way? | violated, see below |

**What the larger properties say.** `SoleUnlessRobbed`: two daemons serve only after somebody
removed a registration that was alive; the claim itself lets no second one in. `RepliesMatch`: a
caller that is told ok had its own command carried out. `TabsStayApart`: nothing typed, respawned
or closed reaches the program of another tab, however often tmux dies and heals fail half way.
`EnsureHeals`: an ensure that ends leaves every engine tab with a window that runs its engine. `CheckpointsKeep`:
a checkpoint misses nothing that was there when it was asked for, and a checkpoint without its event, or an
event without its checkpoint, is one whose request failed or was cut off between the two. `FinishIsTrue`: what a result says was merged or
sent is on the base branch or the origin. `SetupIsComplete`: an engine starts in a worktree whose
setup ended well. `BoardHolds`: no two tasks share a path or a block of ports, and an order that
was accepted stands. `OncePerKey`: whoever is told ok is told of what was done for this very request,
and while a receipt stands nothing else is done under its key. `StoresConverge`: when all is quiet the inbox and the lists agree with the
log, and a wait does not sleep on a condition that holds. `WordsKept`: what is written arrives
where it was meant for and is not lost. `EnginesHold`: the database is migrated once, the registry
agrees with it, a tab runs what its user gave it. `DialogsHold`: no modal leaves the keyboard
dead, and a confirmation acts for the task it named. `TranscriptHolds`: the view leaves no entry
out and shows none of another session. `ZenReturns`: leaving zen brings back the tab in front, by the window
that its row names.
Each excuses, by a history variable, what the code does not promise; the comment at the property
says what, and the table under Findings says what the code does there.

**Bounds of the lifecycle.** Two names are what a rename needs. One advance of the base tells a
recorded base from the present one. Failures and crashes come in pairs: one starts a compensation
or a recovery, the other hits it. The parts of `RecordsAreTrue` say how many failures each
excuses: best-effort calls that fail leave a session or a tab row. `lc_live` leaves delete and
rename out, which a user may do instead of waiting.

**Bounds of the queue.** One workspace (lanes of two workspaces share nothing but the poller, and
the theorems hold for any number), one tab in most runs and two in `freeze`, where `close` needs a
second. Two or three requests and rows: two rows are what FIFO needs, a third request makes a
send find the queue non-empty while a drain holds a row. `MaxLane = 2` admits a request behind
a running one; drains that an edge adds may exceed it by one. One crash and one mishap are
enough for each window between two steps, and the counting properties mention the budgets so
that a second would not change what is claimed.

**Bounds of the services.** Two processes and a window that spawns one: what a race needs; a
process that ended is started again as another. A crash, stop, reset or late answer is one
mishap. Four events and a page size of two give a log of a full page, a partial page and events
in the queue; two cuts. Three commands over three children of tmux let a reply and an exit of an
older child meet a newer one. Three processes of a run and a restart. Two workspaces, one change
and one failing probe for the collector.

**Bounds of the tasks.** Three tabs over three window numbers (0 to 2), so numbers are used again,
and two faults; that a request fails is not bounded. `TabsBound` keeps the states in which no program
ended by itself, no crash cut a request in two, no shell got window 0 and no window was opened past rows
that a failed heal left without theirs (`Undisturbed`): after those a window number is held by two rows,
and `TabsStayApart` and `EnsureHeals` say so. The last of the four needs no program end and no crash;
it is the third finding, and run `half_heal` checks `EnsureHeals` without that excuse.
Three tabs, two desktop windows and two presses for `Layout`; `LayoutBound`: one disturbance from outside, while
heals may fail at any step. Pages of one entry over two lines and two requests for `Transcripts`. Two tasks, two requests, one edit, two acts of the user and one crash for `Finish`; three
edits, two checkpoints, one crash and any number of failing git calls for `Checkpoints`; two files and two scripts, a limit of two
ticks with one of slack, three worktrees at one path for `Provision`. `BoardBound`: an order is
dragged with one repository there, besides it one more change; two repositories of one name
otherwise. Two keys and two bodies, a receipt of two ticks on a clock of three, three copies and one
end of the daemon or failure of tmux for `Receipts`: a key is used again after it expired.

**Bounds of the desktop.** A log of four events with a list limit of one, so the limit is
met; two requests under way. Three sockets, two sessions of tmux and two keys: a socket that
closes, the next, and one that a resume adds; `TerminalBound`: keys are typed in one of the first
two, their loss is about a connection and its successor. Two workspaces, two projects, two words and a
picture; two messages under way and one that is lost or refused. Two daemons, two migrated tabs, four edits.
`DialogsBound`: two questions or changes of others together. Two windows and six texts of the
storage (nothing, an exchange, clashes of each kind, garbage). `FanoutBound`: two requests that make tasks,
three with what goes wrong.

`CHECK_DEADLOCK FALSE` throughout: every system really stops once its requests are answered and
its budgets are used.

**Fairness of the lifecycle** (`lc_live`). Weak fairness of the lane and of the
adoption: calls of git and tmux return, the first prompt waits at most 90 s. Of `Boot`: the
daemon is started again by the next client. Of an archive of a row that is archiving, and of
`Unarchive`: the user repeats a request that has not come to its end. Nothing makes failures or
crashes happen, and nothing forces a user to force.

**Fairness of the queue** (`live`, `queue_resume`). Weak fairness of the lanes: promises settle,
and every await of a handler ends, because tmux calls and `waitStable` are bounded. Of `PollList`
and `PollDecides`: `setInterval`. Of `AuthorityExpires` and `TranscriptAges`: time passes. Of
`TurnEnds` and `HookPost`: a turn ends and its hook is posted. Of `Boot`: a client or the user
starts the daemon again. Nothing is assumed of users, clients, failures or crashes.

**Fairness of the services** (`services`). Weak fairness of `Works(d)`: a process that runs goes
on, and its timers fire. Of `Seeks(g)`: a window that has no daemon tries again (its retry timer).
Of `Follows(r)`: the server writes on, and a reader that was cut off dials again. Of `Ticks` and
`CollectsAll`: `setInterval`, and a collection ends because each of its commands has a timeout.
Nobody has to open or close a window, start, stop or crash.

**Every property can fail.** For each property of a passing run `PROJECT.json` names a
variant of one definition, as a bug in that code would make it, under which TLC finds the
property violated in the same run.

## Findings

1. *A queue with prompts waiting does not resume after an interrupt* (run `queue_resume`).
   `http/app.ts:1616` queues every `send` while rows wait, and `engine/queue-drain.ts:105`
   ignores the awaiting-input edge of an interrupt. After an interrupt with prompts waiting the
   tab awaits input, the user's next send is queued too, no turn starts, so no turn completes.
   `docs/superpowers/plans/2026-07-12-coolie-m2-plan2-queue-notify.md:856` says the queue
   resumes at the next natural turn-complete, when the user sends one more prompt. A prompt
   typed straight into the terminal, or a restart of the daemon, does restart the queue.
2. *Two daemons may serve one home* (run `two_daemons`). `main.ts:75-79` probes what
   `server.json` names and removes the file when nobody answers, before `claimServerInfo`
   (`main.ts:352`) takes the lock. The entry that another daemon published between the probe and
   the removal is removed, and the later daemon publishes its own. The comment at
   `daemon/info.ts:32` says that probing, clearing and publishing are serialised by the lock.
3. *A heal that fails half way may put an engine tab on another tab's program* (run `half_heal`). When
   tmux died, `ensure` recreates the session with the first engine in window 0 and resumes the other
   engine tabs one by one (`workspace/heal.ts:127-146`). It stops at the first step that fails: a label,
   `select-window` of the zen layout when its focus is on a tab that is yet to be healed (170,
   `tmux/layout.ts:149`), the lookup of an engine that was removed (171). The session stays, with rows
   whose windows are not there; in zen every later `ensure` fails the same way (98). A tab that is opened
   now is given the lowest free number, which one of those rows names, and from then on `ensure` takes
   that window for the engine's own (110-112) and succeeds. The comment at `workspace/heal.ts:141-142`
   says that engine tabs are healed by the rebuilding and kept alive. In the run no window ends by
   itself, the daemon does not crash and no shell has window 0.

Further places where the code does something else than a document, a comment or a test says, or
where two of its parts disagree. Each is a definition in the module that no run lists; listing it
in place of the properties of the cfg, with the change given, makes TLC refute it.

| Definition, cfg | What the code does | Against |
|---|---|---|
| `DeliversBetweenTurns`, `MCOrder.cfg` | the poller takes a transcript that is 30 s old for a finished turn (`engine/monitor.ts:24`), so a queued prompt may be typed into a running one | `docs/superpowers/plans/2026-07-12-coolie-m2-plan2-queue-notify.md:7`: delivery is serial, no concurrent write to the PTY |
| `CreatingResolves`, `LcLive.cfg`, `Ops = {"create", "ensure", "retry"}` | a crash between `setMaterialized` (`workspace/lifecycle.ts:264`) and `setStatus` leaves a row that `ensure` (378) and `retry` (335) refuse | `packages/cli/src/main.ts:835`: deal with such rows by retry or delete |
| `ArchivedHasNoSession`, `LcFail.cfg` | `workspace/adopt.ts:81` starts the session outside the lane; an archive in between completes first | `docs/superpowers/specs/2026-07-11-coolie-design.md:92`: archive kills the tmux session |
| `UntouchedIsReusable`, `LcFail.cfg`, `MaxBase = 2`, `MaxMishaps = 1` | the base is resolved for the row (`workspace/lifecycle.ts:142`) and again by git (154-169); the untouched branch is refused after a fetch in between | `packages/server/test/lifecycle-create.test.ts:166`: a retry survives the base advancing |
| `InitPerWorktree`, `Tasks.cfg` | the marker of `init.sh` is kept by path (`workspace/setup.ts:62-80`), so a second worktree there does without | `README.md:138`: once per physical worktree |
| `NoPrThenRefused`, `Tasks.cfg` | the pull request is made before the merge finds that the checkout changed meanwhile | the comment at `workspace/finish.ts:86`: all guards come before the pull request |
| `ShellRowsAreReal`, `TabWindows` alone with `Tabs` of three, `MaxWindow = 2`, `MaxFaults = 2` | a heal keeps the row of a shell whose number now belongs to an engine | the comment at `workspace/heal.ts:139` |
| `EngineEndsWithSession`, `Desktop.cfg` | a grouped view keeps the engine's window alive after `kill-session` | the comment at `workspace/lifecycle.ts:109` |
| `SessionsBounded`, `Desktop.cfg` | a view whose tab moves to another window leaves the session of the old key | the comment at `packages/client/src/terminal/session.ts:152-158` |
| `NextIsKept`, `Desktop.cfg` | a message that fails is restored over the text written since | the comment at `packages/client/src/composer/Composer.tsx:196` |
| `ListedOnce`, `Desktop.cfg` | `GET /config` reads the rows, waits for a probe and then reads the registry | one list of engines |
| `EnginesUsedStay`, `Desktop.cfg` | the removal of a custom engine does not ask which tabs use it | a tab that can be launched |
| `EntriesOnce`, `Tasks.cfg` | the last page has no cursor (`engine/transcript-reader.ts:95`), so the poll after it starts over and appends what is shown | `docs/superpowers/plans/2026-07-15-coolie-v0.1.0-roadmap.md:689`: read incrementally, by a cursor |
| `ShownBlocks`, `Desktop.cfg` | two panels over each other share a layer of the stack, and closing one lets keys through the other | `packages/client/test/global-hotkeys.test.ts:63-90` |
| `PickerSwallows`, `Desktop.cfg` | the layer of the tabs comes back on top of the composer's picker | the comment at `packages/client/src/composer/Picker.tsx:10` |
| `CancelDoesNothing`, `Desktop.cfg` | cancelling the title of a pull request still makes it (`packages/client/src/sidebar/Sidebar.tsx:94`), cancelling the name of an adoption still adopts (307) | a cancel does nothing |
| `SavesAddUp`, `Desktop.cfg` | a window saves the whole object it has (`packages/client/src/settings/settings.ts:122`), over what another saved | a setting that was saved stays |
| `DraftIsKept`, `Desktop.cfg` | when a dialog over the settings is gone, the draft is set again from what is bound (`packages/client/src/settings/KeybindingSettings.tsx:49-61`) | a draft is kept until it is applied, reset or left |

Two more need no run. A window drops the inbox items of a workspace when it is archived
(`packages/client/src/stores/data.ts:179-190`) and the daemon keeps them open, so a later snapshot
brings them back: `StoresConverge` leaves those items out. And a name that the user gives is
unique in its project only, where the comment at `workspace/lifecycle.ts:288` says that names
must be unique over all projects: a path that is taken is refused by the table's index.

## Proofs

`PromptQueue_proofs.tla` proves, for any sets of workspaces, tabs and requests and any bounds,
from `QueueAssumption` only (tabs are finite; the constants have their types):

- `TypeCorrect`: `Spec => []TypeOK`.
- `NoneStranded`: `Spec => []InflightIsClaimed`.
- `Invariant`: `Spec => []IInv`, the inductive invariant behind both.

`InflightIsClaimed` is not inductive: it does not say which drain holds a row, nor that two
lanes cannot hold the same one. `IInv` adds `LanesHome` (a lane holds tasks of tabs of its own
workspace), `ClaimsHeld` (a lane holds a row exactly while its head is a drain past the claim,
and the row is inflight and of the drain's tab), `InflightHeld` (while the daemon runs, every
inflight row is held) and `DownIsIdle`. Two drains never hold one row because a row belongs to
one tab and a tab to one workspace (`ClaimHome`). The proof goes by the effect of a step on the
lanes (six lemmas from `IdleStep` to `ClaimStep`), then by handler; before it there is one lemma
for each action on `TypeOK`.

`PromptQueue_safety.tla` proves, from the same assumption, the promises of the queue:

- `OrderIsKept`: `Spec => InOrder` (first in, first out in each tab; no `send` passes a prompt that
  waits; one queued turn for each edge).
- `CopiesAreExplained`: `Spec => []DuplicatesExplained`; `AcceptedStays`: `Spec => []AcceptedIsDurable`.
- `FrozenIsLeftAlone`: `Spec => FrozenHolds`.
- `QueueIsOutbox`: `Spec => ImplementsOutbox`, the refinement of `Outbox`.
- `Safe`: `Spec => []SInv`, the inductive invariant behind all five.

None of them is inductive: what keeps the order and the pace is what each handler still knows when it
wakes from an await. `SInv` is `IInv` and, for each workspace, `Work(w)`, in four parts. `LaneOK(w)`:
past its first check the task at the head works on a usable tab; a drain at `deliver` has had no turn
since the edge and holds the oldest live row of its tab; an input at `pty` has no receipt and, if it is
a plain `send`, no row before it. `RowOK(w, i)`: the copies of a row stay within the crashes and
failures, one more while its drain is between paste and settlement, and nothing older is live once it
was pasted. `TabOK(w, t)`: a turn started since the last edge shows in the status, or the task that
started it is about to write it. `ReqOK(w, r)`: rows and pastes of a request stay within the crashes and
failures, one more once it has a receipt or its handler is past the effect. The argument rests on the
lane: `Elsewhere` shows once that a step of the lane of w (`KeptElsewhere(w)`) keeps the work of every
other workspace, so that each handler is only asked about its own (`...Work`); the poller, the engines
and the clients, which no lane serialises, keep all of it (`QuietStep`). `SInv` was first checked by TLC
under the constants of `MCOrder`, `MCCrash` and `MCFreeze`. The refinement is one lemma for each action of
`Outbox` (`BoxPosts`, `BoxHands`, `BoxSettles`, `BoxDiscards`); a crash and `recoverInflight` stutter.

`Lifecycle_proofs.tla` proves, for any names, operations and bounds, from `LifecycleAssumption`
only:

- `TypeCorrect`: `Spec => []TypeOK`.
- `KeepsWork`: `Spec => WorkIsKept`, and `KeepsAdopted`: `Spec => AdoptedIsNotOurs`.
- `ForceHolds`: `Spec => []ForceIsDurable`, and `ArchiveIsQuiet`: `Spec => []ArchivedIsQuiet`.
- `KeepsContract`: `Spec => ImplementsContract`, the refinement of `WorkspaceContract`.
- `Invariant`: `Spec => []Inv`, the inductive invariant behind all of them.

None of these is inductive: an archive may remove a dirty tree only because the row's `force` is
what the user agreed to, and that only because nothing but this archive is under way. `Inv`
says of each place the lane can stand at what holds there: `Placed` (which steps belong to which
operation), `Owned` (a foreign worktree is never provisioned, guarded or removed, and a retry
never meets an adoption), `Rowed` (the status during each operation), `Treed` (where the
worktree is known to be there or gone), `Agreed` (force, the request's force and consent are
the same while they matter) and `Quiet` (no session past the kill of an archive). There is one
lemma for each part, with one case for each group of steps. The refinement then needs no more
than `Inv`: `MovesContract` for a step that moves the row, `AnswersContract` for the end of an
operation, `RemovesContract` for a removal, `Stutters` for the rest.

- `PromptsOnce`: `Spec => []PromptedOnce`, and `RecordsHold`: `Spec => []RecordsAreTrue`, from
  `Truth`: `Spec => []TruthInv`. `TruthInv` is `Inv` and, for each place of the lane, what has been
  prompted by then (`Told`), how far a rollback or a delete has come while no call has failed
  (`RolledBack`), that the tab row is there from before the engine starts until after it ended
  (`Tabbed`), and which name of the branch is the one that is checked out, also while a rename is
  under way (`Branched`).

`Services_proofs.tla`, for any number of processes, commands, generations, workspaces and requests:

- `RunsTyped`: `RunsSpec => []RunsTypeOK`, and `OneRun`: `RunsSpec => []OneProcess`. The property is
  inductive: whatever a step puts in the place of the entry, the processes it displaces have strayed
  (`ReentersAlone`).
- `RepliesAreTheirs`: `ControlSpec => []RepliesMatch`. The daemon matches replies by counting, so the
  invariant is about the count: the replies that are due from the child that is connected are, in
  order, the lines in its pipe and then the commands it has not run (`InStep`, over any length of
  both); a command is asked of one child, once, and none that was told an outcome is run afterwards
  (`AskedOnce`, `AskedIsUnrun`).
- `ServesAlone`: `DaemonSpec => []SoleUnlessRobbed`. A process wins by the `link` alone, and as long as no
  live registration was removed the file names the one that won, from then until it hangs up (`Won`).
- `CollectorTells`: `CollectingSpec => []CollectingKeeps`. A collection lists no deleted workspace, so a
  snapshot that is stored has a status (`ListedAs`).

`Tasks_proofs.tla`, for any number of files, versions, scripts, tasks, keys and ends of the daemon:

- `CkInvariant`, and from it `KeepsCheckpoints`: `CheckpointsSpec => []CheckpointsKeep`. The property speaks
  of refs that exist; the invariant adds what a checkpoint under way has taken so far (`Taken`: each read
  is no older than the request, because edits and commits only add), that ids are given out once and that
  a ref under way is not told of (`Numbered`), and the agreement of refs and events but for the id under
  way and those whose request failed or was cut off between ref and event (`Told`).
- `ActsOncePerKey`: `ReceiptsSpec => []OncePerKey`. A receipt is that of an effect under its key and body and
  lasts as long as the effect says, and what lasts yet has its receipt (`Backed`); a request that was
  admitted finds nothing that lasts under its key (`Cleared`), which the lane keeps so until it has acted.
- `ProvisionInvariant`, and from it `SetsUpCompletely`: `ProvisionSpec => []SetupIsComplete` and `RecopySpares`:
  `ProvisionSpec => OwnWritesKept`. The scripts that ran and those the runner has left are all of them, and
  init is among them unless its marker stands (`Along`); the time of one script is that of the daemon that
  waits for it (`Timed`); a recopy that is not forced plans no file that was there (`Owned`).
- `FinishesTruly`: `FinishSpec => []FinishIsTrue`. Branches only grow, nobody has more of a task than its branch
  has (`Grown`), and what a request has seen of its pull request and of the checkout is so until it merges
  (`PrMade`, `OnBase`).

- `BoardIsKept`: `BoardSpec => []BoardHolds`. What an accepted list named has its place in the list as its rank,
  and a task that came later the time at which it came, which is more than any place because a list is no longer
  than the tasks there were (`Ranked`). For that a list under way names no task twice (`IsList`), also after the
  drag took one out and put it elsewhere (`PutIsList`). A free block of ports exists among one more than the rows.

`TabWindows_proofs.tla`, for any number of tabs and windows:

- `HealsAll`: `TabsSpec => []EnsureHeals` and `TabsApart`: `TabsSpec => []TabsStayApart`. While nobody disturbs,
  rows that name the same window are the same row (`Distinct`), what runs in a row's window is its own
  (`Own`), the window made for a tab is kept for it until its row says so (`Reserved`), and while a window is
  made all rows but those of the request have theirs (`Healed`). `Healed` says nothing of a lane that is free:
  a heal that failed leaves rows whose windows are not there, and the next ensure takes them up. Resuming them
  in the order of their numbers is what keeps `Distinct`: the lowest free number is none that a later row
  names. It exists because the indices are more than the tabs (`WFMin` on the naturals picks the least).
- `ZenIsLeft`: `LayoutSpec => ZenReturns`, an action property. While a workspace is in zen and nothing went
  wrong, the tab to restore is the one that was in front (`Remembers`), whatever heals renumber and wherever
  they stop.

`Screens_proofs.tla`, for any number of tasks, actions, chords, entries, pages and instances:

- `DialogsAreTrue`: `DialogsSpec => []DialogsHold`. The stack holds nothing that is not on the screen, and the
  guide exactly while it is shown (`Sound`).
- `KeysAreTrue`: `KeysSpec => []KeysHold`. A window has chords that it would take over again (`Accepted`) and the
  storage those of the window that saved last (`Found`).
- `TranscriptIsTrue`: `TranscriptsSpec => []TranscriptHolds`. A page under way that was answered without a reset is
  an unbroken run that begins where its cursor stood (`Fits`); the entry before every cursor, also of those under
  way, is on the screen unless requests overlapped (`Chained`).
- `CreationIsTrue`: `FanoutSpec => []CreationIsReported`. What each request may find of its row (`RequestsFit`),
  that nobody else asks about a row whose maker has not heard of it and that one request runs for a row
  (`Alone`), what is said of a row in the events that are not heard yet (`NewsFits`: of a row that never failed
  no stage it has not reached, and its end last), and what an instance has made by then (`InstancesFit`).

`Windows_proofs.tla`, for any number of daemons, tabs and engines: `EnginesAreTrue`: `EnginesSpec => []EnginesHold`.
Migrations are applied in their order and a daemon knows of none that is not (`InOrderOf`), each did what it does
once (`Done`), the row a tab names stands for what its user meant, the renamed built-in included (`MeantIs`), and
a daemon that was not overtaken has the registry of the rows as they are (`InStep`).

The same module, for any number of workspaces, projects, words, messages, connections, views and keys:

- `WordsAreKept`: `ComposerSpec => []WordsKept`. Whatever may still reach a workspace (a text, a draft, what is on
  its way) holds only words of its place, and a dispatch is always from a project (`AtHome`); the composer's text
  replaces the draft of its place when the user leaves, so there a word is safe only if it is in that text (`Kept`).
- `TerminalIsKept`: `TerminalSpec => []TerminalKeeps`. On one connection what was typed waits for the set-up or was
  handed on, never both, and a view exists from the step that makes it (`Wire`). A connection that is open is the
  current one of its session, and a session that waits for the one before to close has no current one (`Owned`).
  For each session that waits there is a connection left that was not used (`Reserved`).

- `StoresAreTrue`: `StoresSpec => []StoresConverge`, for any number of events, requests, reconnects and lost answers.
  What a window was told of is in its inbox and its lists, or an answer that knows of it is to come (`ListsRight`,
  `NoneMissing`), or it is owed; no snapshot is older than the session (`BootsFit`), which is what makes the events
  before `began` safe to pass over; an acknowledgement that was answered is in the log (`AcksMeant`); and the last
  check of a wait that streams, or one to come, is as new as what it was told (`WaitsRight`). Requests are a bag: that an
  exchange takes away what was answered once, and nothing else, is `ExchangeIs`.

Each inductive invariant was first checked by TLC under the constants of the run of its component.
No theorem uses an assumption other than the `ASSUME` of its module, which TLC evaluates in the
runs.

Every invariant that a run checks is proved. Only model-checked is
what is out of the provers' reach. The refinement of `Follower` by `EventStream` is: its promise includes
liveness, and its safety part is about `SelectSeq` and folds over the log, whose
values for every log need an induction over data. So are all properties under fairness
(`MCLive.cfg`, `LcLive.cfg`, `Services.cfg`). No recursive operator is used.

## Not modelled

- `packages/protocol`: declarations and decoding, without state.
- What is drawn: components without state of their own, themes, languages, diffs, the file tree.
- Formats of third parties (hook payloads, transcripts, `git` and `gh` output), geometry strings,
  titles and session ids.
- The eviction and the clean-up of receipts (`cleanupExpired`, `clearWorkspace`, which only tests call), the
  clean-up of old events and attachments, the SQL schema.
- Build scripts, packaging, the updater and the window management of the Tauri shell.

## Plan

1. A composition of `PromptQueue` with `TabWindows`, in which a heal moves the window under a
   delivery.

## How to run

    tlc -config MCCrash.cfg MCPromptQueue.tla
    tlc -config LcFail.cfg MCLifecycle.tla
    tlc -config Services.cfg MCServices.tla
    tlapm PromptQueue_proofs.tla

and likewise for the other cfgs (`Tasks` and `Desktop` with the module of the same name
after `MC`; `Daemons.cfg` with `Daemon.tla`, `Heal.cfg` with `TabWindows.tla`) and the other modules named `..._proofs`
and `PromptQueue_safety`.
