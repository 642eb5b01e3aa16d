-------------------------------- MODULE Runs --------------------------------
(***************************************************************************)
(* The run scripts of a workspace (runs/manager.ts): one script, the       *)
(* processes that were started for it, the entry of the daemon's map and   *)
(* the row of the database.  The panel of a window asks for the list every *)
(* three seconds.  A process outlives the daemon that spawned it, for it   *)
(* is detached; what it prints and its exit then reach nobody.             *)
(***************************************************************************)
EXTENDS Naturals, FiniteSets

CONSTANTS
  MaxRuns,       \* bound: processes spawned for the script
  MaxRestarts    \* bound: ends of the daemon

ASSUME RunsAssumption == {MaxRuns, MaxRestarts} \subseteq Nat

VARIABLES
  living,      \* the processes that are alive
  spawned,     \* how many were spawned
  children,    \* those whose output and exit reach the daemon
  entry,       \* the daemon's map: process and status of its record
  row,         \* the status in run_instances
  stopping,    \* processes that a stop waits 200 ms for
  strayed,     \* history: processes the map lost sight of: a restart, or an older
               \* process or a stop put an entry over theirs
  restarts

runVars == <<living, spawned, children, entry, row, stopping, strayed, restarts>>

-----------------------------------------------------------------------------
Procs == 1..MaxRuns
NoEntry == [pid |-> 0, status |-> "none"]
Running == "running"
Ended == {"exited", "error"}

Displaced(p) == ({entry.pid} \ {p}) \cap living

\* active.set
Enter(p, status) == entry' = [pid |-> p, status |-> status]

\* As RunStarts, but it trusts the row of the database and not the process.
RunStarts_ByRow ==
  /\ row # Running
  /\ spawned < MaxRuns
  /\ spawned' = spawned + 1
  /\ living' = living \cup {spawned'}
  /\ children' = children \cup {spawned'}
  /\ Enter(spawned', Running)
  /\ row' = Running
  /\ UNCHANGED <<stopping, strayed, restarts>>

\* start: a run whose process lives is returned as it is.
RunStarts ==
  /\ entry.pid \notin living
  /\ spawned < MaxRuns
  /\ spawned' = spawned + 1
  /\ living' = living \cup {spawned'}
  /\ children' = children \cup {spawned'}
  /\ Enter(spawned', Running)
  /\ row' = Running
  /\ UNCHANGED <<stopping, strayed, restarts>>

\* The callbacks of a stray process, and of one that ended but whose pipes are still open,
\* put it in the place of the one that is entered.
Reenters(p, status) ==
  /\ Enter(p, status)
  /\ strayed' = IF p \in strayed \/ p \notin living THEN strayed \cup Displaced(p) ELSE strayed

\* Output is entered with the record of the start, whatever became of the run since.
RunPrints(p) ==
  /\ p \in children
  /\ Reenters(p, Running)
  /\ UNCHANGED <<living, spawned, children, row, stopping, restarts>>

\* exit: the map learns of it, the database does not.
RunEnds(p) ==
  /\ p \in living
  /\ living' = living \ {p}
  /\ IF p \in children
     THEN \E status \in Ended : Reenters(p, status)
     ELSE UNCHANGED <<entry, strayed>>
  /\ UNCHANGED <<spawned, children, row, stopping, restarts>>

\* The streams of a process that ended are closed.
RunCloses(p) ==
  /\ p \in children \ living
  /\ children' = children \ {p}
  /\ UNCHANGED <<living, spawned, entry, row, stopping, strayed, restarts>>

\* stop: what has ended is written down at once, else SIGHUP and 200 ms.
StopAsks ==
  /\ entry # NoEntry
  /\ IF entry.pid \in living
     THEN stopping' = stopping \cup {entry.pid} /\ UNCHANGED <<entry, row>>
     ELSE /\ row' = IF entry.status = "exited" THEN "exited" ELSE "error"
          /\ entry' = [entry EXCEPT !.status = row']
          /\ UNCHANGED stopping
  /\ UNCHANGED <<living, spawned, children, strayed, restarts>>

\* SIGTERM, and the run counts as ended; the map gets back the entry of the request.
StopEnds(p) ==
  /\ p \in stopping
  /\ stopping' = stopping \ {p}
  /\ Enter(p, "error")
  /\ strayed' = strayed \cup Displaced(p)
  /\ row' = "error"
  /\ UNCHANGED <<living, spawned, children, restarts>>

\* list, reconcile: a row that no living process stands for is closed.
RunsListed ==
  /\ row = Running
  /\ entry.pid \notin living
  /\ row' = "error"
  /\ entry' = NoEntry
  /\ UNCHANGED <<living, spawned, children, stopping, strayed, restarts>>

DaemonRestarts ==
  /\ restarts < MaxRestarts
  /\ restarts' = restarts + 1
  /\ children' = {} /\ stopping' = {}
  /\ entry' = NoEntry
  /\ strayed' = strayed \cup living
  /\ UNCHANGED <<living, spawned, row>>

-----------------------------------------------------------------------------
RunsInit ==
  /\ living = {} /\ spawned = 0 /\ children = {}
  /\ entry = NoEntry
  /\ row = "none"
  /\ stopping = {} /\ strayed = {}
  /\ restarts = 0

RunsNext ==
  \/ RunStarts \/ StopAsks \/ RunsListed \/ DaemonRestarts
  \/ \E p \in Procs : RunPrints(p) \/ RunEnds(p) \/ RunCloses(p) \/ StopEnds(p)

RunsSpec == RunsInit /\ [][RunsNext]_runVars

-----------------------------------------------------------------------------
RunsTypeOK ==
  /\ {living, children, stopping, strayed} \subseteq SUBSET Procs
  /\ spawned \in 0..MaxRuns
  /\ entry \in [pid : 0..MaxRuns, status : {"none", Running} \cup Ended]
  /\ row \in {"none", Running} \cup Ended
  /\ restarts \in 0..MaxRestarts

\* A script runs once: beside processes that strayed, when the daemon restarted, a stop and
\* a start overlapped or old output came in, only that of the entry lives, and stop finds it.
OneProcess == living \ strayed \subseteq {entry.pid}
=============================================================================
