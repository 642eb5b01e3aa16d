------------------------------- MODULE Daemon -------------------------------
(***************************************************************************)
(* The processes of coolie-server and the three files by which they find   *)
(* each other: server.json, its claim lock and the unix socket.  Several   *)
(* processes may start at once (a desktop window, a command line and a     *)
(* user each start one when they find none), one of them is to serve, the  *)
(* windows hold it by leases, and it leaves when the last window has been  *)
(* away for the grace period.  `coolie reset` stops it and wipes the files.*)
(*                                                                         *)
(* A file system call is one step: other processes act between any two.    *)
(* A process that ended may be started again; it is then another process,  *)
(* with a new pid and a new token, and what the files say of it is stale.  *)
(***************************************************************************)
EXTENDS Naturals, FiniteSets

CONSTANTS
  Daemons,     \* processes of the server
  Guis,        \* desktop windows
  NoOne, Stale,   \* no file; a file that names a process that is gone
  MaxMishaps   \* bound: crashes, stops, resets, and answers that come too late (after
               \* 500 ms for /health, after 10 s for the lock)

ASSUME DaemonAssumption ==
  /\ {NoOne, Stale} \cap Daemons = {}
  /\ NoOne # Stale
  /\ MaxMishaps \in Nat

VARIABLES
  info, lock, blank, sock,    \* server.json, the claim lock, whether it is still empty, coolie.sock
  pc, round, won, timer,      \* of each process
  mode, peer,                 \* of each window
  reset, victim,              \* coolie reset: its step and the daemon it stops
  robbed, mishaps             \* history: a live registration was removed by another; budget

files == <<info, lock, blank, sock>>
procs == <<pc, round, won, timer>>
clients == <<mode, peer>>
resetting == <<reset, victim>>
daemonVars == <<files, procs, clients, resetting, robbed, mishaps>>

-----------------------------------------------------------------------------
Files == Daemons \cup {NoOne, Stale}
Steps == {"dead", "start", "sweep", "reconcile", "lock", "lockText", "breakLock",
          "link", "evict", "unlock", "serve", "leave", "closing"}

Alive(d) == pc[d] # "dead"
Gone(x) == x = Stale \/ (x \in Daemons /\ ~Alive(x))
Serving == {d \in Daemons : pc[d] \in {"serve", "leave"}}

\* A process answers /health from the moment it listens until it closes.
Answers(x) ==
  x \in Daemons /\ pc[x] \in {"lock", "lockText", "breakLock", "link", "evict", "unlock", "serve", "leave"}

Holders(d) == {g \in Guis : mode[g] = "online" /\ peer[g] = d}

InTime == UNCHANGED mishaps
Mishap == mishaps < MaxMishaps /\ mishaps' = mishaps + 1

\* probeAlive: the process and /health answer in time.
Probe(x, alive) ==
  \/ alive = Answers(x) /\ InTime
  \/ ~alive /\ Answers(x) /\ Mishap

Go(d, step) == pc' = [pc EXCEPT ![d] = step]

\* rmSync(server.json), by whoever believes that it is stale.
RemoveInfo(d) ==
  /\ info' = NoOne
  /\ robbed' = (robbed \/ (info \in Daemons \ {d} /\ Alive(info)))

\* The streams of the windows of d end: each of them looks for a server again.
Hangup(d) ==
  /\ mode' = [g \in Guis |-> IF peer[g] = d THEN "seek" ELSE mode[g]]
  /\ peer' = [g \in Guis |-> IF peer[g] = d THEN NoOne ELSE peer[g]]

-----------------------------------------------------------------------------
(* A process starts.                                                        *)

Renamed(file, d) == IF file = d THEN Stale ELSE file

\* Another process, with another pid and token, in the place of one that is gone.
Spawned(d) ==
  /\ pc[d] = "dead"
  /\ Go(d, "start")
  /\ info' = Renamed(info, d)
  /\ lock' = Renamed(lock, d)
  /\ sock' = Renamed(sock, d)
  /\ round' = [round EXCEPT ![d] = 0]
  /\ won' = [won EXCEPT ![d] = FALSE]
  /\ timer' = [timer EXCEPT ![d] = "off"]
  /\ UNCHANGED blank

\* A command line that finds no server starts one, and a user may at any time.
CliSpawn(d) ==
  /\ Spawned(d)
  /\ UNCHANGED <<clients, resetting, robbed, mishaps>>

\* cmdStart looks at server.json outside the lock.
LookAround(d) ==
  /\ pc[d] = "start"
  /\ IF info = NoOne
     THEN Go(d, "reconcile") /\ InTime
     ELSE \/ Probe(info, TRUE) /\ Go(d, "dead")
          \/ Probe(info, FALSE) /\ Go(d, "sweep")
  /\ UNCHANGED <<files, round, won, timer, clients, resetting, robbed>>

Sweep(d) ==
  /\ pc[d] = "sweep"
  /\ RemoveInfo(d)
  /\ Go(d, "reconcile")
  /\ UNCHANGED <<lock, blank, sock, round, won, timer, clients, resetting, mishaps>>

\* Migrations, reconcileArchives, hook scripts, the poller; then the TCP socket listens.
Reconcile(d) ==
  /\ pc[d] = "reconcile"
  /\ Go(d, "lock")
  /\ UNCHANGED <<files, round, won, timer, clients, resetting, robbed, mishaps>>

-----------------------------------------------------------------------------
(* claimServerInfo                                                          *)

TakeLock(d) ==
  /\ pc[d] = "lock"
  /\ lock = NoOne
  /\ lock' = d
  /\ blank' = TRUE
  /\ Go(d, "lockText")
  /\ UNCHANGED <<info, sock, round, won, timer, clients, resetting, robbed, mishaps>>

\* The text goes to the file that was opened, which may no longer be the one at the path.
WriteLock(d) ==
  /\ pc[d] = "lockText"
  /\ blank' = (blank /\ lock # d)
  /\ Go(d, "link")
  /\ round' = [round EXCEPT ![d] = 1]
  /\ UNCHANGED <<info, lock, sock, won, timer, clients, resetting, robbed, mishaps>>

\* A lock is stale when it has no readable owner, a dead one, or is ten seconds old.
FindLock(d) ==
  /\ pc[d] = "lock"
  /\ lock # NoOne
  /\ \/ (Gone(lock) \/ blank) /\ InTime /\ Go(d, "breakLock")
     \/ ~Gone(lock) /\ Mishap /\ Go(d, "breakLock")
     \/ ~Gone(lock) /\ ~blank /\ InTime /\ Go(d, "dead")    \* fifty attempts
  /\ UNCHANGED <<files, round, won, timer, clients, resetting, robbed>>

BreakLock(d) ==
  /\ pc[d] = "breakLock"
  /\ lock' = NoOne
  /\ blank' = FALSE
  /\ Go(d, "lock")
  /\ UNCHANGED <<info, sock, round, won, timer, clients, resetting, robbed, mishaps>>

\* As Link, but server.json is renamed into place over whatever is there.
Link_Overwrites(d) ==
  /\ pc[d] = "link"
  /\ info' = d /\ won' = [won EXCEPT ![d] = TRUE] /\ Go(d, "unlock")
  /\ UNCHANGED <<lock, blank, sock, round, timer, clients, resetting, robbed, mishaps>>

Link(d) ==
  /\ pc[d] = "link"
  /\ IF info = NoOne
     THEN info' = d /\ won' = [won EXCEPT ![d] = TRUE] /\ Go(d, "unlock") /\ InTime
     ELSE /\ \/ Probe(info, TRUE) /\ Go(d, "unlock")
             \/ Probe(info, FALSE) /\ Go(d, "evict")
          /\ UNCHANGED <<info, won>>
  /\ UNCHANGED <<lock, blank, sock, round, timer, clients, resetting, robbed>>

Evict(d) ==
  /\ pc[d] = "evict"
  /\ RemoveInfo(d)
  /\ Go(d, IF round[d] < 2 THEN "link" ELSE "unlock")
  /\ round' = [round EXCEPT ![d] = @ + 1]
  /\ UNCHANGED <<lock, blank, sock, won, timer, clients, resetting, mishaps>>

\* The winner takes the unix socket, the loser exits.
Registers(d) == IF won[d] THEN Go(d, "serve") /\ sock' = d ELSE Go(d, "dead") /\ UNCHANGED sock

\* Only the own lock is removed.
Unlock(d) ==
  /\ pc[d] = "unlock"
  /\ lock' = IF lock = d THEN NoOne ELSE lock
  /\ Registers(d)
  /\ UNCHANGED <<info, blank, round, won, timer, clients, resetting, robbed, mishaps>>

-----------------------------------------------------------------------------
(* The end of a process.                                                    *)

\* shutdown: it removes server.json whoever is named there, and hangs up.
Shutdown(d) ==
  /\ Answers(d)
  /\ RemoveInfo(d)
  /\ Hangup(d)
  /\ Go(d, "closing")
  /\ timer' = [timer EXCEPT ![d] = "off"]
  /\ UNCHANGED <<lock, blank, sock, round, won>>

\* POST /shutdown of `coolie server stop`, or a signal, which also ends a process that has not
\* registered yet.  (What that process would still do to its lock and link before it is gone,
\* a crash after those steps leaves behind.)
Stop(d) ==
  /\ Mishap
  /\ Shutdown(d)
  /\ UNCHANGED <<resetting>>

\* As TimerFires, but the write to the event log throws and nothing stops the server.
TimerFires_LogFails(d) ==
  /\ pc[d] = "serve"
  /\ timer[d] = "armed"
  /\ timer' = [timer EXCEPT ![d] = "fired"]
  /\ UNCHANGED <<files, pc, round, won, clients, resetting, robbed, mishaps>>

\* The grace period is over: the exit is written to the event log first.
TimerFires(d) ==
  /\ pc[d] = "serve"
  /\ timer[d] = "armed"
  /\ timer' = [timer EXCEPT ![d] = "fired"]
  /\ Go(d, "leave")
  /\ UNCHANGED <<files, round, won, clients, resetting, robbed, mishaps>>

IdleExit(d) ==
  /\ pc[d] = "leave"
  /\ Shutdown(d)
  /\ UNCHANGED <<resetting, mishaps>>

\* Connections are closed, or two seconds are over; the socket file goes last.
Exit(d) ==
  /\ pc[d] = "closing"
  /\ sock' = NoOne
  /\ Go(d, "dead")
  /\ UNCHANGED <<info, lock, blank, round, won, timer, clients, resetting, robbed, mishaps>>

Crash(d) ==
  /\ Alive(d)
  /\ Mishap
  /\ Hangup(d)
  /\ Go(d, "dead")
  /\ UNCHANGED <<files, round, won, timer, resetting, robbed>>

-----------------------------------------------------------------------------
(* A window: ensureServer, the event stream with role gui, and its lease.   *)

GuiOpens(g) ==
  /\ mode[g] = "off"
  /\ mode' = [mode EXCEPT ![g] = "seek"]
  /\ UNCHANGED <<files, procs, peer, resetting, robbed, mishaps>>

\* Found and healthy: dial it.
GuiFinds(g) ==
  /\ mode[g] \in {"seek", "wait"}
  /\ Probe(info, TRUE)
  /\ mode' = [mode EXCEPT ![g] = "dial"]
  /\ peer' = [peer EXCEPT ![g] = info]
  /\ UNCHANGED <<files, procs, resetting, robbed>>

GuiSpawns(g) ==
  /\ mode[g] = "seek"
  /\ Probe(info, FALSE)
  /\ \E d \in Daemons : Spawned(d)
  /\ mode' = [mode EXCEPT ![g] = "wait"]
  /\ UNCHANGED <<peer, resetting, robbed>>

\* As GuiGivesUp, but the error of ensureServer ends the stream.
GuiGivesUp_ForGood(g) ==
  /\ mode[g] = "wait"
  /\ Probe(info, FALSE)
  /\ mode' = [mode EXCEPT ![g] = "off"]
  /\ UNCHANGED <<files, procs, peer, resetting, robbed>>

\* Ten seconds without a healthy server: ensureServer throws and the stream tries again.
GuiGivesUp(g) ==
  /\ mode[g] = "wait"
  /\ Probe(info, FALSE)
  /\ mode' = [mode EXCEPT ![g] = "seek"]
  /\ UNCHANGED <<files, procs, peer, resetting, robbed>>

\* GET /events/stream?role=gui registers the lease and calls the grace timer off.
GuiDials(g) ==
  /\ mode[g] = "dial"
  /\ mode' = [mode EXCEPT ![g] = "online"]
  /\ timer' = [timer EXCEPT ![peer[g]] = IF @ = "armed" THEN "off" ELSE @]
  /\ UNCHANGED <<files, pc, round, won, peer, resetting, robbed, mishaps>>

\* The window closes: release, and the timer is armed by the last one.
GuiCloses(g) ==
  /\ mode[g] = "online"
  /\ mode' = [mode EXCEPT ![g] = "off"]
  /\ peer' = [peer EXCEPT ![g] = NoOne]
  /\ LET d == peer[g] IN
     timer' = [timer EXCEPT ![d] = IF Holders(d) = {g} /\ @ # "fired" THEN "armed" ELSE @]
  /\ UNCHANGED <<files, pc, round, won, resetting, robbed, mishaps>>

-----------------------------------------------------------------------------
(* coolie reset: stop the daemon, wait for its end, look again, wipe.       *)

ResetStops ==
  /\ reset = "none"
  /\ Mishap
  /\ IF info \in Daemons /\ Alive(info)
     THEN /\ victim' = info
          /\ reset' = "wait"
          /\ IF info \in Serving
             THEN Shutdown(info)
             ELSE UNCHANGED <<files, procs, clients, robbed>>
     ELSE /\ reset' = "recheck"
          /\ UNCHANGED <<files, procs, clients, robbed, victim>>

ResetWaits ==
  /\ reset = "wait"
  /\ reset' = IF Alive(victim) THEN "none" ELSE "recheck"
  /\ victim' = NoOne
  /\ UNCHANGED <<files, procs, clients, robbed, mishaps>>

ResetRechecks ==
  /\ reset = "recheck"
  /\ reset' = IF info \in Daemons /\ Alive(info) THEN "none" ELSE "wipe"
  /\ UNCHANGED <<files, procs, clients, victim, robbed, mishaps>>

ResetWipes ==
  /\ reset = "wipe"
  /\ reset' = "none"
  /\ RemoveInfo(NoOne)
  /\ sock' = NoOne
  /\ UNCHANGED <<lock, blank, procs, clients, victim, mishaps>>

-----------------------------------------------------------------------------
\* The files may be what a crash left behind before.
DaemonInit ==
  /\ info \in {NoOne, Stale} /\ lock \in {NoOne, Stale} /\ sock \in {NoOne, Stale}
  /\ blank = FALSE
  /\ pc = [d \in Daemons |-> "dead"]
  /\ round = [d \in Daemons |-> 0]
  /\ won = [d \in Daemons |-> FALSE]
  /\ timer = [d \in Daemons |-> "off"]
  /\ mode = [g \in Guis |-> "off"]
  /\ peer = [g \in Guis |-> NoOne]
  /\ reset = "none" /\ victim = NoOne
  /\ robbed = FALSE
  /\ mishaps = 0

Works(d) ==
  \/ LookAround(d) \/ Sweep(d) \/ Reconcile(d)
  \/ TakeLock(d) \/ WriteLock(d) \/ FindLock(d) \/ BreakLock(d)
  \/ Link(d) \/ Evict(d) \/ Unlock(d)
  \/ TimerFires(d) \/ IdleExit(d) \/ Exit(d)

Seeks(g) == GuiFinds(g) \/ GuiSpawns(g) \/ GuiGivesUp(g) \/ GuiDials(g)

Resets == ResetStops \/ ResetWaits \/ ResetRechecks \/ ResetWipes

DaemonNext ==
  \/ \E d \in Daemons : Works(d) \/ CliSpawn(d) \/ Stop(d) \/ Crash(d)
  \/ \E g \in Guis : Seeks(g) \/ GuiOpens(g) \/ GuiCloses(g)
  \/ Resets

DaemonSpec == DaemonInit /\ [][DaemonNext]_daemonVars

\* Processes and windows go on; nobody has to open or close a window, start, stop or crash.
DaemonFairness ==
  /\ \A d \in Daemons : WF_daemonVars(Works(d))
  /\ \A g \in Guis : WF_daemonVars(Seeks(g))

-----------------------------------------------------------------------------
DaemonTypeOK ==
  /\ {info, lock, sock} \subseteq Files
  /\ blank \in BOOLEAN
  /\ pc \in [Daemons -> Steps]
  /\ round \in [Daemons -> 0..3]
  /\ won \in [Daemons -> BOOLEAN]
  /\ timer \in [Daemons -> {"off", "armed", "fired"}]
  /\ mode \in [Guis -> {"off", "seek", "wait", "dial", "online"}]
  /\ peer \in [Guis -> Daemons \cup {NoOne}]
  /\ reset \in {"none", "wait", "recheck", "wipe"}
  /\ victim \in Daemons \cup {NoOne}
  /\ robbed \in BOOLEAN
  /\ mishaps \in 0..MaxMishaps

\* One daemon serves and server.json names it, whichever processes start, crash and break
\* each other's lock, unless somebody removed a registration that was alive: the claim
\* itself never lets a second one in (linkSync and the probe behind it).
SoleUnlessRobbed == ~robbed => \A d \in Serving : Serving = {d} /\ info = d

\* A window that lost its daemon, or found none, is online again in the end, whatever
\* starts, crashes and stops on the way.  (After a registration was removed all processes
\* of the instance may be running unregistered, and none is left to start.)
WindowsReconnect == \A g \in Guis : mode[g] = "seek" ~> mode[g] = "online" \/ robbed

\* A daemon whose last window stays away leaves: leases end with their connection, so no
\* window that crashed or closed keeps it, and only a window calls the timer off.
IdleDaemonLeaves == \A d \in Daemons : timer[d] = "armed" ~> ~Alive(d) \/ Holders(d) # {}

\* What the comment of claimServerInfo says: probing, clearing and publishing are serialised,
\* so there is one instance.
OneDaemon == Cardinality(Serving) <= 1
=============================================================================
