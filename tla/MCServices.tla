----------------------------- MODULE MCServices -----------------------------
(***************************************************************************)
(* One TLC run for five components that share no state: the claim of the   *)
(* daemon, the event stream, the run scripts, the tmux control channel and *)
(* the collector.  Each behaviour is one of one of them; the others stay   *)
(* in an initial state.  The fairness of each component is what its module *)
(* states, for the behaviours in which it runs.                            *)
(***************************************************************************)
EXTENDS Daemon, EventStream, Runs, TmuxControl, Collecting

CONSTANTS d1, d2, g1, reader, w1, w2

VARIABLE part   \* the component that runs

Parts == {"daemon", "stream", "runs", "control", "collecting"}
allVars == <<part, daemonVars, streamVars, runVars, controlVars, collectVars>>

ServicesInit ==
  /\ part \in Parts
  /\ DaemonInit /\ StreamInit /\ RunsInit /\ ControlInit /\ CollectingInit
  /\ part = "daemon" \/ <<info, lock, sock>> = <<NoOne, NoOne, NoOne>>
  /\ part = "collecting" \/ (watched = "panel" /\ \A w \in Workspaces : world[w].status = "active")

ServicesNext ==
  /\ UNCHANGED part
  /\ \/ part = "daemon" /\ DaemonNext /\ UNCHANGED <<streamVars, runVars, controlVars, collectVars>>
     \/ part = "stream" /\ StreamNext /\ UNCHANGED <<daemonVars, runVars, controlVars, collectVars>>
     \/ part = "runs" /\ RunsNext /\ UNCHANGED <<daemonVars, streamVars, controlVars, collectVars>>
     \/ part = "control" /\ ControlNext /\ UNCHANGED <<daemonVars, streamVars, runVars, collectVars>>
     \/ part = "collecting" /\ CollectingNext /\ UNCHANGED <<daemonVars, streamVars, runVars, controlVars>>

ServicesSpec ==
  /\ ServicesInit /\ [][ServicesNext]_allVars
  /\ \A d \in Daemons : WF_daemonVars(part = "daemon" /\ Works(d))
  /\ \A g \in Guis : WF_daemonVars(part = "daemon" /\ Seeks(g))
  /\ \A r \in Readers : WF_streamVars(part = "stream" /\ Follows(r))
  /\ WF_collectVars(part = "collecting" /\ Ticks)
  /\ WF_collectVars(part = "collecting" /\ CollectsAll)
=============================================================================
