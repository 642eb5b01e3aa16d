------------------------------ MODULE Terminal ------------------------------
(***************************************************************************)
(* An embedded terminal: the view of one tab in a window (terminal/        *)
(* Terminal.tsx, session.ts, socket.ts, resume.ts), its web sockets, and   *)
(* the handler of the server (http/ws.ts), which gives each connection a   *)
(* tmux session of its own, grouped with that of the workspace so that the *)
(* windows are shared, and attaches a PTY to it (pty/attach.ts).           *)
(*                                                                         *)
(* tmux destroys a window with the last session it is linked to.           *)
(***************************************************************************)
EXTENDS Naturals, FiniteSets, SequencesExt

CONSTANTS
  MaxSockets, MaxGroups, MaxKeys, MaxMishaps   \* bounds: connections, sessions that heal made,
               \* keystrokes, and failures of tmux, of the daemon and of the network

ASSUME TerminalAssumption == {MaxSockets, MaxGroups, MaxKeys, MaxMishaps} \subseteq Nat /\ MaxGroups # 0

VARIABLES
  group,      \* the tmux session of the workspace: a group of windows, 0 is none
  groups,     \* how many there were
  at,         \* the window of the tab
  archived,
  shown,      \* the window of the tab as the client knows it
  mounted,    \* the key of the session that the view shows
  sess,       \* client: for each key, the session kept for it
  recovery,   \* client: the resume under way, and the key it began with
  sock,       \* the connections
  leaked,     \* history: connections whose view outlived the daemon
  mishaps

termVars == <<group, groups, at, archived, shown, mounted, sess, recovery, sock, leaked, mishaps>>
tmux == <<group, groups, at, archived>>
view == <<shown, mounted, recovery>>

-----------------------------------------------------------------------------
TabSlots == 0..1
Nowhere == 9
Sockets == 1..MaxSockets

NoSession == [state |-> "none", cur |-> 0, old |-> 0]
NoSocket == [client |-> "none", server |-> "none", key |-> 0, view |-> 0, cut |-> FALSE,
             sent |-> 0, came |-> 0, pend |-> <<>>, got |-> <<>>]

Fresh(ss) == CHOOSE k \in Sockets : ss[k] = NoSocket
\* A connection is kept for each reconnect that waits.
Room == Cardinality({k \in Sockets : sock[k] = NoSocket}) > Cardinality({i \in TabSlots : sess[i].old # 0})
Mishap == mishaps < MaxMishaps /\ mishaps' = mishaps + 1

Linked(g) == group = g \/ \E k \in Sockets : sock[k].view = g

\* The close handshake begins, from either side.
Ending(ss, k) ==
  IF k # 0 /\ ss[k].client \in {"connecting", "open"} THEN [ss EXCEPT ![k].client = "ending"] ELSE ss

\* A new generation of the socket of a session.
Opens(ses, ss, i) ==
  /\ sess' = [ses EXCEPT ![i].cur = Fresh(ss), ![i].old = 0]
  /\ sock' = [ss EXCEPT ![Fresh(ss)] = [NoSocket EXCEPT !.client = "connecting", !.key = i]]

-----------------------------------------------------------------------------
(* The client.                                                              *)

\* The view goes with its workspace; the session stays.
Unmounts ==
  /\ mounted # Nowhere
  /\ mounted' = Nowhere
  /\ UNCHANGED <<tmux, shown, sess, recovery, sock, leaked, mishaps>>

\* The effect of TerminalView: another key disposes of the session before.  A session that
\* is there is shown as it is.
Mounts ==
  /\ shown # Nowhere /\ mounted # shown
  /\ Room
  /\ LET ses == IF mounted = Nowhere THEN sess ELSE [sess EXCEPT ![mounted] = NoSession]
         ss == IF mounted = Nowhere THEN sock ELSE Ending(sock, sess[mounted].cur) IN
     IF ses[shown] = NoSession
     THEN Opens([ses EXCEPT ![shown].state = "connecting"], ss, shown)
     ELSE sess' = ses /\ sock' = ss
  /\ mounted' = shown
  /\ UNCHANGED <<tmux, shown, recovery, leaked, mishaps>>

\* reconnect: the old generation is isolated and closed, and its close event awaited.
Reconnect(i) ==
  LET ses == [sess EXCEPT ![i].state = "connecting"] IN
  CASE sess[i].old # 0 -> sess' = ses /\ UNCHANGED sock
    [] sess[i].old = 0 /\ sess[i].cur = 0 -> Room /\ Opens(ses, sock, i)
    [] OTHER -> /\ Room
                /\ sess' = [ses EXCEPT ![i].old = sess[i].cur, ![i].cur = 0]
                /\ sock' = Ending(sock, sess[i].cur)

\* The button of the banner.
Reconnects(i) ==
  /\ mounted = i /\ sess[i].state \in {"open", "exited", "dead"}
  /\ Reconnect(i)
  /\ UNCHANGED <<tmux, view, leaked, mishaps>>

\* resumeTab: respawned in its window, or heal made another session.
Healed ==
  IF group # 0 \/ archived THEN UNCHANGED tmux
  ELSE /\ groups < MaxGroups
       /\ groups' = groups + 1 /\ group' = groups + 1
       /\ at' \in TabSlots
       /\ UNCHANGED archived

ResumeAsks ==
  /\ recovery.step = "off" /\ mounted # Nowhere
  /\ sess[mounted].state \in {"exited", "dead"}
  /\ recovery' = [step |-> "ask", key |-> mounted]
  /\ UNCHANGED <<tmux, shown, mounted, sess, sock, leaked, mishaps>>

ResumeHeals ==
  /\ recovery.step = "ask"
  /\ Healed
  /\ recovery' = [recovery EXCEPT !.step = IF archived THEN "off" ELSE "refresh"]
  /\ UNCHANGED <<shown, mounted, sess, sock, leaked, mishaps>>

\* refreshTabs; the list is also read again upon events.
ReadsTabs ==
  /\ ~archived
  /\ shown' = at
  /\ recovery' = [recovery EXCEPT !.step = IF @ = "refresh" THEN "reconnect" ELSE @]
  /\ UNCHANGED <<tmux, mounted, sess, sock, leaked, mishaps>>

\* The closure still has the key of the render in which the button was pressed.
ResumeReconnects ==
  /\ recovery.step = "reconnect"
  /\ recovery' = [recovery EXCEPT !.step = "off"]
  /\ Reconnect(recovery.key)
  /\ UNCHANGED <<tmux, shown, mounted, leaked, mishaps>>

\* workspace.archived: the sessions of the workspace are disposed of, the view goes.
HearsArchived ==
  /\ archived /\ shown # Nowhere
  /\ shown' = Nowhere /\ mounted' = Nowhere
  /\ sess' = [i \in TabSlots |-> NoSession]
  /\ sock' = [k \in Sockets |-> IF \E i \in TabSlots : sess[i].cur = k THEN Ending(sock, k)[k] ELSE sock[k]]
  /\ UNCHANGED <<tmux, recovery, leaked, mishaps>>

\* onclose: the current generation ends; one that was replaced lets the next one open.
SeesClose(k) ==
  /\ sock[k].client = "ending"
  /\ LET ss == [sock EXCEPT ![k].client = "closed"] IN
     \/ /\ \E i \in TabSlots : sess[i].cur = k /\ sess' = [sess EXCEPT ![i].cur = 0,
              ![i].state = IF @ \in {"open", "connecting"} THEN "dead" ELSE @]
        /\ sock' = ss
     \/ \E i \in TabSlots : sess[i].old = k /\ Opens(sess, ss, i)
     \/ /\ \A i \in TabSlots : k \notin {sess[i].cur, sess[i].old}
        /\ sock' = ss /\ UNCHANGED sess
  /\ UNCHANGED <<tmux, view, leaked, mishaps>>

Types(k) ==
  /\ sock[k].client = "open" /\ \E i \in TabSlots : sess[i].cur = k
  /\ sock[k].sent < MaxKeys /\ \A j \in Sockets \ {k} : sock[j].sent = 0
  /\ sock' = [sock EXCEPT ![k].sent = @ + 1]
  /\ UNCHANGED <<tmux, view, sess, leaked, mishaps>>

-----------------------------------------------------------------------------
(* The handler of a connection.                                             *)

Serve(k, rec) == sock' = [sock EXCEPT ![k] = rec]
Here(k, step) == sock[k].server = step

\* ws.close(code), and the view, if there is one, is killed.
Refuse(k) ==
  Serve(k, [sock[k] EXCEPT !.server = "over", !.view = 0,
                           !.client = IF @ = "open" THEN "ending" ELSE @])

\* The upgrade; onopen of the current generation.
Accepts(k) ==
  /\ sock[k].client = "connecting"
  /\ Serve(k, [sock[k] EXCEPT !.client = "open", !.server = "resolve"])
  /\ sess' = [i \in TabSlots |-> IF sess[i].cur = k THEN [sess[i] EXCEPT !.state = "open"] ELSE sess[i]]
  /\ UNCHANGED <<tmux, view, leaked, mishaps>>

\* resolveSession, in the lane: ensure, then the window must be that of a tab.
Resolves(k) ==
  /\ Here(k, "resolve")
  /\ Healed
  /\ IF archived \/ at' # sock[k].key THEN Refuse(k)
     ELSE Serve(k, [sock[k] EXCEPT !.server = IF sock[k].cut THEN "over" ELSE "view"])
  /\ UNCHANGED <<view, sess, leaked, mishaps>>

\* new-session -t: in the group of the session, or, when that has ended, in what views keep of
\* the group, or the first of a group of its own.
Joined == {g \in 1..MaxGroups : IF group # 0 THEN g = group ELSE Linked(g)}
MakesView(k) ==
  /\ Here(k, "view")
  /\ \/ Mishap /\ Refuse(k) /\ UNCHANGED groups
     \/ \E g \in 1..MaxGroups :
          /\ IF Joined # {} THEN g \in Joined /\ UNCHANGED groups ELSE g = groups + 1 /\ groups' = g
          /\ Serve(k, [sock[k] EXCEPT !.server = "select", !.view = g])
          /\ UNCHANGED mishaps
  /\ UNCHANGED <<group, at, archived, view, sess, leaked>>

\* As AttachesView, but what was typed before is dropped.
AttachesView_DropsKeys(k) ==
  /\ Here(k, "select")
  /\ \/ sock[k].cut /\ Serve(k, [sock[k] EXCEPT !.server = "over", !.view = 0]) /\ UNCHANGED mishaps
     \/ ~sock[k].cut /\ sock[k].view # 0 /\ Serve(k, [sock[k] EXCEPT !.server = "ready", !.pend = <<>>])
                     /\ UNCHANGED mishaps
     \/ (Mishap \/ (sock[k].view # group /\ UNCHANGED mishaps)) /\ Refuse(k)
  /\ UNCHANGED <<tmux, view, sess, leaked>>

\* select-window and the PTY; what was typed before goes first.  A view that tmux has ended is
\* refused, and one of another group may be: it need not have a window of that number.
AttachesView(k) ==
  /\ Here(k, "select")
  /\ \/ sock[k].cut /\ Serve(k, [sock[k] EXCEPT !.server = "over", !.view = 0]) /\ UNCHANGED mishaps
     \/ /\ ~sock[k].cut /\ sock[k].view # 0
        /\ Serve(k, [sock[k] EXCEPT !.server = "ready", !.got = sock[k].pend, !.pend = <<>>])
        /\ UNCHANGED mishaps
     \/ (Mishap \/ (sock[k].view # group /\ UNCHANGED mishaps)) /\ Refuse(k)
  /\ UNCHANGED <<tmux, view, sess, leaked>>

Arrives(k) ==
  /\ sock[k].came < sock[k].sent
  /\ LET n == sock[k].came + 1 IN
     \/ Here(k, "ready") /\ Serve(k, [sock[k] EXCEPT !.came = n, !.got = Append(@, n)])
     \/ sock[k].server \in {"resolve", "view", "select"}
           /\ Serve(k, [sock[k] EXCEPT !.came = n, !.pend = Append(@, n)])
  /\ UNCHANGED <<tmux, view, sess, leaked, mishaps>>

\* close: what is not there yet is cleaned up by the set-up when it gets there.
HearsClose(k) ==
  /\ sock[k].client \in {"ending", "closed"} /\ ~sock[k].cut
  /\ sock[k].server \in {"resolve", "view", "select", "ready"}
  /\ Serve(k, IF Here(k, "ready") THEN [sock[k] EXCEPT !.cut = TRUE, !.server = "over", !.view = 0]
              ELSE [sock[k] EXCEPT !.cut = TRUE])
  /\ UNCHANGED <<tmux, view, sess, leaked, mishaps>>

-----------------------------------------------------------------------------
(* What happens to them.                                                    *)

\* teardownRuntime: kill-session of the workspace alone.
Archive ==
  /\ ~archived
  /\ archived' = TRUE /\ group' = 0
  /\ UNCHANGED <<groups, at, view, sess, sock, leaked, mishaps>>

\* tmux ends: no session is left, and each PTY sends its exit and closes.
TmuxDies ==
  /\ group # 0
  /\ Mishap
  /\ group' = 0
  /\ LET ptys == {k \in Sockets : Here(k, "ready")} IN
     /\ sock' = [k \in Sockets |-> [IF k \in ptys THEN Ending(sock, k)[k] ELSE sock[k] EXCEPT !.view = 0]]
     /\ sess' = [i \in TabSlots |-> IF sess[i].cur \in ptys /\ sess[i].state = "open"
                                   THEN [sess[i] EXCEPT !.state = "exited"] ELSE sess[i]]
  /\ UNCHANGED <<groups, at, archived, view, leaked>>

\* The connections end with the daemon and the views stay.
TermDaemonRestarts ==
  /\ Mishap
  /\ LET ended == {k \in Sockets : sock[k].server \in {"resolve", "view", "select", "ready"}} IN
     /\ sock' = [k \in Sockets |-> IF k \in ended THEN [Ending(sock, k)[k] EXCEPT !.server = "over"] ELSE sock[k]]
     /\ leaked' = leaked \cup {k \in ended : sock[k].view # 0}
  /\ UNCHANGED <<tmux, view, sess>>

\* The network, or a server that is away.
Breaks(k) ==
  /\ sock[k].client \in {"connecting", "open"}
  /\ Mishap
  /\ sock' = Ending(sock, k)
  /\ UNCHANGED <<tmux, view, sess, leaked>>

-----------------------------------------------------------------------------
TerminalInit ==
  /\ group = 1 /\ groups = 1 /\ at = 0 /\ archived = FALSE
  /\ shown = 0 /\ mounted = Nowhere
  /\ sess = [i \in TabSlots |-> NoSession]
  /\ recovery = [step |-> "off", key |-> 0]
  /\ sock = [k \in Sockets |-> NoSocket]
  /\ leaked = {}
  /\ mishaps = 0

Served(k) == Accepts(k) \/ Resolves(k) \/ MakesView(k) \/ AttachesView(k) \/ Arrives(k) \/ HearsClose(k)

TerminalNext ==
  \/ Mounts \/ Unmounts \/ ResumeAsks \/ ResumeHeals \/ ReadsTabs \/ ResumeReconnects \/ HearsArchived
  \/ \E i \in TabSlots : Reconnects(i)
  \/ \E k \in Sockets : Served(k) \/ SeesClose(k) \/ Types(k) \/ Breaks(k)
  \/ Archive \/ TmuxDies \/ TermDaemonRestarts

TerminalSpec == TerminalInit /\ [][TerminalNext]_termVars

-----------------------------------------------------------------------------
TerminalTypeOK ==
  /\ group \in 0..MaxGroups /\ groups \in 1..MaxGroups
  /\ at \in TabSlots /\ archived \in BOOLEAN
  /\ {shown, mounted} \subseteq TabSlots \cup {Nowhere}
  /\ sess \in [TabSlots -> [state : {"none", "connecting", "open", "exited", "dead"},
                           cur : 0..MaxSockets, old : 0..MaxSockets]]
  /\ recovery \in [step : {"off", "ask", "refresh", "reconnect"}, key : TabSlots]
  /\ sock \in [Sockets -> [client : {"none", "connecting", "open", "ending", "closed"},
                           server : {"none", "resolve", "view", "select", "ready", "over"},
                           key : TabSlots, view : 0..MaxGroups, cut : BOOLEAN,
                           sent : 0..MaxKeys, came : 0..MaxKeys, pend : Seq(1..MaxKeys), got : Seq(1..MaxKeys)]]
  /\ leaked \subseteq Sockets
  /\ mishaps \in 0..MaxMishaps

\* A session has one socket: however reconnects, resumes, mounts and closes overlap, the
\* next one opens when the one before is closed, and what is typed goes to one of them.
OneSocket ==
  \A i \in TabSlots : LET open == {k \in Sockets : sock[k].key = i /\ sock[k].client \in {"connecting", "open"}} IN
    Cardinality(open) <= 1 /\ open \subseteq {sess[i].cur}

\* Keystrokes reach the PTY in order and none is lost on the way through the set-up.
KeysInOrder == \A k \in Sockets : sock[k].got \o sock[k].pend = [n \in 1..Len(sock[k].got \o sock[k].pend) |-> n]

\* A handler that is done has taken its view along, at whatever step of the set-up the
\* connection ended, but not over the end of the daemon; and none that serves was closed.
ViewsCollected ==
  \A k \in Sockets : /\ sock[k].server = "over" => sock[k].view = 0 \/ k \in leaked
                     /\ sock[k].server = "ready" => ~sock[k].cut

\* A terminal that says it connects has a socket that will open or close, so it does not
\* say so for good.
ConnectingIsUnderWay ==
  \A i \in TabSlots : sess[i].state = "connecting" =>
    \/ sess[i].cur # 0 /\ sock[sess[i].cur].client \in {"connecting", "ending"}
    \/ sess[i].old # 0 /\ sock[sess[i].old].client = "ending"

\* The invariant of the terminal: a view that reconnects, resumes, moves and closes at any
\* time has one socket at most, loses no key on the way, and leaves no view behind.
TerminalKeeps == TerminalTypeOK /\ OneSocket /\ KeysInOrder /\ ViewsCollected /\ ConnectingIsUnderWay

\* What the comment of the registry says: no more sessions than tabs that were looked at.
SessionsBounded == Cardinality({i \in TabSlots : sess[i] # NoSession}) <= 1

\* What the comment of teardownRuntime says: the engine ends with the session.
EngineEndsWithSession == \A g \in 1..MaxGroups : Linked(g) => group = g
=============================================================================
