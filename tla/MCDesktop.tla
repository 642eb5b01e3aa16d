----------------------------- MODULE MCDesktop -----------------------------
(***************************************************************************)
(* One TLC run for seven components of the desktop and the command line    *)
(* that share no state: the stores of the desktop client with `coolie      *)
(* wait`, the embedded terminal with its handler, the composer, the        *)
(* engines, the modals with their shortcuts, the keys a user chose, and    *)
(* the making of several tasks at once.  Each behaviour is one of one of   *)
(* them; the others stay in an initial state.                              *)
(***************************************************************************)
EXTENDS ClientStores, Terminal, Composer, Engines, Dialogs, Keybindings, Fanout

CONSTANTS s1, s2, p1, p2, st1, st2, et1, et2, ce1, ce2, df, x1, x2, ka, kb, pane1, pane2

TwoSpares == <<ce1, ce2>>

KeysOf == [a \in Actions |-> IF a = ka THEN "meta+a" ELSE "meta+b"]
Says(x, y) == [a \in Actions |-> IF a = ka THEN x ELSE y]

\* Nothing, the two chords exchanged, a chord that clashes with a default kept, the same with the
\* default taken away, two overrides that clash, and what no parser takes.
SomeTexts == {Says(Kept, Kept), Says("meta+b", "meta+a"), Says("meta+b", Kept),
              Says("meta+b", Unbound), Says("meta+b", "meta+b"), Garbage}

VARIABLE part   \* the component that runs

DesktopParts == {"stores", "terminal", "composer", "engines", "dialogs", "keys", "fanout"}
desktopVars == <<part, storesVars, termVars, composerVars, engineVars, dialogVars, keyVars, fanoutVars>>

DesktopInit ==
  /\ part \in DesktopParts
  /\ StoresInit /\ TerminalInit /\ ComposerInit /\ EnginesInit
  /\ DialogsInit /\ KeysInit /\ FanoutInit
  /\ part = "stores" \/ focus = "wait"
  /\ part = "composer" \/ place = s1
  /\ part = "engines" \/ /\ applied = {} /\ awaits = {}
                         /\ uses = [t \in EngineTabs |-> Copilot]
  /\ part = "dialogs" \/ chosen = x1
  /\ part = "keys" \/ stored = Nothing

DesktopNext ==
  /\ UNCHANGED part
  /\ IF part = "stores" THEN StoresNext ELSE UNCHANGED storesVars
  /\ IF part = "terminal" THEN TerminalNext ELSE UNCHANGED termVars
  /\ IF part = "composer" THEN ComposerNext ELSE UNCHANGED composerVars
  /\ IF part = "engines" THEN EnginesNext ELSE UNCHANGED engineVars
  /\ IF part = "dialogs" THEN DialogsNext ELSE UNCHANGED dialogVars
  /\ IF part = "keys" THEN KeysNext ELSE UNCHANGED keyVars
  /\ IF part = "fanout" THEN FanoutNext ELSE UNCHANGED fanoutVars

DesktopSpec == DesktopInit /\ [][DesktopNext]_desktopVars

\* Bound of the terminal: keys are typed while a connection is unused, so in one of the first two.
TerminalBound == (\E k \in Sockets : sock[k].sent > 0) => \E k \in Sockets : sock[k] = NoSocket

\* Bound of the modals: requests and changes of others together.
DialogsBound == asks + news <= 2

\* Bound of the fan-out: of the requests that make tasks two, with what goes wrong three.
FanoutBound ==
  LET makers == submits + Len(report) + (IF waits = "idle" THEN 0 ELSE 1)
  IN makers <= 2 /\ makers + trouble <= 3
=============================================================================
