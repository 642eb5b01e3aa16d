---------------------------- MODULE TmuxControl ----------------------------
(***************************************************************************)
(* The control-mode client of tmux (tmux/control.ts): one child process    *)
(* over whose pipe commands go out line by line and replies come back in   *)
(* the same order, the first of them to the connection itself.  A command  *)
(* that is not answered in time ends the child, and the next one starts    *)
(* another.  Lines that are already under way from an old child, and its   *)
(* exit, may come in at any later time.                                    *)
(***************************************************************************)
EXTENDS Naturals, SequencesExt

CONSTANTS
  MaxCommands, MaxChildren   \* bounds

ASSUME ControlAssumption == {MaxCommands, MaxChildren} \subseteq Nat \ {0}

VARIABLES
  generation, child,   \* the generation, and the child if there is one
  awaitingGuard,
  pending,             \* commands that wait for a reply
  outcome,             \* what the caller of each command was told
  executed,            \* what tmux did with it
  pipe,                \* of each child: its lines that did not come in yet
  asked,               \* of each child: commands it did not run yet
  alive                \* the children whose exit did not come in yet

controlVars == <<generation, child, awaitingGuard, pending, outcome, executed, pipe, asked, alive>>

-----------------------------------------------------------------------------
Commands == 1..MaxCommands
Children == 1..MaxChildren
Guard == 0

Settle(cs, told) == outcome' = [c \in Commands |-> IF c \in cs THEN told ELSE outcome[c]]
FailAll == Settle(ToSet(pending), "failed") /\ pending' = <<>>

\* exec: a new child, when there is none, is a new generation with a guard of its own.
Exec(c) ==
  /\ outcome[c] = "none" /\ \A b \in 1..c - 1 : outcome[b] # "none"
  /\ outcome' = [outcome EXCEPT ![c] = "waits"]
  /\ pending' = Append(pending, c)
  /\ IF child # 0
     THEN /\ asked' = [asked EXCEPT ![child] = Append(@, c)]
          /\ UNCHANGED <<generation, child, awaitingGuard, alive>>
     ELSE /\ generation < MaxChildren
          /\ generation' = generation + 1 /\ child' = generation'
          /\ awaitingGuard' = TRUE
          /\ alive' = alive \cup {child'}
          /\ asked' = [asked EXCEPT ![child'] = <<Guard, c>>]
  /\ UNCHANGED <<executed, pipe>>

\* tmux runs the next command of a child, or refuses it, and replies.
Replies(g) ==
  /\ g \in alive /\ asked[g] # <<>>
  /\ LET c == Head(asked[g]) IN \E done \in {"done", "refused"} :
       /\ executed' = IF c = Guard THEN executed ELSE [executed EXCEPT ![c] = done]
       /\ pipe' = [pipe EXCEPT ![g] = Append(@, done)]
  /\ asked' = [asked EXCEPT ![g] = Tail(@)]
  /\ UNCHANGED <<generation, child, awaitingGuard, pending, outcome, alive>>

\* As OnLine, but lines of any child are taken.
OnLine_AnyGeneration(g) ==
  /\ pipe[g] # <<>>
  /\ pipe' = [pipe EXCEPT ![g] = Tail(@)]
  /\ IF ~awaitingGuard /\ pending = <<>>
     THEN UNCHANGED <<awaitingGuard, pending, outcome>>
     ELSE /\ awaitingGuard' = FALSE
          /\ IF awaitingGuard THEN UNCHANGED <<pending, outcome>>
             ELSE /\ Settle({Head(pending)}, IF Head(pipe[g]) = "done" THEN "ok" ELSE "failed")
                  /\ pending' = Tail(pending)
  /\ UNCHANGED <<generation, child, executed, asked, alive>>

\* onLine: the reply of the guard settles nothing, and one that nobody waits for neither.
OnLine(g) ==
  /\ pipe[g] # <<>>
  /\ pipe' = [pipe EXCEPT ![g] = Tail(@)]
  /\ IF g # generation \/ (~awaitingGuard /\ pending = <<>>)
     THEN UNCHANGED <<awaitingGuard, pending, outcome>>
     ELSE /\ awaitingGuard' = FALSE
          /\ IF awaitingGuard THEN UNCHANGED <<pending, outcome>>
             ELSE /\ Settle({Head(pending)}, IF Head(pipe[g]) = "done" THEN "ok" ELSE "failed")
                  /\ pending' = Tail(pending)
  /\ UNCHANGED <<generation, child, executed, asked, alive>>

\* A command waits too long: all fail, for the child cannot be trusted, and it is killed; what
\* tmux got from it may run still, and its exit comes later.
TimesOut ==
  /\ pending # <<>>
  /\ FailAll
  /\ child' = 0
  /\ UNCHANGED <<generation, awaitingGuard, executed, pipe, asked, alive>>

\* The exit of a child, which ended by itself or was killed, counts only if no later one has
\* taken over.
ControlChildExits(g) ==
  /\ g \in alive
  /\ alive' = alive \ {g}
  /\ IF g = generation THEN FailAll /\ child' = 0 ELSE UNCHANGED <<pending, outcome, child>>
  /\ UNCHANGED <<generation, awaitingGuard, executed, pipe, asked>>

-----------------------------------------------------------------------------
ControlInit ==
  /\ generation = 0 /\ child = 0 /\ awaitingGuard = FALSE
  /\ pending = <<>>
  /\ outcome = [c \in Commands |-> "none"]
  /\ executed = [c \in Commands |-> "none"]
  /\ pipe = [g \in Children |-> <<>>] /\ asked = pipe
  /\ alive = {}

ControlNext ==
  \/ \E c \in Commands : Exec(c)
  \/ \E g \in Children : Replies(g) \/ OnLine(g) \/ ControlChildExits(g)
  \/ TimesOut

ControlSpec == ControlInit /\ [][ControlNext]_controlVars

-----------------------------------------------------------------------------
ControlTypeOK ==
  /\ generation \in 0..MaxChildren /\ child \in 0..MaxChildren
  /\ awaitingGuard \in BOOLEAN
  /\ pending \in Seq(Commands)
  /\ outcome \in [Commands -> {"none", "waits", "ok", "failed"}]
  /\ executed \in [Commands -> {"none", "done", "refused"}]
  /\ pipe \in [Children -> Seq({"done", "refused"})]
  /\ asked \in [Children -> Seq(Commands \cup {Guard})]
  /\ alive \subseteq Children

\* A caller hears of its own command: one that was told ok was carried out by tmux, and one
\* that was refused is never told ok, whatever replies of the guard, of commands that timed
\* out and of earlier children come in between.
RepliesMatch == \A c \in Commands : outcome[c] = "ok" => executed[c] = "done"
=============================================================================
