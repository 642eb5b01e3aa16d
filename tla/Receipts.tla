------------------------------ MODULE Receipts ------------------------------
(***************************************************************************)
(* The receipts of POST /workspaces/:id/input (repo/input-receipts.ts,     *)
(* http/app.ts) over time: clients repeat a request under its idempotency  *)
(* key when no answer comes, and may use a key again for something else;   *)
(* a receipt lasts for seven days, and no longer.  What a request does to  *)
(* the queue and the tab is in PromptQueue, where receipts last for ever.  *)
(*                                                                         *)
(* The requests of one workspace go through its lane one after the other.  *)
(* A delivery takes its time, and time goes on between the check, the      *)
(* delivery and the receipt.                                               *)
(***************************************************************************)
EXTENDS Naturals, Sequences, FiniteSets

CONSTANTS
  Keys,        \* idempotency keys
  InputBodies, \* canonical bodies, as their hashes tell them apart
  Ttl,         \* INPUT_RECEIPT_TTL_MS
  MaxClock, MaxCopies, MaxFailures   \* bounds: ticks, requests sent, failures of tmux and
               \* ends of the daemon

ASSUME ReceiptsAssumption == Ttl \in Nat \ {0} /\ {MaxClock, MaxCopies, MaxFailures} \subseteq Nat

VARIABLES
  clock,
  receipts,    \* the table: of each key, its receipt
  sent,        \* the lane: requests that were sent and not answered
  stage,       \* of the first of them: check, act or save
  activeNow,   \* the workspace is active
  effects,     \* history: what was typed or queued, in order, and for how long its key stands
  told,        \* history: the answers that said ok: the request and the effect it speaks of
  copiesSent, failures

receiptVars == <<clock, receipts, sent, stage, activeNow, effects, told, copiesSent, failures>>

-----------------------------------------------------------------------------
InputRequest == [key : Keys, body : InputBodies]
NoReceipt == [body |-> "none", answer |-> 0, expires |-> 0]

First == Head(sent)
Receipt == receipts[First.key]
Stands(r) == r # NoReceipt /\ r.expires > clock

\* The lane goes on with the next request.
Leaves == sent' = Tail(sent) /\ stage' = "check"

Sends(i) ==
  /\ copiesSent < MaxCopies /\ copiesSent' = copiesSent + 1
  /\ sent' = Append(sent, i)
  /\ UNCHANGED <<clock, receipts, stage, activeNow, effects, told, failures>>

\* As Replayed, but the body is not compared.
Replayed_AnyBody ==
  /\ sent # <<>> /\ stage = "check"
  /\ Stands(Receipt)
  /\ told' = told \cup {[input |-> First, effect |-> Receipt.answer]}
  /\ Leaves
  /\ UNCHANGED <<clock, receipts, activeNow, effects, copiesSent, failures>>

\* check: a receipt that stands is the answer to the same body.
Replayed ==
  /\ sent # <<>> /\ stage = "check"
  /\ Stands(Receipt) /\ Receipt.body = First.body
  /\ told' = told \cup {[input |-> First, effect |-> Receipt.answer]}
  /\ Leaves
  /\ UNCHANGED <<clock, receipts, activeNow, effects, copiesSent, failures>>

\* The key stands for another body: 409.
Conflicts ==
  /\ sent # <<>> /\ stage = "check"
  /\ Stands(Receipt) /\ Receipt.body # First.body
  /\ Leaves
  /\ UNCHANGED <<clock, receipts, activeNow, effects, told, copiesSent, failures>>

\* Nothing stands: a receipt that expired is deleted, and an active workspace takes the input.
Admits ==
  /\ sent # <<>> /\ stage = "check"
  /\ ~Stands(Receipt)
  /\ receipts' = [receipts EXCEPT ![First.key] = NoReceipt]
  /\ IF activeNow THEN stage' = "act" /\ UNCHANGED sent ELSE Leaves
  /\ UNCHANGED <<clock, activeNow, effects, told, copiesSent, failures>>

Done == effects' = Append(effects, [input |-> First, until |-> 0])

\* The text is queued, or typed.
ActsOn ==
  /\ stage = "act" /\ stage' = "save"
  /\ Done
  /\ UNCHANGED <<clock, receipts, sent, activeNow, told, copiesSent, failures>>

\* tmux fails, before or after the paste: 500, and no receipt.
ActFails ==
  /\ stage = "act"
  /\ failures < MaxFailures /\ failures' = failures + 1
  /\ Done \/ UNCHANGED effects
  /\ Leaves
  /\ UNCHANGED <<clock, receipts, activeNow, told, copiesSent>>

\* put, and the answer; the lane has kept every other request away from the key.
SavesReceipt ==
  /\ stage = "save"
  /\ receipts' = [receipts EXCEPT ![First.key] =
                   [body |-> First.body, answer |-> Len(effects), expires |-> clock + Ttl]]
  /\ effects' = [effects EXCEPT ![Len(effects)].until = clock + Ttl]
  /\ told' = told \cup {[input |-> First, effect |-> Len(effects)]}
  /\ Leaves
  /\ UNCHANGED <<clock, activeNow, copiesSent, failures>>

-----------------------------------------------------------------------------
TimePasses ==
  /\ clock < MaxClock /\ clock' = clock + 1
  /\ UNCHANGED <<receipts, sent, stage, activeNow, effects, told, copiesSent, failures>>

\* The workspace is archived or had back, in the lane.
MovesOn ==
  /\ stage = "check" /\ activeNow' = ~activeNow
  /\ UNCHANGED <<clock, receipts, sent, stage, effects, told, copiesSent, failures>>

\* The table outlives the daemon, requests and the lane do not.
ServerEnds ==
  /\ failures < MaxFailures /\ failures' = failures + 1
  /\ sent' = <<>> /\ stage' = "check"
  /\ UNCHANGED <<clock, receipts, activeNow, effects, told, copiesSent>>

ReceiptsInit ==
  /\ clock = 0
  /\ receipts = [k \in Keys |-> NoReceipt]
  /\ sent = <<>> /\ stage = "check" /\ activeNow = TRUE
  /\ effects = <<>> /\ told = {}
  /\ copiesSent = 0 /\ failures = 0

ReceiptsNext ==
  \/ \E i \in InputRequest : Sends(i)
  \/ Replayed \/ Conflicts \/ Admits \/ ActsOn \/ ActFails \/ SavesReceipt
  \/ TimePasses \/ MovesOn \/ ServerEnds

ReceiptsSpec == ReceiptsInit /\ [][ReceiptsNext]_receiptVars

-----------------------------------------------------------------------------
ReceiptsTypeOK ==
  /\ clock \in 0..MaxClock
  /\ receipts \in [Keys -> [body : InputBodies \cup {"none"}, answer : Nat, expires : Nat]]
  /\ sent \in Seq(InputRequest) /\ stage \in {"check", "act", "save"}
  /\ activeNow \in BOOLEAN
  /\ effects \in Seq([input : InputRequest, until : Nat])
  /\ told \subseteq [input : InputRequest, effect : Nat]
  /\ copiesSent \in 0..MaxCopies /\ failures \in 0..MaxFailures

\* Whoever is told ok is told of what was done for this very request, first copy or repeat,
\* though a key comes again with another body, late or over a restart; and as long as a receipt
\* stands nothing else is done under its key, whatever copies wait in the lane.
OncePerKey ==
  /\ \A a \in told : a.effect \in DOMAIN effects /\ effects[a.effect].input = a.input
  /\ \A i, j \in DOMAIN effects :
       i < j /\ effects[i].input.key = effects[j].input.key => effects[i].until <= clock
=============================================================================
