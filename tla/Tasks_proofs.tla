---------------------------- MODULE Tasks_proofs ----------------------------
(***************************************************************************)
(* Theorems about what is done to one task: the input that is sent once    *)
(* per key, the setup of its environment, its checkpoints, its finish and  *)
(* its place on the board, each for any number of requests, versions,      *)
(* scripts, files, tasks and ends of the daemon.  Every one of them is its *)
(* own specification; they share no state.                                 *)
(***************************************************************************)
EXTENDS Checkpoints, Finish, Provision, Receipts, Board, TLAPS, FiniteSetTheorems, SequenceTheorems,
        WellFoundedInduction

-----------------------------------------------------------------------------
(* The checkpoints of a task.                                                *)

Under == {"add", "parent", "ref"}      \* the steps before the ref is there

\* What a checkpoint has taken so far is no older than what its request found.
Taken ==
  /\ making.step = "add" => making.ref.asked <= files /\ making.ref.from <= head
  /\ making.step = "parent" => making.ref.tree >= making.ref.asked /\ making.ref.from <= head
  /\ making.step \in {"ref", "show", "created"} =>
       making.ref.tree >= making.ref.asked /\ making.ref.parent >= making.ref.from
  /\ \A c \in refs : c.tree >= c.asked /\ c.parent >= c.from

\* Ids are given out once: no two refs share one, and the one under way is the ref it made or
\* that of no ref.
Numbered ==
  /\ known \subseteq 1..numbered
  /\ \A c \in refs : c.id \in 1..numbered
  /\ \A c, d \in refs : c.id = d.id => c = d
  /\ making.step = "idle" => making = Idle
  /\ making.step # "idle" => making.ref.id \in 1..numbered
  /\ making.step \in Under => making.ref.id \notin known
  /\ making.step \in Under \cup {"deleted"} => \A c \in refs : c.id # making.ref.id
  /\ making.step \in {"show", "created"} => making.ref \in refs

Told == \A id \in Ids \ (silent \cup {making.ref.id}) : id \in known <=> \E c \in refs : c.id = id

CkInv == CheckpointsTypeOK /\ Taken /\ Numbered /\ Told

-----------------------------------------------------------------------------
\* The record that stands for no checkpoint.
LEMMA NoRefTyped ==
  Idle \in [step : {"idle", "add", "parent", "ref", "show", "created", "deleted"}, ref : Checkpoint]
BY CheckpointsAssumption DEF Idle, NoRef, Checkpoint, Edited

\* What AskCheckpoint leaves.
LEMMA Asked ==
  ASSUME CheckpointsTypeOK, AskCheckpoint
  PROVE  /\ numbered' = numbered + 1 /\ numbered' \in Ids
         /\ making' \in [step : {"add"}, ref : Checkpoint]
         /\ making'.ref.id = numbered' /\ making'.ref.asked = files /\ making'.ref.from = head
<1>1. numbered' = numbered + 1 /\ numbered' \in Ids
  BY CheckpointsAssumption DEF CheckpointsTypeOK, AskCheckpoint, Ids
<1>2. files \in Edited /\ head \in Edited
  BY DEF CheckpointsTypeOK
<1> QED BY <1>1, <1>2, CheckpointsAssumption DEF AskCheckpoint, Checkpoint, Edited

LEMMA CkInit == CheckpointsInit => CkInv
<1> SUFFICES ASSUME CheckpointsInit PROVE CkInv
  OBVIOUS
<1> USE CheckpointsAssumption
<1>1. CheckpointsTypeOK
  <2>1. refs \subseteq Checkpoint /\ known \subseteq Ids
    BY DEF CheckpointsInit
  <2>2. making \in [step : {"idle", "add", "parent", "ref", "show", "created", "deleted"}, ref : Checkpoint]
    BY NoRefTyped DEF CheckpointsInit
  <2>3. head \in Edited /\ files \in Edited /\ head <= files /\ numbered \in 0..MaxCheckpoints /\ kills \in 0..MaxKills
    BY DEF CheckpointsInit, Edited
  <2>4. silent \subseteq Ids /\ taskIs \in {"active", "archived", "deleted"}
    BY DEF CheckpointsInit
  <2> QED BY <2>1, <2>2, <2>3, <2>4 DEF CheckpointsTypeOK
<1>2. Taken /\ Numbered /\ Told
  BY DEF CheckpointsInit, Taken, Numbered, Told, Idle, Under
<1> QED BY <1>1, <1>2 DEF CkInv

\* Each step keeps the types.
LEMMA CkTyped == CkInv /\ [CheckpointsNext]_ckVars => CheckpointsTypeOK'
<1> SUFFICES ASSUME CkInv, [CheckpointsNext]_ckVars PROVE CheckpointsTypeOK'
  OBVIOUS
<1> USE CheckpointsAssumption DEF CkInv, CheckpointsTypeOK, Checkpoint, Edited, Ids
<1>1. CASE AskCheckpoint
  BY <1>1, Asked DEF AskCheckpoint
<1>2. CASE WritesTree
  BY <1>2 DEF WritesTree
<1>3. CASE CommitsTree
  BY <1>3 DEF CommitsTree
<1>4. CASE UpdatesRef
  BY <1>4 DEF UpdatesRef
<1>5. CASE TellsCreated
  <2>1. making.ref.id \in Ids
    BY <1>5 DEF TellsCreated, Numbered
  <2>2. making' = Idle /\ UNCHANGED <<files, head, taskIs, refs, numbered, silent, kills>>
    BY <1>5 DEF TellsCreated
  <2>3. known' \subseteq Ids
    BY <1>5, <2>1 DEF TellsCreated
  <2> QED BY <2>2, <2>3, NoRefTyped
<1>6. CASE DeletesRef
  BY <1>6 DEF DeletesRef
<1>7. CASE TellsDeleted
  <2>1. making' = Idle /\ known' \subseteq Ids /\ silent' \subseteq Ids
    BY <1>7 DEF TellsDeleted
  <2> QED BY <1>7, <2>1, NoRefTyped DEF TellsDeleted
<1>8. CASE EditsWork
  BY <1>8 DEF EditsWork
<1>9. CASE CommitsWork
  BY <1>9 DEF CommitsWork
<1>10. CASE TaskMovesOn
  BY <1>10 DEF TaskMovesOn
<1>11. CASE LaneIsCut
  <2>1. making.step # "idle" => making.ref.id \in Ids
    BY DEF Numbered
  <2>2. silent' \subseteq Ids
    BY <1>11, <2>1 DEF LaneIsCut
  <2> QED BY <1>11, <2>2, NoRefTyped DEF LaneIsCut
<1>12. CASE ReadsTime
  BY <1>12 DEF ReadsTime
<1>13. CASE GitFails
  <2>1. making.ref.id \in Ids
    BY <1>13 DEF GitFails, Numbered
  <2>2. silent' \subseteq Ids
    BY <1>13, <2>1 DEF GitFails
  <2> QED BY <1>13, <2>2, NoRefTyped DEF GitFails
<1>14. CASE UNCHANGED ckVars
  BY <1>14 DEF ckVars
<1> QED
  BY <1>1, <1>2, <1>3, <1>4, <1>5, <1>6, <1>7, <1>8, <1>9, <1>10, <1>11, <1>12,
     <1>13, <1>14 DEF CheckpointsNext

\* Edits and commits only add while a checkpoint is made, so what it takes is never older.
LEMMA CkTaken == CkInv /\ [CheckpointsNext]_ckVars => Taken'
<1> SUFFICES ASSUME CkInv, [CheckpointsNext]_ckVars PROVE Taken'
  OBVIOUS
<1> USE DEF CkInv, CheckpointsTypeOK, Checkpoint, Edited, Taken
<1>1. CASE AskCheckpoint
  BY <1>1, Asked, CheckpointsAssumption DEF AskCheckpoint
<1>2. CASE WritesTree
  BY <1>2, CheckpointsAssumption DEF WritesTree
<1>3. CASE CommitsTree
  BY <1>3, CheckpointsAssumption DEF CommitsTree
<1>4. CASE UpdatesRef
  BY <1>4 DEF UpdatesRef
<1>5. CASE TellsCreated
  BY <1>5 DEF TellsCreated, Idle
<1>6. CASE DeletesRef
  BY <1>6 DEF DeletesRef
<1>7. CASE TellsDeleted
  BY <1>7 DEF TellsDeleted, Idle
<1>8. CASE EditsWork
  BY <1>8, CheckpointsAssumption DEF EditsWork
<1>9. CASE CommitsWork
  BY <1>9, CheckpointsAssumption DEF CommitsWork
<1>10. CASE TaskMovesOn
  BY <1>10 DEF TaskMovesOn, Idle
<1>11. CASE LaneIsCut
  BY <1>11 DEF LaneIsCut, Idle
<1>12. CASE ReadsTime
  BY <1>12 DEF ReadsTime
<1>13. CASE GitFails
  BY <1>13 DEF GitFails, Idle
<1>14. CASE UNCHANGED ckVars
  BY <1>14 DEF ckVars
<1> QED
  BY <1>1, <1>2, <1>3, <1>4, <1>5, <1>6, <1>7, <1>8, <1>9, <1>10, <1>11, <1>12,
     <1>13, <1>14 DEF CheckpointsNext

LEMMA CkNumbered == CkInv /\ [CheckpointsNext]_ckVars => Numbered'
<1> SUFFICES ASSUME CkInv, [CheckpointsNext]_ckVars PROVE Numbered'
  OBVIOUS
<1> USE DEF CkInv, CheckpointsTypeOK, Checkpoint, Numbered, Under, Ids
<1>1. CASE AskCheckpoint
  BY <1>1, Asked, CheckpointsAssumption DEF AskCheckpoint
<1>2. CASE WritesTree
  BY <1>2 DEF WritesTree
<1>3. CASE CommitsTree
  BY <1>3 DEF CommitsTree
<1>4. CASE UpdatesRef
  BY <1>4 DEF UpdatesRef
<1>5. CASE TellsCreated
  BY <1>5 DEF TellsCreated, Idle
<1>6. CASE DeletesRef
  BY <1>6 DEF DeletesRef
<1>7. CASE TellsDeleted
  BY <1>7 DEF TellsDeleted, Idle
<1>8. CASE EditsWork
  BY <1>8 DEF EditsWork
<1>9. CASE CommitsWork
  BY <1>9 DEF CommitsWork
<1>10. CASE TaskMovesOn
  BY <1>10 DEF TaskMovesOn
<1>11. CASE LaneIsCut
  BY <1>11 DEF LaneIsCut, Idle
<1>12. CASE ReadsTime
  BY <1>12 DEF ReadsTime
<1>13. CASE GitFails
  BY <1>13 DEF GitFails, Idle
<1>14. CASE UNCHANGED ckVars
  BY <1>14 DEF ckVars
<1> QED
  BY <1>1, <1>2, <1>3, <1>4, <1>5, <1>6, <1>7, <1>8, <1>9, <1>10, <1>11, <1>12,
     <1>13, <1>14 DEF CheckpointsNext

\* An event and its ref differ only for the id under way, and a failure or a cut in between is
\* remembered.
LEMMA CkTold == CkInv /\ [CheckpointsNext]_ckVars => Told'
<1> SUFFICES ASSUME CkInv, [CheckpointsNext]_ckVars PROVE Told'
  OBVIOUS
<1> USE DEF CkInv, CheckpointsTypeOK, Numbered, Told, Under, Ids
<1>1. CASE AskCheckpoint
  BY <1>1, CheckpointsAssumption DEF AskCheckpoint, NoRef, Idle
<1>2. CASE WritesTree
  BY <1>2 DEF WritesTree, Checkpoint
<1>3. CASE CommitsTree
  BY <1>3 DEF CommitsTree, Checkpoint
<1>4. CASE UpdatesRef
  BY <1>4 DEF UpdatesRef
<1>5. CASE TellsCreated
  BY <1>5 DEF TellsCreated, Idle, NoRef
<1>6. CASE DeletesRef
  BY <1>6 DEF DeletesRef, Idle, NoRef
<1>7. CASE TellsDeleted
  BY <1>7 DEF TellsDeleted, Idle, NoRef
<1>8. CASE EditsWork
  BY <1>8 DEF EditsWork
<1>9. CASE CommitsWork
  BY <1>9 DEF CommitsWork
<1>10. CASE TaskMovesOn
  BY <1>10 DEF TaskMovesOn
<1>11. CASE LaneIsCut
  BY <1>11 DEF LaneIsCut, Idle, NoRef
<1>12. CASE ReadsTime
  BY <1>12 DEF ReadsTime
<1>13. CASE GitFails
  BY <1>13 DEF GitFails, Idle, NoRef
<1>14. CASE UNCHANGED ckVars
  BY <1>14 DEF ckVars
<1> QED
  BY <1>1, <1>2, <1>3, <1>4, <1>5, <1>6, <1>7, <1>8, <1>9, <1>10, <1>11, <1>12,
     <1>13, <1>14 DEF CheckpointsNext

-----------------------------------------------------------------------------
\* The inductive invariant of the checkpoints.
THEOREM CkInvariant == CheckpointsSpec => []CkInv
<1>1. CkInv /\ [CheckpointsNext]_ckVars => CkInv'
  BY CkTyped, CkTaken, CkNumbered, CkTold DEF CkInv
<1> QED
  BY CkInit, <1>1, PTL DEF CheckpointsSpec

\* A checkpoint misses nothing that was there when it was asked for, though the engine edits and
\* commits between the calls of workspace/checkpoint.ts, and its events tell of just the refs
\* there are, but for those of requests that failed or were cut between the two.
THEOREM KeepsCheckpoints == CheckpointsSpec => []CheckpointsKeep
<1>1. CkInv => CheckpointsKeep
  BY DEF CkInv, Taken, Told, CheckpointsKeep
<1> QED
  BY <1>1, CkInvariant, PTL

-----------------------------------------------------------------------------
(* The receipts of the input.                                                *)

Effect == [input : InputRequest, until : Nat]
ReceiptRow == [body : InputBodies \cup {"none"}, answer : Nat, expires : Nat]

\* The request at the head of the lane is there until it is answered; what it did last is its own.
AtHead ==
  /\ stage # "check" => sent # <<>>
  /\ stage = "save" => effects # <<>> /\ effects[Len(effects)] = [input |-> First, until |-> 0]

\* A receipt is that of an effect under its key and body, and lasts as long as that says; what
\* lasts yet has its receipt.
Backed ==
  /\ \A k \in Keys : receipts[k] # NoReceipt =>
       LET e == receipts[k].answer IN
       /\ e \in DOMAIN effects
       /\ effects[e].input.key = k /\ effects[e].input.body = receipts[k].body
       /\ effects[e].until = receipts[k].expires
  /\ \A i \in DOMAIN effects : effects[i].until > clock =>
       LET r == receipts[effects[i].input.key] IN r # NoReceipt /\ r.answer = i

\* A request that was admitted finds nothing that lasts under its key.
Cleared ==
  stage = "act" => \A i \in DOMAIN effects : effects[i].input.key = First.key => effects[i].until <= clock

ReceiptsInv == ReceiptsTypeOK /\ AtHead /\ Backed /\ Cleared /\ OncePerKey

LEMMA ReceiptsInitially == ReceiptsInit => ReceiptsInv
<1> SUFFICES ASSUME ReceiptsInit PROVE ReceiptsInv
  OBVIOUS
<1> USE ReceiptsAssumption
<1>1. NoReceipt \in ReceiptRow
  BY DEF NoReceipt, ReceiptRow
<1>2. receipts \in [Keys -> ReceiptRow]
  BY <1>1 DEF ReceiptsInit
<1>3. sent \in Seq(InputRequest) /\ effects \in Seq(Effect) /\ DOMAIN effects = {}
  BY DEF ReceiptsInit
<1>4. ReceiptsTypeOK
  BY <1>2, <1>3 DEF ReceiptsInit, ReceiptsTypeOK, ReceiptRow, Effect
<1>5. AtHead /\ Backed /\ Cleared /\ OncePerKey
  BY <1>3 DEF ReceiptsInit, AtHead, Backed, Cleared, OncePerKey
<1> QED
  BY <1>4, <1>5 DEF ReceiptsInv

\* The types as the steps below use them.
LEMMA ReceiptsTypes ==
  ASSUME ReceiptsTypeOK
  PROVE  /\ receipts \in [Keys -> ReceiptRow] /\ effects \in Seq(Effect) /\ sent \in Seq(InputRequest)
         /\ \A i \in DOMAIN effects : effects[i] \in Effect
         /\ Len(effects) \in Nat /\ DOMAIN effects = 1..Len(effects) /\ clock \in Nat
         /\ sent # <<>> => First \in InputRequest /\ Tail(sent) \in Seq(InputRequest)
<1>1. receipts \in [Keys -> ReceiptRow] /\ effects \in Seq(Effect) /\ sent \in Seq(InputRequest)
  BY DEF ReceiptsTypeOK, ReceiptRow, Effect
<1>2. \A i \in DOMAIN effects : effects[i] \in Effect
  BY <1>1
<1>3. Len(effects) \in Nat /\ DOMAIN effects = 1..Len(effects)
  BY <1>1
<1>4. clock \in Nat
  BY ReceiptsAssumption DEF ReceiptsTypeOK
<1>5. sent # <<>> => First \in InputRequest /\ Tail(sent) \in Seq(InputRequest)
  BY <1>1 DEF First
<1> QED
  BY <1>1, <1>2, <1>3, <1>4, <1>5

\* What a request does is one more effect, that lasts for no time yet.
LEMMA DoneAppends ==
  ASSUME ReceiptsTypeOK, sent # <<>>, Done
  PROVE  /\ effects' \in Seq(Effect) /\ Len(effects') = Len(effects) + 1
         /\ DOMAIN effects' = DOMAIN effects \cup {Len(effects) + 1}
         /\ \A i \in DOMAIN effects : effects'[i] = effects[i]
         /\ effects'[Len(effects) + 1] = [input |-> First, until |-> 0]
<1>1. effects \in Seq(Effect) /\ First \in InputRequest
  BY ReceiptsTypes
<1>2. [input |-> First, until |-> 0] \in Effect
  BY <1>1 DEF Effect
<1> QED
  BY <1>1, <1>2 DEF Done

\* It keeps what is known of the receipts when nothing lasts under its key.
LEMMA DoneKeeps ==
  ASSUME ReceiptsInv, sent # <<>>, stage = "act", Done, receipts' = receipts, clock' = clock, told' = told
  PROVE  Backed' /\ OncePerKey'
<1>1. /\ DOMAIN effects' = DOMAIN effects \cup {Len(effects) + 1}
      /\ \A i \in DOMAIN effects : effects'[i] = effects[i]
      /\ effects'[Len(effects) + 1] = [input |-> First, until |-> 0]
  BY DoneAppends DEF ReceiptsInv
<1>2. DOMAIN effects = 1..Len(effects) /\ Len(effects) \in Nat /\ clock \in Nat
  BY ReceiptsTypes DEF ReceiptsInv
<1>3. Backed'
  BY <1>1, <1>2 DEF ReceiptsInv, Backed
<1>4. OncePerKey'
  <2>1. \A a \in told' : a.effect \in DOMAIN effects' /\ effects'[a.effect].input = a.input
    BY <1>1 DEF ReceiptsInv, OncePerKey
  <2>2. ASSUME NEW i \in DOMAIN effects', NEW j \in DOMAIN effects', i < j, effects'[i].input.key = effects'[j].input.key
        PROVE  effects'[i].until <= clock
    <3>1. i \in DOMAIN effects
      BY <2>2, <1>1, <1>2
    <3>2. CASE j \in DOMAIN effects
      BY <2>2, <3>1, <3>2, <1>1 DEF ReceiptsInv, OncePerKey
    <3>3. CASE j = Len(effects) + 1
      BY <2>2, <3>1, <3>3, <1>1 DEF ReceiptsInv, Cleared
    <3> QED
      BY <3>2, <3>3, <1>1
  <2> QED
    BY <2>1, <2>2 DEF OncePerKey
<1> QED
  BY <1>3, <1>4

\* A request is put in the lane.
LEMMA SendsKeeps == ASSUME ReceiptsInv, NEW i \in InputRequest, Sends(i) PROVE ReceiptsInv'
<1>1. sent \in Seq(InputRequest)
  BY DEF ReceiptsInv, ReceiptsTypeOK
<1>2. sent' \in Seq(InputRequest) /\ sent' # <<>> /\ (sent # <<>> => Head(sent') = Head(sent))
  BY <1>1 DEF Sends
<1>3. copiesSent' \in 0..MaxCopies
  BY ReceiptsAssumption DEF Sends, ReceiptsInv, ReceiptsTypeOK
<1>4. ReceiptsTypeOK'
  BY <1>2, <1>3 DEF Sends, ReceiptsInv, ReceiptsTypeOK
<1>5. AtHead' /\ Cleared'
  BY <1>2 DEF Sends, ReceiptsInv, AtHead, Cleared, First
<1>6. Backed' /\ OncePerKey'
  BY DEF Sends, ReceiptsInv, Backed, OncePerKey
<1> QED
  BY <1>4, <1>5, <1>6 DEF ReceiptsInv

\* The head of the lane is answered without an effect.
LEMMA AnswersKeep == ASSUME ReceiptsInv, Replayed \/ Conflicts \/ Admits PROVE ReceiptsInv'
<1>1. /\ receipts \in [Keys -> ReceiptRow] /\ effects \in Seq(Effect) /\ sent \in Seq(InputRequest)
      /\ \A i \in DOMAIN effects : effects[i] \in Effect
      /\ DOMAIN effects = 1..Len(effects) /\ clock \in Nat
      /\ First \in InputRequest /\ Tail(sent) \in Seq(InputRequest)
  BY ReceiptsTypes DEF ReceiptsInv, Replayed, Conflicts, Admits
<1>2. First.key \in Keys
  BY <1>1 DEF InputRequest
<1>3. CASE Replayed
  <2>1. /\ Receipt.answer \in DOMAIN effects
        /\ effects[Receipt.answer].input.key = First.key /\ effects[Receipt.answer].input.body = First.body
    BY <1>2, <1>3 DEF Replayed, Stands, Receipt, ReceiptsInv, Backed
  <2>2. effects[Receipt.answer].input = First
    <3>1. \A a, b \in InputRequest : a.key = b.key /\ a.body = b.body => a = b
      BY DEF InputRequest
    <3>2. effects[Receipt.answer].input \in InputRequest
      BY <1>1, <2>1 DEF Effect
    <3> QED
      BY <1>1, <2>1, <3>1, <3>2
  <2>3. Receipt.answer \in Nat
    BY <1>1, <1>2 DEF Receipt, ReceiptRow
  <2>4. told' \subseteq [input : InputRequest, effect : Nat]
    BY <1>1, <1>3, <2>3 DEF Replayed, ReceiptsInv, ReceiptsTypeOK
  <2>5. ReceiptsTypeOK'
    BY <1>1, <1>3, <2>4 DEF Replayed, Leaves, ReceiptsInv, ReceiptsTypeOK
  <2>6. AtHead' /\ Cleared' /\ Backed'
    BY <1>3 DEF Replayed, Leaves, ReceiptsInv, AtHead, Cleared, Backed
  <2>7. OncePerKey'
    BY <1>3, <2>1, <2>2 DEF Replayed, ReceiptsInv, OncePerKey
  <2> QED
    BY <2>5, <2>6, <2>7 DEF ReceiptsInv
<1>4. CASE Conflicts
  BY <1>1, <1>4 DEF Conflicts, Leaves, ReceiptsInv, ReceiptsTypeOK, AtHead, Cleared, Backed, OncePerKey
<1>5. CASE Admits
  <2>1. NoReceipt \in ReceiptRow
    BY DEF NoReceipt, ReceiptRow
  <2>2. receipts' \in [Keys -> ReceiptRow]
    BY <1>1, <1>5, <2>1 DEF Admits
  <2>3. /\ stage' \in {"check", "act"} /\ sent' \in {sent, Tail(sent)}
        /\ stage' = "act" => sent' = sent /\ sent # <<>>
    BY <1>5 DEF Admits, Leaves
  <2>4. sent' \in Seq(InputRequest)
    BY <1>1, <2>3
  <2>5. ReceiptsTypeOK'
    BY <1>5, <2>2, <2>3, <2>4 DEF Admits, ReceiptsInv, ReceiptsTypeOK, ReceiptRow
  <2>6. \A i \in DOMAIN effects : effects[i].input.key = First.key => effects[i].until <= clock
    <3> SUFFICES ASSUME NEW i \in DOMAIN effects, effects[i].input.key = First.key PROVE effects[i].until <= clock
      OBVIOUS
    <3>1. effects[i].until \in Nat
      BY <1>1 DEF Effect
    <3>2. ~(effects[i].until > clock)
      <4> SUFFICES ASSUME effects[i].until > clock PROVE FALSE
        OBVIOUS
      <4>1. Receipt # NoReceipt /\ Receipt.answer = i
        BY DEF ReceiptsInv, Backed, Receipt
      <4>2. Receipt.expires = effects[i].until
        BY <1>2, <4>1 DEF ReceiptsInv, Backed, Receipt
      <4> QED
        BY <1>5, <4>1, <4>2 DEF Admits, Stands
    <3> QED
      BY <1>1, <3>1, <3>2
  <2>7. AtHead' /\ Cleared'
    BY <1>5, <2>3, <2>6 DEF Admits, AtHead, Cleared, First
  <2>8. \A k \in Keys : receipts'[k] = IF k = First.key THEN NoReceipt ELSE receipts[k]
    BY <1>1, <1>5 DEF Admits
  <2>9. \A i \in DOMAIN effects : effects[i].input.key \in Keys /\ effects[i].until \in Nat
    BY <1>1 DEF Effect, InputRequest
  <2>10. Backed'
    <3>1. \A i \in DOMAIN effects : effects[i].until > clock => effects[i].input.key # First.key
      BY <1>1, <2>6, <2>9
    <3> QED
      BY <1>5, <2>8, <2>9, <3>1 DEF Admits, ReceiptsInv, Backed
  <2>11. OncePerKey'
    BY <1>5 DEF Admits, ReceiptsInv, OncePerKey
  <2> QED
    BY <2>5, <2>7, <2>10, <2>11 DEF ReceiptsInv
<1> QED
  BY <1>3, <1>4, <1>5

\* The effect, and its failure.
LEMMA ActsKeep == ASSUME ReceiptsInv, ActsOn \/ ActFails PROVE ReceiptsInv'
<1>1. stage = "act" /\ sent # <<>> /\ UNCHANGED <<clock, receipts, activeNow, told, copiesSent>>
  BY DEF ActsOn, ActFails, ReceiptsInv, AtHead
<1>2. sent \in Seq(InputRequest) /\ Tail(sent) \in Seq(InputRequest) /\ effects \in Seq(Effect)
  BY <1>1, ReceiptsTypes DEF ReceiptsInv
<1>3. Done => Backed' /\ OncePerKey' /\ effects' \in Seq(Effect)
  BY <1>1, DoneKeeps, DoneAppends DEF ReceiptsInv
<1>4. Done \/ UNCHANGED effects
  BY DEF ActsOn, ActFails
<1>5. Backed' /\ OncePerKey' /\ effects' \in Seq(Effect)
  BY <1>1, <1>2, <1>3, <1>4 DEF ReceiptsInv, Backed, OncePerKey
<1>6. /\ sent' \in Seq(InputRequest) /\ stage' \in {"check", "save"} /\ failures' \in 0..MaxFailures
      /\ stage' = "save" => Done /\ sent' = sent
  <2>1. CASE ActsOn
    BY <1>2, <2>1 DEF ActsOn, ReceiptsInv, ReceiptsTypeOK
  <2>2. CASE ActFails
    <3>1. failures' \in 0..MaxFailures
      BY <2>2, ReceiptsAssumption DEF ActFails, ReceiptsInv, ReceiptsTypeOK
    <3> QED
      BY <1>2, <2>2, <3>1 DEF ActFails, Leaves
  <2> QED
    BY <2>1, <2>2
<1>7. ReceiptsTypeOK'
  BY <1>1, <1>5, <1>6 DEF ReceiptsInv, ReceiptsTypeOK, Effect
<1>8. AtHead'
  <2>1. ASSUME stage' = "save"
        PROVE  effects' # <<>> /\ effects'[Len(effects')] = [input |-> First', until |-> 0]
    <3>1. /\ Len(effects') = Len(effects) + 1 /\ effects'[Len(effects) + 1] = [input |-> First, until |-> 0]
          /\ DOMAIN effects' = DOMAIN effects \cup {Len(effects) + 1}
      BY <1>1, <1>6, <2>1, DoneAppends DEF ReceiptsInv
    <3>2. First' = First
      BY <1>6, <2>1 DEF First
    <3> QED
      BY <3>1, <3>2
  <2> QED
    BY <1>1, <1>6, <2>1 DEF AtHead
<1>9. Cleared'
  BY <1>6 DEF Cleared
<1> QED
  BY <1>5, <1>7, <1>8, <1>9 DEF ReceiptsInv

\* The receipt is saved, and the effect lasts as long as it says.
LEMMA SavesKeeps == ASSUME ReceiptsInv, SavesReceipt PROVE ReceiptsInv'
<1> DEFINE n == Len(effects)
           saved == [body |-> First.body, answer |-> n, expires |-> clock + Ttl]
<1>1. /\ receipts \in [Keys -> ReceiptRow] /\ effects \in Seq(Effect)
      /\ \A i \in DOMAIN effects : effects[i] \in Effect
      /\ n \in Nat /\ DOMAIN effects = 1..n /\ clock \in Nat
  BY ReceiptsTypes DEF ReceiptsInv
<1>2. sent # <<>> /\ effects # <<>> /\ effects[n] = [input |-> First, until |-> 0]
  BY DEF SavesReceipt, ReceiptsInv, AtHead
<1>3. First \in InputRequest /\ First.key \in Keys /\ First.body \in InputBodies /\ Tail(sent) \in Seq(InputRequest)
  BY <1>2, ReceiptsTypes DEF ReceiptsInv, InputRequest
<1>4. n \in DOMAIN effects /\ n \in Nat /\ clock + Ttl \in Nat /\ clock + Ttl > clock
  BY <1>1, <1>2, ReceiptsAssumption
<1>5. saved \in ReceiptRow /\ saved # NoReceipt
  BY <1>3, <1>4 DEF ReceiptRow, NoReceipt
<1>6. \A k \in Keys : receipts'[k] = IF k = First.key THEN saved ELSE receipts[k]
  BY <1>1 DEF SavesReceipt
<1>7. receipts' \in [Keys -> ReceiptRow]
  BY <1>1, <1>5 DEF SavesReceipt
<1>8. /\ DOMAIN effects' = DOMAIN effects
      /\ \A i \in DOMAIN effects : effects'[i].input = effects[i].input
      /\ \A i \in DOMAIN effects : effects'[i].until = IF i = n THEN clock + Ttl ELSE effects[i].until
      /\ \A i \in DOMAIN effects : effects'[i] \in Effect
  BY <1>1, <1>4 DEF SavesReceipt, Effect
<1>9. effects' \in Seq(Effect)
  BY <1>1, <1>4, <1>8 DEF SavesReceipt
<1>10. clock' = clock /\ stage' = "check" /\ sent' = Tail(sent)
       /\ told' = told \cup {[input |-> First, effect |-> n]} /\ UNCHANGED <<activeNow, copiesSent, failures>>
  BY DEF SavesReceipt, Leaves
<1>11. told' \subseteq [input : InputRequest, effect : Nat]
  BY <1>3, <1>4, <1>10 DEF ReceiptsInv, ReceiptsTypeOK
<1>12. ReceiptsTypeOK'
  BY <1>3, <1>7, <1>9, <1>10, <1>11 DEF ReceiptsInv, ReceiptsTypeOK, ReceiptRow, Effect
<1>13. AtHead' /\ Cleared'
  BY <1>10 DEF AtHead, Cleared
<1>14. \A i \in DOMAIN effects : effects[i].input.key \in Keys /\ effects[i].until \in Nat
  BY <1>1 DEF Effect, InputRequest
<1>15. OncePerKey'
  <2>1. \A a \in told' : a.effect \in DOMAIN effects' /\ effects'[a.effect].input = a.input
    BY <1>2, <1>4, <1>8, <1>10 DEF ReceiptsInv, OncePerKey
  <2>2. \A i, j \in DOMAIN effects' :
          i < j /\ effects'[i].input.key = effects'[j].input.key => effects'[i].until <= clock'
    BY <1>1, <1>8, <1>10 DEF ReceiptsInv, OncePerKey
  <2> QED
    BY <2>1, <2>2 DEF OncePerKey
<1> HIDE DEF n, saved
<1>16. saved.answer = n /\ saved.expires = clock + Ttl /\ saved.body = First.body
  BY DEF saved
<1>17. Backed'
  <2>1. ASSUME NEW k \in Keys, receipts'[k] # NoReceipt
        PROVE  /\ receipts'[k].answer \in DOMAIN effects'
               /\ effects'[receipts'[k].answer].input.key = k
               /\ effects'[receipts'[k].answer].input.body = receipts'[k].body
               /\ effects'[receipts'[k].answer].until = receipts'[k].expires
    <3>1. CASE k = First.key
      BY <3>1, <1>2, <1>4, <1>6, <1>8, <1>16
    <3>2. CASE k # First.key
      <4>1. /\ receipts'[k] = receipts[k] /\ receipts[k].answer \in DOMAIN effects
            /\ effects[receipts[k].answer].input.key = k
            /\ effects[receipts[k].answer].input.body = receipts[k].body
            /\ effects[receipts[k].answer].until = receipts[k].expires
        BY <2>1, <3>2, <1>6 DEF ReceiptsInv, Backed
      <4>2. receipts[k].answer # n
        BY <3>2, <4>1, <1>2
      <4> QED
        BY <4>1, <4>2, <1>8
    <3> QED
      BY <3>1, <3>2
  <2>2. ASSUME NEW i \in DOMAIN effects, effects'[i].until > clock
        PROVE  receipts'[effects'[i].input.key] # NoReceipt /\ receipts'[effects'[i].input.key].answer = i
    <3>1. CASE i = n
      BY <3>1, <1>2, <1>3, <1>5, <1>6, <1>8, <1>16
    <3>2. CASE i # n
      <4>1. effects[i].until > clock /\ effects'[i].input = effects[i].input
        BY <2>2, <3>2, <1>8
      <4>2. i < n
        BY <3>2, <1>1
      <4>3. effects[i].input.key # First.key
        BY <4>1, <4>2, <1>1, <1>2, <1>4, <1>14 DEF ReceiptsInv, OncePerKey
      <4> QED
        BY <4>1, <4>3, <1>6, <1>14 DEF ReceiptsInv, Backed
    <3> QED
      BY <3>1, <3>2
  <2> QED
    BY <2>1, <2>2, <1>8, <1>10 DEF Backed
<1> QED
  BY <1>12, <1>13, <1>15, <1>17 DEF ReceiptsInv

LEMMA ReceiptsKept == ReceiptsInv /\ [ReceiptsNext]_receiptVars => ReceiptsInv'
<1> SUFFICES ASSUME ReceiptsInv, [ReceiptsNext]_receiptVars PROVE ReceiptsInv'
  OBVIOUS
<1>1. CASE TimePasses
  <2>1. clock' \in 0..MaxClock /\ clock' = clock + 1 /\ clock \in Nat
    BY <1>1, ReceiptsAssumption DEF TimePasses, ReceiptsInv, ReceiptsTypeOK
  <2>2. \A i \in DOMAIN effects : effects[i].until \in Nat
    BY ReceiptsTypes DEF ReceiptsInv, Effect
  <2>3. ReceiptsTypeOK' /\ AtHead'
    BY <1>1, <2>1 DEF TimePasses, ReceiptsInv, ReceiptsTypeOK, AtHead, First
  <2>4. \A i \in DOMAIN effects : /\ effects[i].until > clock' => effects[i].until > clock
                                  /\ effects[i].until <= clock => effects[i].until <= clock'
    BY <2>1, <2>2
  <2>5. Backed' /\ Cleared' /\ OncePerKey'
    BY <1>1, <2>4 DEF TimePasses, ReceiptsInv, Backed, Cleared, OncePerKey, First
  <2> QED
    BY <2>3, <2>5 DEF ReceiptsInv
<1>2. CASE MovesOn
  <2>1. activeNow' \in BOOLEAN
    BY <1>2 DEF MovesOn, ReceiptsInv, ReceiptsTypeOK
  <2> QED
    BY <1>2, <2>1 DEF MovesOn, ReceiptsInv, ReceiptsTypeOK, AtHead, Backed, Cleared, OncePerKey, First
<1>3. CASE ServerEnds
  <2>1. failures' \in 0..MaxFailures /\ sent' \in Seq(InputRequest)
    BY <1>3, ReceiptsAssumption DEF ServerEnds, ReceiptsInv, ReceiptsTypeOK
  <2> QED
    BY <1>3, <2>1 DEF ServerEnds, ReceiptsInv, ReceiptsTypeOK, AtHead, Backed, Cleared, OncePerKey
<1>4. CASE UNCHANGED receiptVars
  BY <1>4 DEF receiptVars, ReceiptsInv, ReceiptsTypeOK, AtHead, Backed, Cleared, OncePerKey, First
<1> QED
  BY <1>1, <1>2, <1>3, <1>4, SendsKeeps, AnswersKeep, ActsKeep, SavesKeeps DEF ReceiptsNext

\* OncePerKey: for any number of keys, bodies and copies, and any life of a receipt, who is told
\* ok is told of what was done for this very request, and while a receipt stands nothing else is
\* done under its key.
THEOREM ActsOncePerKey == ReceiptsSpec => []OncePerKey
<1>1. ReceiptsInv => OncePerKey
  BY DEF ReceiptsInv
<1> QED
  BY ReceiptsInitially, ReceiptsKept, <1>1, PTL DEF ReceiptsSpec

-----------------------------------------------------------------------------
(* The environment of a task and its scripts.                                *)

Total == setups + (IF hasInit THEN 1 ELSE 0)

\* Every script there is has ended well, the setup in this worktree.
AllRan == ranHere = setups /\ (hasInit => inited \/ initBefore)

\* A provision has its worktree, and so has a runner, which outlives the daemon alone.
Housed ==
  /\ step # "idle" => row = "creating" /\ present /\ provisioned
  /\ runner.alive => step \in {"idle", "wait"} /\ row = "creating" /\ present /\ answer = "none"

\* Where the runner stands: the setup scripts that ran here and those that are left are all of
\* them, and init is among the scripts unless its marker stands.
Along ==
  /\ ranHere \in Nat
  /\ step \in {"copy", "setup"} => ranHere = 0
  /\ runner.alive =>
       /\ ranHere + runner.left = setups
       /\ runner.init <=> hasInit /\ ~marker
       /\ runner.left > 0 \/ runner.init
  /\ step = "wait" /\ answer = "ok" => ranHere = setups /\ (hasInit => inited \/ marker)
  /\ step \in {"mark", "hooks"} \/ (row = "active" /\ provisioned) => AllRan
  /\ marker => inited \/ initBefore

\* The time of one script is that of the daemon that waits for it.
Timed ==
  /\ step = "wait" /\ runner.alive /\ Total <= 1 => waited = runner.ran
  /\ unheard = "late" => Total > 1

\* Files of the user are in the worktree of an active task only, and a recopy that is not
\* forced plans none that was there.
Owned ==
  /\ row # "active" => \A f \in Files : dest[f] # "own"
  /\ ~recopy.force => recopy.plan \cap recopy.had = {}

ProvisionInv == ProvisionTypeOK /\ Housed /\ Along /\ Timed /\ Owned

RunnerType == [alive : BOOLEAN, left : 0..MaxScripts, init : BOOLEAN, ran : 0..Limit]
RecopyType == [step : {"none", "planned"}, force : BOOLEAN, plan : SUBSET Files, had : SUBSET Files]
DestType == [Files -> {"none", "copy", "own"}]

\* The types, one variable each.
Typed ==
  /\ setups \in 0..MaxScripts /\ trees \in 0..MaxTrees
  /\ row \in {"creating", "active", "error", "archived"}
  /\ source \subseteq Files /\ manifest \subseteq Files /\ dest \in DestType
  /\ step \in {"idle", "copy", "setup", "wait", "mark", "hooks"}
  /\ waited \in 0..(Limit + Slack) /\ runner \in RunnerType /\ answer \in {"none", "ok", "failed"}
  /\ recopy \in RecopyType
  /\ hasInit \in BOOLEAN /\ present \in BOOLEAN /\ marker \in BOOLEAN
  /\ inited \in BOOLEAN /\ initBefore \in BOOLEAN /\ provisioned \in BOOLEAN

LEMMA ProvisionTypes == (ProvisionTypeOK <=> Typed) /\ (ProvisionTypeOK' <=> Typed')
BY DEF ProvisionTypeOK, Typed, RunnerType, RecopyType, DestType

LEMMA Empty ==
  /\ NoRunner \in RunnerType /\ ~NoRunner.alive /\ NoRecopy \in RecopyType
  /\ 0 \in 0..(Limit + Slack) /\ {MaxScripts, MaxTrees, Limit, Slack} \subseteq Nat /\ Slack > 0
  /\ [f \in Files |-> "none"] \in DestType
BY ProvisionAssumption DEF NoRunner, RunnerType, NoRecopy, RecopyType, DestType

LEMMA ProvisionInitially == ProvisionInit => ProvisionInv
<1> SUFFICES ASSUME ProvisionInit PROVE ProvisionInv
  OBVIOUS
<1>1. ProvisionTypeOK
  <2>1. 0 \in 0..MaxTrees
    BY Empty
  <2>2. dest \in DestType /\ runner \in RunnerType /\ recopy \in RecopyType /\ waited \in 0..(Limit + Slack)
    BY Empty DEF ProvisionInit
  <2> QED
    BY <2>1, <2>2, ProvisionTypes DEF Typed, ProvisionInit
<1>2. Housed /\ Along /\ Timed /\ Owned
  BY Empty DEF ProvisionInit, Housed, Along, Timed, Owned, NoRecopy
<1> QED
  BY <1>1, <1>2 DEF ProvisionInv

\* The worktree goes, and with it what was under way in it.
LEMMA RollsBackKeeps ==
  ASSUME ProvisionInv, RollsBack, manifest' = manifest,
         UNCHANGED <<fixed, trees, source, recopy, marker, ranHere, inited, initBefore, provisioned>>,
         unheard' = "late" => Total > 1
  PROVE  ProvisionInv'
<1>1. ProvisionTypeOK'
  BY Empty, ProvisionTypes DEF Typed, ProvisionInv, RollsBack, Bare, fixed
<1>2. Housed' /\ Timed'
  BY Empty DEF RollsBack, Housed, Timed, Total, fixed
<1>3. Along'
  BY Empty DEF ProvisionInv, RollsBack, Along, fixed
<1>4. Owned'
  BY DEF ProvisionInv, RollsBack, Bare, Owned
<1> QED
  BY <1>1, <1>2, <1>3, <1>4 DEF ProvisionInv

\* Create and retry, archive and unarchive.
LEMMA TreesKeep ==
  ASSUME ProvisionInv, Provisions \/ ArchivesTree \/ Unarchives
  PROVE  ProvisionInv'
<1>1. CASE Provisions /\ present
  BY <1>1, RollsBackKeeps DEF Provisions, ProvisionInv, Timed
<1>2. CASE Provisions /\ ~present
  <2>1. /\ NewTree(TRUE) /\ row' = "creating" /\ step' = "copy" /\ step = "idle"
        /\ UNCHANGED <<fixed, scriptVars, source, manifest, recopy, marker, unheard>>
    BY <1>2 DEF Provisions
  <2>2. trees' \in 0..MaxTrees
    BY <2>1, ProvisionTypes, Empty DEF Typed, NewTree, ProvisionInv
  <2>3. initBefore' \in BOOLEAN /\ initBefore' = (initBefore \/ inited)
    BY <2>1 DEF NewTree
  <2>4. ProvisionTypeOK'
    BY <2>1, <2>2, <2>3, Empty, ProvisionTypes DEF Typed, NewTree, Bare, ProvisionInv, fixed, scriptVars
  <2>5. ~runner.alive
    BY <1>2 DEF ProvisionInv, Housed
  <2>6. Housed' /\ Along' /\ Timed' /\ Owned'
    BY <2>1, <2>3, <2>5 DEF NewTree, Bare, ProvisionInv, Housed, Along, Timed, Owned, Total, fixed, scriptVars
  <2> QED
    BY <2>4, <2>6 DEF ProvisionInv
<1>3. CASE ArchivesTree
  <2>1. ~runner.alive
    BY <1>3 DEF ArchivesTree, ProvisionInv, Housed
  <2>2. ProvisionTypeOK'
    BY <1>3, Empty, ProvisionTypes DEF Typed, ArchivesTree, Bare, ProvisionInv, fixed, scriptVars, historyVars
  <2>3. Housed' /\ Along' /\ Timed' /\ Owned'
    BY <1>3, <2>1 DEF ArchivesTree, Bare, ProvisionInv, Housed, Along, AllRan, Timed, Owned, Total, fixed, scriptVars, historyVars
  <2> QED
    BY <2>2, <2>3 DEF ProvisionInv
<1>4. CASE Unarchives
  <2>1. ~runner.alive
    BY <1>4 DEF Unarchives, ProvisionInv, Housed
  <2>2. trees' \in 0..MaxTrees
    BY <1>4, ProvisionTypes, Empty DEF Typed, Unarchives, NewTree, ProvisionInv
  <2>3. initBefore' \in BOOLEAN /\ initBefore' = (initBefore \/ inited)
    BY <1>4 DEF Unarchives, NewTree
  <2>4. ProvisionTypeOK'
    BY <1>4, <2>2, <2>3, Empty, ProvisionTypes DEF Typed, Unarchives, NewTree, Bare, ProvisionInv, fixed, scriptVars
  <2>5. Housed' /\ Along' /\ Timed' /\ Owned'
    BY <1>4, <2>1, <2>3 DEF Unarchives, NewTree, Bare, ProvisionInv, Housed, Along, Timed, Owned, Total, fixed, scriptVars
  <2> QED
    BY <2>4, <2>5 DEF ProvisionInv
<1> QED
  BY <1>1, <1>2, <1>3, <1>4

\* The steps of the provision.
LEMMA ProvisionKeeps ==
  ASSUME ProvisionInv, Copies \/ StartsScripts \/ HearsRunner \/ Marks \/ Activates
  PROVE  ProvisionInv'
<1>1. unheard = "late" => Total > 1
  BY DEF ProvisionInv, Timed
<1>2. CASE Copies
  <2>1. CASE RollsBack /\ UNCHANGED manifest
    BY <1>1, <1>2, <2>1, RollsBackKeeps DEF Copies, historyVars
  <2>2. CASE /\ dest' = [f \in Files |-> IF f \in source THEN "copy" ELSE dest[f]]
             /\ manifest' = source /\ step' = "setup" /\ UNCHANGED <<row, present, scriptVars>>
    <3>1. UNCHANGED <<fixed, trees, source, recopy, marker, historyVars>> /\ step = "copy"
      BY <1>2 DEF Copies
    <3>2. dest' \in DestType /\ \A f \in Files : dest'[f] \in {"copy", dest[f]}
      BY <2>2, ProvisionTypes DEF Typed, ProvisionInv, DestType
    <3>3. ProvisionTypeOK'
      BY <2>2, <3>1, <3>2, ProvisionTypes DEF Typed, ProvisionInv, fixed, scriptVars, historyVars
    <3>4. Housed' /\ Along' /\ Timed' /\ Owned'
      BY <2>2, <3>1, <3>2 DEF ProvisionInv, Housed, Along, AllRan, Timed, Owned, Total, fixed, scriptVars, historyVars
    <3> QED
      BY <3>3, <3>4 DEF ProvisionInv
  <2> QED
    BY <1>2, <2>1, <2>2 DEF Copies
<1>3. CASE StartsScripts
  <2>1. step = "setup" /\ UNCHANGED <<fixed, row, trees, present, fileVars, marker, historyVars>>
    BY <1>3 DEF StartsScripts
  <2>2. CASE setups = 0 /\ ~(hasInit /\ ~marker)
    <3>1. step' = "hooks" /\ UNCHANGED scriptVars
      BY <1>3, <2>2 DEF StartsScripts
    <3>2. ProvisionTypeOK'
      BY <2>1, <3>1, ProvisionTypes DEF Typed, ProvisionInv, fixed, fileVars, scriptVars, historyVars
    <3>3. Housed' /\ Along' /\ Timed' /\ Owned'
      BY <2>1, <2>2, <3>1 DEF ProvisionInv, Housed, Along, AllRan, Timed, Owned, Total, fixed, fileVars, scriptVars, historyVars
    <3> QED
      BY <3>2, <3>3 DEF ProvisionInv
  <2>3. CASE ~(setups = 0 /\ ~(hasInit /\ ~marker))
    <3>1. /\ step' = "wait" /\ waited' = 0 /\ answer' = "none"
          /\ runner' = [alive |-> TRUE, left |-> setups, init |-> hasInit /\ ~marker, ran |-> 0]
      BY <1>3, <2>3 DEF StartsScripts
    <3>2. (hasInit /\ ~marker) \in BOOLEAN /\ setups \in 0..MaxScripts /\ 0 \in 0..Limit
      BY ProvisionTypes, Empty DEF Typed, ProvisionInv
    <3>3. runner' \in RunnerType
      BY <3>1, <3>2 DEF RunnerType
    <3>4. ProvisionTypeOK'
      BY <2>1, <3>1, <3>3, ProvisionTypes, Empty DEF Typed, ProvisionInv, fixed, fileVars, historyVars
    <3>5. Along'
      <4>1. setups \in Nat /\ ranHere = 0 /\ (setups > 0 \/ (hasInit /\ ~marker))
        BY <2>1, <2>3, <3>2, Empty DEF ProvisionInv, Along
      <4> QED
        <5>1. /\ runner'.left = setups /\ (runner'.init <=> hasInit /\ ~marker)
              /\ UNCHANGED <<setups, hasInit, row, marker, ranHere, inited, initBefore, provisioned>>
          BY <2>1, <3>1 DEF fixed, historyVars
        <5>2. row' # "active" /\ step' = "wait" /\ answer' # "ok"
          BY <2>1, <3>1, <5>1 DEF ProvisionInv, Housed
        <5>3. marker' => inited' \/ initBefore'
          BY <5>1 DEF ProvisionInv, Along
        <5>4. ranHere' + runner'.left = setups' /\ ranHere' \in Nat
          BY <4>1, <5>1
        <5>5. (runner'.init <=> hasInit' /\ ~marker') /\ (runner'.left > 0 \/ runner'.init)
          BY <4>1, <5>1
        <5> QED
          BY <5>2, <5>3, <5>4, <5>5 DEF Along
    <3>6. Housed' /\ Timed' /\ Owned'
      BY <2>1, <3>1 DEF ProvisionInv, Housed, Timed, Owned, Total, fixed, fileVars, historyVars
    <3> QED
      BY <3>4, <3>5, <3>6 DEF ProvisionInv
  <2> QED
    BY <2>2, <2>3
<1>4. CASE HearsRunner
  <2>1. /\ step = "wait"
        /\ UNCHANGED <<fixed, trees, source, manifest, recopy, marker, ranHere, inited, initBefore, provisioned>>
    BY <1>4 DEF HearsRunner
  <2>2. CASE answer = "failed" /\ RollsBack /\ UNCHANGED unheard
    BY <1>1, <2>1, <2>2, RollsBackKeeps
  <2>3. CASE /\ answer = "none" /\ waited = Limit + Slack
             /\ unheard' = IF runner.alive THEN "late" ELSE "lost"
             /\ RollsBack
    <3>1. runner.alive => Total > 1
      <4>1. runner.ran \in 0..Limit /\ setups \in Nat
        BY ProvisionTypes, Empty DEF Typed, ProvisionInv, RunnerType
      <4>2. waited # runner.ran
        BY <2>3, <4>1, Empty
      <4>3. Total \in Nat
        BY <4>1 DEF Total
      <4> QED
        BY <2>1, <4>2, <4>3 DEF ProvisionInv, Timed
    <3> QED
      BY <2>1, <2>3, <3>1, RollsBackKeeps
  <2>4. CASE /\ answer = "ok" /\ step' = "mark" /\ answer' = "none"
             /\ UNCHANGED <<row, present, dest, runner, waited, unheard>>
    <3>1. ProvisionTypeOK'
      BY <2>1, <2>4, ProvisionTypes DEF Typed, ProvisionInv, fixed
    <3>2. Housed' /\ Along' /\ Timed' /\ Owned'
      BY <2>1, <2>4 DEF ProvisionInv, Housed, Along, AllRan, Timed, Owned, Total, fixed
    <3> QED
      BY <3>1, <3>2 DEF ProvisionInv
  <2> QED
    BY <1>4, <2>2, <2>3, <2>4 DEF HearsRunner
<1>5. CASE Marks
  <2>1. marker' \in BOOLEAN /\ marker' = (marker \/ hasInit)
    BY <1>5 DEF Marks
  <2>2. ProvisionTypeOK'
    BY <1>5, <2>1, ProvisionTypes DEF Typed, Marks, ProvisionInv, fixed, fileVars, scriptVars, historyVars
  <2>3. Housed' /\ Along' /\ Timed' /\ Owned'
    BY <1>5, <2>1 DEF Marks, ProvisionInv, Housed, Along, AllRan, Timed, Owned, Total, fixed, fileVars, scriptVars, historyVars
  <2> QED
    BY <2>2, <2>3 DEF ProvisionInv
<1>6. CASE Activates
  <2>1. CASE RollsBack
    BY <1>1, <1>6, <2>1, RollsBackKeeps DEF Activates, historyVars
  <2>2. CASE row' = "active" /\ step' = "idle" /\ UNCHANGED <<present, dest, scriptVars>>
    <3>1. step = "hooks" /\ UNCHANGED <<fixed, trees, source, manifest, recopy, marker, historyVars>>
      BY <1>6 DEF Activates
    <3>2. ProvisionTypeOK'
      BY <2>2, <3>1, ProvisionTypes DEF Typed, ProvisionInv, fixed, scriptVars, historyVars
    <3>3. Housed' /\ Along' /\ Timed' /\ Owned'
      BY <2>2, <3>1 DEF ProvisionInv, Housed, Along, AllRan, Timed, Owned, Total, fixed, scriptVars, historyVars
    <3> QED
      BY <3>2, <3>3 DEF ProvisionInv
  <2> QED
    BY <1>6, <2>1, <2>2 DEF Activates
<1> QED
  BY <1>2, <1>3, <1>4, <1>5, <1>6

\* The runner and the clock.
LEMMA RunnerKeeps ==
  ASSUME ProvisionInv, ScriptEnds \/ ScriptFails \/ Tick \/ RunnerDies
  PROVE  ProvisionInv'
<1>1. /\ runner \in RunnerType /\ runner.left \in Nat /\ runner.ran \in 0..Limit /\ waited \in 0..(Limit + Slack)
      /\ setups \in Nat /\ ranHere \in Nat /\ Limit \in Nat /\ Slack \in Nat
  BY ProvisionTypes, Empty DEF Typed, ProvisionInv, RunnerType, Along
<1>2. CASE ScriptEnds
  <2>1. /\ runner.alive /\ step \in {"idle", "wait"} /\ row = "creating" /\ present
        /\ ranHere + runner.left = setups /\ (runner.init <=> hasInit /\ ~marker)
        /\ runner.left > 0 \/ runner.init
        /\ UNCHANGED <<fixed, row, trees, present, fileVars, marker, step, waited, initBefore, provisioned, unheard>>
    BY <1>2 DEF ScriptEnds, ProvisionInv, Housed, Along
  <2>2. CASE runner.left = 0
    <3>1. inited' = TRUE /\ ranHere' = ranHere /\ runner' = NoRunner /\ answer' = "ok"
      BY <1>2, <2>2 DEF ScriptEnds
    <3>2. ProvisionTypeOK'
      BY <2>1, <3>1, ProvisionTypes, Empty DEF Typed, ProvisionInv, fixed, fileVars
    <3>3. Housed' /\ Along' /\ Timed' /\ Owned'
      BY <1>1, <2>1, <2>2, <3>1, Empty DEF ProvisionInv, Housed, Along, Timed, Owned, Total, fixed, fileVars
    <3> QED
      BY <3>2, <3>3 DEF ProvisionInv
  <2>3. CASE runner.left = 1 /\ ~runner.init
    <3>1. inited' = inited /\ ranHere' = ranHere + 1 /\ runner' = NoRunner /\ answer' = "ok"
      BY <1>2, <2>3 DEF ScriptEnds
    <3>2. ProvisionTypeOK'
      BY <2>1, <3>1, ProvisionTypes, Empty DEF Typed, ProvisionInv, fixed, fileVars
    <3>3. Along'
      BY <1>1, <2>1, <2>3, <3>1, Empty DEF ProvisionInv, Along, fixed
    <3>4. Housed' /\ Timed' /\ Owned'
      BY <2>1, <3>1, Empty DEF ProvisionInv, Housed, Timed, Owned, Total, fixed, fileVars
    <3> QED
      BY <3>2, <3>3, <3>4 DEF ProvisionInv
  <2>4. CASE runner.left > 0 /\ (runner.left > 1 \/ runner.init)
    <3>1. /\ inited' = inited /\ ranHere' = ranHere + 1 /\ answer' = answer
          /\ runner' = [runner EXCEPT !.left = @ - 1, !.ran = 0]
      BY <1>1, <1>2, <2>4 DEF ScriptEnds
    <3>2. runner' \in RunnerType /\ runner'.left = runner.left - 1 /\ runner'.alive /\ (runner'.init <=> runner.init)
      <4>1. runner.left - 1 \in 0..MaxScripts /\ 0 \in 0..Limit
        BY <1>1, <2>4, Empty DEF RunnerType
      <4> QED
        BY <1>1, <2>1, <3>1, <4>1 DEF RunnerType
    <3>3. ProvisionTypeOK'
      BY <2>1, <3>1, <3>2, ProvisionTypes, Empty DEF Typed, ProvisionInv, fixed, fileVars
    <3>4. Along'
      BY <1>1, <2>1, <2>4, <3>1, <3>2 DEF ProvisionInv, Along, Housed, fixed
    <3>5. Total > 1
      BY <1>1, <2>1, <2>4 DEF Total
    <3>6. Housed' /\ Timed' /\ Owned'
      <4>1. ~(Total <= 1)
        BY <1>1, <3>5 DEF Total
      <4> QED
        BY <2>1, <3>1, <3>2, <3>5, <4>1 DEF ProvisionInv, Housed, Timed, Owned, Total, fixed, fileVars
    <3> QED
      BY <3>3, <3>4, <3>6 DEF ProvisionInv
  <2> QED
    BY <1>1, <2>1, <2>2, <2>3, <2>4
<1>3. CASE ScriptFails
  <2>1. ProvisionTypeOK'
    BY <1>3, ProvisionTypes, Empty DEF Typed, ScriptFails, ProvisionInv, fixed, fileVars, historyVars
  <2>2. Housed' /\ Along' /\ Timed' /\ Owned'
    BY <1>3, Empty DEF ScriptFails, ProvisionInv, Housed, Along, AllRan, Timed, Owned, Total, fixed, fileVars, historyVars
  <2> QED
    BY <2>1, <2>2 DEF ProvisionInv
<1>4. CASE Tick
  <2>1. /\ UNCHANGED <<fixed, row, trees, present, fileVars, marker, step, answer, historyVars>>
        /\ waited' = IF step = "wait" THEN waited + 1 ELSE waited
        /\ runner' = IF runner.alive THEN [runner EXCEPT !.ran = @ + 1] ELSE runner
        /\ runner.alive => runner.ran < Limit
        /\ step = "wait" => waited < Limit + Slack
    BY <1>4 DEF Tick
  <2>2. waited' \in 0..(Limit + Slack)
    BY <1>1, <2>1
  <2>3. /\ runner' \in RunnerType /\ (runner'.alive <=> runner.alive) /\ runner'.left = runner.left
        /\ (runner'.init <=> runner.init) /\ (runner.alive => runner'.ran = runner.ran + 1)
    BY <1>1, <2>1 DEF RunnerType
  <2>4. ProvisionTypeOK'
    BY <2>1, <2>2, <2>3, ProvisionTypes DEF Typed, ProvisionInv, fixed, fileVars, historyVars
  <2>5. Housed' /\ Along' /\ Timed' /\ Owned'
    BY <2>1, <2>3 DEF ProvisionInv, Housed, Along, AllRan, Timed, Owned, Total, fixed, fileVars, historyVars
  <2> QED
    BY <2>4, <2>5 DEF ProvisionInv
<1>5. CASE RunnerDies
  <2>1. ProvisionTypeOK'
    BY <1>5, ProvisionTypes, Empty DEF Typed, RunnerDies, ProvisionInv, fixed, fileVars, historyVars
  <2>2. Housed' /\ Along' /\ Timed' /\ Owned'
    BY <1>5, Empty DEF RunnerDies, ProvisionInv, Housed, Along, AllRan, Timed, Owned, Total, fixed, fileVars, historyVars
  <2> QED
    BY <2>1, <2>2 DEF ProvisionInv
<1> QED
  BY <1>2, <1>3, <1>4, <1>5

\* Copying again, the files of the user, the end of the daemon.
LEMMA FilesKeep ==
  ASSUME ProvisionInv, PlansRecopy \/ Recopies \/ (\E f \in Files : WritesFile(f)) \/ DaemonEnds
  PROVE  ProvisionInv'
<1>1. /\ source \subseteq Files /\ dest \in DestType /\ recopy \in RecopyType /\ manifest \subseteq Files
      /\ recopy.plan \subseteq Files /\ There \subseteq Files
  BY ProvisionTypes DEF Typed, ProvisionInv, RecopyType, There
<1>2. ASSUME UNCHANGED <<fixed, row, trees, present, marker, step, scriptVars, historyVars>>,
             source' \subseteq Files, manifest' \subseteq Files, dest' \in DestType, recopy' \in RecopyType,
             row # "active" => \A f \in Files : dest'[f] # "own",
             ~recopy'.force => recopy'.plan \cap recopy'.had = {}
      PROVE  ProvisionInv'
  <2>1. ProvisionTypeOK'
    BY <1>2, ProvisionTypes DEF Typed, ProvisionInv, fixed, scriptVars, historyVars
  <2>2. Housed' /\ Along' /\ Timed' /\ Owned'
    BY <1>2 DEF ProvisionInv, Housed, Along, AllRan, Timed, Owned, Total, fixed, scriptVars, historyVars
  <2> QED
    BY <2>1, <2>2 DEF ProvisionInv
<1>3. (row # "active" => \A f \in Files : dest[f] # "own") /\ (~recopy.force => recopy.plan \cap recopy.had = {})
  BY DEF ProvisionInv, Owned
<1>4. CASE PlansRecopy
  <2>1. PICK force \in BOOLEAN : recopy' = [step |-> "planned", force |-> force, had |-> There,
                                            plan |-> IF force THEN source ELSE source \ There]
    BY <1>4 DEF PlansRecopy
  <2>2. recopy' \in RecopyType /\ (~recopy'.force => recopy'.plan \cap recopy'.had = {})
    <3>1. CASE force
      BY <1>1, <2>1, <3>1 DEF RecopyType
    <3>2. CASE ~force
      BY <1>1, <2>1, <3>2 DEF RecopyType
    <3> QED
      BY <3>1, <3>2
  <2> QED
    BY <1>1, <1>2, <1>3, <1>4, <2>2 DEF PlansRecopy
<1>5. CASE Recopies
  <2>1. recopy' \in RecopyType /\ recopy'.plan \cap recopy'.had = {}
    BY <1>5, Empty DEF Recopies, NoRecopy
  <2>2. manifest' \subseteq Files
    BY <1>1, <1>5 DEF Recopies
  <2>3. dest' \in DestType /\ \A f \in Files : dest'[f] \in {"copy", "none", dest[f]}
    <3>1. CASE dest' = dest
      BY <1>1, <3>1
    <3>2. ASSUME NEW S \in SUBSET Files, NEW v \in {"copy", "none"},
                 dest' = [f \in Files |-> IF f \in S THEN v ELSE dest[f]]
          PROVE  dest' \in DestType /\ \A f \in Files : dest'[f] \in {"copy", "none", dest[f]}
      BY <1>1, <3>2 DEF DestType
    <3>3. CASE dest' = [f \in Files |-> IF f \in recopy.plan THEN "copy" ELSE dest[f]]
      BY <1>1, <3>2, <3>3
    <3>4. CASE \E copied \in SUBSET recopy.plan : dest' = [f \in Files |-> IF f \in copied THEN "none" ELSE dest[f]]
      <4>1. PICK copied \in SUBSET recopy.plan : dest' = [f \in Files |-> IF f \in copied THEN "none" ELSE dest[f]]
        BY <3>4
      <4> QED
        BY <1>1, <3>2, <4>1
    <3> QED
      BY <1>5, <3>1, <3>3, <3>4 DEF Recopies
  <2> QED
    BY <1>1, <1>2, <1>3, <1>5, <2>1, <2>2, <2>3 DEF Recopies
<1>6. ASSUME NEW f \in Files, WritesFile(f) PROVE ProvisionInv'
  <2>1. source' \subseteq Files /\ dest' \in DestType /\ (row # "active" => dest' = dest)
    BY <1>1, <1>6 DEF WritesFile, DestType
  <2> QED
    BY <1>1, <1>2, <1>3, <1>6, <2>1 DEF WritesFile
<1>7. CASE DaemonEnds
  <2>1. ProvisionTypeOK'
    BY <1>7, ProvisionTypes, Empty DEF Typed, DaemonEnds, ProvisionInv, fixed, historyVars
  <2>2. Housed' /\ Along' /\ Timed' /\ Owned'
    BY <1>7 DEF DaemonEnds, ProvisionInv, Housed, Along, AllRan, Timed, Owned, Total, fixed, historyVars, NoRecopy
  <2> QED
    BY <2>1, <2>2 DEF ProvisionInv
<1> QED
  BY <1>4, <1>5, <1>6, <1>7

LEMMA ProvisionKept == ProvisionInv /\ [ProvisionNext]_provisionVars => ProvisionInv'
<1> SUFFICES ASSUME ProvisionInv, [ProvisionNext]_provisionVars PROVE ProvisionInv'
  OBVIOUS
<1>1. CASE UNCHANGED provisionVars
  <2>1. ProvisionTypeOK'
    BY <1>1, ProvisionTypes DEF Typed, provisionVars, ProvisionInv, fileVars, scriptVars, historyVars
  <2>2. Housed' /\ Along' /\ Timed' /\ Owned'
    BY <1>1 DEF provisionVars, ProvisionInv, fileVars, scriptVars, historyVars, Housed, Along, AllRan, Timed, Owned, Total
  <2> QED
    BY <2>1, <2>2 DEF ProvisionInv
<1> QED
  BY <1>1, TreesKeep, ProvisionKeeps, RunnerKeeps, FilesKeep DEF ProvisionNext

\* The invariant of the provision, from which the two theorems below follow.
THEOREM ProvisionInvariant == ProvisionSpec => []ProvisionInv
BY ProvisionInitially, ProvisionKept, PTL DEF ProvisionSpec

\* SetupIsComplete: whatever ends in between, and for any number of scripts, worktrees and any
\* time limit, the engine of a task that was provisioned finds every script ended well, and a
\* runner of one script is never given up while it works.
THEOREM SetsUpCompletely == ProvisionSpec => []SetupIsComplete
<1>1. ProvisionInv => SetupIsComplete
  BY DEF ProvisionInv, Along, AllRan, Timed, Total, SetupIsComplete
<1> QED
  BY ProvisionInvariant, <1>1, PTL

\* OwnWritesKept: a recopy that is not forced takes no file from the user.
THEOREM RecopySpares == ProvisionSpec => OwnWritesKept
<1> DEFINE Spares == \A f \in recopy.had : dest[f] = "own" /\ dest'[f] # "own" /\ present' /\ trees' = trees => recopy.force
<1>1. ProvisionInv /\ [ProvisionNext]_provisionVars => [Spares]_provisionVars
  <2> SUFFICES ASSUME ProvisionInv, ProvisionNext, NEW f \in recopy.had,
                      dest[f] = "own", dest'[f] # "own", present', trees' = trees, ~recopy.force
               PROVE  FALSE
    OBVIOUS
  <2>1. /\ f \in Files /\ dest \in DestType /\ recopy.plan \subseteq Files /\ trees \in Nat
        /\ f \notin recopy.plan
    BY ProvisionTypes, Empty DEF Typed, ProvisionInv, RecopyType, Owned
  <2>2. row = "active" /\ step = "idle"
    BY <2>1, ProvisionTypes DEF Typed, ProvisionInv, Owned, Housed
  <2>3. dest' # dest
    OBVIOUS
  <2>4. ~Provisions /\ ~Copies /\ ~StartsScripts /\ ~HearsRunner /\ ~Marks /\ ~Activates /\ ~Unarchives
    BY <2>2 DEF Provisions, Copies, StartsScripts, HearsRunner, Marks, Activates, Unarchives
  <2>5. ~ArchivesTree
    BY DEF ArchivesTree
  <2>6. ~ScriptEnds /\ ~ScriptFails /\ ~Tick /\ ~PlansRecopy /\ ~DaemonEnds /\ ~RunnerDies
    BY <2>3 DEF ScriptEnds, ScriptFails, Tick, PlansRecopy, DaemonEnds, RunnerDies, fileVars
  <2>7. ASSUME NEW h \in Files, WritesFile(h) PROVE FALSE
    BY <2>1, <2>3, <2>7 DEF WritesFile, DestType
  <2>8. ASSUME Recopies PROVE FALSE
    <3>1. CASE dest' = [g \in Files |-> IF g \in recopy.plan THEN "copy" ELSE dest[g]]
      BY <2>1, <3>1
    <3>2. ASSUME NEW copied \in SUBSET recopy.plan, dest' = [g \in Files |-> IF g \in copied THEN "none" ELSE dest[g]]
          PROVE  FALSE
      BY <2>1, <3>2
    <3> QED
      BY <2>3, <2>8, <3>1, <3>2 DEF Recopies
  <2> QED
    BY <2>4, <2>5, <2>6, <2>7, <2>8 DEF ProvisionNext
<1> QED
  BY ProvisionInvariant, <1>1, PTL DEF ProvisionSpec, OwnWritesKept

-----------------------------------------------------------------------------
(* Finishing a task.                                                         *)

LaneSteps == {"free", "status", "main", "branch", "push", "create", "merge", "save"}
Lanes == [at : LaneSteps, pr : BOOLEAN, merge : BOOLEAN, made : BOOLEAN, due : Contents]

LaneTyped == lane \in [Tasks -> Lanes]

\* Branches only grow, and nobody has more of a task than its branch has.
Grown == \A t \in Tasks : tip[t] <= tree[t] /\ base[t] <= tip[t] /\ pushed[t] <= tip[t] /\ lane[t].due <= tip[t]

\* What a request knows of its pull request is so from the push on.
PrMade ==
  \A t \in Tasks :
    /\ lane[t].made => lane[t].at \in {"merge", "save"} /\ pr[t]
    /\ lane[t].made \/ lane[t].at = "create" => pushed[t] >= lane[t].due

\* A request that looked at the branch merges into the base branch, unless the user moved.
OnBase ==
  \A t \in Tasks : lane[t].merge /\ ~moved[t] =>
    /\ lane[t].at \in {"push", "create", "merge"} => checkout.on = "base"
    /\ lane[t].at = "save" => base[t] >= lane[t].due

FinishInv == FinishTypeOK /\ LaneTyped /\ Grown /\ PrMade /\ OnBase /\ FinishIsTrue

LEMMA FinishTypes ==
  FinishTypeOK <=>
    /\ tree \in [Tasks -> Contents] /\ tip \in [Tasks -> Contents]
    /\ base \in [Tasks -> Contents] /\ pushed \in [Tasks -> Contents]
    /\ checkout \in [on : {"base", "other"}, state : {"clean", "dirty", "merging"}]
    /\ remote \in BOOLEAN
    /\ pr \in [Tasks -> BOOLEAN] /\ active \in [Tasks -> BOOLEAN] /\ moved \in [Tasks -> BOOLEAN]
    /\ result \in [Tasks -> [pr : BOOLEAN, merged : BOOLEAN, due : Contents]]
    /\ requests \in 0..MaxRequests /\ userActs \in 0..MaxUser /\ crashes \in 0..MaxCrashes
BY DEF FinishTypeOK

LEMMA FinishInitially == FinishInit => FinishInv
<1> SUFFICES ASSUME FinishInit PROVE FinishInv
  OBVIOUS
<1> USE FinishAssumption
<1>1. 0 \in Contents /\ {0} \subseteq Nat
  BY DEF Contents
<1>2. FinishTypeOK
  BY <1>1, FinishTypes DEF FinishInit, NoResult
<1>3. LaneTyped
  BY <1>1 DEF FinishInit, LaneTyped, Lanes, LaneSteps, NoWork
<1>4. Grown /\ PrMade /\ OnBase /\ FinishIsTrue
  BY DEF FinishInit, Grown, PrMade, OnBase, FinishIsTrue, NoWork, NoResult
<1> QED
  BY <1>2, <1>3, <1>4 DEF FinishInv

\* The contents of a branch are numbers.
LEMMA ContentsAreNumbers == Contents \subseteq Nat
BY FinishAssumption DEF Contents

LEMMA Versions ==
  ASSUME FinishInv, NEW t \in Tasks
  PROVE  /\ tree[t] \in Nat /\ tip[t] \in Nat /\ base[t] \in Nat /\ pushed[t] \in Nat
         /\ lane[t].due \in Nat /\ result[t].due \in Nat /\ 0 <= tip[t] /\ tip[t] <= tip[t]
<1>1. /\ tree[t] \in Contents /\ tip[t] \in Contents /\ base[t] \in Contents /\ pushed[t] \in Contents
      /\ result[t].due \in Contents
  BY FinishTypes DEF FinishInv
<1>2. lane[t].due \in Contents
  BY DEF FinishInv, LaneTyped, Lanes
<1>3. tip[t] \in Nat
  BY <1>1, ContentsAreNumbers
<1>4. 0 <= tip[t] /\ tip[t] <= tip[t]
  BY <1>3
<1>5. result[t].due \in Nat /\ lane[t].due \in Nat
  BY <1>1, <1>2, ContentsAreNumbers
<1> QED
  BY <1>1, <1>3, <1>4, <1>5, ContentsAreNumbers

\* A step of a request that only moves it on, and the looks of a request.
LEMMA LooksKeep ==
  ASSUME FinishInv, NEW t \in Tasks, AskFinish(t) \/ LooksAtTask(t) \/ LooksAtMain(t) \/ LooksAtBranch(t)
  PROVE  FinishInv'
<1> USE FinishAssumption
<1>1. /\ UNCHANGED <<gitVars, taskVars, moved, userActs, crashes>>
      /\ lane \in [Tasks -> Lanes] /\ tip \in [Tasks -> Contents] /\ Contents \subseteq Nat
      /\ 0 \in Contents
  <2>1. UNCHANGED <<gitVars, taskVars, moved, userActs, crashes>>
    BY DEF AskFinish, LooksAtTask, LooksAtMain, LooksAtBranch, budgets
  <2>2. lane \in [Tasks -> Lanes] /\ tip \in [Tasks -> Contents]
    BY FinishTypes DEF FinishInv, LaneTyped
  <2>3. 0 \in Contents
    BY DEF Contents
  <2> QED
    BY <2>1, <2>2, <2>3, ContentsAreNumbers
<1>2. requests' \in 0..MaxRequests
  <2>1. requests \in 0..MaxRequests
    BY FinishTypes DEF FinishInv
  <2>2. requests' = requests \/ (requests < MaxRequests /\ requests' = requests + 1)
    BY DEF AskFinish, LooksAtTask, LooksAtMain, LooksAtBranch, budgets
  <2> QED
    BY <2>1, <2>2
<1>3. FinishTypeOK' /\ FinishIsTrue'
  BY <1>1, <1>2 DEF FinishInv, FinishTypeOK, FinishIsTrue, gitVars, taskVars
<1>4. PICK l \in Lanes :
        /\ lane' = [lane EXCEPT ![t] = l]
        /\ l.due \in {0, lane[t].due, tip[t]} /\ ~l.made /\ l.at \notin {"create", "save"}
        /\ l.merge /\ l.at \in {"push", "merge"} => checkout.on = "base"
  <2>1. NoWork \in Lanes /\ NoWork.due = 0 /\ ~NoWork.made /\ NoWork.at = "free"
    BY <1>1 DEF NoWork, Lanes, LaneSteps
  <2>2. CASE AskFinish(t)
    <3>1. PICK p, m \in BOOLEAN : lane' = [lane EXCEPT ![t] = [NoWork EXCEPT !.at = "status", !.pr = p, !.merge = m]]
      BY <2>2 DEF AskFinish
    <3> DEFINE l == [NoWork EXCEPT !.at = "status", !.pr = p, !.merge = m]
    <3>2. l \in Lanes /\ l.at = "status" /\ l.due = 0 /\ ~l.made
      BY <1>1 DEF NoWork, Lanes, LaneSteps
    <3> QED
      BY <3>1, <3>2
  <2>3. CASE LooksAtTask(t)
    <3>1. lane[t] \in Lanes /\ lane[t].at = "status" /\ ~lane[t].made /\ tip[t] \in Contents
      BY <2>3, <1>1 DEF LooksAtTask, At, FinishInv, PrMade
    <3>2. CASE lane' = [lane EXCEPT ![t] = NoWork]
      BY <2>1, <3>2
    <3>3. CASE lane' = [lane EXCEPT ![t].at = IF lane[t].merge THEN "main" ELSE "push", ![t].due = tip[t]]
      <4> DEFINE s == IF lane[t].merge THEN "main" ELSE "push"
                 l == [lane[t] EXCEPT !.at = s, !.due = tip[t]]
      <4>1. s \in {"main", "push"} /\ (s = "push" => ~lane[t].merge)
        BY <3>1 DEF Lanes
      <4> HIDE DEF s
      <4>2. /\ l \in Lanes /\ l.at = s /\ l.due = tip[t] /\ l.made = lane[t].made /\ l.merge = lane[t].merge
        BY <3>1, <4>1 DEF Lanes, LaneSteps
      <4>3. lane' = [lane EXCEPT ![t] = l]
        BY <3>3, <1>1 DEF s
      <4> QED
        BY <3>1, <4>1, <4>2, <4>3
    <3> QED
      BY <2>3, <3>2, <3>3 DEF LooksAtTask, Ends
  <2>4. CASE LooksAtMain(t) \/ LooksAtBranch(t)
    <3>1. lane[t] \in Lanes /\ lane[t].at \in {"main", "branch"} /\ ~lane[t].made
      BY <2>4, <1>1 DEF LooksAtMain, LooksAtBranch, At, FinishInv, PrMade
    <3>2. CASE lane' = [lane EXCEPT ![t] = NoWork]
      BY <2>1, <3>2
    <3>3. ASSUME NEW s \in {"branch", "push", "merge"}, lane' = [lane EXCEPT ![t].at = s],
                 s \in {"push", "merge"} => checkout.on = "base"
          PROVE  \E l \in Lanes :
                   /\ lane' = [lane EXCEPT ![t] = l]
                   /\ l.due \in {0, lane[t].due, tip[t]} /\ ~l.made /\ l.at \notin {"create", "save"}
                   /\ l.merge /\ l.at \in {"push", "merge"} => checkout.on = "base"
      <4> DEFINE l == [lane[t] EXCEPT !.at = s]
      <4>1. l \in Lanes /\ l.at = s /\ l.due = lane[t].due /\ l.made = lane[t].made
        BY <3>1 DEF Lanes, LaneSteps
      <4>2. lane' = [lane EXCEPT ![t] = l]
        BY <3>3, <1>1
      <4> QED
        BY <3>1, <3>3, <4>1, <4>2
    <3> QED
      BY <2>4, <3>2, <3>3 DEF LooksAtMain, LooksAtBranch, Goes, Ends
  <2> QED
    BY <2>2, <2>3, <2>4
<1>5. \A u \in Tasks : lane'[u] = IF u = t THEN l ELSE lane[u]
  BY <1>1, <1>4
<1>6. LaneTyped'
  BY <1>1, <1>4 DEF LaneTyped
<1>7. Grown'
  <2>1. l.due <= tip[t]
    BY <1>4, Versions DEF FinishInv, Grown
  <2> QED
    BY <1>1, <1>5, <2>1 DEF FinishInv, Grown, gitVars
<1>8. PrMade' /\ OnBase'
  BY <1>1, <1>4, <1>5 DEF FinishInv, PrMade, OnBase, gitVars
<1> QED
  BY <1>3, <1>6, <1>7, <1>8 DEF FinishInv

\* The steps of a request on git and gh.
LEMMA GitKeeps ==
  ASSUME FinishInv, NEW t \in Tasks, Pushes(t) \/ CreatesPr(t) \/ Merges(t) \/ Saves(t)
  PROVE  FinishInv'
<1> USE FinishAssumption
<1>1. /\ lane \in [Tasks -> Lanes] /\ Contents \subseteq Nat /\ lane[t] \in Lanes
      /\ tree \in [Tasks -> Contents] /\ tip \in [Tasks -> Contents]
      /\ base \in [Tasks -> Contents] /\ pushed \in [Tasks -> Contents]
      /\ NoWork \in Lanes /\ NoWork.due = 0 /\ ~NoWork.made /\ NoWork.at = "free" /\ ~NoWork.merge
      /\ pr \in [Tasks -> BOOLEAN]
  BY FinishTypes, ContentsAreNumbers DEF FinishInv, LaneTyped, NoWork, Lanes, LaneSteps, Contents
<1>2. CASE Pushes(t)
  <2>1. PICK l \in Lanes : /\ lane' = [lane EXCEPT ![t] = l] /\ l.due <= tip[t] /\ ~l.made /\ l.at \in {"free", "create"}
                           /\ l.at = "create" => pushed' = [pushed EXCEPT ![t] = tip[t]] /\ l.merge = lane[t].merge
                           /\ l.at = "free" => pushed' = pushed
    <3>1. ~lane[t].made /\ lane[t].due <= tip[t]
      BY <1>2 DEF Pushes, At, FinishInv, PrMade, Grown
    <3>2. CASE pushed' = [pushed EXCEPT ![t] = tip[t]] /\ Goes(t, "create")
      <4> DEFINE l == [lane[t] EXCEPT !.at = "create"]
      <4>1. l \in Lanes /\ l.at = "create" /\ l.due = lane[t].due /\ l.made = lane[t].made /\ l.merge = lane[t].merge
        BY <1>1 DEF Lanes, LaneSteps
      <4>2. lane' = [lane EXCEPT ![t] = l]
        BY <1>1, <3>2 DEF Goes
      <4> QED
        BY <3>1, <3>2, <4>1, <4>2
    <3>3. CASE Ends(t) /\ UNCHANGED pushed
      BY <1>1, <3>3, Versions DEF Ends
    <3> QED
      BY <1>2, <3>2, <3>3 DEF Pushes
  <2>2. \A u \in Tasks : lane'[u] = IF u = t THEN l ELSE lane[u]
    BY <1>1, <2>1
  <2>3. \A u \in Tasks : pushed'[u] \in Contents /\ pushed[u] <= pushed'[u] /\ pushed'[u] <= tip[u]
    <3>1. \A u \in Tasks : pushed'[u] = pushed[u] \/ pushed'[u] = tip[u]
      BY <1>1, <2>1
    <3> QED
      BY <1>1, <3>1, Versions DEF FinishInv, Grown
  <2>4. l.at = "create" => pushed'[t] = tip[t]
    BY <1>1, <2>1
  <2>5. pushed' \in [Tasks -> Contents]
    BY <1>1, <2>1
  <2>6. FinishTypeOK' /\ LaneTyped'
    BY <1>1, <1>2, <2>1, <2>5 DEF Pushes, FinishInv, FinishTypeOK, LaneTyped, taskVars, budgets
  <2>7. Grown'
    BY <1>2, <2>1, <2>2, <2>3 DEF Pushes, FinishInv, Grown
  <2>8. PrMade'
    BY <1>1, <1>2, <2>1, <2>2, <2>3, <2>4 DEF Pushes, FinishInv, PrMade, Lanes
  <2>9. OnBase'
    BY <1>2, <2>1, <2>2 DEF Pushes, At, FinishInv, OnBase
  <2>10. FinishIsTrue'
    <3>1. \A u \in Tasks : pushed'[u] \in Nat /\ pushed[u] \in Nat /\ result[u].due \in Nat
      BY <1>1, <2>3, Versions
    <3>2. UNCHANGED <<base, pr, result, moved>>
      BY <1>2 DEF Pushes, taskVars
    <3> QED
      BY <2>3, <3>1, <3>2 DEF FinishInv, FinishIsTrue
  <2> QED
    BY <2>6, <2>7, <2>8, <2>9, <2>10 DEF FinishInv
<1>3. CASE CreatesPr(t)
  <2>1. PICK l \in Lanes : /\ lane' = [lane EXCEPT ![t] = l] /\ l.at \in {"free", "merge", "save"} /\ l.due <= tip[t]
                           /\ l.made => pr'[t] /\ pushed[t] >= l.due /\ l.at # "free"
                           /\ l.at = "save" => ~l.merge
                           /\ l.merge => lane[t].merge /\ lane[t].at = "create"
    <3>1. lane[t].at = "create" /\ pushed[t] >= lane[t].due /\ lane[t].due <= tip[t]
      BY <1>3 DEF CreatesPr, At, FinishInv, PrMade, Grown
    <3>2. CASE Ends(t) /\ UNCHANGED pr
      <4> DEFINE l == NoWork
      <4>1. lane' = [lane EXCEPT ![t] = l]
        BY <3>2 DEF Ends
      <4>2. l \in Lanes /\ l.at = "free" /\ l.due = 0 /\ ~l.made /\ ~l.merge
        BY <1>1
      <4>3. 0 <= tip[t]
        BY <1>1, Versions
      <4> QED
        BY <4>1, <4>2, <4>3
    <3>3. CASE ~(Ends(t) /\ UNCHANGED pr)
      <4> DEFINE l == [at |-> IF lane[t].merge THEN "merge" ELSE "save", pr |-> lane[t].pr, merge |-> lane[t].merge,
                       made |-> TRUE, due |-> lane[t].due]
      <4>1. l \in Lanes
        BY <1>1 DEF Lanes, LaneSteps
      <4>2. lane' = [lane EXCEPT ![t] = l]
        BY <1>1, <1>3, <3>3 DEF CreatesPr, Lanes
      <4>3. pr'[t]
        BY <1>1, <1>3, <3>3 DEF CreatesPr
      <4> QED
        BY <3>1, <4>1, <4>2, <4>3
    <3> QED
      BY <3>2, <3>3
  <2>2. \A u \in Tasks : lane'[u] = IF u = t THEN l ELSE lane[u]
    BY <1>1, <2>1
  <2>3. pr' \in [Tasks -> BOOLEAN] /\ \A u \in Tasks : pr[u] => pr'[u]
    BY <1>1, <1>3 DEF CreatesPr
  <2>4. FinishTypeOK' /\ LaneTyped'
    <3>1. UNCHANGED <<tree, tip, base, checkout, remote, pushed, taskVars, moved, budgets>> /\ FinishTypeOK
      BY <1>3 DEF CreatesPr, FinishInv
    <3> QED
      BY <1>1, <2>1, <2>3, <3>1 DEF FinishTypeOK, LaneTyped, taskVars, budgets
  <2>5. Grown'
    BY <1>3, <2>1, <2>2 DEF CreatesPr, FinishInv, Grown
  <2>6. PrMade'
    <3>1. UNCHANGED <<pushed, tip>> /\ PrMade
      BY <1>3 DEF CreatesPr, FinishInv
    <3> QED
      BY <1>1, <2>1, <2>2, <2>3, <3>1 DEF PrMade
  <2>7. OnBase'
    BY <1>3, <2>1, <2>2 DEF CreatesPr, FinishInv, OnBase
  <2>8. FinishIsTrue'
    BY <1>3, <2>3 DEF CreatesPr, FinishInv, FinishIsTrue, taskVars
  <2> QED
    BY <2>4, <2>5, <2>6, <2>7, <2>8 DEF FinishInv
<1>4. CASE Merges(t)
  <2>1. PICK l \in Lanes : /\ lane' = [lane EXCEPT ![t] = l]
                           /\ \/ l = NoWork /\ base' = base
                              \/ /\ l.at = "save" /\ l.due = lane[t].due /\ l.made = lane[t].made
                                 /\ l.merge = lane[t].merge
                                 /\ base' = IF checkout.on = "base" THEN [base EXCEPT ![t] = tip[t]] ELSE base
    <3>1. CASE lane' = [lane EXCEPT ![t] = NoWork] /\ base' = base
      BY <1>1, <3>1
    <3>2. CASE /\ lane' = [lane EXCEPT ![t].at = "save"]
               /\ base' = IF checkout.on = "base" THEN [base EXCEPT ![t] = tip[t]] ELSE base
      <4> DEFINE l == [lane[t] EXCEPT !.at = "save"]
      <4>1. l \in Lanes /\ l.at = "save" /\ l.due = lane[t].due /\ l.made = lane[t].made /\ l.merge = lane[t].merge
        BY <1>1 DEF Lanes, LaneSteps
      <4>2. lane' = [lane EXCEPT ![t] = l]
        BY <1>1, <3>2
      <4> QED
        BY <3>2, <4>1, <4>2
    <3> QED
      BY <1>4, <3>1, <3>2 DEF Merges, Goes, Ends
  <2>2. \A u \in Tasks : lane'[u] = IF u = t THEN l ELSE lane[u]
    BY <1>1, <2>1
  <2>3. \A u \in Tasks : base'[u] \in Contents /\ base[u] <= base'[u] /\ base'[u] <= tip[u]
    <3>1. \A u \in Tasks : base'[u] = base[u] \/ base'[u] = tip[u]
      BY <1>1, <2>1
    <3> QED
      BY <1>1, <3>1, Versions DEF FinishInv, Grown
  <2>4. base' \in [Tasks -> Contents]
    BY <1>1, <2>1
  <2>5. checkout' \in [on : {"base", "other"}, state : {"clean", "dirty", "merging"}] /\ checkout'.on = checkout.on
    <3>1. checkout \in [on : {"base", "other"}, state : {"clean", "dirty", "merging"}]
      BY FinishTypes DEF FinishInv
    <3> QED
      BY <1>4, <3>1 DEF Merges
  <2>6. lane[t].at = "merge" /\ UNCHANGED <<tree, tip, remote, pushed, pr, taskVars, moved, budgets>>
    BY <1>4 DEF Merges, At
  <2>7. FinishTypeOK' /\ LaneTyped'
    <3>1. LaneTyped'
      BY <1>1, <2>1 DEF LaneTyped
    <3>2. FinishTypeOK'
      BY <2>4, <2>5, <2>6 DEF FinishInv, FinishTypeOK, taskVars, budgets
    <3> QED
      BY <3>1, <3>2
  <2>8. Grown'
    <3>1. l.due <= tip[t]
      BY <1>1, <2>1, Versions DEF FinishInv, Grown
    <3> QED
      BY <2>2, <2>3, <2>6, <3>1 DEF FinishInv, Grown
  <2>9. PrMade'
    BY <1>1, <2>1, <2>2, <2>6 DEF FinishInv, PrMade
  <2>10. OnBase'
    <3>1. l.merge /\ ~moved[t] /\ l.at = "save" => base'[t] = tip[t]
      BY <1>1, <2>1, <2>6 DEF FinishInv, OnBase
    <3>2. l.at \in {"free", "save"} /\ (l.at = "save" => l.due <= tip[t])
      BY <1>1, <2>1 DEF FinishInv, Grown
    <3>3. \A u \in Tasks : u # t => base'[u] = base[u]
      BY <1>1, <2>1
    <3> QED
      BY <2>2, <2>5, <2>6, <3>1, <3>2, <3>3 DEF FinishInv, OnBase
  <2>11. FinishIsTrue'
    <3>1. \A u \in Tasks : result[u].due \in Nat /\ base[u] \in Nat /\ base'[u] \in Nat
      BY <1>1, <2>3, FinishTypes DEF FinishInv
    <3> QED
      BY <2>3, <2>6, <3>1 DEF FinishInv, FinishIsTrue, taskVars
  <2> QED
    BY <2>7, <2>8, <2>9, <2>10, <2>11 DEF FinishInv
<1>5. CASE Saves(t)
  <2>1. /\ lane' = [lane EXCEPT ![t] = NoWork] /\ lane[t].at = "save"
        /\ result' = [result EXCEPT ![t] = [pr |-> lane[t].made, merged |-> lane[t].merge, due |-> lane[t].due]]
        /\ UNCHANGED <<gitVars, active, moved, budgets>>
    BY <1>5 DEF Saves, Ends, At
  <2>2. \A u \in Tasks : lane'[u] = IF u = t THEN NoWork ELSE lane[u]
    BY <1>1, <2>1
  <2>3. result \in [Tasks -> [pr : BOOLEAN, merged : BOOLEAN, due : Contents]]
    BY FinishTypes DEF FinishInv
  <2>4. result' \in [Tasks -> [pr : BOOLEAN, merged : BOOLEAN, due : Contents]]
    BY <1>1, <2>1, <2>3 DEF Lanes
  <2>5. FinishTypeOK' /\ LaneTyped'
    BY <1>1, <2>1, <2>4 DEF FinishInv, FinishTypeOK, LaneTyped, gitVars, budgets
  <2>6. Grown' /\ PrMade' /\ OnBase'
    <3>1. Grown'
      BY <1>1, <2>1, <2>2, Versions DEF FinishInv, Grown, gitVars
    <3> QED
      BY <1>1, <2>1, <2>2, <3>1 DEF FinishInv, PrMade, OnBase, gitVars
  <2>7. FinishIsTrue'
    <3>1. result'[t] = [pr |-> lane[t].made, merged |-> lane[t].merge, due |-> lane[t].due]
      BY <2>1, <2>3
    <3>2. \A u \in Tasks : u # t => result'[u] = result[u]
      BY <2>1, <2>3
    <3> QED
      BY <2>1, <3>1, <3>2 DEF FinishInv, FinishIsTrue, PrMade, OnBase, gitVars
  <2> QED
    BY <2>5, <2>6, <2>7 DEF FinishInv
<1> QED
  BY <1>2, <1>3, <1>4, <1>5

\* The results that are taken back, the engine that works, the user and the end of the daemon.
LEMMA OthersKeep ==
  ASSUME FinishInv,
         \/ \E t \in Tasks : KeepsWorking(t) \/ FinishArchives(t) \/ Edits(t) \/ Commits(t)
         \/ UserActs \/ FinishCrashes
  PROVE  FinishInv'
<1> USE FinishAssumption
<1>1. /\ lane \in [Tasks -> Lanes] /\ Contents \subseteq Nat /\ 0 \in Contents
      /\ tree \in [Tasks -> Contents] /\ tip \in [Tasks -> Contents]
      /\ base \in [Tasks -> Contents] /\ pushed \in [Tasks -> Contents]
      /\ result \in [Tasks -> [pr : BOOLEAN, merged : BOOLEAN, due : Contents]]
      /\ active \in [Tasks -> BOOLEAN] /\ moved \in [Tasks -> BOOLEAN]
      /\ checkout \in [on : {"base", "other"}, state : {"clean", "dirty", "merging"}]
      /\ NoWork \in Lanes /\ NoWork.due = 0 /\ ~NoWork.made /\ NoWork.at = "free" /\ ~NoWork.merge
  BY FinishTypes, ContentsAreNumbers DEF FinishInv, LaneTyped, NoWork, Lanes, LaneSteps, Contents
<1>2. ASSUME NEW t \in Tasks, result' = [result EXCEPT ![t] = NoResult], active' \in [Tasks -> BOOLEAN],
             UNCHANGED <<gitVars, lane, moved, budgets>>
      PROVE  FinishInv'
  <2>1. result' \in [Tasks -> [pr : BOOLEAN, merged : BOOLEAN, due : Contents]]
    BY <1>1, <1>2 DEF NoResult
  <2>2. \A u \in Tasks : result'[u] = IF u = t THEN NoResult ELSE result[u]
    BY <1>1, <1>2
  <2>3. FinishIsTrue'
    BY <1>2, <2>2 DEF FinishInv, FinishIsTrue, NoResult, gitVars
  <2> QED
    BY <1>2, <2>1, <2>3 DEF FinishInv, FinishTypeOK, LaneTyped, Grown, PrMade, OnBase, gitVars, budgets
<1>3. ASSUME NEW t \in Tasks, KeepsWorking(t) \/ FinishArchives(t) PROVE FinishInv'
  BY <1>1, <1>2, <1>3 DEF KeepsWorking, FinishArchives
<1>4. ASSUME NEW t \in Tasks, Edits(t) PROVE FinishInv'
  <2>1. tree' \in [Tasks -> Contents] /\ \A u \in Tasks : tree[u] <= tree'[u]
    BY <1>1, <1>4 DEF Edits, Contents
  <2>2. Grown'
    <3>1. \A u \in Tasks : tip[u] \in Nat /\ tree[u] \in Nat /\ tree'[u] \in Nat
      BY <1>1, <2>1
    <3> QED
      BY <1>4, <2>1, <3>1 DEF Edits, FinishInv, Grown
  <2> QED
    BY <1>4, <2>1, <2>2 DEF Edits, FinishInv, FinishTypeOK, LaneTyped, PrMade, OnBase, FinishIsTrue, taskVars, budgets
<1>5. ASSUME NEW t \in Tasks, Commits(t) PROVE FinishInv'
  <2>1. tip' \in [Tasks -> Contents] /\ \A u \in Tasks : tip[u] <= tip'[u] /\ tip'[u] <= tree[u]
    <3>1. \A u \in Tasks : tip'[u] = tip[u] \/ tip'[u] = tree[u]
      BY <1>1, <1>5 DEF Commits
    <3>2. tip' \in [Tasks -> Contents]
      BY <1>1, <1>5 DEF Commits
    <3> QED
      BY <3>1, <3>2, Versions DEF FinishInv, Grown
  <2>2. Grown'
    <3>1. \A u \in Tasks : tip[u] \in Nat /\ tip'[u] \in Nat /\ base[u] \in Nat /\ pushed[u] \in Nat /\ lane[u].due \in Nat
      BY <1>1, <2>1 DEF Lanes
    <3> QED
      BY <1>5, <2>1, <3>1 DEF Commits, FinishInv, Grown
  <2> QED
    BY <1>5, <2>1, <2>2 DEF Commits, FinishInv, FinishTypeOK, LaneTyped, PrMade, OnBase, FinishIsTrue, taskVars, budgets
<1>6. CASE UserActs
  <2>1. userActs' \in 0..MaxUser /\ UNCHANGED <<tree, tip, base, remote, pushed, pr, taskVars, lane, requests, crashes>>
    BY <1>6, FinishTypes DEF UserActs, FinishInv
  <2>2. /\ checkout' \in [on : {"base", "other"}, state : {"clean", "dirty", "merging"}]
        /\ moved' \in [Tasks -> BOOLEAN] /\ \A u \in Tasks : moved[u] => moved'[u]
        /\ checkout'.on # checkout.on => \A u \in Tasks : lane[u].merge => moved'[u]
    <3>1. CASE /\ checkout' = [checkout EXCEPT !.state = IF @ = "clean" THEN "dirty" ELSE "clean"]
               /\ moved' = moved
      BY <1>1, <3>1
    <3>2. CASE /\ checkout' = [checkout EXCEPT !.on = IF @ = "base" THEN "other" ELSE "base"]
               /\ moved' = [t \in Tasks |-> moved[t] \/ lane[t].merge]
      <4>1. checkout' \in [on : {"base", "other"}, state : {"clean", "dirty", "merging"}]
        BY <1>1, <3>2
      <4>2. \A u \in Tasks : moved'[u] = (moved[u] \/ lane[u].merge)
        BY <3>2
      <4>3. moved' \in [Tasks -> BOOLEAN]
        BY <3>2
      <4> QED
        BY <4>1, <4>2, <4>3
    <3> QED
      BY <1>6, <3>1, <3>2 DEF UserActs
  <2>3. OnBase' /\ FinishIsTrue'
    BY <2>1, <2>2 DEF FinishInv, OnBase, FinishIsTrue, taskVars
  <2> QED
    BY <2>1, <2>2, <2>3 DEF FinishInv, FinishTypeOK, LaneTyped, Grown, PrMade, taskVars
<1>7. CASE FinishCrashes
  <2>1. crashes' \in 0..MaxCrashes
    BY <1>7, FinishTypes DEF FinishCrashes, FinishInv
  <2>2. lane' \in [Tasks -> Lanes] /\ \A u \in Tasks : lane'[u] = NoWork
    BY <1>1, <1>7 DEF FinishCrashes
  <2>3. Grown' /\ PrMade' /\ OnBase'
    <3>1. UNCHANGED <<tree, tip, base, checkout, pushed, pr, moved>>
      BY <1>7 DEF FinishCrashes, gitVars
    <3>2. Grown'
      BY <1>1, <2>2, <3>1, Versions DEF FinishInv, Grown
    <3> QED
      BY <1>1, <2>2, <3>1, <3>2 DEF FinishInv, PrMade, OnBase
  <2> QED
    BY <1>7, <2>1, <2>2, <2>3 DEF FinishCrashes, FinishInv, FinishTypeOK, LaneTyped, FinishIsTrue, gitVars, taskVars
<1> QED
  BY <1>3, <1>4, <1>5, <1>6, <1>7

LEMMA FinishKept == FinishInv /\ [FinishNext]_finishVars => FinishInv'
<1> SUFFICES ASSUME FinishInv, [FinishNext]_finishVars PROVE FinishInv'
  OBVIOUS
<1>1. CASE UNCHANGED finishVars
  BY <1>1 DEF finishVars, gitVars, taskVars, budgets, FinishInv, FinishTypeOK, LaneTyped, Grown, PrMade, OnBase, FinishIsTrue
<1> QED
  BY <1>1, LooksKeep, GitKeeps, OthersKeep DEF FinishNext

\* FinishIsTrue: for any number of tasks that share the checkout, and any edits, commits and
\* acts of the user meanwhile, a result that says merged or pull request says what is so.
THEOREM FinishesTruly == FinishSpec => []FinishIsTrue
<1>1. FinishInv => FinishIsTrue
  BY DEF FinishInv
<1> QED
  BY FinishInitially, FinishKept, <1>1, PTL DEF FinishSpec

-----------------------------------------------------------------------------
(* The board of tasks.                                                       *)

IsRow(r) ==
  r = [project |-> r.project, name |-> r.name, path |-> r.path, branch |-> r.branch, status |-> r.status,
       port |-> r.port, pinned |-> r.pinned, order |-> r.order]

\* Rows are numbered as they came, each belongs to a project that is there, and a root is its own.
Founded(b, n) ==
  /\ b = [w \in DOMAIN b |-> b[w]] /\ IsFiniteSet(DOMAIN b)
  /\ DOMAIN b \subseteq Roots \cup 1 .. n
  /\ \A w \in DOMAIN b : /\ IsRow(b[w]) /\ b[w].project \in DOMAIN b \cap Roots
                         /\ w \in Roots => b[w].project = w

\* No two rows share a path, no two tasks a block of ports.
Apart(b) ==
  \A v, w \in DOMAIN b :
    v # w => b[v].path # b[w].path /\ (v \notin Roots /\ w \notin Roots => b[v].port # b[w].port)

\* A list of tasks that a drag sends, from a board of at most n.
IsList(ids, n) ==
  /\ ids \in Seq(1 .. n) /\ Len(ids) <= n
  /\ \A i, j \in 1 .. Len(ids) : i # j => ids[i] # ids[j]

\* What a list ranked has its rank, and what came later the time at which it came.
TasksIn(b, root) == {w \in DOMAIN b : b[w].project = root} \ {root}
Ranked(b, a, root, n) ==
  /\ a = [ids |-> a.ids, others |-> a.others, last |-> a.last]
  /\ a.last \in 0 .. n /\ IsList(a.ids, a.last)
  /\ \A i \in 1 .. Len(a.ids) : a.ids[i] \in DOMAIN b =>
       b[a.ids[i]].project = root /\ b[a.ids[i]].order = i
  /\ \A w \in TasksIn(b, root) : w \in ToSet(a.ids) \cup a.others \/ (w > a.last /\ b[w].order = 999 + w)

AllRanked(b, as, n) == as = [r \in Roots |-> as[r]] /\ \A root \in Roots : Ranked(b, as[root], root, n)

BoardInv ==
  /\ last \in Nat
  /\ Founded(board, last) /\ Apart(board) /\ AllRanked(board, asked, last)
  /\ \A d \in dragged : d[1] \in Roots /\ IsList(d[2], last)

\* A list stays one when tasks are added.
LEMMA ListGrows ==
  ASSUME NEW n \in Nat, NEW ids, IsList(ids, n)
  PROVE  IsList(ids, n + 1)
<1>1. 1 .. n \subseteq 1 .. n + 1
  OBVIOUS
<1>2. ids \in Seq(1 .. n + 1)
  <2>1. ids \in [1 .. Len(ids) -> 1 .. n] /\ Len(ids) \in Nat
    BY DEF IsList
  <2>2. ids \in [1 .. Len(ids) -> 1 .. n + 1]
    BY <1>1, <2>1
  <2> QED
    BY <2>1, <2>2
<1>3. Len(ids) \in Nat /\ Len(ids) <= n + 1
  BY DEF IsList
<1> QED
  BY <1>2, <1>3 DEF IsList

\* Taking one out of a list and putting it elsewhere makes a list of the same tasks.
LEMMA RemovedAt ==
  ASSUME NEW S, NEW s \in Seq(S), NEW i \in 1 .. Len(s)
  PROVE  /\ RemoveAt(s, i) \in Seq(S) /\ Len(RemoveAt(s, i)) = Len(s) - 1
         /\ \A k \in 1 .. Len(s) - 1 : RemoveAt(s, i)[k] = IF k < i THEN s[k] ELSE s[k + 1]
<1> DEFINE p == SubSeq(s, 1, i - 1)
           q == SubSeq(s, i + 1, Len(s))
<1>0. Len(s) \in Nat /\ \A k \in 1 .. Len(s) : s[k] \in S
  OBVIOUS
<1>1. \A k \in 1 .. i - 1 : s[k] \in S
  BY <1>0
<1>2. \A k \in i + 1 .. Len(s) : s[k] \in S
  BY <1>0
<1>3. /\ p \in Seq(S) /\ Len(p) = i - 1 /\ \A k \in 1 .. i - 1 : p[k] = s[k]
  <2>1. /\ p \in Seq(S) /\ Len(p) = (IF 1 <= i - 1 THEN i - 1 - 1 + 1 ELSE 0)
        /\ \A k \in 1 .. i - 1 - 1 + 1 : p[k] = s[1 + k - 1]
    <3>1. 1 \in Int /\ i - 1 \in Int
      BY <1>0
    <3> HIDE DEF p
    <3> QED
      BY <1>1, <3>1, SubSeqProperties DEF p
  <2> HIDE DEF p
  <2> QED
    BY <1>0, <2>1
<1>4. /\ q \in Seq(S) /\ Len(q) = Len(s) - i /\ \A k \in 1 .. Len(s) - i : q[k] = s[i + k]
  <2>1. /\ q \in Seq(S) /\ Len(q) = (IF i + 1 <= Len(s) THEN Len(s) - (i + 1) + 1 ELSE 0)
        /\ \A k \in 1 .. Len(s) - (i + 1) + 1 : q[k] = s[i + 1 + k - 1]
    <3>1. i + 1 \in Int /\ Len(s) \in Int
      BY <1>0
    <3> HIDE DEF q
    <3> QED
      BY <1>2, <3>1, SubSeqProperties DEF q
  <2> HIDE DEF q
  <2> QED
    BY <1>0, <2>1
<1>5. RemoveAt(s, i) = p \o q
  BY DEF RemoveAt
<1> HIDE DEF p, q
<1>6. /\ p \o q \in Seq(S) /\ Len(p \o q) = Len(p) + Len(q)
      /\ \A k \in 1 .. Len(p) + Len(q) : (p \o q)[k] = IF k <= Len(p) THEN p[k] ELSE q[k - Len(p)]
  BY <1>3, <1>4, ConcatProperties
<1>7. ASSUME NEW k \in 1 .. Len(s) - 1
      PROVE  (p \o q)[k] = IF k < i THEN s[k] ELSE s[k + 1]
  <2>1. CASE k < i
    BY <1>0, <1>3, <1>4, <1>6, <2>1
  <2>2. CASE ~(k < i)
    <3>1. k - (i - 1) \in 1 .. Len(s) - i /\ i + (k - (i - 1)) = k + 1
      BY <1>0, <2>2
    <3>2. (p \o q)[k] = q[k - (i - 1)]
      BY <1>0, <1>3, <1>4, <1>6, <2>2
    <3> QED
      BY <1>4, <2>2, <3>1, <3>2
  <2> QED
    BY <2>1, <2>2
<1>8. Len(p) + Len(q) = Len(s) - 1
  BY <1>0, <1>3, <1>4
<1> QED
  BY ONLY <1>5, <1>6, <1>7, <1>8

\* A list with one more.
LEMMA InsertedAt ==
  ASSUME NEW S, NEW s \in Seq(S), NEW e \in S, NEW i \in 1 .. Len(s) + 1
  PROVE  /\ InsertAt(s, i, e) \in Seq(S) /\ Len(InsertAt(s, i, e)) = Len(s) + 1
         /\ \A k \in 1 .. Len(s) + 1 :
              InsertAt(s, i, e)[k] = IF k < i THEN s[k] ELSE IF k = i THEN e ELSE s[k - 1]
<1> DEFINE p == SubSeq(s, 1, i - 1)
           m == p \o <<e>>
           q == SubSeq(s, i, Len(s))
<1>0. Len(s) \in Nat /\ \A k \in 1 .. Len(s) : s[k] \in S
  OBVIOUS
<1>1. \A k \in 1 .. i - 1 : s[k] \in S
  BY <1>0
<1>2. \A k \in i .. Len(s) : s[k] \in S
  BY <1>0
<1>3. /\ p \in Seq(S) /\ Len(p) = i - 1 /\ \A k \in 1 .. i - 1 : p[k] = s[k]
  <2>1. /\ p \in Seq(S) /\ Len(p) = (IF 1 <= i - 1 THEN i - 1 - 1 + 1 ELSE 0)
        /\ \A k \in 1 .. i - 1 - 1 + 1 : p[k] = s[1 + k - 1]
    <3>1. 1 \in Int /\ i - 1 \in Int
      BY <1>0
    <3> HIDE DEF p
    <3> QED
      BY <1>1, <3>1, SubSeqProperties DEF p
  <2> HIDE DEF p
  <2> QED
    BY <1>0, <2>1
<1>4. /\ q \in Seq(S) /\ Len(q) = Len(s) - i + 1 /\ \A k \in 1 .. Len(s) - i + 1 : q[k] = s[i + k - 1]
  <2>1. /\ q \in Seq(S) /\ Len(q) = (IF i <= Len(s) THEN Len(s) - i + 1 ELSE 0)
        /\ \A k \in 1 .. Len(s) - i + 1 : q[k] = s[i + k - 1]
    <3>1. i \in Int /\ Len(s) \in Int
      BY <1>0
    <3> HIDE DEF q
    <3> QED
      BY <1>2, <3>1, SubSeqProperties DEF q
  <2> HIDE DEF q
  <2> QED
    BY <1>0, <2>1
<1>5. InsertAt(s, i, e) = m \o q
  BY DEF InsertAt
<1>6. <<e>> \in Seq(S) /\ Len(<<e>>) = 1 /\ <<e>>[1] = e
  OBVIOUS
<1> HIDE DEF p, q
<1>7. /\ m \in Seq(S) /\ Len(m) = i
      /\ \A k \in 1 .. i - 1 : m[k] = s[k]
      /\ m[i] = e
  <2>1. /\ m \in Seq(S) /\ Len(m) = Len(p) + Len(<<e>>)
        /\ \A k \in 1 .. Len(p) + Len(<<e>>) : m[k] = IF k <= Len(p) THEN p[k] ELSE <<e>>[k - Len(p)]
    BY ONLY <1>3, <1>6, ConcatProperties
  <2> HIDE DEF m
  <2>2. Len(m) = i
    BY <1>3, <1>6, <2>1
  <2>3. m[i] = e
    <3>1. i \in 1 .. Len(p) + Len(<<e>>) /\ ~(i <= Len(p)) /\ i - Len(p) = 1
      BY <1>3, <1>6
    <3> QED
      BY <1>6, <2>1, <3>1
  <2>4. \A k \in 1 .. i - 1 : m[k] = s[k]
    BY <1>3, <1>6, <2>1
  <2> QED
    BY <2>1, <2>2, <2>3, <2>4
<1> HIDE DEF m
<1>8. /\ m \o q \in Seq(S) /\ Len(m \o q) = Len(m) + Len(q)
      /\ \A k \in 1 .. Len(m) + Len(q) : (m \o q)[k] = IF k <= Len(m) THEN m[k] ELSE q[k - Len(m)]
  BY <1>4, <1>7, ConcatProperties
<1>9. ASSUME NEW k \in 1 .. Len(s) + 1
      PROVE  (m \o q)[k] = IF k < i THEN s[k] ELSE IF k = i THEN e ELSE s[k - 1]
  <2>1. CASE k < i
    BY <1>0, <1>4, <1>7, <1>8, <2>1
  <2>2. CASE k = i
    BY <1>0, <1>4, <1>7, <1>8, <2>2
  <2>3. CASE k > i
    <3>1. k - i \in 1 .. Len(s) - i + 1 /\ i + (k - i) - 1 = k - 1
      BY <1>0, <2>3
    <3>2. (m \o q)[k] = q[k - i]
      BY <1>0, <1>4, <1>7, <1>8, <2>3
    <3> QED
      BY <1>4, <2>3, <3>1, <3>2
  <2>4. k < i \/ k = i \/ k > i
    BY <1>0
  <2> QED
    BY ONLY <2>1, <2>2, <2>3, <2>4
<1>10. Len(m) + Len(q) = Len(s) + 1
  BY <1>0, <1>4, <1>7
<1> QED
  BY ONLY <1>5, <1>8, <1>9, <1>10

\* So the list of a drag has the tasks that it had.
LEMMA PutIsList ==
  ASSUME NEW n \in Nat, NEW ids, IsList(ids, n), NEW from \in 1 .. Len(ids), NEW to \in 1 .. Len(ids)
  PROVE  IsList(Put(ids, from, to), n)
<1>1. PICK r : r = RemoveAt(ids, from)
  OBVIOUS
<1>2. /\ ids \in Seq(1 .. n) /\ Len(ids) \in Nat /\ Len(ids) <= n
      /\ \A i, j \in 1 .. Len(ids) : i # j => ids[i] # ids[j]
  BY DEF IsList
<1>3. /\ r \in Seq(1 .. n) /\ Len(r) = Len(ids) - 1
      /\ \A k \in 1 .. Len(ids) - 1 : r[k] = IF k < from THEN ids[k] ELSE ids[k + 1]
  BY <1>1, <1>2, RemovedAt
<1>4. PICK e, p : e = ids[from] /\ p = InsertAt(r, to, e)
  OBVIOUS
<1>5. e \in 1 .. n /\ to \in 1 .. Len(r) + 1 /\ Len(r) + 1 = Len(ids)
  BY <1>2, <1>3, <1>4
<1>6. /\ p \in Seq(1 .. n) /\ Len(p) = Len(ids)
      /\ \A k \in 1 .. Len(ids) : p[k] = IF k < to THEN r[k] ELSE IF k = to THEN e ELSE r[k - 1]
  <2>1. /\ p \in Seq(1 .. n) /\ Len(p) = Len(r) + 1
        /\ \A k \in 1 .. Len(r) + 1 : p[k] = IF k < to THEN r[k] ELSE IF k = to THEN e ELSE r[k - 1]
    <3>1. PICK S : S = 1 .. n
      OBVIOUS
    <3>2. r \in Seq(S) /\ e \in S
      BY <1>3, <1>5, <3>1
    <3>3. /\ InsertAt(r, to, e) \in Seq(S) /\ Len(InsertAt(r, to, e)) = Len(r) + 1
          /\ \A k \in 1 .. Len(r) + 1 :
               InsertAt(r, to, e)[k] = IF k < to THEN r[k] ELSE IF k = to THEN e ELSE r[k - 1]
      BY ONLY <1>5, <3>2, InsertedAt
    <3> QED
      BY ONLY <1>4, <3>1, <3>3
  <2> QED
    BY <1>5, <2>1
<1> DEFINE Old(k) == IF k = to THEN from
                     ELSE IF k < to THEN (IF k < from THEN k ELSE k + 1)
                     ELSE (IF k - 1 < from THEN k - 1 ELSE k)
<1>7. ASSUME NEW k \in 1 .. Len(ids)
      PROVE  Old(k) \in 1 .. Len(ids) /\ p[k] = ids[Old(k)]
  <2>1. CASE k = to
    BY <1>4, <1>6, <2>1
  <2>2. CASE k < to
    <3>1. k \in 1 .. Len(ids) - 1 /\ k # to
      BY <1>2, <2>2
    <3>2. p[k] = r[k]
      BY <1>6, <2>2
    <3>3. r[k] = IF k < from THEN ids[k] ELSE ids[k + 1]
      BY <1>3, <3>1
    <3> QED
      BY <1>2, <2>2, <3>1, <3>2, <3>3
  <2>3. CASE k > to
    <3>1. k - 1 \in 1 .. Len(ids) - 1 /\ (k - 1) + 1 = k /\ k # to /\ ~(k < to)
      BY <1>2, <2>3
    <3>2. p[k] = r[k - 1]
      BY <1>6, <3>1
    <3>3. r[k - 1] = IF k - 1 < from THEN ids[k - 1] ELSE ids[(k - 1) + 1]
      BY <1>3, <3>1
    <3> QED
      BY <1>2, <3>1, <3>2, <3>3
  <2>4. k < to \/ k = to \/ k > to
    BY <1>2
  <2> QED
    BY ONLY <2>1, <2>2, <2>3, <2>4
<1>8. ASSUME NEW i \in 1 .. Len(ids), NEW j \in 1 .. Len(ids), i # j
      PROVE  Old(i) # Old(j)
  BY <1>2, <1>8
<1>9. \A i, j \in 1 .. Len(p) : i # j => p[i] # p[j]
  <2> SUFFICES ASSUME NEW i \in 1 .. Len(p), NEW j \in 1 .. Len(p), i # j
               PROVE  p[i] # p[j]
    OBVIOUS
  <2>1. Old(i) # Old(j) /\ i \in 1 .. Len(ids) /\ j \in 1 .. Len(ids)
    BY <1>6, <1>8
  <2> HIDE DEF Old
  <2>2. /\ Old(i) \in 1 .. Len(ids) /\ p[i] = ids[Old(i)]
        /\ Old(j) \in 1 .. Len(ids) /\ p[j] = ids[Old(j)]
    BY <1>7, <2>1
  <2> QED
    BY <1>2, <2>1, <2>2
<1>10. IsList(p, n)
  BY <1>2, <1>6, <1>9 DEF IsList
<1> QED
  BY <1>1, <1>4, <1>10 DEF Put

\* A set of numbers that is not empty has a least one.
LEMMA LeastNumber ==
  ASSUME NEW T, T \subseteq Nat, T # {}
  PROVE  \E x \in T : \A y \in T : x <= y
<1> DEFINE R == OpToRel(<, Nat)
<1>1. IsWellFoundedOn(R, Nat)
  BY NatLessThanWellFounded, Zenon
<1>2. \E x \in T : \A y \in T : <<y, x>> \notin R
  <2> HIDE DEF R
  <2> QED
    BY <1>1, WFMin
<1>3. PICK x \in T : \A y \in T : <<y, x>> \notin R
  BY <1>2
<1>4. ASSUME NEW y \in T
      PROVE  x <= y
  <2>1. ~(y < x)
    <3> SUFFICES ASSUME y < x PROVE FALSE
      OBVIOUS
    <3>1. <<y, x>> \in R
      BY DEF OpToRel
    <3> QED
      BY <1>3, <3>1
  <2>2. x \in Nat /\ y \in Nat
    OBVIOUS
  <2> QED
    BY <2>1, <2>2
<1> QED
  BY <1>4

\* There is a block of ports that is not taken.
LEMMA FreePortIsFree ==
  ASSUME IsFiniteSet(Rows)
  PROVE  FreePort \notin UsedPorts
<1>1. PICK c : c = Cardinality(Rows)
  OBVIOUS
<1>2. c \in Nat
  BY <1>1, FS_CardinalityType
<1>3. IsFiniteSet(UsedPorts) /\ Cardinality(UsedPorts) <= c
  <2>1. PICK f : f = [w \in Rows |-> board[w].port]
    OBVIOUS
  <2>2. f \in Surjection(Rows, UsedPorts)
    BY <2>1 DEF Surjection, UsedPorts
  <2> QED
    BY <1>1, <2>2, FS_Surjection
<1>4. Cardinality(UsedPorts) \in Nat
  BY <1>3, FS_CardinalityType
<1>5. PICK S : S = 1 .. c + 1
  OBVIOUS
<1>6. IsFiniteSet(S) /\ Cardinality(S) = c + 1
  <2>1. /\ \A a, b \in Int : IsFiniteSet(a .. b)
        /\ \A a, b \in Int : Cardinality(a .. b) = IF a > b THEN 0 ELSE b - a + 1
    BY ONLY FS_Interval
  <2>2. 1 \in Int /\ c + 1 \in Int /\ ~(1 > c + 1) /\ c + 1 - 1 + 1 = c + 1
    BY <1>2
  <2> QED
    BY <1>5, <2>1, <2>2
<1>7. \E n \in S : n \notin UsedPorts
  <2> SUFFICES ASSUME S \subseteq UsedPorts PROVE FALSE
    OBVIOUS
  <2>1. Cardinality(S) <= Cardinality(UsedPorts)
    BY <1>3, FS_Subset
  <2> QED
    BY <1>2, <1>3, <1>4, <1>6, <2>1
<1> DEFINE T == {n \in S : n \notin UsedPorts}
<1>8. T \subseteq Nat /\ T # {}
  BY <1>2, <1>5, <1>7
<1>9. PICK x \in T : \A y \in T : x <= y
  <2> HIDE DEF T
  <2> QED
    BY <1>8, LeastNumber
<1>10. x \in S /\ x \notin UsedPorts /\ x \in Nat
  BY <1>2, <1>5, <1>9
<1>11. 1 .. (x - 1) \subseteq UsedPorts
  <2> SUFFICES ASSUME NEW y \in 1 .. (x - 1), y \notin UsedPorts PROVE FALSE
    OBVIOUS
  <2>1. y \in S /\ ~(x <= y)
    BY <1>2, <1>5, <1>10
  <2> QED
    BY <1>9, <2>1
<1>12. \E n \in S : n \notin UsedPorts /\ 1 .. (n - 1) \subseteq UsedPorts
  BY <1>10, <1>11
<1>13. FreePort = CHOOSE n \in S : n \notin UsedPorts /\ 1 .. (n - 1) \subseteq UsedPorts
  BY <1>1, <1>5 DEF FreePort
<1> QED
  BY <1>12, <1>13

\* Any order of some tasks is a list, and so is the one the sidebar makes of it.
LEMMA OrderedIsList ==
  ASSUME NEW n \in Nat, NEW found \in SUBSET (1 .. n), NEW ids \in SetToSeqs(found)
  PROVE  IsList(ids, n) /\ DOMAIN ids = 1 .. Len(ids)
<1>1. PICK c : c = Cardinality(found)
  OBVIOUS
<1>2. c \in Nat /\ c <= n
  <2>1. PICK S : S = 1 .. n
    OBVIOUS
  <2>2. IsFiniteSet(S) /\ Cardinality(S) = n
    <3>1. /\ \A a, b \in Int : IsFiniteSet(a .. b)
          /\ \A a, b \in Int : Cardinality(a .. b) = IF a > b THEN 0 ELSE b - a + 1
      BY ONLY FS_Interval
    <3>2. 1 \in Int /\ n \in Int /\ (IF 1 > n THEN 0 ELSE n - 1 + 1) = n
      OBVIOUS
    <3> QED
      BY <2>1, <3>1, <3>2
  <2>3. IsFiniteSet(found) /\ c <= n
    BY <1>1, <2>1, <2>2, FS_Subset
  <2> QED
    BY <1>1, <2>3, FS_CardinalityType
<1>3. ids \in [1 .. c -> found] /\ \A i, j \in 1 .. c : i # j => ids[i] # ids[j]
  BY <1>1 DEF SetToSeqs
<1>4. ids \in [1 .. c -> 1 .. n]
  BY <1>3
<1>5. ids \in Seq(1 .. n) /\ Len(ids) = c
  BY <1>2, <1>4
<1> QED
  BY <1>2, <1>3, <1>5 DEF IsList

-----------------------------------------------------------------------------
\* A step that changes no project, path, block of ports or rank of a row keeps the board sound.
KeepsRows(b, c) ==
  /\ c = [w \in DOMAIN c |-> c[w]] /\ DOMAIN c \subseteq DOMAIN b
  /\ \A w \in DOMAIN c : /\ IsRow(c[w]) /\ c[w].project = b[w].project /\ c[w].project \in DOMAIN c
                         /\ c[w].path = b[w].path /\ c[w].port = b[w].port /\ c[w].order = b[w].order
\* So what is left of a sound board is sound.
LEMMA KeptRows ==
  ASSUME NEW b, NEW c, NEW n \in Nat, Founded(b, n), Apart(b), KeepsRows(b, c)
  PROVE  /\ Founded(c, n) /\ Apart(c)
         /\ \A a, root : Ranked(b, a, root, n) => Ranked(c, a, root, n)
<1>1. IsFiniteSet(DOMAIN c)
  BY FS_Subset DEF Founded, KeepsRows
<1>2. Founded(c, n)
  BY <1>1 DEF Founded, KeepsRows
<1>3. Apart(c)
  BY DEF Apart, KeepsRows
<1>4. ASSUME NEW a, NEW root, Ranked(b, a, root, n)
      PROVE  Ranked(c, a, root, n)
  <2>1. TasksIn(c, root) \subseteq TasksIn(b, root)
    BY DEF TasksIn, KeepsRows
  <2>2. \A w \in TasksIn(c, root) : c[w].order = b[w].order
    BY DEF TasksIn, KeepsRows
  <2>3. \A w \in DOMAIN c : w \in DOMAIN b /\ c[w].order = b[w].order /\ c[w].project = b[w].project
    BY DEF KeepsRows
  <2> HIDE DEF TasksIn, KeepsRows
  <2>4. \A w \in TasksIn(c, root) : w \in ToSet(a.ids) \cup a.others \/ (w > a.last /\ c[w].order = 999 + w)
    BY <1>4, <2>1, <2>2 DEF Ranked
  <2>5. \A i \in 1 .. Len(a.ids) : a.ids[i] \in DOMAIN c =>
          c[a.ids[i]].project = root /\ c[a.ids[i]].order = i
    BY <1>4, <2>3 DEF Ranked
  <2> QED
    BY <1>4, <2>4, <2>5 DEF Ranked
<1> QED
  BY <1>2, <1>3, <1>4

\* The changes of one row, which all of those of a task's status, pin and name are.
SameTask(r, q) == IsRow(r) /\ r.project = q.project /\ r.path = q.path /\ r.port = q.port /\ r.order = q.order
\* Whoever changes a row in this way keeps the board sound.
LEMMA ChangesKeep ==
  ASSUME BoardInv, NEW w \in Rows, NEW r, SameTask(r, board[w]), Changes(w, r)
  PROVE  BoardInv'
<1>1. KeepsRows(board, board')
  <2>1. board' = [v \in Rows |-> IF v = w THEN r ELSE board[v]]
    BY DEF Changes, Rows, BoardInv, Founded
  <2>2. DOMAIN board' = DOMAIN board /\ DOMAIN board = Rows
    BY <2>1 DEF Rows
  <2>3. \A v \in Rows : board'[v] = IF v = w THEN r ELSE board[v]
    BY <2>1
  <2>4. \A v \in Rows : IsRow(board[v]) /\ board[v].project \in Rows
    BY DEF BoardInv, Founded, Rows
  <2>5. board' = [v \in DOMAIN board' |-> board'[v]]
    BY <2>1
  <2>6. ASSUME NEW v \in Rows
        PROVE  /\ IsRow(board'[v]) /\ board'[v].project = board[v].project /\ board'[v].project \in Rows
               /\ board'[v].path = board[v].path /\ board'[v].port = board[v].port
               /\ board'[v].order = board[v].order
    <3>1. CASE v = w
      BY <2>3, <2>4, <3>1 DEF SameTask
    <3>2. CASE v # w
      BY <2>3, <2>4, <3>2
    <3> QED
      BY <3>1, <3>2
  <2> QED
    BY <2>2, <2>5, <2>6 DEF KeepsRows
<1>2. last' = last /\ asked' = asked /\ dragged' = dragged
  BY DEF Changes
<1>3. Founded(board', last) /\ Apart(board') /\ \A a, root : Ranked(board, a, root, last) => Ranked(board', a, root, last)
  BY <1>1, KeptRows DEF BoardInv
<1>4. AllRanked(board', asked, last)
  BY <1>3 DEF BoardInv, AllRanked
<1> QED
  BY <1>2, <1>3, <1>4 DEF BoardInv

-----------------------------------------------------------------------------
\* A project that is added, with its main row.
LEMMA MainAdded ==
  ASSUME BoardInv, NEW root \in Roots, root \notin Rows, Unplaced(root), board' = WithMain(root, board)
  PROVE  Founded(board', last) /\ Apart(board') /\ AllRanked(board', asked, last)
<1>1. PICK r : r = Row(root, root, root, "active", 0, -1)
  OBVIOUS
<1>2. IsRow(r) /\ r.project = root /\ r.path = root
  BY <1>1 DEF Row, IsRow
<1>3. board' = [w \in Rows \cup {root} |-> IF w = root THEN r ELSE board[w]]
  BY <1>1 DEF WithMain, Rows
<1>4. DOMAIN board' = Rows \cup {root} /\ board'[root] = r /\ \A w \in Rows : board'[w] = board[w]
  BY <1>3
<1>5. board' = [w \in DOMAIN board' |-> board'[w]]
  BY <1>3
<1>6. /\ IsFiniteSet(Rows) /\ Rows \subseteq Roots \cup 1 .. last
      /\ \A w \in Rows : /\ IsRow(board[w]) /\ board[w].project \in Rows \cap Roots
                         /\ w \in Roots => board[w].project = w
  BY DEF BoardInv, Founded, Rows
<1>7. IsFiniteSet(DOMAIN board')
  BY <1>4, <1>6, FS_AddElement
<1>8. Founded(board', last)
  BY <1>2, <1>4, <1>5, <1>6, <1>7 DEF Founded
<1>9. Apart(board')
  BY <1>2, <1>4, <1>6 DEF BoardInv, Apart, Unplaced, Rows
<1>10. ASSUME NEW p \in Roots
       PROVE  Ranked(board', asked[p], p, last)
  <2>1. PICK a : a = asked[p]
    OBVIOUS
  <2>2. Ranked(board, a, p, last)
    BY <2>1 DEF BoardInv, AllRanked
  <2>3. \A w \in TasksIn(board', p) : w \in TasksIn(board, p) /\ w \in Rows
    BY <1>2, <1>4 DEF TasksIn, Rows
  <2>4. \A i \in 1 .. Len(a.ids) : a.ids[i] \in Nat
    BY <2>2 DEF Ranked, IsList, BoardInv
  <2>5. \A i \in 1 .. Len(a.ids) : a.ids[i] \in DOMAIN board' => a.ids[i] \in Rows
    BY <1>4, <2>4, BoardAssumption
  <2>6. \A i \in 1 .. Len(a.ids) : a.ids[i] \in DOMAIN board' =>
          board'[a.ids[i]].project = p /\ board'[a.ids[i]].order = i
    BY <1>4, <2>2, <2>5 DEF Ranked, Rows
  <2>7. \A w \in TasksIn(board', p) : w \in ToSet(a.ids) \cup a.others \/ (w > a.last /\ board'[w].order = 999 + w)
    BY <1>4, <2>2, <2>3 DEF Ranked
  <2> QED
    BY <2>1, <2>2, <2>6, <2>7 DEF Ranked
<1> QED
  BY <1>8, <1>9, <1>10 DEF BoardInv, AllRanked

\* A task that is inserted with a free block of ports, where the indexes let it.
LEMMA TaskInserted ==
  ASSUME BoardInv, NEW r, IsRow(r), r.project \in Roots, r.port = FreePort, r.order = Now, Fits(r), Inserts(r)
  PROVE  Founded(board', last') /\ Apart(board') /\ AllRanked(board', asked, last') /\ last' \in Nat
<1>1. PICK t : t = last + 1
  OBVIOUS
<1>2. last' = t /\ t \in Nat /\ t \in 1 .. t /\ last \in Nat /\ 1 .. last \subseteq 1 .. t /\ t > last /\ t \notin 1 .. last
  BY <1>1 DEF Inserts, BoardInv
<1>3. /\ board = [w \in Rows |-> board[w]] /\ IsFiniteSet(Rows) /\ Rows \subseteq Roots \cup 1 .. last
      /\ \A w \in Rows : /\ IsRow(board[w]) /\ board[w].project \in Rows \cap Roots
                         /\ w \in Roots => board[w].project = w
  BY DEF BoardInv, Founded, Rows
<1>4. t \notin Roots /\ t \notin Rows
  BY <1>2, <1>3, BoardAssumption
<1>5. board' = [w \in Rows \cup {t} |-> IF w \in Rows THEN board[w] ELSE r]
  BY <1>1 DEF Inserts
<1>6. DOMAIN board' = Rows \cup {t} /\ board'[t] = r /\ \A w \in Rows : board'[w] = board[w]
  BY <1>4, <1>5
<1>7. board' = [w \in DOMAIN board' |-> board'[w]]
  BY <1>5
<1>8. IsFiniteSet(DOMAIN board')
  BY <1>3, <1>6, FS_AddElement
<1>9. r.project \in Rows \cap Roots
  BY DEF Fits, Projects
<1>10. Rows \cup {t} \subseteq Roots \cup 1 .. t
  BY <1>2, <1>3
<1>11. Founded(board', t)
  BY <1>3, <1>4, <1>6, <1>7, <1>8, <1>9, <1>10 DEF Founded
<1>12. \A w \in Rows : board[w].path # r.path /\ board[w].port # r.port
  BY <1>3, FreePortIsFree DEF Fits, UsedPorts
<1>13. Apart(board')
  BY <1>6, <1>12 DEF BoardInv, Apart, Rows
<1>14. r.order = 999 + t
  BY <1>1, <1>2 DEF Now
<1>15. ASSUME NEW p \in Roots
       PROVE  Ranked(board', asked[p], p, t)
  <2>1. PICK a : a = asked[p]
    OBVIOUS
  <2>2. Ranked(board, a, p, last)
    BY <2>1 DEF BoardInv, AllRanked
  <2>3. \A w \in TasksIn(board', p) : w = t \/ (w \in TasksIn(board, p) /\ w \in Rows)
    BY <1>6 DEF TasksIn, Rows
  <2>4. a.last \in Nat /\ a.last \in 0 .. t /\ a.last < t /\ \A i \in 1 .. Len(a.ids) : a.ids[i] \in 1 .. a.last
    BY <1>2, <2>2 DEF Ranked, IsList
  <2>5. \A i \in 1 .. Len(a.ids) : a.ids[i] \in DOMAIN board' => a.ids[i] \in Rows
    BY <1>6, <2>4
  <2>6. \A i \in 1 .. Len(a.ids) : a.ids[i] \in DOMAIN board' =>
          board'[a.ids[i]].project = p /\ board'[a.ids[i]].order = i
    BY <1>6, <2>2, <2>5 DEF Ranked, Rows
  <2>7. \A w \in TasksIn(board', p) : w \in ToSet(a.ids) \cup a.others \/ (w > a.last /\ board'[w].order = 999 + w)
    BY <1>6, <1>14, <2>2, <2>3, <2>4 DEF Ranked
  <2> QED
    BY <2>1, <2>2, <2>4, <2>6, <2>7 DEF Ranked
<1>16. AllRanked(board', asked, t)
  BY <1>15 DEF BoardInv, AllRanked
<1> QED
  BY <1>2, <1>11, <1>13, <1>16

\* The rows that a creation and an adoption insert.
LEMMA NewRows ==
  ASSUME NEW root, NEW name
  PROVE  /\ LET r == Intent(root, name) IN
              IsRow(r) /\ r.project = root /\ r.port = FreePort /\ r.order = Now
         /\ LET r == Row(root, name, Foreign(root), "active", FreePort, Now) IN
              IsRow(r) /\ r.project = root /\ r.port = FreePort /\ r.order = Now
  BY DEF Intent, Row, IsRow

\* A list that is accepted ranks every task of its project that is not archived.
LEMMA ListAccepted ==
  ASSUME BoardInv, NEW d \in dragged, Reorders(d)
  PROVE  Founded(board', last) /\ Apart(board') /\ AllRanked(board', asked', last)
<1>1. PICK root, ids : root = d[1] /\ ids = d[2]
  OBVIOUS
<1>2. root \in Roots /\ IsList(ids, last) /\ last \in Nat
  BY <1>1 DEF BoardInv
<1>3. CASE ~Accepts(root, ids)
  BY <1>1, <1>3 DEF Reorders, BoardInv
<1>4. CASE Accepts(root, ids)
  <2>1. /\ board' = [w \in Rows |-> IF w \in ToSet(ids)
                                    THEN [board[w] EXCEPT !.order = CHOOSE i \in DOMAIN ids : ids[i] = w]
                                    ELSE board[w]]
        /\ asked' = [asked EXCEPT ![root] =
               [ids |-> ids, others |-> TasksOf(root) \ Unarchived(root), last |-> last]]
    BY <1>1, <1>4 DEF Reorders
  <2>2. /\ board = [w \in Rows |-> board[w]] /\ IsFiniteSet(Rows) /\ Rows \subseteq Roots \cup 1 .. last
        /\ \A w \in Rows : /\ IsRow(board[w]) /\ board[w].project \in Rows \cap Roots
                           /\ w \in Roots => board[w].project = w
    BY DEF BoardInv, Founded, Rows
  <2>3. /\ ids \in Seq(1 .. last) /\ DOMAIN ids = 1 .. Len(ids) /\ Len(ids) \in Nat
        /\ \A i, j \in 1 .. Len(ids) : i # j => ids[i] # ids[j]
    BY <1>2 DEF IsList
  <2>4. ToSet(ids) = Unarchived(root) /\ Unarchived(root) \subseteq TasksOf(root)
    BY <1>4 DEF Accepts, Unarchived
  <2>5. DOMAIN board' = Rows /\ board' = [w \in DOMAIN board' |-> board'[w]]
    BY <2>1
  <2>6. \A w \in Rows \ ToSet(ids) : board'[w] = board[w]
    BY <2>1
  <2>7. ASSUME NEW i \in 1 .. Len(ids), ids[i] \in Rows
        PROVE  /\ IsRow(board'[ids[i]]) /\ board'[ids[i]].order = i /\ board'[ids[i]].project = board[ids[i]].project
               /\ board'[ids[i]].path = board[ids[i]].path /\ board'[ids[i]].port = board[ids[i]].port
    <3>1. PICK w : w = ids[i]
      OBVIOUS
    <3>2. w \in ToSet(ids) /\ w \in Rows
      BY <2>3, <2>7, <3>1 DEF ToSet
    <3>3. (CHOOSE k \in DOMAIN ids : ids[k] = w) = i
      BY <2>3, <3>1
    <3>4. board'[w] = [board[w] EXCEPT !.order = i]
      BY <2>1, <3>2, <3>3
    <3>5. IsRow(board[w])
      BY <2>2, <3>2
    <3> QED
      BY <3>1, <3>4, <3>5 DEF IsRow
  <2>8. \A w \in ToSet(ids) : w \in Rows /\ board[w].project = root /\ \E i \in 1 .. Len(ids) : w = ids[i]
    BY <2>3, <2>4 DEF TasksOf, Of, ToSet
  <2>9. ASSUME NEW w \in Rows
        PROVE  /\ IsRow(board'[w]) /\ board'[w].project = board[w].project
               /\ board'[w].path = board[w].path /\ board'[w].port = board[w].port
    <3>1. CASE w \in ToSet(ids)
      <4>1. PICK i \in 1 .. Len(ids) : w = ids[i]
        BY <2>8, <3>1
      <4> QED
        BY <2>7, <2>9, <4>1
    <3>2. CASE w \notin ToSet(ids)
      BY <2>2, <2>6, <2>9, <3>2
    <3> QED
      BY <3>1, <3>2
  <2>10. Founded(board', last)
    BY <2>2, <2>5, <2>9 DEF Founded
  <2>11. Apart(board')
    BY <2>5, <2>9 DEF BoardInv, Apart, Rows
  <2>12. ASSUME NEW p \in Roots
         PROVE  Ranked(board', asked'[p], p, last)
    <3>1. TasksIn(board', p) = TasksIn(board, p)
      BY <2>5, <2>9 DEF TasksIn, Rows
    <3>2. CASE p = root
      <4>1. PICK a : a = [ids |-> ids, others |-> TasksOf(root) \ Unarchived(root), last |-> last]
        OBVIOUS
      <4>2. asked'[p] = a
        BY <2>1, <3>2, <4>1 DEF BoardInv, AllRanked
      <4>3. a.ids = ids /\ a.others = TasksOf(root) \ Unarchived(root) /\ a.last = last
            /\ a = [ids |-> a.ids, others |-> a.others, last |-> a.last]
        BY <4>1
      <4>4. \A w \in TasksIn(board', p) : w \in ToSet(ids) \cup a.others
        BY <2>4, <3>1, <3>2, <4>3 DEF TasksIn, TasksOf, Of, Rows
      <4>5. \A i \in 1 .. Len(ids) : ids[i] \in Rows => board'[ids[i]].project = p /\ board'[ids[i]].order = i
        <5>1. \A i \in 1 .. Len(ids) : ids[i] \in ToSet(ids)
          BY <2>3 DEF ToSet
        <5> QED
          BY <2>7, <2>8, <3>2, <5>1
      <4>6. Ranked(board', a, p, last)
        BY <1>2, <2>5, <4>3, <4>4, <4>5 DEF Ranked
      <4> QED
        BY <4>2, <4>6
    <3>3. CASE p # root
      <4>1. PICK a : a = asked[p]
        OBVIOUS
      <4>2. asked'[p] = a
        BY <2>1, <3>3, <4>1 DEF BoardInv, AllRanked
      <4>3. Ranked(board, a, p, last)
        BY <4>1 DEF BoardInv, AllRanked
      <4>4. \A w \in Rows : board[w].project = p => w \notin ToSet(ids) /\ board'[w] = board[w]
        BY <2>6, <2>8, <3>3
      <4>5. \A w \in TasksIn(board, p) : w \in Rows /\ board[w].project = p
        BY DEF TasksIn, Rows
      <4>6. \A w \in TasksIn(board', p) : w \in ToSet(a.ids) \cup a.others \/ (w > a.last /\ board'[w].order = 999 + w)
        BY <3>1, <4>3, <4>4, <4>5 DEF Ranked
      <4>7. \A i \in 1 .. Len(a.ids) : a.ids[i] \in Rows => board'[a.ids[i]].project = p /\ board'[a.ids[i]].order = i
        BY <4>3, <4>4 DEF Ranked, Rows
      <4>8. Ranked(board', a, p, last)
        BY <2>5, <4>3, <4>6, <4>7 DEF Ranked
      <4> QED
        BY <4>2, <4>8
    <3> QED
      BY <3>2, <3>3
  <2>13. asked' = [r \in Roots |-> asked'[r]]
    BY <2>1 DEF BoardInv, AllRanked
  <2> QED
    BY <2>10, <2>11, <2>12, <2>13 DEF AllRanked
<1> QED
  BY <1>3, <1>4

-----------------------------------------------------------------------------
\* The board starts empty.
LEMMA BoardInvInit == BoardInit => BoardInv
<1> SUFFICES ASSUME BoardInit PROVE BoardInv
  OBVIOUS
<1>1. board = <<>> /\ DOMAIN board = {} /\ last = 0 /\ dragged = {} /\ asked = [r \in Roots |-> Never]
  BY DEF BoardInit
<1>2. board = [w \in DOMAIN board |-> board[w]]
  BY <1>1
<1>3. Founded(board, last) /\ Apart(board)
  BY <1>1, <1>2, FS_EmptySet DEF Founded, Apart
<1>4. ASSUME NEW root \in Roots
      PROVE  Ranked(board, asked[root], root, last)
  <2>1. PICK a : a = Never
    OBVIOUS
  <2>2. a.ids = <<>> /\ a.others = {} /\ a.last = 0 /\ a = [ids |-> a.ids, others |-> a.others, last |-> a.last]
    BY <2>1 DEF Never
  <2>3. IsList(a.ids, 0) /\ Len(a.ids) = 0
    BY <2>2 DEF IsList
  <2>4. TasksIn(board, root) = {}
    BY <1>1 DEF TasksIn
  <2> QED
    BY <1>1, <2>1, <2>2, <2>3, <2>4 DEF Ranked
<1> QED
  BY <1>1, <1>3, <1>4 DEF BoardInv, AllRanked

\* A step that leaves the lists under way alone needs no more than the board.
LEMMA BoardStep ==
  ASSUME BoardInv, dragged' \subseteq dragged, last' = last \/ last' = last + 1,
         Founded(board', last'), Apart(board'), AllRanked(board', asked', last')
  PROVE  BoardInv'
<1>1. last' \in Nat
  BY DEF BoardInv
<1>2. \A d \in dragged' : d[1] \in Roots /\ IsList(d[2], last')
  BY ListGrows DEF BoardInv
<1> QED
  BY <1>1, <1>2 DEF BoardInv

\* The changes that a row may have leave its project, path, ports and rank.
LEMMA FieldsKept ==
  ASSUME NEW q, IsRow(q), NEW x
  PROVE  /\ SameTask([q EXCEPT !.status = x], q) /\ SameTask([q EXCEPT !.pinned = x], q)
         /\ SameTask([q EXCEPT !.name = x], q)
<1>1. ASSUME NEW r, r = [q EXCEPT !.status = x]
      PROVE  SameTask(r, q)
  BY <1>1 DEF IsRow, SameTask
<1>2. ASSUME NEW r, r = [q EXCEPT !.pinned = x]
      PROVE  SameTask(r, q)
  BY <1>2 DEF IsRow, SameTask
<1>3. ASSUME NEW r, r = [q EXCEPT !.name = x]
      PROVE  SameTask(r, q)
  BY <1>3 DEF IsRow, SameTask
<1> QED
  BY <1>1, <1>2, <1>3

\* The changes of a row, one by one.
LEMMA RowsChange ==
  ASSUME BoardInv, NEW w \in Rows,
         \/ SetsStatus(w) \/ SetsPinned(w) \/ (\E name \in Names : Renames(w, name))
         \/ BeginsArchive(w) \/ CancelsArchive(w) \/ CompletesArchive(w)
  PROVE  BoardInv'
<1>1. IsRow(board[w])
  BY DEF BoardInv, Founded, Rows
<1>2. PICK r : SameTask(r, board[w]) /\ Changes(w, r)
  <2>1. CASE SetsStatus(w)
    BY <1>1, <2>1, FieldsKept DEF SetsStatus
  <2>2. CASE SetsPinned(w)
    BY <1>1, <2>2, FieldsKept DEF SetsPinned
  <2>3. CASE \E name \in Names : Renames(w, name)
    BY <1>1, <2>3, FieldsKept DEF Renames, Named
  <2>4. CASE BeginsArchive(w)
    BY <1>1, <2>4, FieldsKept DEF BeginsArchive
  <2>5. CASE CancelsArchive(w)
    BY <1>1, <2>5, FieldsKept DEF CancelsArchive
  <2>6. CASE CompletesArchive(w)
    BY <1>1, <2>6, FieldsKept DEF CompletesArchive
  <2> QED
    BY <2>1, <2>2, <2>3, <2>4, <2>5, <2>6
<1> QED
  BY <1>2, ChangesKeep

\* A row that goes: a task, or a project that has none.
LEMMA RowGone ==
  ASSUME BoardInv, NEW x \in Rows, board' = [w \in Rows \ {x} |-> board[w]],
         \A w \in Rows : board[w].project = x => w = x
  PROVE  /\ Founded(board', last) /\ Apart(board')
         /\ \A a, root : Ranked(board, a, root, last) => Ranked(board', a, root, last)
<1>1. /\ DOMAIN board' = Rows \ {x} /\ board' = [w \in DOMAIN board' |-> board'[w]]
      /\ \A w \in Rows \ {x} : board'[w] = board[w]
  OBVIOUS
<1>2. \A w \in Rows : IsRow(board[w]) /\ board[w].project \in Rows
  BY DEF BoardInv, Founded, Rows
<1>3. KeepsRows(board, board')
  BY <1>1, <1>2 DEF KeepsRows, Rows
<1> QED
  BY <1>3, KeptRows DEF BoardInv

\* Projects that come and go keep the board sound.
LEMMA ProjectSteps ==
  ASSUME BoardInv, NEW root \in Roots,
         \/ AddsProject(root) \/ RemovesProject(root) \/ Clones(root) \/ ClonesEnd(root) \/ AdoptReads(root)
         \/ UNCHANGED boardVars
  PROVE  BoardInv'
<1>1. Founded(board, last) /\ Apart(board) /\ AllRanked(board, asked, last)
  BY DEF BoardInv
<1>2. CASE AddsProject(root)
  <2>1. root \notin Rows /\ Unplaced(root) /\ board' = WithMain(root, board)
    BY <1>2 DEF AddsProject, Projects
  <2>2. Founded(board', last) /\ Apart(board') /\ AllRanked(board', asked, last)
    BY <2>1, MainAdded
  <2> QED
    BY <1>2, <2>2, BoardStep DEF AddsProject
<1>3. CASE RemovesProject(root)
  <2>1. /\ root \in Rows /\ TasksOf(root) = {} /\ board' = [w \in Rows \ {root} |-> board[w]]
        /\ asked' = [asked EXCEPT ![root] = Never] /\ dragged' = dragged /\ last' = last
    BY <1>3 DEF RemovesProject, Projects
  <2>2. \A w \in Rows : board[w].project = root => w = root
    BY <2>1 DEF TasksOf, Of
  <2>3. /\ Founded(board', last) /\ Apart(board')
        /\ \A a, p : Ranked(board, a, p, last) => Ranked(board', a, p, last)
    BY <2>1, <2>2, RowGone
  <2>4. ASSUME NEW p \in Roots
        PROVE  Ranked(board', asked'[p], p, last)
    <3>1. CASE p # root
      BY <1>1, <2>1, <2>3, <3>1 DEF AllRanked
    <3>2. CASE p = root
      <4>1. PICK a : a = Never
        OBVIOUS
      <4>2. a.ids = <<>> /\ a.others = {} /\ a.last = 0 /\ a = [ids |-> a.ids, others |-> a.others, last |-> a.last]
        BY <4>1 DEF Never
      <4>3. IsList(a.ids, 0) /\ Len(a.ids) = 0 /\ 0 \in 0 .. last
        BY <4>2 DEF IsList, BoardInv
      <4>4. TasksIn(board', p) = {}
        BY <2>1, <2>2, <3>2 DEF TasksIn
      <4>5. asked'[p] = a
        BY <1>1, <2>1, <3>2, <4>1 DEF AllRanked
      <4> QED
        BY <4>2, <4>3, <4>4, <4>5 DEF Ranked
    <3> QED
      BY <3>1, <3>2
  <2>5. AllRanked(board', asked', last)
    BY <1>1, <2>1, <2>4 DEF AllRanked
  <2> QED
    BY <2>1, <2>3, <2>5, BoardStep
<1>4. CASE Clones(root) \/ AdoptReads(root) \/ UNCHANGED boardVars
  BY <1>1, <1>4, BoardStep DEF Clones, AdoptReads, boardVars
<1>5. CASE ClonesEnd(root)
  <2>1. last' = last /\ asked' = asked /\ dragged' = dragged
    BY <1>5 DEF ClonesEnd
  <2>2. CASE board' = board
    BY <1>1, <2>1, <2>2, BoardStep
  <2>3. CASE board' # board
    <3>1. root \notin Rows /\ Unplaced(root) /\ board' = WithMain(root, board)
      BY <1>5, <2>3 DEF ClonesEnd, Projects
    <3>2. Founded(board', last) /\ Apart(board') /\ AllRanked(board', asked, last)
      BY <3>1, MainAdded
    <3> QED
      BY <2>1, <3>2, BoardStep
  <2> QED
    BY <2>2, <2>3
<1> QED
  BY <1>2, <1>3, <1>4, <1>5

\* So do tasks that are made and adopted.
LEMMA TaskSteps ==
  ASSUME BoardInv, NEW root \in Roots, NEW name \in Names, Creates(root, name) \/ AdoptInserts(root, name)
  PROVE  BoardInv'
<1>1. asked' = asked /\ dragged' = dragged
  BY DEF Creates, AdoptInserts
<1>2. CASE board' = board /\ last' = last
  BY <1>1, <1>2, BoardStep DEF BoardInv
<1>3. CASE \E r : IsRow(r) /\ r.project = root /\ r.port = FreePort /\ r.order = Now /\ Fits(r) /\ Inserts(r)
  <2>1. last' = last + 1
    BY <1>3 DEF Inserts
  <2>2. Founded(board', last') /\ Apart(board') /\ AllRanked(board', asked, last')
    BY <1>3, TaskInserted
  <2> QED
    BY <1>1, <2>1, <2>2, BoardStep
<1>4. CASE Creates(root, name)
  <2>1. PICK r : r = Intent(root, name)
    OBVIOUS
  <2>2. IsRow(r) /\ r.project = root /\ r.port = FreePort /\ r.order = Now
    BY <2>1, NewRows
  <2>3. Fits(r) /\ Inserts(r)
    BY <1>4, <2>1 DEF Creates
  <2> QED
    BY <1>3, <2>2, <2>3
<1>5. CASE AdoptInserts(root, name)
  <2>1. PICK r : r = Row(root, name, Foreign(root), "active", FreePort, Now)
    OBVIOUS
  <2>2. IsRow(r) /\ r.project = root /\ r.port = FreePort /\ r.order = Now
    BY <2>1, NewRows
  <2>3. \/ Fits(r) /\ Inserts(r)
        \/ board' = board /\ last' = last
    BY <1>5, <2>1 DEF AdoptInserts
  <2> QED
    BY <1>2, <1>3, <2>2, <2>3
<1> QED
  BY <1>4, <1>5

\* A drag sends a list of the tasks there are.
LEMMA DragSteps ==
  ASSUME BoardInv, NEW root \in Roots, Drags(root)
  PROVE  BoardInv'
<1>1. board' = board /\ last' = last /\ asked' = asked
  BY DEF Drags
<1>2. PICK found \in SUBSET (Listed \cap TasksOf(root)) : \E ids \in SetToSeqs(found) :
        \E from, to \in DOMAIN ids : dragged' = dragged \cup {<<root, Put(ids, from, to)>>}
  BY DEF Drags
<1> PICK ids \in SetToSeqs(found) : \E from, to \in DOMAIN ids : dragged' = dragged \cup {<<root, Put(ids, from, to)>>}
  BY <1>2
<1> PICK from \in DOMAIN ids, to \in DOMAIN ids : dragged' = dragged \cup {<<root, Put(ids, from, to)>>}
  OBVIOUS
<1>3. last \in Nat /\ found \in SUBSET (1 .. last)
  BY DEF Listed, BoardInv, Founded, Rows
<1>4. IsList(ids, last) /\ DOMAIN ids = 1 .. Len(ids)
  BY <1>3, OrderedIsList
<1>5. IsList(Put(ids, from, to), last)
  BY <1>3, <1>4, PutIsList
<1>6. PICK d : d = <<root, Put(ids, from, to)>>
  OBVIOUS
<1>7. d[1] = root /\ d[2] = Put(ids, from, to)
  BY <1>6
<1>8. \A e \in dragged' : e[1] \in Roots /\ IsList(e[2], last)
  BY <1>5, <1>6, <1>7 DEF BoardInv
<1> QED
  BY <1>1, <1>8 DEF BoardInv

\* Every step keeps the board sound.
LEMMA BoardInvNext == BoardInv /\ [BoardNext]_boardVars => BoardInv'
<1> SUFFICES ASSUME BoardInv, [BoardNext]_boardVars PROVE BoardInv'
  OBVIOUS
<1>1. CASE UNCHANGED boardVars
  BY <1>1, BoardStep DEF BoardInv, boardVars
<1>2. ASSUME NEW root \in Roots,
             \/ AddsProject(root) \/ RemovesProject(root) \/ Clones(root) \/ ClonesEnd(root) \/ AdoptReads(root)
      PROVE  BoardInv'
  BY <1>2, ProjectSteps
<1>3. ASSUME NEW root \in Roots, Drags(root)
      PROVE  BoardInv'
  BY <1>3, DragSteps
<1>4. ASSUME NEW root \in Roots, NEW name \in Names, Creates(root, name) \/ AdoptInserts(root, name)
      PROVE  BoardInv'
  BY <1>4, TaskSteps
<1>5. ASSUME NEW w \in Rows,
             \/ SetsStatus(w) \/ SetsPinned(w) \/ (\E name \in Names : Renames(w, name))
             \/ BeginsArchive(w) \/ CancelsArchive(w) \/ CompletesArchive(w)
      PROVE  BoardInv'
  BY <1>5, RowsChange
<1>6. ASSUME NEW w \in Rows, Removes(w)
      PROVE  BoardInv'
  <2>1. w \notin Roots /\ board' = [v \in Rows \ {w} |-> board[v]] /\ last' = last /\ asked' = asked /\ dragged' = dragged
    BY <1>6 DEF Removes
  <2>2. \A v \in Rows : board[v].project # w
    BY <2>1 DEF BoardInv, Founded, Rows
  <2>3. /\ Founded(board', last) /\ Apart(board')
        /\ \A a, root : Ranked(board, a, root, last) => Ranked(board', a, root, last)
    BY <2>1, <2>2, RowGone
  <2>4. AllRanked(board', asked, last)
    BY <2>3 DEF BoardInv, AllRanked
  <2> QED
    BY <2>1, <2>3, <2>4, BoardStep
<1>7. ASSUME NEW d \in dragged, Reorders(d)
      PROVE  BoardInv'
  <2>1. dragged' \subseteq dragged /\ last' = last
    BY <1>7 DEF Reorders
  <2>2. Founded(board', last) /\ Apart(board') /\ AllRanked(board', asked', last)
    BY <1>7, ListAccepted
  <2> QED
    BY <2>1, <2>2, BoardStep
<1> QED
  BY <1>1, <1>2, <1>3, <1>4, <1>5, <1>6, <1>7 DEF BoardNext

\* What the board promises of a list: those it ranked by their ranks, those that came later after
\* them, because they came at a time that is more than any rank.
LEMMA OrderHolds == BoardInv => OrderStands
<1> SUFFICES ASSUME BoardInv, NEW root \in Roots, NEW a, a = asked[root]
             PROVE  /\ \A i, j \in DOMAIN a.ids : i < j /\ {a.ids[i], a.ids[j]} \subseteq Rows => Before(a.ids[i], a.ids[j])
                    /\ \A w \in TasksOf(root) \ (ToSet(a.ids) \cup a.others) :
                         w > a.last /\ \A i \in DOMAIN a.ids : a.ids[i] \in Rows => Before(a.ids[i], w)
  BY DEF OrderStands
<1>1. Ranked(board, a, root, last) /\ last \in Nat
  BY DEF BoardInv, AllRanked
<1>2. DOMAIN a.ids = 1 .. Len(a.ids) /\ Len(a.ids) \in Nat /\ a.last \in Nat /\ Len(a.ids) <= a.last
  BY <1>1 DEF Ranked, IsList
<1>3. \A i \in 1 .. Len(a.ids) : a.ids[i] \in Rows => board[a.ids[i]].order = i
  BY <1>1 DEF Ranked, Rows
<1>4. ASSUME NEW w \in TasksOf(root) \ (ToSet(a.ids) \cup a.others)
      PROVE  w > a.last /\ board[w].order = 999 + w /\ w \in Nat
  <2>1. w \in TasksIn(board, root)
    BY DEF TasksOf, TasksIn, Of, Rows
  <2>2. w > a.last /\ board[w].order = 999 + w
    BY <1>1, <1>4, <2>1 DEF Ranked
  <2>3. w \notin Roots
    BY DEF BoardInv, Founded, TasksOf, Of, Rows
  <2>4. w \in 1 .. last
    BY <2>1, <2>3 DEF BoardInv, Founded, TasksIn
  <2> QED
    BY <1>1, <2>2, <2>4
<1>5. ASSUME NEW i \in DOMAIN a.ids, NEW j \in DOMAIN a.ids, i < j, a.ids[i] \in Rows, a.ids[j] \in Rows
      PROVE  Before(a.ids[i], a.ids[j])
  BY <1>2, <1>3, <1>5 DEF Before
<1>6. ASSUME NEW w \in TasksOf(root) \ (ToSet(a.ids) \cup a.others), NEW i \in DOMAIN a.ids, a.ids[i] \in Rows
      PROVE  Before(a.ids[i], w)
  <2>1. board[a.ids[i]].order = i /\ i \in Nat /\ i <= a.last
    BY <1>2, <1>3, <1>6
  <2>2. w > a.last /\ board[w].order = 999 + w /\ w \in Nat
    BY <1>4
  <2>3. i < 999 + w
    BY <1>2, <2>1, <2>2
  <2> QED
    BY <2>1, <2>2, <2>3 DEF Before
<1> QED
  BY <1>4, <1>5, <1>6

\* No two tasks share a worktree or a block of ports, and an order that was accepted stands
\* (the indexes of workspaces, allocatePortBase, reorder).
THEOREM BoardIsKept == BoardSpec => []BoardHolds
<1>1. BoardInv => BoardHolds
  <2> SUFFICES ASSUME BoardInv PROVE TasksApart /\ OrderStands
    BY DEF BoardHolds
  <2>1. TasksApart
    <3> SUFFICES ASSUME NEW v \in Rows, NEW w \in Rows
                 PROVE  /\ board[w].project \in Projects
                        /\ v # w => board[v].path # board[w].path
                        /\ v # w /\ {v, w} \cap Roots = {} => board[v].port # board[w].port
      BY DEF TasksApart
    <3>1. board[w].project \in Projects
      BY DEF BoardInv, Founded, Rows, Projects
    <3> QED
      BY <3>1 DEF BoardInv, Apart, Rows
  <2> QED
    BY <2>1, OrderHolds
<1> QED
  BY <1>1, BoardInvInit, BoardInvNext, PTL DEF BoardSpec

=============================================================================
