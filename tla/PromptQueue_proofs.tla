------------------------- MODULE PromptQueue_proofs -------------------------
(***************************************************************************)
(* Type correctness of PromptQueue, one lemma for each action, and its     *)
(* lanes and claims: no row is ever stranded as inflight.  The inductive   *)
(* invariant says what a lane holds and what a running drain has claimed.  *)
(* Everything is proved for every set of workspaces, tabs and requests,    *)
(* every mode and target, and every bound.                                 *)
(***************************************************************************)
EXTENDS PromptQueue, FiniteSetTheorems, TLAPS

USE QueueAssumption DEF QueueAssumption

-----------------------------------------------------------------------------
(* What a drain under way holds.  The row a drain has claimed was inserted, which is what the *)
(* types of the row variables need when it is settled or put back.                            *)

Tabbed == {"drain", "close", "switch", "resume", "hook"}
ClaimLabels == {"recheck", "deliver", "mark", "settle"}

ClaimsHeld ==
  \A w \in Workspaces :
    /\ pc[w] \in ClaimLabels => claimed[w] # 0
    /\ claimed[w] # 0 =>
         /\ lane[w] # <<>>
         /\ pc[w] \in ClaimLabels
         /\ Head(lane[w]).kind = "drain"
         /\ RowTab(claimed[w]) = Head(lane[w]).tab
         /\ rowState[claimed[w]] = "inflight"

LEMMA Bounds ==
  /\ MaxRows \in Nat /\ MaxCrashes \in Nat /\ MaxMishaps \in Nat /\ MaxChores \in Nat
  /\ RowIds \subseteq 0..MaxRows
  /\ 0 \in 0..MaxRows
  BY DEF RowIds

LEMMA TaskFields ==
  ASSUME NEW task \in Tasks
  PROVE  /\ task.kind \in AllChores \cup {"input", "drain", "hook"}
         /\ task.kind = "input" => task.req \in Requests
         /\ task.kind \in Tabbed => task.tab \in Tabs
         /\ task.kind = "hook" => task.signal \in Signals
         /\ task.kind = "withdraw" => task.row \in RowIds
  BY DEF Tasks, TabTasks, HookTasks, Tabbed, AllChores

LEMMA NewTasks ==
  /\ \A t \in Tabs : Drain(t) \in Tasks
  /\ \A r \in Requests : [kind |-> "input", req |-> r] \in Tasks
  /\ \A t \in Tabs, s \in Signals, b \in BOOLEAN :
       [kind |-> "hook", tab |-> t, signal |-> s, native |-> b] \in Tasks
  BY DEF Tasks, TabTasks, HookTasks, Drain

LEMMA HeadTask ==
  ASSUME LanesOK, NEW w \in Workspaces, lane[w] # <<>>
  PROVE  /\ Head(lane[w]) \in Tasks
         /\ Tail(lane[w]) \in Seq(Tasks)
<1>1. lane[w] \in Seq(Tasks)
  BY DEF LanesOK
<1> QED
  BY <1>1

\* The request, the tab or the row of the running task.
LEMMA Running ==
  ASSUME LanesOK, NEW w \in Workspaces, NEW kind, NEW label, At(w, kind, label)
  PROVE  /\ lane[w] # <<>>
         /\ Head(lane[w]).kind = kind
         /\ Head(lane[w]) \in Tasks
         /\ kind = "input" => Head(lane[w]).req \in Requests /\ Target[Head(lane[w]).req] \in Tabs
         /\ kind \in Tabbed => Head(lane[w]).tab \in Tabs
         /\ kind = "withdraw" => Head(lane[w]).row \in RowIds
  BY HeadTask, TaskFields DEF At

\* A claimed row, once the label says there is one.
LEMMA Claimed ==
  ASSUME TypeOK, ClaimsHeld, NEW w \in Workspaces, pc[w] \in ClaimLabels
  PROVE  /\ claimed[w] \in RowIds
         /\ claimed[w] <= lastRow
         /\ rowState[claimed[w]] = "inflight"
         /\ rowReq[claimed[w]] \in Requests
         /\ RowTab(claimed[w]) \in Tabs
<1>1. claimed[w] \in RowIds /\ rowState[claimed[w]] = "inflight"
  BY DEF ClaimsHeld, TypeOK, LanesOK, RowIds
<1>2. claimed[w] <= lastRow /\ rowReq[claimed[w]] \in Requests
  BY <1>1 DEF TypeOK, RowsOK, RowIds
<1> QED
  BY <1>1, <1>2 DEF RowTab

\* A row whose state is not `unused` was inserted.
LEMMA Inserted ==
  ASSUME RowsOK, NEW i \in RowIds, rowState[i] # "unused"
  PROVE  i <= lastRow /\ rowReq[i] \in Requests /\ RowTab(i) \in Tabs
<1>1. i <= lastRow /\ rowReq[i] \in Requests
  BY DEF RowsOK
<1> QED
  BY <1>1 DEF RowTab

LEMMA ChangedState ==
  ASSUME RowsOK, NEW i \in RowIds, rowState[i] # "unused", NEW s \in RowStates \ {"unused"},
         rowState' = [rowState EXCEPT ![i] = s], UNCHANGED <<rowReq, lastRow>>
  PROVE  /\ rowState' \in [RowIds -> RowStates]
         /\ \A j \in RowIds : IF j <= lastRow' THEN rowReq'[j] \in Requests /\ rowState'[j] # "unused"
                                              ELSE rowReq'[j] = NoReq /\ rowState'[j] = "unused"
  BY Inserted DEF RowsOK

LEMMA FinishType ==
  ASSUME LanesOK, NEW w \in Workspaces, lane[w] # <<>>, Finish(w)
  PROVE  lane' \in [Workspaces -> Seq(Tasks)] /\ pc' \in [Workspaces -> Labels]
<1>1. lane' = [lane EXCEPT ![w] = Tail(lane[w])] /\ pc' = [pc EXCEPT ![w] = "start"]
  BY DEF Finish
<1>2. "start" \in Labels
  BY DEF Labels
<1> QED
  BY <1>1, <1>2, HeadTask DEF LanesOK

LEMMA GotoType ==
  ASSUME LanesOK, NEW w \in Workspaces, NEW label \in Labels, Goto(w, label)
  PROVE  lane' \in [Workspaces -> Seq(Tasks)] /\ pc' \in [Workspaces -> Labels]
  BY DEF LanesOK, Goto

LEMMA AppendType ==
  ASSUME LanesOK, NEW w \in Workspaces, NEW task \in Tasks,
         lane' = [lane EXCEPT ![w] = Append(lane[w], task)]
  PROVE  lane' \in [Workspaces -> Seq(Tasks)]
<1>1. Append(lane[w], task) \in Seq(Tasks)
  BY DEF LanesOK
<1> QED
  BY <1>1 DEF LanesOK

LEMMA StatusType ==
  ASSUME TabsOK, NEW t \in Tabs, NEW status \in OpenStatuses, WriteStatus(t, status)
  PROVE  tabStatus' \in [Tabs -> TabStatuses] /\ spent' \in [Tabs -> BOOLEAN]
<1>1. tabStatus' = [tabStatus EXCEPT ![t] = status]
  BY DEF WriteStatus
<1>2. spent' = [spent EXCEPT ![t] = spent[t] /\ ~IsEdge(t, status)]
  BY DEF WriteStatus
<1>3. (spent[t] /\ ~IsEdge(t, status)) \in BOOLEAN
  BY DEF TabsOK
<1> QED
  BY <1>1, <1>2, <1>3 DEF TabsOK, TabStatuses

LEMMA TurnType ==
  ASSUME EnginesOK, NEW t \in Tabs, StartTurn(t) \/ StopTurn(t)
  PROVE  EnginesOK'
<1>1. CASE StartTurn(t)
  <2>1. engine' = [engine EXCEPT ![t] = IF engine[t] = "gone" THEN engine[t] ELSE "busy"]
    BY <1>1 DEF StartTurn
  <2>2. \/ signals' = [signals EXCEPT ![t] = signals[t] \cup {"working"}]
        \/ signals' = [signals EXCEPT ![t] = signals[t]]
    BY <1>1 DEF StartTurn
  <2>3. signals[t] \cup {"working"} \in SUBSET Signals
    BY DEF EnginesOK, Signals
  <2> QED
    BY <1>1, <2>1, <2>2, <2>3 DEF StartTurn, EnginesOK
<1>2. CASE StopTurn(t)
  BY <1>2 DEF StopTurn, EnginesOK
<1> QED
  BY <1>1, <1>2

LEMMA RestartType ==
  ASSUME TabsOK, EnginesOK, NEW ts, Restart(ts)
  PROVE  /\ tabStatus' \in [Tabs -> TabStatuses]
         /\ engine' \in [Tabs -> {"ready", "busy", "gone"}]
         /\ signals' \in [Tabs -> SUBSET Signals]
<1>1. \A t \in Tabs : signals[t] \cup {"awaiting-input"} \in SUBSET Signals
  BY DEF EnginesOK, Signals
<1> QED
  BY <1>1 DEF Restart, TabsOK, EnginesOK, TabStatuses, OpenStatuses

LEMMA KillType ==
  ASSUME EnginesOK, NEW w \in Workspaces, KillEngines(w)
  PROVE  engine' \in [Tabs -> {"ready", "busy", "gone"}]
  BY DEF KillEngines, EnginesOK

LEMMA OutcomeType ==
  ASSUME TabsOK, EnginesOK, NEW w \in Workspaces,
         NEW outcome \in ArchiveOutcomes, ArchiveOutcome(w, outcome),
         UNCHANGED <<native, authority, spent, transcript>>
  PROVE  TabsOK' /\ EnginesOK'
<1>1. CASE outcome = "archived"
  <2>1. /\ wsStatus' = [wsStatus EXCEPT ![w] = "archived"]
        /\ KillEngines(w)
        /\ UNCHANGED <<tabStatus, signals>>
    BY <1>1 DEF ArchiveOutcome
  <2> QED
    BY <2>1, KillType DEF TabsOK, EnginesOK, WsStatuses
<1>2. CASE outcome = "kept"
  <2>1. wsStatus' = [wsStatus EXCEPT ![w] = "active"] /\ UNCHANGED <<tabStatus, engine, signals>>
    BY <1>2 DEF ArchiveOutcome
  <2> QED
    BY <2>1 DEF TabsOK, EnginesOK, WsStatuses
<1>3. CASE outcome = "rebuilt"
  <2>1. wsStatus' = [wsStatus EXCEPT ![w] = "active"] /\ Restart(OpenTabs(w))
    BY <1>3 DEF ArchiveOutcome
  <2> QED
    BY <2>1, RestartType DEF TabsOK, EnginesOK, WsStatuses
<1>4. CASE outcome = "stuck"
  <2>1. (KillEngines(w) \/ UNCHANGED engine) /\ UNCHANGED <<wsStatus, tabStatus, signals>>
    BY <1>4 DEF ArchiveOutcome
  <2> QED
    BY <2>1, KillType DEF TabsOK, EnginesOK
<1> QED
  BY <1>1, <1>2, <1>3, <1>4 DEF ArchiveOutcomes

LEMMA DropType ==
  ASSUME RowsOK, NEW ts, DropRows(ts), UNCHANGED <<rowReq, lastRow, copies>>
  PROVE  RowsOK'
<1>1. \A i \in RowIds : rowState'[i] = rowState[i] \/ (rowState[i] \in Live /\ rowState'[i] = "dropped")
  BY DEF DropRows
<1>2. rowState' \in [RowIds -> RowStates]
  BY DEF DropRows, RowsOK, RowStates
<1> QED
  BY <1>1, <1>2 DEF RowsOK, Live

LEMMA OrdersType ==
  ASSUME NEW ts, NEW o \in Orders(ts), ts \subseteq Tabs, Cardinality(ts) \in Nat
  PROVE  [k \in DOMAIN o |-> Drain(o[k])] \in Seq(Tasks)
<1>1. o \in [1..Cardinality(ts) -> ts]
  BY DEF Orders
<1>2. [k \in DOMAIN o |-> Drain(o[k])] \in [1..Cardinality(ts) -> Tasks]
  BY <1>1, NewTasks
<1> QED
  BY <1>2

-----------------------------------------------------------------------------
(* The actions: only the groups of variables an action writes need an argument. *)

LEMMA InputReplaysType ==
  ASSUME TypeOK, ClaimsHeld, NEW w \in Workspaces, InputReplays(w)
  PROVE  TypeOK'
<1> USE DEF TypeOK
<1>0. /\ At(w, "input", "start")
      /\ lane[w] # <<>> /\ Head(lane[w]).kind = "input" /\ Head(lane[w]) \in Tasks
      /\ Head(lane[w]).req \in Requests /\ Target[Head(lane[w]).req] \in Tabs
  BY Running DEF InputReplays, Tabbed
<1>1. LanesOK'
  BY <1>0, FinishType DEF InputReplays, laneVars, LanesOK
<1>2. ClientsOK'
  BY <1>0 DEF InputReplays, Answer, Answers, clientVars, paneVars, budgetVars, ClientsOK
<1>3. TabsOK' /\ RowsOK' /\ EnginesOK'
  BY DEF InputReplays, tabVars, rowVars, paneVars, engineVars, TabsOK, RowsOK, EnginesOK
<1> QED
  BY <1>1, <1>2, <1>3

LEMMA InputRefusedType ==
  ASSUME TypeOK, ClaimsHeld, NEW w \in Workspaces, InputRefused(w)
  PROVE  TypeOK'
<1> USE DEF TypeOK
<1>0. /\ At(w, "input", "start")
      /\ lane[w] # <<>> /\ Head(lane[w]).kind = "input" /\ Head(lane[w]) \in Tasks
      /\ Head(lane[w]).req \in Requests /\ Target[Head(lane[w]).req] \in Tabs
  BY Running DEF InputRefused, Tabbed
<1>1. LanesOK'
  BY <1>0, FinishType DEF InputRefused, laneVars, LanesOK
<1>2. ClientsOK'
  <2> DEFINE r == Head(lane[w]).req
  <2>1. \E heard \in {"refused", "lost"} :
          client' = [client EXCEPT ![r] = IF client[r] = "waiting" THEN heard ELSE client[r]]
    BY DEF InputRefused, Answer
  <2> QED
    BY <1>0, <2>1 DEF InputRefused, paneVars, budgetVars, ClientsOK, Answers
<1>3. TabsOK' /\ RowsOK' /\ EnginesOK'
  BY DEF InputRefused, tabVars, rowVars, paneVars, engineVars, TabsOK, RowsOK, EnginesOK
<1> QED
  BY <1>1, <1>2, <1>3

LEMMA InputReadsType ==
  ASSUME TypeOK, ClaimsHeld, NEW w \in Workspaces, InputReads(w)
  PROVE  TypeOK'
<1> USE DEF TypeOK
<1>0. /\ At(w, "input", "start")
      /\ lane[w] # <<>> /\ Head(lane[w]).kind = "input" /\ Head(lane[w]) \in Tasks
      /\ Head(lane[w]).req \in Requests /\ Target[Head(lane[w]).req] \in Tabs
  BY Running DEF InputReads, Tabbed
<1>1. LanesOK'
  BY <1>0, GotoType DEF InputReads, LanesOK, Labels
<1>2. TabsOK' /\ RowsOK' /\ EnginesOK' /\ ClientsOK'
  BY DEF InputReads, tabVars, rowVars, paneVars, engineVars, clientVars, budgetVars, TabsOK, RowsOK, EnginesOK, ClientsOK
<1> QED
  BY <1>1, <1>2

LEMMA InputEnqueuesType ==
  ASSUME TypeOK, ClaimsHeld, NEW w \in Workspaces, InputEnqueues(w)
  PROVE  TypeOK'
<1> USE DEF TypeOK
<1>0. /\ At(w, "input", "enqueue")
      /\ lane[w] # <<>> /\ Head(lane[w]).kind = "input" /\ Head(lane[w]) \in Tasks
      /\ Head(lane[w]).req \in Requests /\ Target[Head(lane[w]).req] \in Tabs
  BY Running DEF InputEnqueues, Tabbed
<1>1. RowsOK'
  <2> DEFINE r == Head(lane[w]).req
  <2>1. /\ lastRow < MaxRows /\ lastRow' = lastRow + 1
        /\ rowReq' = [rowReq EXCEPT ![lastRow + 1] = r]
        /\ rowState' = [rowState EXCEPT ![lastRow + 1] = "queued"]
        /\ copies' = copies
    BY DEF InputEnqueues, paneVars
  <2>2. lastRow' \in RowIds /\ r \in Requests
    BY <1>0, <2>1 DEF RowsOK, RowIds
  <2>3. rowReq' \in [RowIds -> Requests \cup {NoReq}] /\ rowState' \in [RowIds -> RowStates]
    BY <2>1, <2>2 DEF RowsOK, RowStates
  <2>4. ASSUME NEW i \in RowIds
        PROVE  IF i <= lastRow' THEN rowReq'[i] \in Requests /\ rowState'[i] # "unused"
                                ELSE rowReq'[i] = NoReq /\ rowState'[i] = "unused"
    <3>1. CASE i = lastRow + 1
      BY <2>1, <2>2, <3>1 DEF RowsOK
    <3>2. CASE i # lastRow + 1
      BY <2>1, <2>2, <3>2 DEF RowsOK, RowIds
    <3> QED
      BY <3>1, <3>2
  <2> QED
    BY <2>1, <2>2, <2>3, <2>4 DEF RowsOK, RowIds
<1>2. LanesOK'
  BY <1>0, GotoType DEF InputEnqueues, laneVars, LanesOK, Labels
<1>3. TabsOK' /\ EnginesOK' /\ ClientsOK'
  BY DEF InputEnqueues, tabVars, engineVars, clientVars, paneVars, budgetVars, TabsOK, EnginesOK, ClientsOK
<1> QED
  BY <1>1, <1>2, <1>3

LEMMA InputWritesPtyType ==
  ASSUME TypeOK, ClaimsHeld, NEW w \in Workspaces, InputWritesPty(w)
  PROVE  TypeOK'
<1> USE DEF TypeOK
<1>0. /\ At(w, "input", "pty")
      /\ lane[w] # <<>> /\ Head(lane[w]).kind = "input" /\ Head(lane[w]) \in Tasks
      /\ Head(lane[w]).req \in Requests /\ Target[Head(lane[w]).req] \in Tabs
  BY Running DEF InputWritesPty, Tabbed
<1>1. TabsOK'
  BY <1>0 DEF InputWritesPty, TabsOK, tabVars
<1>2. RowsOK'
  BY DEF InputWritesPty, rowVars, RowsOK
<1>3. LanesOK'
  BY <1>0, GotoType DEF InputWritesPty, AfterPty, LanesOK, Labels
<1>4. EnginesOK'
  <2> DEFINE r == Head(lane[w]).req
  <2>1. StartTurn(Target[r]) \/ StopTurn(Target[r]) \/ UNCHANGED engineVars
    BY DEF InputWritesPty
  <2> QED
    BY <1>0, <2>1, TurnType DEF engineVars, EnginesOK
<1>5. ClientsOK'
  <2> DEFINE r == Head(lane[w]).req
  <2>1. direct' = [direct EXCEPT ![r] = direct[r] + 1] /\ UNCHANGED <<clientVars, budgetVars>>
    BY DEF InputWritesPty
  <2> QED
    BY <1>0, <2>1 DEF clientVars, budgetVars, ClientsOK
<1> QED
  BY <1>1, <1>2, <1>3, <1>4, <1>5

LEMMA InputPtyFailsType ==
  ASSUME TypeOK, ClaimsHeld, NEW w \in Workspaces, InputPtyFails(w)
  PROVE  TypeOK'
<1> USE DEF TypeOK
<1>0. /\ At(w, "input", "pty")
      /\ lane[w] # <<>> /\ Head(lane[w]).kind = "input" /\ Head(lane[w]) \in Tasks
      /\ Head(lane[w]).req \in Requests /\ Target[Head(lane[w]).req] \in Tabs
  BY Running DEF InputPtyFails, Tabbed
<1>1. RowsOK'
  BY DEF InputPtyFails, rowVars, RowsOK
<1>2. LanesOK'
  BY <1>0, FinishType DEF InputPtyFails, laneVars, LanesOK
<1>3. ClientsOK'
  <2> DEFINE r == Head(lane[w]).req
  <2>1. \E heard \in {"failed", "lost"} :
          client' = [client EXCEPT ![r] = IF client[r] = "waiting" THEN heard ELSE client[r]]
    BY DEF InputPtyFails, Answer
  <2>2. \E pasted \in {0, 1} : direct' = [direct EXCEPT ![r] = direct[r] + pasted]
    BY DEF InputPtyFails
  <2>3. direct' \in [Requests -> Nat]
    BY <1>0, <2>2 DEF ClientsOK
  <2> QED
    BY <1>0, <2>1, <2>3 DEF InputPtyFails, ClientsOK, Answers
<1>4. TabsOK' /\ EnginesOK'
  BY DEF InputPtyFails, tabVars, engineVars, TabsOK, EnginesOK
<1> QED
  BY <1>1, <1>2, <1>3, <1>4

LEMMA InputMarksInterruptedType ==
  ASSUME TypeOK, ClaimsHeld, NEW w \in Workspaces, InputMarksInterrupted(w)
  PROVE  TypeOK'
<1> USE DEF TypeOK
<1>0. /\ At(w, "input", "interrupted")
      /\ lane[w] # <<>> /\ Head(lane[w]).kind = "input" /\ Head(lane[w]) \in Tasks
      /\ Head(lane[w]).req \in Requests /\ Target[Head(lane[w]).req] \in Tabs
  BY Running DEF InputMarksInterrupted, Tabbed
<1>1. TabsOK'
  BY <1>0, StatusType DEF InputMarksInterrupted, TabsOK, OpenStatuses
<1>2. LanesOK'
  BY <1>0, GotoType DEF InputMarksInterrupted, laneVars, LanesOK, Labels
<1>3. RowsOK' /\ EnginesOK' /\ ClientsOK'
  BY DEF InputMarksInterrupted, rowVars, paneVars, engineVars, clientVars, budgetVars, RowsOK, EnginesOK, ClientsOK
<1> QED
  BY <1>1, <1>2, <1>3

LEMMA InputMarksWorkingType ==
  ASSUME TypeOK, ClaimsHeld, NEW w \in Workspaces, InputMarksWorking(w)
  PROVE  TypeOK'
<1> USE DEF TypeOK
<1>0. /\ At(w, "input", "composer")
      /\ lane[w] # <<>> /\ Head(lane[w]).kind = "input" /\ Head(lane[w]) \in Tasks
      /\ Head(lane[w]).req \in Requests /\ Target[Head(lane[w]).req] \in Tabs
  BY Running DEF InputMarksWorking, Tabbed
<1>1. TabsOK'
  BY <1>0, StatusType DEF InputMarksWorking, TabsOK, OpenStatuses
<1>2. LanesOK'
  BY <1>0, GotoType DEF InputMarksWorking, laneVars, LanesOK, Labels
<1>3. RowsOK' /\ EnginesOK' /\ ClientsOK'
  BY DEF InputMarksWorking, rowVars, paneVars, engineVars, clientVars, budgetVars, RowsOK, EnginesOK, ClientsOK
<1> QED
  BY <1>1, <1>2, <1>3

LEMMA InputSavesType ==
  ASSUME TypeOK, ClaimsHeld, NEW w \in Workspaces, InputSaves(w)
  PROVE  TypeOK'
<1> USE DEF TypeOK
<1>1. LanesOK'
  <2>1. lane[w] # <<>> /\ Finish(w)
    BY DEF InputSaves, At
  <2> QED
    BY <2>1, FinishType DEF InputSaves, LanesOK
<1>2. ClientsOK'
  <2> DEFINE r == Head(lane[w]).req
  <2>1. PICK answer \in {"queued", "ok"} :
          /\ At(w, "input", IF answer = "queued" THEN "saveQueued" ELSE "saveOk")
          /\ receipt' = [receipt EXCEPT ![r] = answer]
          /\ Answer(r, answer)
    BY DEF InputSaves
  <2>2. receipt' \in [Requests -> {"none", "queued", "ok"}]
    BY <2>1 DEF ClientsOK
  <2>3. client' \in [Requests -> {"idle", "waiting", "lost"} \cup Answers]
    <3>1. PICK heard \in {answer, "lost"} :
            client' = [client EXCEPT ![r] = IF client[r] = "waiting" THEN heard ELSE client[r]]
      BY <2>1 DEF Answer
    <3> QED
      BY <3>1 DEF Answers, ClientsOK
  <2> QED
    BY <2>2, <2>3 DEF InputSaves, paneVars, budgetVars, ClientsOK
<1>3. TabsOK' /\ RowsOK' /\ EnginesOK'
  BY DEF InputSaves, tabVars, rowVars, paneVars, engineVars, TabsOK, RowsOK, EnginesOK
<1> QED
  BY <1>1, <1>2, <1>3

LEMMA DrainResolvesType ==
  ASSUME TypeOK, ClaimsHeld, NEW w \in Workspaces, DrainResolves(w)
  PROVE  TypeOK'
<1> USE DEF TypeOK
<1>0. /\ At(w, "drain", "start")
      /\ lane[w] # <<>> /\ Head(lane[w]).kind = "drain" /\ Head(lane[w]) \in Tasks
      /\ Head(lane[w]).tab \in Tabs
  BY Running DEF DrainResolves, Tabbed
<1>1. LanesOK'
  <2>1. Goto(w, "claim") \/ Finish(w)
    BY DEF DrainResolves
  <2> QED
    BY <1>0, <2>1, GotoType, FinishType DEF DrainResolves, DrainUnchanged, LanesOK, Labels
<1>2. TabsOK' /\ RowsOK' /\ EnginesOK' /\ ClientsOK'
  BY DEF DrainResolves, DrainUnchanged, tabVars, rowVars, paneVars, engineVars, clientVars, budgetVars, TabsOK, RowsOK, EnginesOK, ClientsOK
<1> QED
  BY <1>1, <1>2

LEMMA DrainClaimsType ==
  ASSUME TypeOK, ClaimsHeld, NEW w \in Workspaces, DrainClaims(w)
  PROVE  TypeOK'
<1> USE DEF TypeOK
<1>0. /\ At(w, "drain", "claim")
      /\ lane[w] # <<>> /\ Head(lane[w]).kind = "drain" /\ Head(lane[w]) \in Tasks
      /\ Head(lane[w]).tab \in Tabs
  BY Running DEF DrainClaims, Tabbed
<1>1. RowsOK'
  <2>1. \/ UNCHANGED rowState
        \/ \E i \in RowIds : rowState[i] = "queued" /\ rowState' = [rowState EXCEPT ![i] = "inflight"]
    BY DEF DrainClaims, Oldest, RowsIn
  <2>2. UNCHANGED <<rowReq, lastRow, copies>>
    BY DEF DrainClaims, DrainUnchanged
  <2> QED
    BY <2>1, <2>2, ChangedState DEF RowsOK, RowStates
<1>2. LanesOK'
  <2>1. \/ Finish(w) /\ UNCHANGED claimed
        \/ \E i \in RowIds : claimed' = [claimed EXCEPT ![w] = i] /\ Goto(w, "recheck")
    BY DEF DrainClaims
  <2>2. claimed' \in [Workspaces -> 0..MaxRows]
    BY <2>1, Bounds DEF LanesOK
  <2> QED
    BY <1>0, <2>1, <2>2, GotoType, FinishType DEF DrainClaims, DrainUnchanged, LanesOK, Labels
<1>3. TabsOK' /\ EnginesOK' /\ ClientsOK'
  BY DEF DrainClaims, DrainUnchanged, tabVars, engineVars, clientVars, paneVars, budgetVars, TabsOK, EnginesOK, ClientsOK
<1> QED
  BY <1>1, <1>2, <1>3

LEMMA DrainRechecksType ==
  ASSUME TypeOK, ClaimsHeld, NEW w \in Workspaces, DrainRechecks(w)
  PROVE  TypeOK'
<1> USE DEF TypeOK
<1>0. /\ At(w, "drain", "recheck")
      /\ lane[w] # <<>> /\ Head(lane[w]).kind = "drain" /\ Head(lane[w]) \in Tasks
      /\ Head(lane[w]).tab \in Tabs
  BY Running DEF DrainRechecks, Tabbed
<1>1. RowsOK'
  <2>1. claimed[w] \in RowIds /\ rowState[claimed[w]] # "unused"
    BY <1>0, Claimed DEF ClaimLabels, At
  <2>2. UNCHANGED rowState \/ rowState' = [rowState EXCEPT ![claimed[w]] = "queued"]
    BY DEF DrainRechecks, Release
  <2>3. UNCHANGED <<rowReq, lastRow, copies>>
    BY DEF DrainRechecks, DrainUnchanged
  <2> QED
    BY <2>1, <2>2, <2>3, ChangedState DEF RowsOK, RowStates
<1>2. LanesOK'
  <2>1. claimed' \in [Workspaces -> 0..MaxRows]
    BY Bounds DEF DrainRechecks, Release, LanesOK
  <2> QED
    BY <1>0, <2>1, GotoType, FinishType DEF DrainRechecks, Release, DrainUnchanged, LanesOK, Labels
<1>3. TabsOK' /\ EnginesOK' /\ ClientsOK'
  BY DEF DrainRechecks, DrainUnchanged, tabVars, engineVars, clientVars, paneVars, budgetVars, TabsOK, EnginesOK, ClientsOK
<1> QED
  BY <1>1, <1>2, <1>3

LEMMA DrainDeliversType ==
  ASSUME TypeOK, ClaimsHeld, NEW w \in Workspaces, DrainDelivers(w)
  PROVE  TypeOK'
<1> USE DEF TypeOK
<1>0. /\ At(w, "drain", "deliver")
      /\ lane[w] # <<>> /\ Head(lane[w]).kind = "drain" /\ Head(lane[w]) \in Tasks
      /\ Head(lane[w]).tab \in Tabs
  BY Running DEF DrainDelivers, Tabbed
<1>1. TabsOK'
  <2>1. RowTab(claimed[w]) \in Tabs
    BY <1>0, Claimed DEF ClaimLabels, At
  <2> QED
    BY <2>1 DEF DrainDelivers, DrainUnchanged, TabsOK
<1>2. RowsOK'
  <2>1. copies' = [copies EXCEPT ![claimed[w]] = copies[claimed[w]] + 1] /\ claimed[w] \in RowIds
    BY <1>0, Claimed DEF DrainDelivers, ClaimLabels, At
  <2> QED
    BY <2>1 DEF DrainDelivers, DrainUnchanged, RowsOK
<1>3. LanesOK'
  BY <1>0, GotoType DEF DrainDelivers, DrainUnchanged, LanesOK, Labels
<1>4. EnginesOK'
  BY <1>0, Claimed, TurnType DEF DrainDelivers, ClaimLabels, At
<1>5. ClientsOK'
  BY DEF DrainDelivers, DrainUnchanged, clientVars, paneVars, budgetVars, ClientsOK
<1> QED
  BY <1>1, <1>2, <1>3, <1>4, <1>5

LEMMA DrainFailsType ==
  ASSUME TypeOK, ClaimsHeld, NEW w \in Workspaces, DrainFails(w)
  PROVE  TypeOK'
<1> USE DEF TypeOK
<1>0. /\ At(w, "drain", "deliver")
      /\ lane[w] # <<>> /\ Head(lane[w]).kind = "drain" /\ Head(lane[w]) \in Tasks
      /\ Head(lane[w]).tab \in Tabs
  BY Running DEF DrainFails, Tabbed
<1>1. RowsOK'
  <2>1. claimed[w] \in RowIds /\ rowState[claimed[w]] # "unused"
    BY <1>0, Claimed DEF ClaimLabels, At
  <2>2. rowState' = [rowState EXCEPT ![claimed[w]] = "queued"]
    BY DEF DrainFails, Release
  <2>3. UNCHANGED <<rowReq, lastRow>>
    BY DEF DrainFails, DrainUnchanged
  <2>4. \E pasted \in {0, 1} : copies' = [copies EXCEPT ![claimed[w]] = copies[claimed[w]] + pasted]
    BY DEF DrainFails
  <2>5. copies' \in [RowIds -> Nat]
    BY <2>1, <2>4 DEF RowsOK
  <2> QED
    BY <2>1, <2>2, <2>3, <2>5, ChangedState DEF RowsOK, RowStates
<1>2. LanesOK'
  <2>1. claimed' \in [Workspaces -> 0..MaxRows]
    BY Bounds DEF DrainFails, Release, LanesOK
  <2> QED
    BY <1>0, <2>1, GotoType, FinishType DEF DrainFails, Release, DrainUnchanged, LanesOK, Labels
<1>3. ClientsOK'
  BY DEF DrainFails, DrainUnchanged, clientVars, ClientsOK
<1>4. TabsOK' /\ EnginesOK'
  BY DEF DrainFails, DrainUnchanged, tabVars, engineVars, TabsOK, EnginesOK
<1> QED
  BY <1>1, <1>2, <1>3, <1>4

LEMMA DrainMarksType ==
  ASSUME TypeOK, ClaimsHeld, NEW w \in Workspaces, DrainMarks(w)
  PROVE  TypeOK'
<1> USE DEF TypeOK
<1>0. /\ At(w, "drain", "mark")
      /\ lane[w] # <<>> /\ Head(lane[w]).kind = "drain" /\ Head(lane[w]) \in Tasks
      /\ Head(lane[w]).tab \in Tabs
  BY Running DEF DrainMarks, Tabbed
<1>1. TabsOK'
  <2>1. CASE WriteStatus(RowTab(claimed[w]), "working")
    BY <1>0, <2>1, Claimed, StatusType DEF DrainMarks, DrainUnchanged, ClaimLabels, At, TabsOK, OpenStatuses
  <2>2. CASE tabStatus' = tabStatus /\ spent' = [spent EXCEPT ![RowTab(claimed[w])] = FALSE]
    BY <2>2 DEF DrainMarks, DrainUnchanged, TabsOK
  <2> QED
    BY <2>1, <2>2 DEF DrainMarks
<1>2. LanesOK'
  BY <1>0, GotoType DEF DrainMarks, DrainUnchanged, LanesOK, Labels
<1>3. RowsOK' /\ EnginesOK' /\ ClientsOK'
  BY Bounds DEF DrainMarks, DrainUnchanged, rowVars, paneVars, engineVars, clientVars, budgetVars, RowsOK, EnginesOK, ClientsOK
<1> QED
  BY <1>1, <1>2, <1>3

LEMMA DrainSettlesType ==
  ASSUME TypeOK, ClaimsHeld, NEW w \in Workspaces, DrainSettles(w)
  PROVE  TypeOK'
<1> USE DEF TypeOK
<1>0. /\ At(w, "drain", "settle")
      /\ lane[w] # <<>> /\ Head(lane[w]).kind = "drain" /\ Head(lane[w]) \in Tasks
      /\ Head(lane[w]).tab \in Tabs
  BY Running DEF DrainSettles, Tabbed
<1>1. RowsOK'
  <2>1. claimed[w] \in RowIds /\ rowState[claimed[w]] # "unused"
    BY <1>0, Claimed DEF ClaimLabels, At
  <2>2. rowState' = [rowState EXCEPT ![claimed[w]] = "delivered"]
    BY DEF DrainSettles, Release
  <2>3. UNCHANGED <<rowReq, lastRow, copies>>
    BY DEF DrainSettles, DrainUnchanged
  <2> QED
    BY <2>1, <2>2, <2>3, ChangedState DEF RowsOK, RowStates
<1>2. LanesOK'
  <2>1. claimed' \in [Workspaces -> 0..MaxRows]
    BY Bounds DEF DrainSettles, LanesOK
  <2> QED
    BY <1>0, <2>1, FinishType DEF DrainSettles, DrainUnchanged, LanesOK
<1>3. TabsOK' /\ EnginesOK' /\ ClientsOK'
  BY DEF DrainSettles, DrainUnchanged, tabVars, engineVars, clientVars, paneVars, budgetVars, TabsOK, EnginesOK, ClientsOK
<1> QED
  BY <1>1, <1>2, <1>3

LEMMA HookRunsType ==
  ASSUME TypeOK, ClaimsHeld, NEW w \in Workspaces, HookRuns(w)
  PROVE  TypeOK'
<1> USE DEF TypeOK
<1>0. /\ At(w, "hook", "start")
      /\ lane[w] # <<>> /\ Head(lane[w]).kind = "hook" /\ Head(lane[w]) \in Tasks
      /\ Head(lane[w]).tab \in Tabs
  BY Running DEF HookRuns, Tabbed
<1>1. TabsOK'
  <2> DEFINE task == Head(lane[w])
  <2>1. CASE UNCHANGED <<tabStatus, spent, authority>>
    BY <2>1 DEF HookRuns, TabsOK
  <2>2. CASE \E status \in Reported(task.signal) : WriteStatus(task.tab, status)
    <3>1. task.tab \in Tabs /\ task.signal \in Signals
      BY <1>0, TaskFields DEF Tabbed
    <3>2. Reported(task.signal) \subseteq OpenStatuses
      BY <3>1 DEF Reported, Signals, OpenStatuses
    <3>3. authority' \in [Tabs -> BOOLEAN]
      BY <3>1 DEF HookRuns, TabsOK
    <3> QED
      BY <2>2, <3>1, <3>2, <3>3, StatusType DEF HookRuns, TabsOK
  <2> QED
    BY <2>1, <2>2 DEF HookRuns
<1>2. LanesOK'
  <2> DEFINE task == Head(lane[w])
  <2>1. \/ Finish(w)
        \/ /\ UNCHANGED pc
           /\ \/ lane' = [lane EXCEPT ![w] = Tail(lane[w]) \o <<Drain(task.tab)>>]
              \/ lane' = [lane EXCEPT ![w] = Tail(lane[w]) \o <<>>]
    BY DEF HookRuns
  <2>2. task.tab \in Tabs
    BY <1>0 DEF Tabbed
  <2>3. /\ Tail(lane[w]) \o <<Drain(task.tab)>> \in Seq(Tasks)
        /\ Tail(lane[w]) \o <<>> \in Seq(Tasks)
    BY <1>0, <2>2, HeadTask, NewTasks
  <2>4. lane' \in [Workspaces -> Seq(Tasks)] /\ pc' \in [Workspaces -> Labels]
    <3>1. CASE Finish(w)
      BY <1>0, <3>1, FinishType
    <3>2. CASE ~Finish(w)
      <4>1. PICK new \in Seq(Tasks) : lane' = [lane EXCEPT ![w] = new] /\ UNCHANGED pc
        BY <2>1, <2>3, <3>2
      <4> QED
        BY <4>1 DEF LanesOK
    <3> QED
      BY <3>1, <3>2
  <2> QED
    BY <2>4 DEF HookRuns, LanesOK
<1>3. RowsOK' /\ EnginesOK' /\ ClientsOK'
  BY DEF HookRuns, rowVars, paneVars, engineVars, clientVars, budgetVars, RowsOK, EnginesOK, ClientsOK
<1> QED
  BY <1>1, <1>2, <1>3

LEMMA RequestChoreType ==
  ASSUME TypeOK, ClaimsHeld, NEW w \in Workspaces, RequestChore(w)
  PROVE  TypeOK'
<1> USE DEF TypeOK
<1>1. LanesOK'
  <2>1. \E task \in Tasks : lane' = [lane EXCEPT ![w] = Append(lane[w], task)] /\ UNCHANGED <<pc, claimed, sawWorking>>
    BY DEF RequestChore, Admit
  <2> QED
    BY <2>1, AppendType DEF RequestChore, LanesOK
<1>2. ClientsOK'
  BY DEF RequestChore, clientVars, paneVars, ClientsOK
<1>3. TabsOK' /\ RowsOK' /\ EnginesOK'
  BY DEF RequestChore, tabVars, rowVars, paneVars, engineVars, TabsOK, RowsOK, EnginesOK
<1> QED
  BY <1>1, <1>2, <1>3

LEMMA ChoreRefusedType ==
  ASSUME TypeOK, ClaimsHeld, NEW w \in Workspaces, ChoreRefused(w)
  PROVE  TypeOK'
<1> USE DEF TypeOK
<1>1. LanesOK'
  <2>1. lane[w] # <<>> /\ Finish(w)
    BY DEF ChoreRefused
  <2> QED
    BY <2>1, FinishType DEF ChoreRefused, ChoreUnchanged, LanesOK
<1>2. TabsOK' /\ RowsOK' /\ EnginesOK' /\ ClientsOK'
  BY DEF ChoreRefused, ChoreUnchanged, tabVars, rowVars, paneVars, engineVars, clientVars, budgetVars, TabsOK, RowsOK, EnginesOK, ClientsOK
<1> QED
  BY <1>1, <1>2

LEMMA WithdrawType ==
  ASSUME TypeOK, ClaimsHeld, NEW w \in Workspaces, Withdraw(w)
  PROVE  TypeOK'
<1> USE DEF TypeOK
<1>0. /\ At(w, "withdraw", "start")
      /\ lane[w] # <<>> /\ Head(lane[w]).kind = "withdraw" /\ Head(lane[w]) \in Tasks
      /\ Head(lane[w]).row \in RowIds
  BY Running DEF Withdraw, Tabbed
<1>1. RowsOK'
  <2> DEFINE i == Head(lane[w]).row
  <2>1. rowState[i] = "queued" /\ rowState' = [rowState EXCEPT ![i] = "withdrawn"] /\ i \in RowIds
    BY <1>0 DEF Withdraw
  <2>2. UNCHANGED <<rowReq, lastRow, copies>>
    BY DEF Withdraw, ChoreUnchanged, paneVars
  <2> QED
    BY <2>1, <2>2, ChangedState DEF RowsOK, RowStates
<1>2. LanesOK'
  BY <1>0, FinishType DEF Withdraw, ChoreUnchanged, LanesOK
<1>3. TabsOK' /\ EnginesOK' /\ ClientsOK'
  BY DEF Withdraw, ChoreUnchanged, tabVars, engineVars, clientVars, paneVars, budgetVars, TabsOK, EnginesOK, ClientsOK
<1> QED
  BY <1>1, <1>2, <1>3

LEMMA CloseTabType ==
  ASSUME TypeOK, ClaimsHeld, NEW w \in Workspaces, CloseTab(w)
  PROVE  TypeOK'
<1> USE DEF TypeOK
<1>0. /\ At(w, "close", "start")
      /\ lane[w] # <<>> /\ Head(lane[w]).kind = "close" /\ Head(lane[w]) \in Tasks
      /\ Head(lane[w]).tab \in Tabs
  BY Running DEF CloseTab, Tabbed
<1>1. TabsOK'
  <2>1. tabStatus' \in [Tabs -> TabStatuses]
    BY DEF CloseTab, RemoveTab, TabsOK, TabStatuses
  <2>2. wsStatus' \in [Workspaces -> WsStatuses]
    BY DEF CloseTab, TabsOK, WsStatuses
  <2> QED
    BY <2>1, <2>2 DEF CloseTab, ChoreUnchanged, TabsOK
<1>2. RowsOK'
  <2>1. UNCHANGED <<rowReq, lastRow, copies>>
    BY DEF CloseTab, ChoreUnchanged, paneVars
  <2> QED
    BY <2>1, DropType DEF CloseTab, RemoveTab
<1>3. LanesOK'
  BY <1>0, FinishType DEF CloseTab, ChoreUnchanged, LanesOK
<1>4. EnginesOK'
  BY <1>0 DEF CloseTab, EnginesOK
<1>5. ClientsOK'
  BY DEF CloseTab, ChoreUnchanged, clientVars, paneVars, budgetVars, ClientsOK
<1> QED
  BY <1>1, <1>2, <1>3, <1>4, <1>5

LEMMA SwitchEngineType ==
  ASSUME TypeOK, ClaimsHeld, NEW w \in Workspaces, SwitchEngine(w)
  PROVE  TypeOK'
<1> USE DEF TypeOK
<1>0. /\ At(w, "switch", "start")
      /\ lane[w] # <<>> /\ Head(lane[w]).kind = "switch" /\ Head(lane[w]) \in Tasks
      /\ Head(lane[w]).tab \in Tabs
  BY Running DEF SwitchEngine, Tabbed
<1>1. TabsOK'
  BY <1>0 DEF SwitchEngine, ChoreUnchanged, TabsOK, TabStatuses, OpenStatuses
<1>2. LanesOK'
  BY <1>0, FinishType DEF SwitchEngine, ChoreUnchanged, LanesOK
<1>3. EnginesOK'
  BY <1>0 DEF SwitchEngine, EnginesOK, Signals
<1>4. RowsOK' /\ ClientsOK'
  BY DEF SwitchEngine, ChoreUnchanged, rowVars, paneVars, clientVars, budgetVars, RowsOK, ClientsOK
<1> QED
  BY <1>1, <1>2, <1>3, <1>4

LEMMA ResumeType ==
  ASSUME TypeOK, ClaimsHeld, NEW w \in Workspaces, Resume(w)
  PROVE  TypeOK'
<1> USE DEF TypeOK
<1>0. /\ At(w, "resume", "start")
      /\ lane[w] # <<>> /\ Head(lane[w]).kind = "resume" /\ Head(lane[w]) \in Tasks
      /\ Head(lane[w]).tab \in Tabs
  BY Running DEF Resume, Tabbed
<1>1. TabsOK'
  BY <1>0, RestartType DEF Resume, ChoreUnchanged, TabsOK
<1>2. LanesOK'
  BY <1>0, FinishType DEF Resume, ChoreUnchanged, LanesOK
<1>3. EnginesOK'
  BY <1>0, RestartType DEF Resume, EnginesOK
<1>4. RowsOK' /\ ClientsOK'
  BY DEF Resume, ChoreUnchanged, rowVars, paneVars, clientVars, budgetVars, RowsOK, ClientsOK
<1> QED
  BY <1>1, <1>2, <1>3, <1>4

LEMMA ArchiveBeginsType ==
  ASSUME TypeOK, ClaimsHeld, NEW w \in Workspaces, ArchiveBegins(w)
  PROVE  TypeOK'
<1> USE DEF TypeOK
<1>0. /\ At(w, "archive", "start")
      /\ lane[w] # <<>> /\ Head(lane[w]).kind = "archive" /\ Head(lane[w]) \in Tasks
  BY Running DEF ArchiveBegins, Tabbed
<1>1. TabsOK'
  BY DEF ArchiveBegins, ChoreUnchanged, TabsOK, WsStatuses
<1>2. LanesOK'
  BY <1>0, GotoType DEF ArchiveBegins, ChoreUnchanged, LanesOK, Labels
<1>3. RowsOK' /\ EnginesOK' /\ ClientsOK'
  BY DEF ArchiveBegins, ChoreUnchanged, rowVars, paneVars, engineVars, clientVars, budgetVars, RowsOK, EnginesOK, ClientsOK
<1> QED
  BY <1>1, <1>2, <1>3

LEMMA ArchiveEndsType ==
  ASSUME TypeOK, ClaimsHeld, NEW w \in Workspaces, ArchiveEnds(w)
  PROVE  TypeOK'
<1> USE DEF TypeOK
<1>0. /\ At(w, "archive", "teardown")
      /\ lane[w] # <<>> /\ Head(lane[w]).kind = "archive" /\ Head(lane[w]) \in Tasks
  BY Running DEF ArchiveEnds, Tabbed
<1>1. TabsOK'
  BY OutcomeType DEF ArchiveEnds, ChoreUnchanged
<1>2. LanesOK'
  BY <1>0, FinishType DEF ArchiveEnds, ChoreUnchanged, LanesOK
<1>3. EnginesOK'
  BY OutcomeType DEF ArchiveEnds, ChoreUnchanged
<1>4. RowsOK' /\ ClientsOK'
  BY DEF ArchiveEnds, ChoreUnchanged, rowVars, paneVars, clientVars, budgetVars, RowsOK, ClientsOK
<1> QED
  BY <1>1, <1>2, <1>3, <1>4

LEMMA UnarchiveType ==
  ASSUME TypeOK, ClaimsHeld, NEW w \in Workspaces, Unarchive(w)
  PROVE  TypeOK'
<1> USE DEF TypeOK
<1>0. /\ At(w, "unarchive", "start")
      /\ lane[w] # <<>> /\ Head(lane[w]).kind = "unarchive" /\ Head(lane[w]) \in Tasks
  BY Running DEF Unarchive, Tabbed
<1>1. TabsOK'
  <2>1. \/ Restart(OpenTabs(w))
        \/ UNCHANGED <<tabStatus, engine, signals>>
    BY DEF Unarchive
  <2> QED
    BY <2>1, RestartType DEF Unarchive, ChoreUnchanged, TabsOK, EnginesOK, WsStatuses
<1>2. LanesOK'
  BY <1>0, FinishType DEF Unarchive, ChoreUnchanged, LanesOK
<1>3. EnginesOK'
  <2>1. \/ Restart(OpenTabs(w))
        \/ UNCHANGED <<tabStatus, engine, signals>>
    BY DEF Unarchive
  <2> QED
    BY <2>1, RestartType DEF Unarchive, ChoreUnchanged, TabsOK, EnginesOK, WsStatuses
<1>4. RowsOK' /\ ClientsOK'
  BY DEF Unarchive, ChoreUnchanged, rowVars, paneVars, clientVars, budgetVars, RowsOK, ClientsOK
<1> QED
  BY <1>1, <1>2, <1>3, <1>4

LEMMA DeleteBeginsType ==
  ASSUME TypeOK, ClaimsHeld, NEW w \in Workspaces, DeleteBegins(w)
  PROVE  TypeOK'
<1> USE DEF TypeOK
<1>0. lane[w] # <<>>
  BY Running DEF DeleteBegins, Tabbed
<1>1. TabsOK'
  BY DEF DeleteBegins, ChoreUnchanged, TabsOK, TabStatuses
<1>2. LanesOK'
  BY <1>0, GotoType DEF DeleteBegins, ChoreUnchanged, LanesOK, Labels
<1>3. EnginesOK'
  BY KillType DEF DeleteBegins, EnginesOK, Signals
<1>4. RowsOK' /\ ClientsOK'
  BY DEF DeleteBegins, ChoreUnchanged, rowVars, paneVars, clientVars, budgetVars, RowsOK, ClientsOK
<1> QED
  BY <1>1, <1>2, <1>3, <1>4

LEMMA DeleteEndsType ==
  ASSUME TypeOK, ClaimsHeld, NEW w \in Workspaces, DeleteEnds(w)
  PROVE  TypeOK'
<1> USE DEF TypeOK
<1>0. lane[w] # <<>>
  BY Running DEF DeleteEnds, Tabbed
<1>1. TabsOK'
  BY DEF DeleteEnds, ChoreUnchanged, TabsOK, WsStatuses
<1>2. RowsOK'
  <2>1. UNCHANGED <<rowReq, lastRow, copies>>
    BY DEF DeleteEnds, ChoreUnchanged, paneVars
  <2> QED
    BY <2>1, DropType DEF DeleteEnds
<1>3. LanesOK'
  BY <1>0, FinishType DEF DeleteEnds, ChoreUnchanged, LanesOK
<1>4. EnginesOK' /\ ClientsOK'
  BY DEF DeleteEnds, ChoreUnchanged, clientVars, engineVars, paneVars, budgetVars, EnginesOK, ClientsOK
<1> QED
  BY <1>1, <1>2, <1>3, <1>4

LEMMA ReconcilesType ==
  ASSUME TypeOK, ClaimsHeld, NEW w \in Workspaces, Reconciles(w)
  PROVE  TypeOK'
<1> USE DEF TypeOK
<1>1. TabsOK'
  BY OutcomeType DEF Reconciles
<1>2. EnginesOK'
  BY OutcomeType DEF Reconciles
<1>3. RowsOK' /\ LanesOK' /\ ClientsOK'
  BY DEF Reconciles, rowVars, paneVars, laneVars, clientVars, budgetVars, RowsOK, LanesOK, ClientsOK
<1> QED
  BY <1>1, <1>2, <1>3

LEMMA SubmitType ==
  ASSUME TypeOK, ClaimsHeld, NEW r \in Requests, Submit(r)
  PROVE  TypeOK'
<1> USE DEF TypeOK
<1>1. LanesOK'
  <2>1. /\ lane' = [lane EXCEPT ![Home[Target[r]]] = Append(lane[Home[Target[r]]], [kind |-> "input", req |-> r])]
        /\ UNCHANGED <<pc, claimed, sawWorking, up, polled>>
    BY DEF Submit, Admit
  <2> QED
    BY <2>1, AppendType, NewTasks DEF LanesOK
<1>2. ClientsOK'
  BY DEF Submit, paneVars, budgetVars, ClientsOK
<1>3. TabsOK' /\ RowsOK' /\ EnginesOK'
  BY DEF Submit, tabVars, rowVars, paneVars, engineVars, TabsOK, RowsOK, EnginesOK
<1> QED
  BY <1>1, <1>2, <1>3

LEMMA GiveUpType ==
  ASSUME TypeOK, ClaimsHeld, NEW r \in Requests, GiveUp(r)
  PROVE  TypeOK'
<1> USE DEF TypeOK
<1>1. ClientsOK'
  BY DEF GiveUp, paneVars, budgetVars, ClientsOK
<1>2. TabsOK' /\ RowsOK' /\ LanesOK' /\ EnginesOK'
  BY DEF GiveUp, tabVars, rowVars, paneVars, laneVars, engineVars, TabsOK, RowsOK, LanesOK, EnginesOK
<1> QED
  BY <1>1, <1>2

LEMMA HookPostType ==
  ASSUME TypeOK, ClaimsHeld, NEW t \in Tabs, NEW s \in Signals, HookPost(t, s)
  PROVE  TypeOK'
<1> USE DEF TypeOK
<1>1. LanesOK'
  <2> DEFINE task == [kind |-> "hook", tab |-> t, signal |-> s, native |-> native[t]]
  <2>1. /\ lane' = [lane EXCEPT ![Home[t]] = Append(lane[Home[t]], task)]
        /\ UNCHANGED <<pc, claimed, sawWorking, up, polled>>
    BY DEF HookPost, Admit
  <2>2. task \in Tasks
    BY NewTasks DEF TabsOK
  <2> QED
    BY <2>1, <2>2, AppendType DEF LanesOK
<1>2. EnginesOK'
  BY DEF HookPost, EnginesOK
<1>3. TabsOK' /\ RowsOK' /\ ClientsOK'
  BY DEF HookPost, tabVars, rowVars, paneVars, clientVars, budgetVars, TabsOK, RowsOK, ClientsOK
<1> QED
  BY <1>1, <1>2, <1>3

LEMMA SignalLostType ==
  ASSUME TypeOK, ClaimsHeld, NEW t \in Tabs, NEW s \in Signals, SignalLost(t, s)
  PROVE  TypeOK'
<1> USE DEF TypeOK
<1>1. EnginesOK'
  BY DEF SignalLost, EnginesOK
<1>2. ClientsOK'
  BY DEF SignalLost, clientVars, paneVars, ClientsOK
<1>3. TabsOK' /\ RowsOK' /\ LanesOK'
  BY DEF SignalLost, tabVars, rowVars, paneVars, laneVars, TabsOK, RowsOK, LanesOK
<1> QED
  BY <1>1, <1>2, <1>3

LEMMA PollDecidesType ==
  ASSUME TypeOK, ClaimsHeld, NEW t \in Tabs, PollDecides(t)
  PROVE  TypeOK'
<1> USE DEF TypeOK
<1>1. TabsOK'
  <2>1. \/ UNCHANGED <<tabStatus, spent>>
        \/ \E status \in MtimeStatus(polled[t], transcript[t]) : WriteStatus(t, status)
    BY DEF PollDecides
  <2>2. MtimeStatus(polled[t], transcript[t]) \subseteq OpenStatuses
    BY DEF MtimeStatus, OpenStatuses
  <2> QED
    BY <2>1, <2>2, StatusType DEF PollDecides, TabsOK
<1>2. LanesOK'
  <2>1. \/ UNCHANGED lane
        \/ lane' = [lane EXCEPT ![Home[t]] = Append(lane[Home[t]], Drain(t))]
    BY DEF PollDecides
  <2>2. lane' \in [Workspaces -> Seq(Tasks)]
    BY <2>1, AppendType, NewTasks DEF LanesOK
  <2> QED
    BY <2>2 DEF PollDecides, LanesOK
<1>3. RowsOK' /\ EnginesOK' /\ ClientsOK'
  BY DEF PollDecides, rowVars, paneVars, engineVars, clientVars, budgetVars, RowsOK, EnginesOK, ClientsOK
<1> QED
  BY <1>1, <1>2, <1>3

LEMMA AuthorityExpiresType ==
  ASSUME TypeOK, ClaimsHeld, NEW t \in Tabs, AuthorityExpires(t)
  PROVE  TypeOK'
<1> USE DEF TypeOK
<1>1. TabsOK'
  BY DEF AuthorityExpires, TabsOK
<1>2. RowsOK' /\ LanesOK' /\ EnginesOK' /\ ClientsOK'
  BY DEF AuthorityExpires, rowVars, paneVars, laneVars, engineVars, clientVars, budgetVars, RowsOK, LanesOK, EnginesOK, ClientsOK
<1> QED
  BY <1>1, <1>2

LEMMA EngineWritesType ==
  ASSUME TypeOK, ClaimsHeld, NEW t \in Tabs, EngineWrites(t)
  PROVE  TypeOK'
<1> USE DEF TypeOK
<1>1. EnginesOK'
  BY DEF EngineWrites, EnginesOK
<1>2. ClientsOK'
  BY DEF EngineWrites, EngineUnchanged, clientVars, paneVars, ClientsOK
<1>3. TabsOK' /\ RowsOK' /\ LanesOK'
  BY DEF EngineWrites, EngineUnchanged, tabVars, rowVars, paneVars, laneVars, TabsOK, RowsOK, LanesOK
<1> QED
  BY <1>1, <1>2, <1>3

LEMMA TranscriptAgesType ==
  ASSUME TypeOK, ClaimsHeld, NEW t \in Tabs, TranscriptAges(t)
  PROVE  TypeOK'
<1> USE DEF TypeOK
<1>1. EnginesOK'
  BY DEF TranscriptAges, EnginesOK
<1>2. ClientsOK'
  BY DEF TranscriptAges, EngineUnchanged, clientVars, paneVars, ClientsOK
<1>3. TabsOK' /\ RowsOK' /\ LanesOK'
  BY DEF TranscriptAges, EngineUnchanged, tabVars, rowVars, paneVars, laneVars, TabsOK, RowsOK, LanesOK
<1> QED
  BY <1>1, <1>2, <1>3

LEMMA TurnEndsType ==
  ASSUME TypeOK, ClaimsHeld, NEW t \in Tabs, TurnEnds(t)
  PROVE  TypeOK'
<1> USE DEF TypeOK
<1>1. EnginesOK'
  BY DEF TurnEnds, EnginesOK, Signals
<1>2. ClientsOK'
  BY DEF TurnEnds, EngineUnchanged, clientVars, paneVars, ClientsOK
<1>3. TabsOK' /\ RowsOK' /\ LanesOK'
  BY DEF TurnEnds, EngineUnchanged, tabVars, rowVars, paneVars, laneVars, TabsOK, RowsOK, LanesOK
<1> QED
  BY <1>1, <1>2, <1>3

LEMMA TypedTurnType ==
  ASSUME TypeOK, ClaimsHeld, NEW t \in Tabs, TypedTurn(t)
  PROVE  TypeOK'
<1> USE DEF TypeOK
<1>1. EnginesOK'
  BY TurnType DEF TypedTurn
<1>2. ClientsOK'
  BY DEF TypedTurn, EngineUnchanged, clientVars, paneVars, ClientsOK
<1>3. TabsOK' /\ RowsOK' /\ LanesOK'
  BY DEF TypedTurn, EngineUnchanged, tabVars, rowVars, paneVars, laneVars, TabsOK, RowsOK, LanesOK
<1> QED
  BY <1>1, <1>2, <1>3

LEMMA EngineExitsType ==
  ASSUME TypeOK, ClaimsHeld, NEW t \in Tabs, EngineExits(t)
  PROVE  TypeOK'
<1> USE DEF TypeOK
<1>1. EnginesOK'
  BY DEF EngineExits, EnginesOK, Signals
<1>2. ClientsOK'
  BY DEF EngineExits, EngineUnchanged, clientVars, paneVars, ClientsOK
<1>3. TabsOK' /\ RowsOK' /\ LanesOK'
  BY DEF EngineExits, EngineUnchanged, tabVars, rowVars, paneVars, laneVars, TabsOK, RowsOK, LanesOK
<1> QED
  BY <1>1, <1>2, <1>3

LEMMA PollListType ==
  ASSUME TypeOK, ClaimsHeld, PollList
  PROVE  TypeOK'
<1> USE DEF TypeOK
<1>1. LanesOK'
  <2>1. \A t \in Tabs : Polls(t) => tabStatus[t] \in OpenStatuses
    BY DEF Polls, Usable, TabsOK, TabStatuses
  <2> QED
    BY <2>1 DEF PollList, laneVars, LanesOK
<1>2. TabsOK' /\ RowsOK' /\ EnginesOK' /\ ClientsOK'
  BY DEF PollList, tabVars, rowVars, paneVars, engineVars, clientVars, budgetVars, TabsOK, RowsOK, EnginesOK, ClientsOK
<1> QED
  BY <1>1, <1>2

LEMMA CrashType ==
  ASSUME TypeOK, ClaimsHeld, Crash
  PROVE  TypeOK'
<1> USE DEF TypeOK
<1>1. LanesOK'
  <2>1. lane' \in [Workspaces -> Seq(Tasks)]
    BY DEF Crash
  <2> QED
    BY <2>1, Bounds DEF Crash, LanesOK, Labels
<1>2. ClientsOK'
  BY DEF Crash, paneVars, ClientsOK
<1>3. TabsOK' /\ RowsOK' /\ EnginesOK'
  BY DEF Crash, tabVars, rowVars, paneVars, engineVars, TabsOK, RowsOK, EnginesOK
<1> QED
  BY <1>1, <1>2, <1>3

LEMMA BootType ==
  ASSUME TypeOK, ClaimsHeld, Boot
  PROVE  TypeOK'
<1> USE DEF TypeOK
<1>1. TabsOK'
  BY DEF Boot, tabVars, TabsOK
<1>2. RowsOK'
  <2>1. rowState' = [i \in RowIds |-> IF rowState[i] = "inflight" THEN "queued" ELSE rowState[i]]
    BY DEF Boot, Recovered
  <2>2. UNCHANGED <<rowReq, lastRow, copies>>
    BY DEF Boot, paneVars
  <2>3. rowState' \in [RowIds -> RowStates]
    BY <2>1 DEF RowsOK, RowStates
  <2> QED
    BY <2>1, <2>2, <2>3 DEF RowsOK
<1>3. LanesOK'
  <2>1. PICK plan :
          /\ \A w \in Workspaces : plan[w] \in Orders(Waiting(w))
          /\ lane' = [w \in Workspaces |-> [k \in DOMAIN plan[w] |-> Drain(plan[w][k])]]
    BY DEF Boot
  <2>2. \A w \in Workspaces : Waiting(w) \subseteq Tabs /\ Cardinality(Waiting(w)) \in Nat
    <3> SUFFICES ASSUME NEW w \in Workspaces PROVE Waiting(w) \subseteq Tabs /\ Cardinality(Waiting(w)) \in Nat
      OBVIOUS
    <3>1. Waiting(w) \subseteq Tabs
      BY DEF Waiting
    <3>2. IsFiniteSet(Tabs)
      OBVIOUS
    <3>3. IsFiniteSet(Waiting(w))
      BY <3>1, <3>2, FS_Subset
    <3> QED
      BY <3>1, <3>3, FS_CardinalityType
  <2>3. lane' \in [Workspaces -> Seq(Tasks)]
    <3>1. ASSUME NEW w \in Workspaces
          PROVE  [k \in DOMAIN plan[w] |-> Drain(plan[w][k])] \in Seq(Tasks)
      <4>1. PICK o : o = plan[w]
        OBVIOUS
      <4>2. o \in Orders(Waiting(w)) /\ Waiting(w) \subseteq Tabs /\ Cardinality(Waiting(w)) \in Nat
        BY <2>1, <2>2, <4>1
      <4>3. [k \in DOMAIN o |-> Drain(o[k])] \in Seq(Tasks)
        BY <4>2, OrdersType
      <4> QED
        BY <4>1, <4>3
    <3> QED
      BY <2>1, <3>1
  <2> QED
    BY <2>3 DEF Boot, LanesOK
<1>4. EnginesOK' /\ ClientsOK'
  BY DEF Boot, engineVars, clientVars, paneVars, budgetVars, EnginesOK, ClientsOK
<1> QED
  BY <1>1, <1>2, <1>3, <1>4

-----------------------------------------------------------------------------
(* The lanes and the claims.                                                *)

\* A lane holds tasks of its own workspace.
AtHome(w, tasks) ==
  \A k \in DOMAIN tasks : tasks[k].kind \in Tabbed => Home[tasks[k].tab] = w

LanesHome == \A w \in Workspaces : AtHome(w, lane[w])

InflightHeld ==
  up => \A i \in RowIds : rowState[i] = "inflight" => \E w \in Workspaces : claimed[w] = i

DownIsIdle ==
  ~up => \A w \in Workspaces : lane[w] = <<>> /\ pc[w] = "start" /\ claimed[w] = 0

LaneInv == LanesHome /\ ClaimsHeld /\ InflightHeld /\ DownIsIdle

IInv == TypeOK /\ LaneInv

-----------------------------------------------------------------------------
LEMMA AtHomeTail ==
  ASSUME NEW w \in Workspaces, NEW q \in Seq(Tasks), q # <<>>, AtHome(w, q)
  PROVE  AtHome(w, Tail(q))
<1>1. ASSUME NEW k \in DOMAIN Tail(q)
      PROVE  k + 1 \in DOMAIN q /\ Tail(q)[k] = q[k + 1]
  OBVIOUS
<1> QED
  BY <1>1 DEF AtHome

LEMMA AtHomeAppend ==
  ASSUME NEW w \in Workspaces, NEW q \in Seq(Tasks), AtHome(w, q),
         NEW task \in Tasks, task.kind \in Tabbed => Home[task.tab] = w
  PROVE  AtHome(w, Append(q, task))
<1>1. ASSUME NEW k \in DOMAIN Append(q, task)
      PROVE  (k \in DOMAIN q /\ Append(q, task)[k] = q[k]) \/ Append(q, task)[k] = task
  OBVIOUS
<1> QED
  BY <1>1 DEF AtHome

LEMMA AtHomeHead ==
  ASSUME NEW w \in Workspaces, NEW q \in Seq(Tasks), q # <<>>, AtHome(w, q), Head(q).kind \in Tabbed
  PROVE  Home[Head(q).tab] = w
<1>1. 1 \in DOMAIN q /\ Head(q) = q[1]
  OBVIOUS
<1> QED
  BY <1>1 DEF AtHome

\* A drain's row is of a tab of its workspace, hence two drains never hold the same row.
LEMMA ClaimHome ==
  ASSUME IInv, NEW w \in Workspaces, claimed[w] # 0
  PROVE  /\ claimed[w] \in RowIds
         /\ Home[RowTab(claimed[w])] = w
         /\ rowState[claimed[w]] = "inflight"
<1>1. pc[w] \in ClaimLabels /\ lane[w] # <<>> /\ Head(lane[w]).kind = "drain"
  BY DEF IInv, LaneInv, ClaimsHeld
<1>2. RowTab(claimed[w]) = Head(lane[w]).tab
  BY DEF IInv, LaneInv, ClaimsHeld
<1>3. lane[w] \in Seq(Tasks) /\ AtHome(w, lane[w])
  BY DEF IInv, TypeOK, LanesOK, LaneInv, LanesHome
<1> QED
  BY <1>1, <1>2, <1>3, AtHomeHead, Claimed DEF IInv, LaneInv, Tabbed

LEMMA OtherTask ==
  ASSUME IInv, NEW w \in Workspaces, lane[w] = <<>> \/ Head(lane[w]).kind # "drain"
  PROVE  claimed[w] = 0 /\ pc[w] \notin ClaimLabels
  BY DEF IInv, LaneInv, ClaimsHeld

-----------------------------------------------------------------------------
(* Six kinds of step keep LaneInv: those that leave lanes and rows alone, those that admit a  *)
(* task, those of a task that holds no row, and a drain that claims, holds or lets go a row.  *)

LEMMA IdleStep ==
  ASSUME IInv, UNCHANGED <<laneVars, rowVars, up>>
  PROVE  LaneInv'
  BY DEF IInv, LaneInv, laneVars, rowVars, LanesHome, AtHome, ClaimsHeld, InflightHeld, DownIsIdle, RowTab

LEMMA AdmitStep ==
  ASSUME IInv, up, NEW w \in Workspaces,
         NEW task \in Tasks, task.kind \in Tabbed => Home[task.tab] = w,
         lane' = [lane EXCEPT ![w] = Append(lane[w], task)],
         UNCHANGED <<pc, claimed, rowVars, up>>
  PROVE  LaneInv'
<1>1. lane[w] \in Seq(Tasks)
  BY DEF IInv, TypeOK, LanesOK
<1>2. LanesHome'
  BY <1>1, AtHomeAppend DEF IInv, TypeOK, LanesOK, LaneInv, LanesHome, AtHome
<1>3. lane[w] # <<>> => Append(lane[w], task) # <<>> /\ Head(Append(lane[w], task)) = Head(lane[w])
  BY <1>1
<1>4. ASSUME NEW v \in Workspaces, lane[v] # <<>>
      PROVE  lane'[v] # <<>> /\ Head(lane'[v]) = Head(lane[v])
  BY <1>3, <1>4 DEF IInv, TypeOK, LanesOK
<1>5. ClaimsHeld'
  BY <1>4 DEF IInv, LaneInv, ClaimsHeld, RowTab, rowVars
<1>6. InflightHeld' /\ DownIsIdle'
  BY DEF IInv, LaneInv, InflightHeld, DownIsIdle, rowVars
<1> QED
  BY <1>2, <1>5, <1>6 DEF LaneInv

\* No row becomes inflight, and those that other lanes hold stay as they are.
RowsKept(w) ==
  \A i \in RowIds :
    /\ rowState'[i] = "inflight" => rowState[i] = "inflight"
    /\ rowState[i] = "inflight" /\ Home[RowTab(i)] # w =>
         rowState'[i] = "inflight" /\ rowReq'[i] = rowReq[i]

LEMMA TaskStep ==
  ASSUME IInv, up, NEW w \in Workspaces, claimed[w] = 0,
         NEW tasks \in Seq(Tasks), AtHome(w, tasks), lane' = [lane EXCEPT ![w] = tasks],
         NEW label, label \notin ClaimLabels, pc' = [pc EXCEPT ![w] = label],
         RowsKept(w), UNCHANGED <<claimed, up>>
  PROVE  LaneInv'
<1> USE DEF RowsKept
<1>1. LanesHome'
  BY DEF IInv, TypeOK, LanesOK, LaneInv, LanesHome, AtHome
<1>3. ASSUME NEW v \in Workspaces
      PROVE  /\ pc'[v] \in ClaimLabels => claimed'[v] # 0
             /\ claimed'[v] # 0 =>
                  /\ lane'[v] # <<>>
                  /\ pc'[v] \in ClaimLabels
                  /\ Head(lane'[v]).kind = "drain"
                  /\ Target[rowReq'[claimed'[v]]] = Head(lane'[v]).tab
                  /\ rowState'[claimed'[v]] = "inflight"
  <2>1. CASE v = w
    BY <2>1 DEF IInv, TypeOK, LanesOK
  <2>2. CASE v # w
    <3>1. lane'[v] = lane[v] /\ pc'[v] = pc[v] /\ claimed'[v] = claimed[v]
      BY <2>2 DEF IInv, TypeOK, LanesOK
    <3>2. claimed[v] # 0 =>
            rowState'[claimed[v]] = "inflight" /\ rowReq'[claimed[v]] = rowReq[claimed[v]]
      BY <2>2, ClaimHome
    <3> QED
      BY <3>1, <3>2 DEF IInv, LaneInv, ClaimsHeld, RowTab
  <2> QED
    BY <2>1, <2>2
<1>4. ClaimsHeld'
  BY <1>3 DEF ClaimsHeld, RowTab
<1>5. InflightHeld' /\ DownIsIdle'
  BY DEF IInv, LaneInv, InflightHeld, DownIsIdle
<1> QED
  BY <1>1, <1>4, <1>5 DEF LaneInv

\* A drain that keeps its row, its label within the claim.
LEMMA HoldStep ==
  ASSUME IInv, NEW w \in Workspaces, claimed[w] # 0,
         NEW label \in ClaimLabels, Goto(w, label),
         UNCHANGED <<claimed, rowState, rowReq, up>>
  PROVE  LaneInv'
<1>1. lane' = lane /\ pc' = [pc EXCEPT ![w] = label]
  BY DEF Goto
<1>2. LanesHome' /\ InflightHeld'
  BY <1>1 DEF IInv, LaneInv, LanesHome, AtHome, InflightHeld
<1>3. up
  BY DEF IInv, LaneInv, DownIsIdle
<1>4. ClaimsHeld'
  BY <1>1 DEF IInv, TypeOK, LanesOK, LaneInv, ClaimsHeld, RowTab
<1> QED
  BY <1>2, <1>3, <1>4 DEF LaneInv, DownIsIdle

\* A drain that ends: its row is settled or back in the queue.
LEMMA EndStep ==
  ASSUME IInv, NEW w \in Workspaces, claimed[w] # 0,
         NEW s \in RowStates \ {"inflight"}, rowState' = [rowState EXCEPT ![claimed[w]] = s],
         claimed' = [claimed EXCEPT ![w] = 0], Finish(w), UNCHANGED <<rowReq, up>>
  PROVE  LaneInv'
<1>1. lane' = [lane EXCEPT ![w] = Tail(lane[w])] /\ pc' = [pc EXCEPT ![w] = "start"]
  BY DEF Finish
<1>2. lane[w] \in Seq(Tasks) /\ lane[w] # <<>> /\ claimed[w] \in RowIds
  BY ClaimHome DEF IInv, TypeOK, LanesOK, LaneInv, ClaimsHeld
<1>3. LanesHome'
  BY <1>1, <1>2, AtHomeTail DEF IInv, TypeOK, LanesOK, LaneInv, LanesHome, AtHome
<1>4. up
  BY DEF IInv, LaneInv, DownIsIdle
<1>5. ASSUME NEW v \in Workspaces, v # w
      PROVE  /\ lane'[v] = lane[v] /\ pc'[v] = pc[v] /\ claimed'[v] = claimed[v]
             /\ claimed[v] # 0 => rowState'[claimed[v]] = rowState[claimed[v]]
  <2>1. lane'[v] = lane[v] /\ pc'[v] = pc[v] /\ claimed'[v] = claimed[v]
    BY <1>1, <1>5 DEF IInv, TypeOK, LanesOK
  <2>2. claimed[v] # 0 => claimed[v] # claimed[w]
    BY <1>5, ClaimHome
  <2> QED
    BY <2>1, <2>2, ClaimHome DEF IInv, TypeOK, RowsOK
<1>6. claimed'[w] = 0 /\ pc'[w] \notin ClaimLabels
  BY <1>1 DEF IInv, TypeOK, LanesOK, ClaimLabels
<1>7. ClaimsHeld'
  BY <1>5, <1>6 DEF IInv, LaneInv, ClaimsHeld, RowTab
<1>8. ASSUME NEW i \in RowIds, rowState'[i] = "inflight"
      PROVE  \E v \in Workspaces : claimed'[v] = i
  <2>1. i # claimed[w] /\ rowState[i] = "inflight"
    BY <1>2, <1>8 DEF IInv, TypeOK, RowsOK
  <2>2. PICK v \in Workspaces : claimed[v] = i
    BY <1>4, <2>1 DEF IInv, LaneInv, InflightHeld
  <2> QED
    BY <1>5, <2>1, <2>2
<1> QED
  BY <1>3, <1>4, <1>7, <1>8 DEF LaneInv, InflightHeld, DownIsIdle

LEMMA FinishStep ==
  ASSUME IInv, up, NEW w \in Workspaces, lane[w] # <<>>, claimed[w] = 0,
         Finish(w), RowsKept(w), UNCHANGED <<claimed, up>>
  PROVE  LaneInv'
<1>1. Tail(lane[w]) \in Seq(Tasks) /\ AtHome(w, Tail(lane[w]))
  BY AtHomeTail DEF IInv, TypeOK, LanesOK, LaneInv, LanesHome
<1>2. lane' = [lane EXCEPT ![w] = Tail(lane[w])] /\ pc' = [pc EXCEPT ![w] = "start"]
  BY DEF Finish
<1> QED
  BY <1>1, <1>2, TaskStep DEF ClaimLabels

LEMMA GotoStep ==
  ASSUME IInv, up, NEW w \in Workspaces, claimed[w] = 0,
         NEW label, label \notin ClaimLabels, Goto(w, label), RowsKept(w), UNCHANGED <<claimed, up>>
  PROVE  LaneInv'
<1>1. lane[w] \in Seq(Tasks) /\ AtHome(w, lane[w]) /\ lane' = [lane EXCEPT ![w] = lane[w]]
  BY DEF IInv, TypeOK, LanesOK, LaneInv, LanesHome, Goto
<1> QED
  BY <1>1, TaskStep DEF Goto

\* A drain that takes a queued row of its tab.
LEMMA ClaimStep ==
  ASSUME IInv, up, NEW w \in Workspaces, lane[w] # <<>>, Head(lane[w]).kind = "drain", claimed[w] = 0,
         NEW i \in RowIds, rowState[i] = "queued", RowTab(i) = Head(lane[w]).tab,
         rowState' = [rowState EXCEPT ![i] = "inflight"], claimed' = [claimed EXCEPT ![w] = i],
         Goto(w, "recheck"), UNCHANGED <<rowReq, up>>
  PROVE  LaneInv'
<1>1. lane' = lane /\ pc' = [pc EXCEPT ![w] = "recheck"]
  BY DEF Goto
<1>2. LanesHome'
  BY <1>1 DEF IInv, LaneInv, LanesHome, AtHome
<1>3. claimed'[w] = i /\ pc'[w] = "recheck" /\ rowState'[i] = "inflight" /\ i # 0
  BY <1>1 DEF IInv, TypeOK, LanesOK, RowsOK, RowIds
<1>4. ASSUME NEW v \in Workspaces, v # w
      PROVE  /\ pc'[v] = pc[v] /\ claimed'[v] = claimed[v]
             /\ claimed[v] # 0 => rowState'[claimed[v]] = rowState[claimed[v]]
  BY <1>1, <1>4, ClaimHome DEF IInv, TypeOK, LanesOK, RowsOK
<1>5. ASSUME NEW v \in Workspaces
      PROVE  /\ pc'[v] \in ClaimLabels => claimed'[v] # 0
             /\ claimed'[v] # 0 =>
                  /\ lane'[v] # <<>>
                  /\ pc'[v] \in ClaimLabels
                  /\ Head(lane'[v]).kind = "drain"
                  /\ Target[rowReq'[claimed'[v]]] = Head(lane'[v]).tab
                  /\ rowState'[claimed'[v]] = "inflight"
  <2>1. CASE v = w
    BY <1>1, <1>3, <2>1 DEF RowTab, ClaimLabels
  <2>2. CASE v # w
    BY <1>1, <1>4, <2>2 DEF IInv, LaneInv, ClaimsHeld, RowTab
  <2> QED
    BY <2>1, <2>2
<1>6. ClaimsHeld'
  BY <1>5 DEF ClaimsHeld, RowTab
<1>7. ASSUME NEW j \in RowIds, rowState'[j] = "inflight"
      PROVE  \E v \in Workspaces : claimed'[v] = j
  <2>1. CASE j = i
    BY <1>3, <2>1
  <2>2. CASE j # i
    <3>1. PICK v \in Workspaces : claimed[v] = j
      BY <1>7, <2>2 DEF IInv, TypeOK, RowsOK, LaneInv, InflightHeld
    <3>2. j # 0
      BY DEF RowIds
    <3> QED
      BY <1>4, <3>1, <3>2
  <2> QED
    BY <2>1, <2>2
<1> QED
  BY <1>2, <1>6, <1>7 DEF LaneInv, InflightHeld, DownIsIdle

-----------------------------------------------------------------------------
(* The actions, each as one of these steps. *)

LEMMA HeldOnlyByDrain ==
  ASSUME IInv, NEW w \in Workspaces, NEW kind, NEW label, At(w, kind, label),
         kind # "drain" \/ label \notin ClaimLabels
  PROVE  claimed[w] = 0 /\ lane[w] # <<>> /\ up
  BY DEF IInv, LaneInv, ClaimsHeld, At

LEMMA SameRowsKept ==
  ASSUME NEW w \in Workspaces, UNCHANGED <<rowReq, rowState>>
  PROVE  RowsKept(w)
  BY DEF RowsKept

\* The tasks whose rows are dropped have their tabs in the workspace.
LEMMA DropRowsKept ==
  ASSUME IInv, NEW w \in Workspaces, NEW ts, \A t \in ts : Home[t] = w,
         DropRows(ts), UNCHANGED rowReq
  PROVE  RowsKept(w)
  BY DEF RowsKept, DropRows, IInv, TypeOK, RowsOK

LEMMA InputLanes ==
  ASSUME IInv, NEW w \in Workspaces, InputSteps(w) \/ InputPtyFails(w)
  PROVE  LaneInv'
<1> USE DEF rowVars, laneVars
<1>1. ASSUME InputReplays(w) \/ InputRefused(w) \/ InputSaves(w) \/ InputPtyFails(w)
      PROVE  LaneInv'
  <2>1. claimed[w] = 0 /\ lane[w] # <<>> /\ up
    BY <1>1, HeldOnlyByDrain DEF InputReplays, InputRefused, InputSaves, InputPtyFails
  <2>2. Finish(w) /\ UNCHANGED <<rowReq, rowState, claimed, up>>
    BY <1>1 DEF InputReplays, InputRefused, InputSaves, InputPtyFails
  <2> QED
    BY <2>1, <2>2, SameRowsKept, FinishStep
<1>2. CASE InputReads(w)
  <2>1. claimed[w] = 0 /\ up
    BY <1>2, HeldOnlyByDrain DEF InputReads
  <2>2. PICK label \in {"enqueue", "pty"} : Goto(w, label)
    BY <1>2 DEF InputReads
  <2> QED
    BY <1>2, <2>1, <2>2, SameRowsKept, GotoStep DEF InputReads, ClaimLabels
<1>3. CASE InputEnqueues(w)
  <2>1. claimed[w] = 0 /\ up
    BY <1>3, HeldOnlyByDrain DEF InputEnqueues
  <2>2. lastRow + 1 \in RowIds /\ rowState[lastRow + 1] = "unused"
    BY <1>3 DEF InputEnqueues, IInv, TypeOK, RowsOK, RowIds
  <2>3. RowsKept(w)
    BY <1>3, <2>2 DEF InputEnqueues, RowsKept, IInv, TypeOK, RowsOK
  <2> QED
    BY <1>3, <2>1, <2>3, GotoStep DEF InputEnqueues, ClaimLabels
<1>4. CASE InputWritesPty(w)
  <2>1. claimed[w] = 0 /\ up
    BY <1>4, HeldOnlyByDrain DEF InputWritesPty
  <2>2. PICK label \in {"saveOk", "interrupted", "composer"} : Goto(w, label)
    BY <1>4 DEF InputWritesPty, AfterPty
  <2>3. UNCHANGED <<rowReq, rowState, claimed, up>>
    BY <1>4 DEF InputWritesPty
  <2> QED
    BY <2>1, <2>2, <2>3, SameRowsKept, GotoStep DEF ClaimLabels
<1>5. ASSUME InputMarksInterrupted(w) \/ InputMarksWorking(w)
      PROVE  LaneInv'
  <2>1. claimed[w] = 0 /\ up
    BY <1>5, HeldOnlyByDrain DEF InputMarksInterrupted, InputMarksWorking
  <2>2. Goto(w, "saveOk") /\ UNCHANGED <<rowReq, rowState, claimed, up>>
    BY <1>5 DEF InputMarksInterrupted, InputMarksWorking
  <2> QED
    BY <2>1, <2>2, SameRowsKept, GotoStep DEF ClaimLabels
<1> QED
  BY <1>1, <1>2, <1>3, <1>4, <1>5 DEF InputSteps

LEMMA DrainLanes ==
  ASSUME IInv, NEW w \in Workspaces, DrainSteps(w) \/ DrainFails(w)
  PROVE  LaneInv'
<1> USE DEF DrainUnchanged
<1>1. CASE DrainResolves(w)
  <2>1. claimed[w] = 0 /\ lane[w] # <<>> /\ up
    BY <1>1, HeldOnlyByDrain DEF DrainResolves, ClaimLabels
  <2>2. UNCHANGED <<rowReq, rowState, claimed, up>>
    BY <1>1 DEF DrainResolves
  <2>3. Goto(w, "claim") \/ Finish(w)
    BY <1>1 DEF DrainResolves
  <2> QED
    BY <2>1, <2>2, <2>3, SameRowsKept, GotoStep, FinishStep DEF ClaimLabels
<1>2. CASE DrainClaims(w)
  <2>1. claimed[w] = 0 /\ lane[w] # <<>> /\ up /\ Head(lane[w]).kind = "drain"
    BY <1>2, HeldOnlyByDrain DEF DrainClaims, ClaimLabels, At
  <2>2. CASE Finish(w) /\ UNCHANGED <<rowState, claimed>>
    BY <1>2, <2>1, <2>2, SameRowsKept, FinishStep DEF DrainClaims
  <2>3. ASSUME NEW i \in RowIds, Oldest(Head(lane[w]).tab, i),
               rowState' = [rowState EXCEPT ![i] = "inflight"],
               claimed' = [claimed EXCEPT ![w] = i], Goto(w, "recheck")
        PROVE  LaneInv'
    <3>1. rowState[i] = "queued" /\ RowTab(i) = Head(lane[w]).tab
      BY <2>3 DEF Oldest, RowsIn
    <3> QED
      BY <1>2, <2>1, <2>3, <3>1, ClaimStep DEF DrainClaims
  <2> QED
    BY <1>2, <2>2, <2>3 DEF DrainClaims
<1>3. ASSUME DrainRechecks(w) \/ DrainDelivers(w) \/ DrainMarks(w) \/ DrainSettles(w) \/ DrainFails(w)
      PROVE  claimed[w] # 0 /\ UNCHANGED <<rowReq, up>>
  BY <1>3 DEF DrainRechecks, DrainDelivers, DrainMarks, DrainSettles, DrainFails, At, ClaimLabels,
              IInv, LaneInv, ClaimsHeld
<1>4. ASSUME Release(w), claimed[w] # 0, UNCHANGED <<rowReq, up>>
      PROVE  LaneInv'
  BY <1>4, EndStep DEF Release, RowStates
<1>5. CASE DrainRechecks(w)
  <2>1. CASE Goto(w, "deliver") /\ UNCHANGED <<rowState, claimed>>
    BY <1>3, <1>5, <2>1, HoldStep DEF ClaimLabels
  <2>2. CASE Release(w)
    BY <1>3, <1>4, <1>5, <2>2
  <2> QED
    BY <1>5, <2>1, <2>2 DEF DrainRechecks
<1>6. CASE DrainDelivers(w)
  BY <1>3, <1>6, HoldStep DEF DrainDelivers, ClaimLabels
<1>7. CASE DrainMarks(w)
  BY <1>3, <1>7, HoldStep DEF DrainMarks, ClaimLabels
<1>8. CASE DrainSettles(w)
  BY <1>3, <1>8, EndStep DEF DrainSettles, RowStates
<1>9. CASE DrainFails(w)
  BY <1>3, <1>4, <1>9 DEF DrainFails
<1> QED
  BY <1>1, <1>2, <1>5, <1>6, <1>7, <1>8, <1>9 DEF DrainSteps

LEMMA HookLanes ==
  ASSUME IInv, NEW w \in Workspaces, HookRuns(w)
  PROVE  LaneInv'
<1> DEFINE t == Head(lane[w]).tab
           rest == Tail(lane[w])
<1>1. claimed[w] = 0 /\ lane[w] # <<>> /\ up /\ UNCHANGED <<rowReq, rowState, claimed, up>>
  BY HeldOnlyByDrain DEF HookRuns, rowVars
<1>2. RowsKept(w)
  BY <1>1, SameRowsKept
<1>3. CASE Finish(w)
  BY <1>1, <1>2, <1>3, FinishStep
<1>4. ASSUME NEW more \in {<<>>, <<Drain(t)>>}, lane' = [lane EXCEPT ![w] = rest \o more],
             UNCHANGED pc
      PROVE  LaneInv'
  <2>1. rest \in Seq(Tasks) /\ AtHome(w, rest)
    BY <1>1, AtHomeTail DEF IInv, TypeOK, LanesOK, LaneInv, LanesHome
  <2>2. t \in Tabs /\ Home[t] = w
    BY <1>1, AtHomeHead, Running DEF HookRuns, At, Tabbed, IInv, TypeOK, LanesOK, LaneInv, LanesHome
  <2>3. Drain(t) \in Tasks /\ (Drain(t).kind \in Tabbed => Home[Drain(t).tab] = w)
    BY <2>2, NewTasks DEF Drain
  <2>4. rest \o <<Drain(t)>> = Append(rest, Drain(t)) /\ rest \o <<>> = rest
    BY <2>1, <2>3
  <2>5. Append(rest, Drain(t)) \in Seq(Tasks) /\ AtHome(w, Append(rest, Drain(t)))
    <3> HIDE DEF rest, t
    <3>1. Append(rest, Drain(t)) \in Seq(Tasks)
      BY <2>1, <2>3
    <3>2. AtHome(w, Append(rest, Drain(t)))
      BY <2>1, <2>3, AtHomeAppend
    <3> QED
      BY <3>1, <3>2
  <2>6. pc[w] = "start" /\ pc' = [pc EXCEPT ![w] = "start"]
    BY <1>4 DEF HookRuns, At, IInv, TypeOK, LanesOK
  <2>7. PICK tasks \in Seq(Tasks) : AtHome(w, tasks) /\ lane' = [lane EXCEPT ![w] = tasks]
    BY <1>4, <2>1, <2>4, <2>5
  <2> QED
    BY <1>1, <1>2, <2>6, <2>7, TaskStep DEF ClaimLabels
<1>5. CASE \E status \in Reported(Head(lane[w]).signal) :
             /\ lane' = [lane EXCEPT ![w] = rest \o IF IsEdge(t, status) THEN <<Drain(t)>> ELSE <<>>]
             /\ UNCHANGED pc
  <2>1. PICK more \in {<<>>, <<Drain(t)>>} : lane' = [lane EXCEPT ![w] = rest \o more]
    BY <1>5
  <2> QED
    BY <1>4, <1>5, <2>1
<1> QED
  BY <1>3, <1>5 DEF HookRuns

LEMMA ChoreLanes ==
  ASSUME IInv, NEW w \in Workspaces, ChoreSteps(w)
  PROVE  LaneInv'
<1> USE DEF ChoreUnchanged
<1>1. claimed[w] = 0 /\ lane[w] # <<>> /\ up /\ UNCHANGED <<rowReq, claimed, up>>
  <2>1. CASE ChoreRefused(w)
    BY <2>1, OtherTask DEF ChoreRefused, AllChores
  <2>2. ASSUME NEW kind, kind # "drain", NEW label, At(w, kind, label)
        PROVE  claimed[w] = 0 /\ lane[w] # <<>> /\ up
    BY <2>2, HeldOnlyByDrain
  <2> QED
    BY <2>1, <2>2 DEF ChoreSteps, Withdraw, CloseTab, SwitchEngine, Resume, ArchiveBegins,
                      ArchiveEnds, Unarchive, DeleteBegins, DeleteEnds
<1>2. ASSUME Finish(w), UNCHANGED rowState
      PROVE  LaneInv'
  BY <1>1, <1>2, SameRowsKept, FinishStep
<1>3. CASE ChoreRefused(w) \/ SwitchEngine(w) \/ Resume(w) \/ ArchiveEnds(w) \/ Unarchive(w)
  BY <1>2, <1>3 DEF ChoreRefused, SwitchEngine, Resume, ArchiveEnds, Unarchive
<1>4. CASE ArchiveBegins(w) \/ DeleteBegins(w)
  <2>1. PICK label \in {"teardown", "clear"} : Goto(w, label)
    BY <1>4 DEF ArchiveBegins, DeleteBegins
  <2>2. UNCHANGED rowState
    BY <1>4 DEF ArchiveBegins, DeleteBegins
  <2> QED
    BY <1>1, <2>1, <2>2, SameRowsKept, GotoStep DEF ClaimLabels
<1>5. CASE Withdraw(w)
  <2>1. RowsKept(w)
    BY <1>1, <1>5 DEF Withdraw, RowsKept, IInv, TypeOK, RowsOK
  <2> QED
    BY <1>1, <1>5, <2>1, FinishStep DEF Withdraw
<1>6. CASE CloseTab(w)
  <2> DEFINE t == Head(lane[w]).tab
  <2>1. Home[t] = w /\ DropRows({t}) /\ Finish(w)
    BY <1>6 DEF CloseTab, OpenTabs, RemoveTab
  <2>2. RowsKept(w)
    BY <1>1, <2>1, DropRowsKept
  <2> QED
    BY <1>1, <2>1, <2>2, FinishStep
<1>7. CASE DeleteEnds(w)
  <2>1. DropRows(TabsOf(w)) /\ Finish(w)
    BY <1>7 DEF DeleteEnds
  <2>2. RowsKept(w)
    BY <1>1, <2>1, DropRowsKept DEF TabsOf
  <2> QED
    BY <1>1, <2>1, <2>2, FinishStep
<1> QED
  BY <1>3, <1>4, <1>5, <1>6, <1>7 DEF ChoreSteps

LEMMA ReportLanes ==
  ASSUME IInv,
         \/ \E r \in Requests : Submit(r)
         \/ \E w \in Workspaces : RequestChore(w)
         \/ \E t \in Tabs, s \in Signals : HookPost(t, s)
  PROVE  LaneInv'
<1> USE DEF Admit, rowVars
<1>1. ASSUME NEW r \in Requests, Submit(r)
      PROVE  LaneInv'
  <2>1. Home[Target[r]] \in Workspaces /\ [kind |-> "input", req |-> r] \in Tasks
    BY NewTasks
  <2> QED
    BY <1>1, <2>1, AdmitStep DEF Submit, Tabbed
<1>2. ASSUME NEW w \in Workspaces, RequestChore(w)
      PROVE  LaneInv'
  <2>1. PICK task \in Tasks :
          /\ task.kind \in ChoreKinds
          /\ task.kind \in {"close", "switch", "resume"} => Home[task.tab] = w
          /\ Admit(w, task)
    BY <1>2 DEF RequestChore
  <2>2. task.kind \in Tabbed => Home[task.tab] = w
    BY <2>1 DEF Tabbed, AllChores
  <2> QED
    BY <1>2, <2>1, <2>2, AdmitStep DEF RequestChore
<1>3. ASSUME NEW t \in Tabs, NEW s \in Signals, HookPost(t, s)
      PROVE  LaneInv'
  <2> DEFINE task == [kind |-> "hook", tab |-> t, signal |-> s, native |-> native[t]]
  <2>1. Home[t] \in Workspaces /\ task \in Tasks /\ Home[task.tab] = Home[t]
    BY NewTasks DEF IInv, TypeOK, TabsOK
  <2>2. up /\ lane' = [lane EXCEPT ![Home[t]] = Append(lane[Home[t]], task)]
           /\ UNCHANGED <<pc, claimed, rowVars, up>>
    BY <1>3 DEF HookPost
  <2> QED
    BY <2>1, <2>2, AdmitStep
<1> QED
  BY <1>1, <1>2, <1>3

LEMMA PollLanes ==
  ASSUME IInv, NEW t \in Tabs, PollDecides(t)
  PROVE  LaneInv'
<1>1. up /\ UNCHANGED <<rowVars, pc, claimed, sawWorking, up>>
  BY DEF PollDecides
<1>2. CASE lane' = lane
  BY <1>1, <1>2, IdleStep DEF laneVars
<1>3. CASE lane' = [lane EXCEPT ![Home[t]] = Append(lane[Home[t]], Drain(t))]
  <2>1. Home[t] \in Workspaces /\ Drain(t) \in Tasks /\ Home[Drain(t).tab] = Home[t]
    BY NewTasks DEF Drain
  <2> QED
    BY <1>1, <1>3, <2>1, AdmitStep
<1> QED
  BY <1>2, <1>3 DEF PollDecides

LEMMA QuietLanes ==
  ASSUME IInv,
         \/ \E r \in Requests : GiveUp(r)
         \/ \E w \in Workspaces : Reconciles(w)
         \/ \E t \in Tabs, s \in Signals : SignalLost(t, s)
         \/ \E t \in Tabs : \/ EngineWrites(t) \/ TranscriptAges(t) \/ TurnEnds(t)
                            \/ TypedTurn(t) \/ EngineExits(t) \/ AuthorityExpires(t)
         \/ PollList
         \/ UNCHANGED vars
  PROVE  LaneInv'
<1>1. UNCHANGED <<laneVars, rowVars, up>>
  BY DEF GiveUp, Reconciles, SignalLost, EngineWrites, TranscriptAges, TurnEnds, TypedTurn, EngineExits,
         EngineUnchanged, AuthorityExpires, PollList, vars
<1> QED
  BY <1>1, IdleStep

LEMMA CrashLanes ==
  ASSUME IInv, Crash
  PROVE  LaneInv'
<1>1. \A w \in Workspaces : lane'[w] = <<>> /\ pc'[w] = "start" /\ claimed'[w] = 0
  BY DEF Crash
<1>2. ~up'
  BY DEF Crash
<1> QED
  BY <1>1, <1>2 DEF LaneInv, LanesHome, AtHome, ClaimsHeld, ClaimLabels, InflightHeld, DownIsIdle

LEMMA BootLanes ==
  ASSUME IInv, Boot
  PROVE  LaneInv'
<1>1. \A w \in Workspaces : pc'[w] = "start" /\ claimed'[w] = 0
  BY DEF Boot, IInv, LaneInv, DownIsIdle
<1>2. \A i \in RowIds : rowState'[i] # "inflight"
  BY DEF Boot, Recovered, IInv, TypeOK, RowsOK
<1>3. ASSUME NEW w \in Workspaces
      PROVE  AtHome(w, lane'[w])
  <2>1. PICK o \in Orders(Waiting(w)) : lane'[w] = [k \in DOMAIN o |-> Drain(o[k])]
    BY DEF Boot
  <2>2. \A k \in DOMAIN o : o[k] \in Waiting(w)
    BY <2>1 DEF Orders
  <2> QED
    BY <2>1, <2>2 DEF AtHome, Waiting, Drain
<1>4. LanesHome'
  BY <1>3 DEF LanesHome, AtHome
<1>5. up'
  BY DEF Boot
<1> QED
  BY <1>1, <1>2, <1>4, <1>5 DEF LaneInv, ClaimsHeld, ClaimLabels, InflightHeld, DownIsIdle

-----------------------------------------------------------------------------
LEMMA InitInv ==
  ASSUME Init
  PROVE  IInv
<1>1. TabsOK
  BY DEF Init, TabsOK, WsStatuses, TabStatuses, OpenStatuses
<1>2. RowsOK
  BY Bounds DEF Init, RowsOK, RowStates, RowIds
<1>3. LanesOK
  BY Bounds DEF Init, LanesOK, Labels
<1>4. EnginesOK
  BY DEF Init, EnginesOK, Signals
<1>5. ClientsOK
  BY DEF Init, ClientsOK
<1>6. LaneInv
  BY DEF Init, LaneInv, LanesHome, AtHome, ClaimsHeld, ClaimLabels, InflightHeld, DownIsIdle
<1> QED
  BY <1>1, <1>2, <1>3, <1>4, <1>5, <1>6 DEF IInv, TypeOK

LEMMA StepInv ==
  ASSUME IInv, [Next]_vars
  PROVE  IInv'
<1>1. TypeOK /\ ClaimsHeld
  BY DEF IInv, LaneInv
<1>2. ASSUME NEW r \in Requests, Submit(r) \/ GiveUp(r)
      PROVE  IInv'
  BY <1>1, <1>2, SubmitType, GiveUpType, ReportLanes, QuietLanes DEF IInv
<1>3. ASSUME NEW w \in Workspaces, InputSteps(w) \/ InputPtyFails(w)
      PROVE  IInv'
  <2>1. TypeOK'
    BY <1>1, <1>3, InputReplaysType, InputRefusedType, InputReadsType, InputEnqueuesType,
       InputWritesPtyType, InputMarksInterruptedType, InputMarksWorkingType, InputSavesType,
       InputPtyFailsType DEF InputSteps
  <2> QED
    BY <1>3, <2>1, InputLanes DEF IInv
<1>4. ASSUME NEW w \in Workspaces, DrainSteps(w) \/ DrainFails(w)
      PROVE  IInv'
  <2>1. TypeOK'
    BY <1>1, <1>4, DrainResolvesType, DrainClaimsType, DrainRechecksType, DrainDeliversType,
       DrainMarksType, DrainSettlesType, DrainFailsType DEF DrainSteps
  <2> QED
    BY <1>4, <2>1, DrainLanes DEF IInv
<1>5. ASSUME NEW w \in Workspaces, HookRuns(w)
      PROVE  IInv'
  BY <1>1, <1>5, HookRunsType, HookLanes DEF IInv
<1>6. ASSUME NEW w \in Workspaces, ChoreSteps(w)
      PROVE  IInv'
  <2>1. TypeOK'
    BY <1>1, <1>6, ChoreRefusedType, WithdrawType, CloseTabType, SwitchEngineType, ResumeType,
       ArchiveBeginsType, ArchiveEndsType, UnarchiveType, DeleteBeginsType, DeleteEndsType DEF ChoreSteps
  <2> QED
    BY <1>6, <2>1, ChoreLanes DEF IInv
<1>7. ASSUME NEW w \in Workspaces, RequestChore(w) \/ Reconciles(w)
      PROVE  IInv'
  BY <1>1, <1>7, RequestChoreType, ReconcilesType, ReportLanes, QuietLanes DEF IInv
<1>8. ASSUME NEW t \in Tabs, EngineSteps(t)
      PROVE  IInv'
  <2>1. ASSUME NEW s \in Signals, HookPost(t, s) \/ SignalLost(t, s)
        PROVE  IInv'
    BY <1>1, <2>1, HookPostType, SignalLostType, ReportLanes, QuietLanes DEF IInv
  <2>2. ASSUME \/ EngineWrites(t) \/ TranscriptAges(t) \/ TurnEnds(t)
               \/ TypedTurn(t) \/ EngineExits(t) \/ AuthorityExpires(t)
        PROVE  IInv'
    <3>1. TypeOK'
      BY <1>1, <2>2, EngineWritesType, TranscriptAgesType, TurnEndsType, TypedTurnType,
         EngineExitsType, AuthorityExpiresType
    <3> QED
      BY <2>2, <3>1, QuietLanes DEF IInv
  <2> QED
    BY <1>8, <2>1, <2>2 DEF EngineSteps
<1>9. ASSUME PollerSteps
      PROVE  IInv'
  BY <1>1, <1>9, PollListType, PollDecidesType, PollLanes, QuietLanes DEF IInv, PollerSteps
<1>10. CASE Crash
  BY <1>1, <1>10, CrashType, CrashLanes DEF IInv
<1>11. CASE Boot
  BY <1>1, <1>11, BootType, BootLanes DEF IInv
<1>12. CASE UNCHANGED vars
  <2>1. TypeOK'
    BY <1>1, <1>12 DEF vars, rowVars, tabVars, laneVars, engineVars, clientVars, paneVars, budgetVars,
                       TypeOK, TabsOK, RowsOK, LanesOK, EnginesOK, ClientsOK
  <2> QED
    BY <1>12, <2>1, QuietLanes DEF IInv
<1> QED
  BY <1>2, <1>3, <1>4, <1>5, <1>6, <1>7, <1>8, <1>9, <1>10, <1>11, <1>12 DEF Next, LaneSteps

\* The inductive invariant: the types, what lanes hold, and which rows running drains hold.
THEOREM Invariant == Spec => []IInv
<1>1. Init => IInv
  BY InitInv
<1>2. IInv /\ [Next]_vars => IInv'
  BY StepInv
<1> QED
  BY <1>1, <1>2, PTL DEF Spec

\* Every variable keeps to the values the code gives it, for any number of workspaces,
\* tabs, requests, crashes, failures and user operations.
THEOREM TypeCorrect == Spec => []TypeOK
<1>1. IInv => TypeOK
  BY DEF IInv
<1> QED
  BY <1>1, Invariant, PTL

\* No row is ever stranded: while the daemon runs, the rows marked inflight are exactly those
\* of the drains under way, so that whatever interrupts a delivery, its prompt is delivered,
\* put back in the queue, or recovered at the next start.
THEOREM NoneStranded == Spec => []InflightIsClaimed
<1>1. ASSUME IInv, up
      PROVE  {i \in RowIds : rowState[i] = "inflight"} = {claimed[w] : w \in Workspaces} \ {0}
  <2>1. ASSUME NEW i \in RowIds, rowState[i] = "inflight"
        PROVE  i \in {claimed[w] : w \in Workspaces} \ {0}
    <3>1. \E w \in Workspaces : claimed[w] = i
      BY <1>1, <2>1 DEF IInv, LaneInv, InflightHeld
    <3> QED
      BY <3>1 DEF RowIds
  <2>2. ASSUME NEW i \in {claimed[w] : w \in Workspaces} \ {0}
        PROVE  i \in RowIds /\ rowState[i] = "inflight"
    BY <1>1, <2>2, ClaimHome
  <2> QED
    BY <2>1, <2>2
<1>2. IInv => InflightIsClaimed
  BY <1>1 DEF InflightIsClaimed
<1> QED
  BY <1>2, Invariant, PTL
=============================================================================
