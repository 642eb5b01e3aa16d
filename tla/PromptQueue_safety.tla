------------------------- MODULE PromptQueue_safety -------------------------
(***************************************************************************)
(* What PromptQueue promises, for every instance: order, pace and number   *)
(* of the pastes, nothing lost, nothing typed into what is gone, and the   *)
(* queue as an outbox.                                                     *)
(*                                                                         *)
(* The invariant is a conjunction over the workspaces: Work(w) speaks of   *)
(* the lane of w and of the rows, tabs and requests at home there.  A step *)
(* of one lane leaves the work of every other lane as it is.               *)
(***************************************************************************)
EXTENDS PromptQueue_proofs

USE QueueAssumption DEF QueueAssumption

DrainLabels == {"claim", "recheck", "deliver", "mark", "settle"}
DoneLabels == {"interrupted", "composer", "saveQueued", "saveOk"}
InputLabels == {"enqueue", "pty", "interrupted", "composer", "saveQueued", "saveOk"}

\* The request of the running input, the tab of the running drain.
Req(w) == Head(lane[w]).req
Drained(w) == Head(lane[w]).tab

\* What excuses a second copy.
Excuses == crashes + mishaps

\* The rows of the tabs of a workspace.
OfLane(w, i) == rowState[i] # "unused" /\ Home[RowTab(i)] = w

\* A lane holds the requests to its own tabs, and the withdrawals of its own rows.
Sent(w, task) ==
  /\ task.kind = "input" => Home[Target[task.req]] = w
  /\ task.kind = "withdraw" => OfLane(w, task.row)

SentHome(w) == \A k \in DOMAIN lane[w] : Sent(w, lane[w][k])

\* Past its first check a task works on a tab that stays usable: nothing else runs in its lane.
\* What each label knows of the state, whatever the poller, the engines and clients do meanwhile.
LaneOK(w) ==
  /\ SentHome(w)
  /\ lane[w] = <<>> => pc[w] = "start"
  /\ pc[w] \in DrainLabels =>
       lane[w] # <<>> /\ Head(lane[w]).kind = "drain" /\ Usable(Drained(w))
  /\ pc[w] \in InputLabels =>
       lane[w] # <<>> /\ Head(lane[w]).kind = "input" /\ Usable(Target[Req(w)])
  /\ pc[w] = "deliver" => ~spent[Drained(w)]
  /\ pc[w] \in {"mark", "settle"} => copies[claimed[w]] > 0
  /\ pc[w] \in ClaimLabels =>
       \A j \in RowIds : j < claimed[w] /\ rowState[j] \in Live => RowTab(j) # Drained(w)
  /\ pc[w] \in {"enqueue", "pty"} => receipt[Req(w)] = "none"
  /\ pc[w] = "pty" /\ Mode[Req(w)] = "send" /\ ~native[Target[Req(w)]] =>
       RowsIn(Target[Req(w)], Live) = {}
  /\ pc[w] = "saveQueued" => \E i \in RowIds : rowReq[i] = Req(w)

\* A live row was pasted as often as something failed, and once more while its drain is past
\* the paste.
Pasted(w, i) == claimed[w] = i /\ pc[w] \in {"mark", "settle"}

RowOK(w, i) ==
  /\ rowState[i] = "delivered" => copies[i] > 0
  /\ copies[i] <= 1 + Excuses
  /\ rowState[i] \in Live => Pasted(w, i) \/ copies[i] <= Excuses
  /\ copies[i] > 0 =>
       \A j \in RowIds : j < i /\ rowState[j] \in Live => RowTab(j) # RowTab(i)
  /\ rowState[i] \in Live /\ tabStatus[RowTab(i)] = "closed" =>
       wsStatus[w] # "deleted" /\ OpenTabs(w) = {}

\* A turn that was started since the last edge shows in the status, or is about to.
TabOK(w, t) ==
  up /\ tabStatus[t] = "awaiting-input" /\ spent[t] =>
    \/ pc[w] = "mark" /\ Drained(w) = t
    \/ pc[w] = "composer" /\ Target[Req(w)] = t

\* The rows and pastes of a request, which its receipt or the running handler vouches for.
RowsOf(r) == {i \in RowIds : rowReq[i] = r}
Effects(r) == Cardinality(RowsOf(r)) + direct[r]
Done(w, r) == pc[w] \in DoneLabels /\ Req(w) = r

ReqOK(w, r) ==
  /\ "queued" \in {client[r], receipt[r]} => RowsOf(r) # {}
  /\ Effects(r) <= 1 + Excuses
  /\ receipt[r] = "none" /\ ~Done(w, r) => Effects(r) <= Excuses

Work(w) ==
  /\ LaneOK(w)
  /\ \A i \in RowIds : OfLane(w, i) => RowOK(w, i)
  /\ \A t \in Tabs : Home[t] = w => TabOK(w, t)
  /\ \A r \in Requests : Home[Target[r]] = w => ReqOK(w, r)

UnusedClean == \A i \in RowIds : rowState[i] = "unused" => copies[i] = 0

SInv == IInv /\ UnusedClean /\ \A w \in Workspaces : Work(w)

-----------------------------------------------------------------------------
(* Facts about lanes and rows. *)

\* Rows stay with the request they were inserted for.
RowsStay == \A i \in RowIds : rowReq[i] \in Requests => rowReq'[i] = rowReq[i]

LEMMA OfLaneStays ==
  ASSUME TypeOK, TypeOK', RowsStay, NEW w, NEW i \in RowIds, OfLane(w, i)
  PROVE  OfLane(w, i)'
<1>1. rowReq[i] \in Requests /\ rowReq'[i] = rowReq[i]
  BY DEF RowsStay, OfLane, TypeOK, RowsOK
<1> QED
  BY <1>1 DEF OfLane, RowTab, TypeOK, RowsOK

LEMMA SentStays ==
  ASSUME TypeOK, TypeOK', RowsStay, NEW w \in Workspaces, SentHome(w),
         \A k \in DOMAIN lane'[w] :
           (\E m \in DOMAIN lane[w] : lane'[w][k] = lane[w][m]) \/ Sent(w, lane[w][k])'
  PROVE  SentHome(w)'
<1>1. ASSUME NEW k \in DOMAIN lane'[w], NEW m \in DOMAIN lane[w], lane'[w][k] = lane[w][m]
      PROVE  Sent(w, lane[w][k])'
  <2>1. lane[w][m] \in Tasks
    BY DEF TypeOK, LanesOK
  <2>2. lane[w][m].kind = "withdraw" => lane[w][m].row \in RowIds /\ OfLane(w, lane[w][m].row)
    BY <2>1, TaskFields DEF SentHome, Sent
  <2>3. lane[w][m].kind = "withdraw" => OfLane(w, lane[w][k].row)'
    BY <1>1, <2>2, OfLaneStays DEF OfLane, RowTab
  <2> QED
    BY <1>1, <2>3 DEF SentHome, Sent
<1> QED
  BY <1>1 DEF SentHome

LEMMA TailElements ==
  ASSUME NEW q \in Seq(Tasks), q # <<>>, NEW k \in DOMAIN Tail(q)
  PROVE  \E m \in DOMAIN q : Tail(q)[k] = q[m]
<1>1. k + 1 \in DOMAIN q /\ Tail(q)[k] = q[k + 1]
  OBVIOUS
<1> QED
  BY <1>1

LEMMA AppendElements ==
  ASSUME NEW q \in Seq(Tasks), NEW task \in Tasks, NEW k \in DOMAIN Append(q, task)
  PROVE  (\E m \in DOMAIN q : Append(q, task)[k] = q[m]) \/ Append(q, task)[k] = task
<1>1. (k \in DOMAIN q /\ Append(q, task)[k] = q[k]) \/ Append(q, task)[k] = task
  OBVIOUS
<1> QED
  BY <1>1

\* The tab of the running drain and the request of the running input are of the workspace.
LEMMA HeadHome ==
  ASSUME IInv, NEW w \in Workspaces, SentHome(w), lane[w] # <<>>
  PROVE  /\ lane[w] \in Seq(Tasks)
         /\ Head(lane[w]).kind \in Tabbed => Drained(w) \in Tabs /\ Home[Drained(w)] = w
         /\ Head(lane[w]).kind = "input" =>
              Req(w) \in Requests /\ Target[Req(w)] \in Tabs /\ Home[Target[Req(w)]] = w
         /\ Head(lane[w]).kind = "withdraw" =>
              Head(lane[w]).row \in RowIds /\ OfLane(w, Head(lane[w]).row)
<1>1. lane[w] \in Seq(Tasks) /\ AtHome(w, lane[w]) /\ Head(lane[w]) \in Tasks
  BY HeadTask DEF IInv, TypeOK, LanesOK, LaneInv, LanesHome
<1>2. 1 \in DOMAIN lane[w] /\ Head(lane[w]) = lane[w][1]
  BY <1>1
<1>3. Sent(w, Head(lane[w]))
  BY <1>2 DEF SentHome
<1> QED
  BY <1>1, <1>3, AtHomeHead, TaskFields DEF Drained, Req, Sent

\* A row has a request exactly when it was inserted.
LEMMA RowUsed ==
  ASSUME TypeOK, NEW i \in RowIds
  PROVE  /\ rowState[i] # "unused" <=> rowReq[i] \in Requests
         /\ rowState[i] # "unused" => RowTab(i) \in Tabs /\ Home[RowTab(i)] \in Workspaces
  BY DEF TypeOK, RowsOK, RowTab

LEMMA RowsFinite ==
  ASSUME NEW r
  PROVE  IsFiniteSet(RowsOf(r)) /\ Cardinality(RowsOf(r)) \in Nat
<1>1. IsFiniteSet(RowIds)
  BY Bounds, FS_Interval DEF RowIds
<1>2. RowsOf(r) \subseteq RowIds
  BY DEF RowsOf
<1> QED
  BY <1>1, <1>2, FS_Subset, FS_CardinalityType

LEMMA Numbers ==
  ASSUME TypeOK
  PROVE  /\ Excuses \in Nat
         /\ \A i \in RowIds : copies[i] \in Nat
         /\ \A r \in Requests : Effects(r) \in Nat /\ direct[r] \in Nat
  BY RowsFinite DEF TypeOK, ClientsOK, RowsOK, Excuses, Effects

\* The row a lane holds is of the tab its drain is about; no other lane holds a row of the tab.
LEMMA Holding ==
  ASSUME IInv, NEW w \in Workspaces, claimed[w] # 0
  PROVE  /\ claimed[w] \in RowIds /\ RowTab(claimed[w]) = Drained(w)
         /\ OfLane(w, claimed[w]) /\ rowState[claimed[w]] = "inflight"
         /\ lane[w] # <<>> /\ Head(lane[w]).kind = "drain"
  BY ClaimHome DEF IInv, LaneInv, ClaimsHeld, OfLane, Drained

LEMMA NoneHeld ==
  ASSUME IInv, up, NEW w \in Workspaces, claimed[w] = 0, NEW i \in RowIds, OfLane(w, i)
  PROVE  rowState[i] # "inflight"
<1>1. SUFFICES ASSUME rowState[i] = "inflight" PROVE FALSE
  OBVIOUS
<1>2. PICK v \in Workspaces : claimed[v] = i
  BY <1>1 DEF IInv, LaneInv, InflightHeld
<1>3. i # 0
  BY DEF RowIds
<1> QED
  BY <1>2, <1>3, Holding DEF OfLane

-----------------------------------------------------------------------------
(* A step of the lane w leaves what is at home in other workspaces alone. *)

KeptElsewhere(w) ==
  /\ \A v \in Workspaces : v # w =>
       lane'[v] = lane[v] /\ pc'[v] = pc[v] /\ claimed'[v] = claimed[v] /\ wsStatus'[v] = wsStatus[v]
  /\ \A t \in Tabs : Home[t] # w =>
       tabStatus'[t] = tabStatus[t] /\ native'[t] = native[t] /\ spent'[t] = spent[t]
  /\ \A i \in RowIds : rowReq[i] \in Requests => rowReq'[i] = rowReq[i]
  /\ \A i \in RowIds : ~OfLane(w, i) /\ ~OfLane(w, i)' =>
       rowReq'[i] = rowReq[i] /\ rowState'[i] = rowState[i] /\ copies'[i] = copies[i]
  /\ \A r \in Requests : Home[Target[r]] # w =>
       receipt'[r] = receipt[r] /\ direct'[r] = direct[r] /\ client'[r] = client[r]
  /\ up' = up /\ crashes' = crashes /\ (mishaps' = mishaps \/ mishaps' = mishaps + 1)

LEMMA Elsewhere ==
  ASSUME SInv, IInv', NEW w \in Workspaces, KeptElsewhere(w), NEW v \in Workspaces, v # w
  PROVE  Work(v)'
<1>1. lane'[v] = lane[v] /\ pc'[v] = pc[v] /\ claimed'[v] = claimed[v] /\ wsStatus'[v] = wsStatus[v]
  BY DEF KeptElsewhere
<1>2. TypeOK /\ TypeOK' /\ IInv
  BY DEF SInv, IInv
<1>3. ASSUME NEW i \in RowIds, OfLane(v, i)'
      PROVE  /\ OfLane(v, i)
             /\ rowReq'[i] = rowReq[i] /\ rowState'[i] = rowState[i] /\ copies'[i] = copies[i]
  <2>1. ~OfLane(w, i)'
    BY <1>3 DEF OfLane
  <2>2. ~OfLane(w, i)
    BY <1>2, <1>3, RowUsed DEF KeptElsewhere, OfLane, RowTab
  <2> QED
    BY <1>3, <2>1, <2>2 DEF KeptElsewhere, OfLane, RowTab
<1>4. ASSUME NEW i \in RowIds, OfLane(v, i)
      PROVE  /\ OfLane(v, i)'
             /\ rowReq'[i] = rowReq[i] /\ rowState'[i] = rowState[i] /\ copies'[i] = copies[i]
  <2>1. rowReq[i] \in Requests
    BY <1>2, <1>4, RowUsed DEF OfLane
  <2>2. rowReq'[i] = rowReq[i]
    BY <2>1 DEF KeptElsewhere
  <2>3. rowState'[i] # "unused"
    BY <1>2, <2>1, <2>2 DEF TypeOK, RowsOK
  <2> QED
    BY <1>3, <1>4, <2>2, <2>3 DEF OfLane, RowTab
<1>5. ASSUME NEW t \in Tabs, Home[t] = v
      PROVE  /\ tabStatus'[t] = tabStatus[t] /\ native'[t] = native[t] /\ spent'[t] = spent[t]
             /\ Usable(t)' <=> Usable(t)
  BY <1>1, <1>5 DEF KeptElsewhere, Usable, Active
<1>6. ASSUME NEW r \in Requests, Home[Target[r]] = v
      PROVE  RowsOf(r)' = RowsOf(r)
  <2>1. ASSUME NEW i \in RowIds, rowReq[i] = r PROVE rowReq'[i] = r
    BY <2>1 DEF KeptElsewhere
  <2>2. ASSUME NEW i \in RowIds, rowReq'[i] = r PROVE rowReq[i] = r
    <3>1. OfLane(v, i)'
      BY <1>2, <1>6, <2>2 DEF OfLane, RowTab, TypeOK, RowsOK
    <3> QED
      BY <1>3, <2>2, <3>1
  <2> QED
    BY <2>1, <2>2 DEF RowsOf
<1>7. Excuses \in Nat /\ (Excuses' = Excuses \/ Excuses' = Excuses + 1)
  <2>1. crashes \in Nat /\ mishaps \in Nat
    BY <1>2 DEF TypeOK, ClientsOK
  <2>2. crashes' = crashes /\ (mishaps' = mishaps \/ mishaps' = mishaps + 1)
    BY DEF KeptElsewhere
  <2> QED
    BY <2>1, <2>2 DEF Excuses
<1>8. LaneOK(v)'
  <2>1. LaneOK(v) /\ SentHome(v)
    BY DEF SInv, Work, LaneOK
  <2>2. ASSUME lane[v] # <<>>, Head(lane[v]).kind = "drain"
        PROVE  Drained(v) \in Tabs /\ Home[Drained(v)] = v
    BY <1>2, <2>1, <2>2, HeadHome DEF Tabbed
  <2>3. ASSUME lane[v] # <<>>, Head(lane[v]).kind = "input"
        PROVE  Req(v) \in Requests /\ Target[Req(v)] \in Tabs /\ Home[Target[Req(v)]] = v
    BY <1>2, <2>1, <2>3, HeadHome
  <2>4. Drained(v)' = Drained(v) /\ Req(v)' = Req(v) /\ SentHome(v)'
    BY <1>1, <1>2, <2>1, SentStays DEF Drained, Req, KeptElsewhere, RowsStay
  <2>5. pc[v] \in {"mark", "settle"} => copies'[claimed[v]] = copies[claimed[v]]
    BY <1>2, <1>4, Holding DEF IInv, LaneInv, ClaimsHeld, ClaimLabels
  <2>6. pc[v] \in ClaimLabels =>
          \A j \in RowIds : j < claimed[v] /\ rowState'[j] \in Live => RowTab(j)' # Drained(v)
    <3> SUFFICES ASSUME pc[v] \in ClaimLabels, NEW j \in RowIds, j < claimed[v], rowState'[j] \in Live,
                        RowTab(j)' = Drained(v)
                 PROVE  FALSE
      OBVIOUS
    <3>1. OfLane(v, j)'
      BY <2>1, <2>2 DEF LaneOK, OfLane, Live, ClaimLabels, DrainLabels
    <3> QED
      BY <1>3, <2>1, <3>1 DEF LaneOK, RowTab
  <2>7. pc[v] = "pty" /\ Mode[Req(v)] = "send" /\ ~native'[Target[Req(v)]] =>
          {j \in RowIds : rowState'[j] \in Live /\ RowTab(j)' = Target[Req(v)]} = {}
    <3> SUFFICES ASSUME pc[v] = "pty", Mode[Req(v)] = "send", ~native'[Target[Req(v)]],
                        NEW j \in RowIds, rowState'[j] \in Live, RowTab(j)' = Target[Req(v)]
                 PROVE  FALSE
      OBVIOUS
    <3>1. Target[Req(v)] \in Tabs /\ Home[Target[Req(v)]] = v
      BY <2>1, <2>3 DEF LaneOK, InputLabels
    <3>2. OfLane(v, j)'
      BY <3>1 DEF OfLane, Live
    <3>3. j \in RowsIn(Target[Req(v)], Live)
      BY <1>3, <3>2 DEF RowsIn, RowTab
    <3> QED
      BY <1>5, <2>1, <3>1, <3>3 DEF LaneOK
  <2>8. pc[v] = "saveQueued" => \E i \in RowIds : rowReq'[i] = Req(v)
    BY <2>1, <2>3 DEF LaneOK, KeptElsewhere, InputLabels
  <2>9. pc[v] \in DrainLabels => Usable(Drained(v))' /\ spent'[Drained(v)] = spent[Drained(v)]
    BY <1>5, <2>1, <2>2, <2>4 DEF LaneOK, Usable, Active
  <2>10. pc[v] \in InputLabels =>
           Usable(Target[Req(v)])' /\ receipt'[Req(v)] = receipt[Req(v)]
    BY <1>5, <2>1, <2>3, <2>4 DEF LaneOK, KeptElsewhere, Usable, Active
  <2> QED
    BY <1>1, <2>1, <2>4, <2>5, <2>6, <2>7, <2>8, <2>9, <2>10 DEF LaneOK, RowsIn, DrainLabels, InputLabels
<1>9. ASSUME NEW i \in RowIds, OfLane(v, i)'
      PROVE  RowOK(v, i)'
  <2>1. /\ OfLane(v, i) /\ RowOK(v, i)
        /\ rowReq'[i] = rowReq[i] /\ rowState'[i] = rowState[i] /\ copies'[i] = copies[i]
    BY <1>3, <1>9 DEF SInv, Work
  <2>2. RowTab(i) \in Tabs /\ Home[RowTab(i)] = v /\ RowTab(i)' = RowTab(i)
    BY <1>2, <2>1, RowUsed DEF OfLane, RowTab
  <2>3. copies[i] \in Nat
    BY <1>2, Numbers
  <2>4. copies[i] > 0 =>
          \A j \in RowIds : j < i /\ rowState'[j] \in Live => RowTab(j)' # RowTab(i)
    <3> SUFFICES ASSUME copies[i] > 0, NEW j \in RowIds, j < i, rowState'[j] \in Live,
                        RowTab(j)' = RowTab(i)
                 PROVE  FALSE
      OBVIOUS
    <3>1. OfLane(v, j)'
      BY <2>2 DEF OfLane, Live
    <3> QED
      BY <1>3, <2>1, <3>1 DEF RowOK, RowTab
  <2>5. OpenTabs(v)' = OpenTabs(v)
    BY <1>5 DEF OpenTabs
  <2>6. Pasted(v, i)' <=> Pasted(v, i)
    BY <1>1 DEF Pasted
  <2> QED
    BY <1>1, <1>5, <1>7, <2>1, <2>2, <2>3, <2>4, <2>5, <2>6 DEF RowOK
<1>10. ASSUME NEW t \in Tabs, Home[t] = v
      PROVE  TabOK(v, t)'
  <2>1. TabOK(v, t) /\ up' = up
    BY <1>10 DEF SInv, Work, KeptElsewhere
  <2> QED
    BY <1>1, <1>5, <1>10, <2>1 DEF TabOK, Drained, Req
<1>11. ASSUME NEW r \in Requests, Home[Target[r]] = v
       PROVE  ReqOK(v, r)'
  <2>1. ReqOK(v, r) /\ RowsOf(r)' = RowsOf(r)
    BY <1>6, <1>11 DEF SInv, Work
  <2>2. receipt'[r] = receipt[r] /\ direct'[r] = direct[r] /\ client'[r] = client[r]
    BY <1>11 DEF KeptElsewhere
  <2>4. Effects(r) \in Nat /\ Effects(r)' = Effects(r)
    BY <1>2, <2>1, <2>2, Numbers DEF Effects
  <2>5. Done(v, r)' <=> Done(v, r)
    BY <1>1 DEF Done, Req
  <2> QED
    BY <1>7, <2>1, <2>2, <2>4, <2>5 DEF ReqOK
<1> QED
  BY <1>8, <1>9, <1>10, <1>11 DEF Work

LEMMA LaneStep ==
  ASSUME SInv, IInv', NEW w \in Workspaces, KeptElsewhere(w), Work(w)'
  PROVE  SInv'
<1>1. TypeOK /\ TypeOK'
  BY DEF SInv, IInv
<1>2. ASSUME NEW i \in RowIds, rowState'[i] = "unused"
      PROVE  copies'[i] = 0
  <2>1. rowReq'[i] \notin Requests /\ rowReq'[i] = rowReq'[i]
    BY <1>1, <1>2 DEF TypeOK, RowsOK
  <2>2. rowReq[i] \notin Requests
    BY <2>1 DEF KeptElsewhere
  <2>3. rowState[i] = "unused"
    BY <1>1, <2>2, RowUsed
  <2>4. ~OfLane(w, i) /\ ~OfLane(w, i)'
    BY <1>2, <2>3 DEF OfLane
  <2> QED
    BY <2>3, <2>4 DEF KeptElsewhere, SInv, UnusedClean
<1> QED
  BY <1>2, Elsewhere DEF SInv, UnusedClean

-----------------------------------------------------------------------------
(* Which steps are steps of one lane. *)

\* The tab or the request of the running task is of the workspace.
LEMMA TaskHome ==
  ASSUME SInv, NEW w \in Workspaces, NEW kind, NEW label, At(w, kind, label)
  PROVE  /\ up /\ lane[w] # <<>> /\ Head(lane[w]).kind = kind /\ pc[w] = label
         /\ lane[w] \in Seq(Tasks)
         /\ kind \in Tabbed => Drained(w) \in Tabs /\ Home[Drained(w)] = w
         /\ kind = "input" =>
              Req(w) \in Requests /\ Target[Req(w)] \in Tabs /\ Home[Target[Req(w)]] = w
         /\ kind = "withdraw" =>
              Head(lane[w]).row \in RowIds /\ OfLane(w, Head(lane[w]).row)
<1>1. IInv /\ SentHome(w)
  BY DEF SInv, Work, LaneOK
<1>2. Head(lane[w]) \in Tasks
  BY <1>1, HeadTask DEF At, IInv, TypeOK
<1> QED
  BY <1>1, <1>2, HeadHome, TaskFields DEF At

\* The lane, the label and the row held of one lane change.
LaneOnly(w) ==
  \A v \in Workspaces : v # w => lane'[v] = lane[v] /\ pc'[v] = pc[v] /\ claimed'[v] = claimed[v]

LEMMA LaneOnlyFinish ==
  ASSUME IInv, NEW w \in Workspaces, Finish(w), NEW i, claimed' = [claimed EXCEPT ![w] = i]
  PROVE  LaneOnly(w)
  BY DEF Finish, LaneOnly, IInv, TypeOK, LanesOK

LEMMA LaneOnlyGoto ==
  ASSUME IInv, NEW w \in Workspaces, NEW label, Goto(w, label),
         NEW i, claimed' = [claimed EXCEPT ![w] = i]
  PROVE  LaneOnly(w)
  BY DEF Goto, LaneOnly, IInv, TypeOK, LanesOK

LEMMA ClaimedSame ==
  ASSUME IInv, NEW w \in Workspaces, UNCHANGED claimed
  PROVE  claimed' = [claimed EXCEPT ![w] = claimed[w]]
  BY DEF IInv, TypeOK, LanesOK

LEMMA NewRow ==
  ASSUME TypeOK, NEW w \in Workspaces, InputEnqueues(w)
  PROVE  \E n \in RowIds :
           /\ n = lastRow + 1 /\ rowReq[n] = NoReq /\ rowState[n] = "unused"
           /\ rowReq' = [rowReq EXCEPT ![n] = Req(w)]
           /\ rowState' = [rowState EXCEPT ![n] = "queued"]
           /\ copies' = copies
<1>1. lastRow + 1 \in RowIds /\ rowReq[lastRow + 1] = NoReq /\ rowState[lastRow + 1] = "unused"
  BY DEF InputEnqueues, TypeOK, RowsOK, RowIds
<1> QED
  BY <1>1 DEF InputEnqueues, paneVars, Req

LEMMA InputKept ==
  ASSUME SInv, NEW w \in Workspaces, InputSteps(w) \/ InputPtyFails(w)
  PROVE  KeptElsewhere(w)
<1> DEFINE r == Req(w)
           t == Target[r]
<1>1. PICK label : At(w, "input", label)
  BY DEF InputSteps, InputReplays, InputRefused, InputReads, InputEnqueues, InputWritesPty,
         InputPtyFails, InputMarksInterrupted, InputMarksWorking, InputSaves
<1>2. /\ IInv /\ TypeOK /\ up
      /\ r \in Requests /\ t \in Tabs /\ Home[t] = w
  BY <1>1, TaskHome DEF SInv, IInv
<1>3. LaneOnly(w)
  <2>1. Finish(w) \/ \E l : Goto(w, l)
    BY DEF InputSteps, InputReplays, InputRefused, InputReads, InputEnqueues, InputWritesPty,
           InputPtyFails, InputMarksInterrupted, InputMarksWorking, InputSaves
  <2>2. UNCHANGED claimed
    BY DEF InputSteps, InputReplays, InputRefused, InputReads, InputEnqueues, InputWritesPty,
           InputPtyFails, InputMarksInterrupted, InputMarksWorking, InputSaves
  <2> QED
    BY <1>2, <2>1, <2>2, ClaimedSame, LaneOnlyFinish, LaneOnlyGoto
<1>4. UNCHANGED <<wsStatus, native, up, crashes>> /\ (mishaps' = mishaps \/ mishaps' = mishaps + 1)
  BY DEF InputSteps, InputReplays, InputRefused, InputReads, InputEnqueues, InputWritesPty,
         InputPtyFails, InputMarksInterrupted, InputMarksWorking, InputSaves, tabVars, budgetVars
<1>5. \A s \in Tabs : Home[s] # w => tabStatus'[s] = tabStatus[s] /\ spent'[s] = spent[s]
  BY <1>2 DEF InputSteps, InputReplays, InputRefused, InputReads, InputEnqueues, InputWritesPty,
         InputPtyFails, InputMarksInterrupted, InputMarksWorking, InputSaves, tabVars, budgetVars,
         WriteStatus, TypeOK, TabsOK, Req
<1>6. \A q \in Requests : Home[Target[q]] # w =>
         receipt'[q] = receipt[q] /\ direct'[q] = direct[q] /\ client'[q] = client[q]
  <2>1. \A q \in Requests : q # r => receipt'[q] = receipt[q]
    BY <1>2 DEF InputSteps, InputReplays, InputRefused, InputReads, InputEnqueues, InputWritesPty,
           InputPtyFails, InputMarksInterrupted, InputMarksWorking, InputSaves, clientVars,
           TypeOK, ClientsOK, Req
  <2>2. \A q \in Requests : q # r => direct'[q] = direct[q]
    BY <1>2 DEF InputSteps, InputReplays, InputRefused, InputReads, InputEnqueues, InputWritesPty,
           InputPtyFails, InputMarksInterrupted, InputMarksWorking, InputSaves, clientVars,
           paneVars, TypeOK, ClientsOK, Req
  <2>3. \A q \in Requests : q # r => client'[q] = client[q]
    BY <1>2 DEF InputSteps, InputReplays, InputRefused, InputReads, InputEnqueues, InputWritesPty,
           InputPtyFails, InputMarksInterrupted, InputMarksWorking, InputSaves, clientVars,
           Answer, TypeOK, ClientsOK, Req
  <2> QED
    BY <1>2, <2>1, <2>2, <2>3
<1>7. /\ \A i \in RowIds : rowReq[i] \in Requests => rowReq'[i] = rowReq[i]
      /\ \A i \in RowIds : ~OfLane(w, i) /\ ~OfLane(w, i)' =>
           rowReq'[i] = rowReq[i] /\ rowState'[i] = rowState[i] /\ copies'[i] = copies[i]
  <2>1. CASE InputEnqueues(w)
    <3>1. PICK n \in RowIds :
            /\ rowReq[n] = NoReq
            /\ rowReq' = [rowReq EXCEPT ![n] = r] /\ rowState' = [rowState EXCEPT ![n] = "queued"]
            /\ copies' = copies
      BY <1>2, <2>1, NewRow
    <3>2. OfLane(w, n)'
      BY <1>2, <3>1 DEF OfLane, RowTab, TypeOK, RowsOK
    <3> QED
      BY <1>2, <3>1, <3>2 DEF TypeOK, RowsOK
  <2>2. CASE UNCHANGED <<rowReq, rowState, copies>>
    BY <2>2
  <2> QED
    BY <2>1, <2>2 DEF InputSteps, InputReplays, InputRefused, InputReads, InputWritesPty,
         InputPtyFails, InputMarksInterrupted, InputMarksWorking, InputSaves, rowVars, paneVars
<1> QED
  BY <1>3, <1>4, <1>5, <1>6, <1>7 DEF KeptElsewhere, LaneOnly

LEMMA DrainKept ==
  ASSUME SInv, NEW w \in Workspaces, DrainSteps(w) \/ DrainFails(w)
  PROVE  KeptElsewhere(w)
<1> USE DEF DrainUnchanged
<1>1. PICK label : At(w, "drain", label)
  BY DEF DrainSteps, DrainResolves, DrainClaims, DrainRechecks, DrainDelivers, DrainMarks,
         DrainSettles, DrainFails
<1>2. IInv /\ TypeOK /\ up /\ Drained(w) \in Tabs /\ Home[Drained(w)] = w
  BY <1>1, TaskHome DEF SInv, IInv, Tabbed
<1>3. claimed[w] # 0 => OfLane(w, claimed[w]) /\ RowTab(claimed[w]) = Drained(w)
  BY <1>2, Holding
<1>4. ASSUME DrainRechecks(w) \/ DrainDelivers(w) \/ DrainMarks(w) \/ DrainSettles(w) \/ DrainFails(w)
      PROVE  claimed[w] # 0
  BY <1>4 DEF DrainRechecks, DrainDelivers, DrainMarks, DrainSettles, DrainFails, At, ClaimLabels,
              SInv, IInv, LaneInv, ClaimsHeld
<1>5. /\ UNCHANGED <<rowReq, wsStatus, native, up, crashes, receipt, direct, client>>
      /\ mishaps' = mishaps \/ mishaps' = mishaps + 1
  BY DEF DrainSteps, DrainResolves, DrainClaims, DrainRechecks, DrainDelivers, DrainMarks,
         DrainSettles, DrainFails, clientVars
<1>6. LaneOnly(w)
  <2>1. Finish(w) \/ \E l : Goto(w, l)
    BY DEF DrainSteps, DrainResolves, DrainClaims, DrainRechecks, DrainDelivers, DrainMarks,
           DrainSettles, DrainFails, Release
  <2>2. UNCHANGED claimed \/ \E i : claimed' = [claimed EXCEPT ![w] = i]
    BY DEF DrainSteps, DrainResolves, DrainClaims, DrainRechecks, DrainDelivers, DrainMarks,
           DrainSettles, DrainFails, Release
  <2> QED
    BY <1>2, <2>1, <2>2, ClaimedSame, LaneOnlyFinish, LaneOnlyGoto
<1>7. \A s \in Tabs : Home[s] # w => tabStatus'[s] = tabStatus[s] /\ spent'[s] = spent[s]
  BY <1>2, <1>3, <1>4 DEF DrainSteps, DrainResolves, DrainClaims, DrainRechecks, DrainDelivers,
         DrainMarks, DrainSettles, DrainFails, WriteStatus, TypeOK, TabsOK
<1>8. \A i \in RowIds : ~OfLane(w, i) => rowState'[i] = rowState[i] /\ copies'[i] = copies[i]
  <2>1. CASE DrainClaims(w)
    <3>1. \A i \in RowIds : Oldest(Drained(w), i) => OfLane(w, i)
      BY <1>2 DEF Oldest, RowsIn, OfLane
    <3> QED
      BY <1>2, <2>1, <3>1 DEF DrainClaims, Drained, TypeOK, RowsOK
  <2>2. CASE DrainResolves(w)
    BY <2>2 DEF DrainResolves
  <2>3. CASE DrainRechecks(w) \/ DrainDelivers(w) \/ DrainMarks(w) \/ DrainSettles(w) \/ DrainFails(w)
    BY <1>2, <1>3, <1>4, <2>3 DEF DrainRechecks, DrainDelivers, DrainMarks, DrainSettles, DrainFails,
         Release, TypeOK, RowsOK
  <2> QED
    BY <2>1, <2>2, <2>3 DEF DrainSteps
<1> QED
  BY <1>5, <1>6, <1>7, <1>8 DEF KeptElsewhere, LaneOnly

LEMMA HookKept ==
  ASSUME SInv, NEW w \in Workspaces, HookRuns(w)
  PROVE  KeptElsewhere(w)
<1>1. IInv /\ TypeOK /\ up /\ Drained(w) \in Tabs /\ Home[Drained(w)] = w
  BY TaskHome DEF HookRuns, SInv, IInv, Tabbed
<1>2. /\ UNCHANGED <<rowReq, rowState, copies, wsStatus, native, up, crashes, mishaps, receipt, direct,
                     client, claimed>>
  BY DEF HookRuns, rowVars, paneVars, budgetVars, clientVars
<1>3. \A v \in Workspaces : v # w => lane'[v] = lane[v] /\ pc'[v] = pc[v]
  BY <1>1 DEF HookRuns, Finish, TypeOK, LanesOK
<1>4. \A s \in Tabs : Home[s] # w => tabStatus'[s] = tabStatus[s] /\ spent'[s] = spent[s]
  BY <1>1 DEF HookRuns, WriteStatus, Drained, TypeOK, TabsOK
<1> QED
  BY <1>2, <1>3, <1>4 DEF KeptElsewhere

LEMMA DropElsewhere ==
  ASSUME TypeOK, NEW w \in Workspaces, NEW ts, \A t \in ts : Home[t] = w, DropRows(ts)
  PROVE  \A i \in RowIds : ~OfLane(w, i) => rowState'[i] = rowState[i]
  BY DEF DropRows, OfLane, Live, TypeOK, RowsOK

LEMMA OutcomeElsewhere ==
  ASSUME TypeOK, NEW w \in Workspaces, NEW outcome \in ArchiveOutcomes, ArchiveOutcome(w, outcome)
  PROVE  /\ \A v \in Workspaces : v # w => wsStatus'[v] = wsStatus[v]
         /\ \A t \in Tabs : Home[t] # w => tabStatus'[t] = tabStatus[t]
  BY DEF ArchiveOutcomes, ArchiveOutcome, Restart, OpenTabs, TypeOK, TabsOK

LEMMA ChoreKept ==
  ASSUME SInv, NEW w \in Workspaces, ChoreSteps(w)
  PROVE  KeptElsewhere(w)
<1> USE DEF ChoreUnchanged
<1>1. IInv /\ TypeOK /\ up
  BY DEF SInv, IInv, ChoreSteps, ChoreRefused, Withdraw, CloseTab, SwitchEngine, Resume, ArchiveBegins,
         ArchiveEnds, Unarchive, DeleteBegins, DeleteEnds, At
<1>2. UNCHANGED <<rowReq, copies, up, crashes, mishaps, receipt, direct, client, claimed, spent>>
  BY DEF ChoreSteps, ChoreRefused, Withdraw, CloseTab, SwitchEngine, Resume, ArchiveBegins,
         ArchiveEnds, Unarchive, DeleteBegins, DeleteEnds, clientVars, paneVars, budgetVars
<1>3. LaneOnly(w)
  <2>1. Finish(w) \/ \E l : Goto(w, l)
    BY DEF ChoreSteps, ChoreRefused, Withdraw, CloseTab, SwitchEngine, Resume, ArchiveBegins,
         ArchiveEnds, Unarchive, DeleteBegins, DeleteEnds
  <2> QED
    BY <1>1, <1>2, <2>1, ClaimedSame, LaneOnlyFinish, LaneOnlyGoto
<1>4. \A v \in Workspaces : v # w => wsStatus'[v] = wsStatus[v]
  <2>1. CASE ArchiveEnds(w)
    BY <1>1, <2>1, OutcomeElsewhere DEF ArchiveEnds
  <2> QED
    BY <1>1, <2>1 DEF ChoreSteps, ChoreRefused, Withdraw, CloseTab, SwitchEngine, Resume, ArchiveBegins,
         Unarchive, DeleteBegins, DeleteEnds, TypeOK, TabsOK
<1>5. \A t \in Tabs : Home[t] # w => tabStatus'[t] = tabStatus[t] /\ native'[t] = native[t]
  <2>1. CASE ArchiveEnds(w)
    BY <1>1, <2>1, OutcomeElsewhere DEF ArchiveEnds
  <2>2. CASE SwitchEngine(w) \/ Resume(w)
    <3>1. Home[Drained(w)] = w
      BY <2>2, TaskHome DEF SwitchEngine, Resume, Tabbed
    <3> QED
      BY <1>1, <2>2, <3>1 DEF SwitchEngine, Resume, Restart, Drained, TypeOK, TabsOK
  <2>3. CASE CloseTab(w)
    BY <1>1, <2>3 DEF CloseTab, RemoveTab, OpenTabs, TypeOK, TabsOK
  <2>4. CASE Unarchive(w)
    BY <1>1, <2>4 DEF Unarchive, Restart, OpenTabs, TabsOf, TypeOK, TabsOK
  <2>5. CASE DeleteBegins(w)
    BY <1>1, <2>5 DEF DeleteBegins, OpenTabs, TabsOf, TypeOK, TabsOK
  <2> QED
    BY <2>1, <2>2, <2>3, <2>4, <2>5 DEF ChoreSteps, ChoreRefused, Withdraw, ArchiveBegins, DeleteEnds
<1>6. \A i \in RowIds : ~OfLane(w, i) => rowState'[i] = rowState[i]
  <2>1. CASE CloseTab(w)
    <3>1. PICK t : Home[t] = w /\ DropRows({t})
      BY <2>1 DEF CloseTab, RemoveTab, OpenTabs
    <3> QED
      BY <1>1, <3>1, DropElsewhere
  <2>2. CASE DeleteEnds(w)
    BY <1>1, <2>2, DropElsewhere DEF DeleteEnds, TabsOf
  <2>3. CASE Withdraw(w)
    <3>1. Head(lane[w]).row \in RowIds /\ OfLane(w, Head(lane[w]).row)
      BY <2>3, TaskHome DEF Withdraw
    <3> QED
      BY <1>1, <2>3, <3>1 DEF Withdraw, TypeOK, RowsOK
  <2> QED
    BY <2>1, <2>2, <2>3 DEF ChoreSteps, ChoreRefused, SwitchEngine, Resume, ArchiveBegins,
         ArchiveEnds, Unarchive, DeleteBegins
<1> QED
  BY <1>2, <1>3, <1>4, <1>5, <1>6 DEF KeptElsewhere, LaneOnly

-----------------------------------------------------------------------------
(* The work of the lane itself: what has to be shown of a step, part by part. *)

LEMMA ExcusesGrow ==
  ASSUME IInv, NEW w \in Workspaces, KeptElsewhere(w)
  PROVE  Excuses \in Nat /\ (Excuses' = Excuses \/ Excuses' = Excuses + 1)
<1>1. crashes \in Nat /\ mishaps \in Nat
  BY DEF IInv, TypeOK, ClientsOK
<1>2. crashes' = crashes /\ (mishaps' = mishaps \/ mishaps' = mishaps + 1)
  BY DEF KeptElsewhere
<1> QED
  BY <1>1, <1>2 DEF Excuses

LEMMA LaneEnds ==
  ASSUME SInv, IInv', NEW w \in Workspaces, KeptElsewhere(w), lane[w] # <<>>, Finish(w)
  PROVE  LaneOK(w)'
<1>1. TypeOK /\ TypeOK' /\ SentHome(w) /\ lane[w] \in Seq(Tasks)
  BY DEF SInv, IInv, Work, LaneOK, TypeOK, LanesOK
<1>2. lane'[w] = Tail(lane[w]) /\ pc'[w] = "start"
  BY <1>1 DEF Finish, TypeOK, LanesOK
<1>3. \A k \in DOMAIN lane'[w] : \E m \in DOMAIN lane[w] : lane'[w][k] = lane[w][m]
  BY <1>1, <1>2, TailElements
<1>4. SentHome(w)'
  BY <1>1, <1>3, SentStays DEF KeptElsewhere, RowsStay
<1> QED
  BY <1>2, <1>4 DEF LaneOK, DrainLabels, InputLabels, ClaimLabels

\* A task that goes on: its lane and its head stay.
LEMMA LaneGoes ==
  ASSUME SInv, IInv', NEW w \in Workspaces, KeptElsewhere(w), NEW label, Goto(w, label)
  PROVE  /\ lane'[w] = lane[w] /\ pc'[w] = label /\ SentHome(w)'
         /\ Req(w)' = Req(w) /\ Drained(w)' = Drained(w)
<1>1. TypeOK /\ TypeOK' /\ SentHome(w)
  BY DEF SInv, IInv, Work, LaneOK
<1>2. lane' = lane /\ pc'[w] = label
  BY <1>1 DEF Goto, TypeOK, LanesOK
<1>3. SentHome(w)'
  BY <1>1, <1>2, SentStays DEF KeptElsewhere, RowsStay
<1> QED
  BY <1>2, <1>3 DEF Req, Drained

\* No row of a closed tab is left behind.
RowShut(w, i) ==
  rowState[i] \in Live /\ tabStatus[RowTab(i)] = "closed" => wsStatus[w] # "deleted" /\ OpenTabs(w) = {}

\* Rows that only leave the queue, and for a reason.
LEMMA RowsLeave ==
  ASSUME SInv, IInv', NEW w \in Workspaces, UNCHANGED <<rowReq, copies>>,
         Excuses' = Excuses \/ Excuses' = Excuses + 1,
         \A i \in RowIds : OfLane(w, i) =>
           /\ rowState'[i] \in Live => rowState[i] \in Live
           /\ rowState'[i] = "delivered" => rowState[i] = "delivered" \/ copies[i] > 0
           /\ rowState'[i] \in Live /\ Pasted(w, i) => Pasted(w, i)' \/ copies[i] <= Excuses'
           /\ RowShut(w, i)'
  PROVE  \A i \in RowIds : OfLane(w, i)' => RowOK(w, i)'
<1> SUFFICES ASSUME NEW i \in RowIds, OfLane(w, i)' PROVE RowOK(w, i)'
  OBVIOUS
<1>1. TypeOK /\ TypeOK' /\ IInv
  BY DEF SInv, IInv
<1>2. OfLane(w, i) /\ RowTab(i)' = RowTab(i)
  BY <1>1 DEF OfLane, RowTab, TypeOK, RowsOK
<1>3. RowOK(w, i)
  BY <1>2 DEF SInv, Work
<1>4. copies[i] \in Nat /\ Excuses \in Nat /\ (Excuses' = Excuses \/ Excuses' = Excuses + 1)
  BY <1>1, Numbers
<1>5. rowState'[i] = "delivered" => copies'[i] > 0
  BY <1>2, <1>3 DEF RowOK
<1>6. copies'[i] <= 1 + Excuses'
  BY <1>3, <1>4 DEF RowOK
<1>7. rowState'[i] \in Live => Pasted(w, i)' \/ copies'[i] <= Excuses'
  BY <1>2, <1>3, <1>4 DEF RowOK
<1>8. copies'[i] > 0 => \A j \in RowIds : j < i /\ rowState'[j] \in Live => RowTab(j)' # RowTab(i)'
  <2> SUFFICES ASSUME copies[i] > 0, NEW j \in RowIds, j < i, rowState'[j] \in Live, RowTab(j)' = RowTab(i)'
               PROVE  FALSE
    OBVIOUS
  <2>1. RowTab(j) = RowTab(i) /\ OfLane(w, j)'
    BY <1>2 DEF OfLane, Live, RowTab
  <2>2. OfLane(w, j)
    BY <1>1, <2>1 DEF OfLane, RowTab, TypeOK, RowsOK
  <2> QED
    BY <1>3, <2>1, <2>2 DEF RowOK
<1> QED
  BY <1>2, <1>5, <1>6, <1>7, <1>8 DEF RowOK, RowShut

LEMMA RowsKeep ==
  ASSUME SInv, IInv', NEW w \in Workspaces, KeptElsewhere(w), UNCHANGED <<rowReq, copies>>,
         \A i \in RowIds : OfLane(w, i) =>
           /\ rowState'[i] \in Live => rowState[i] \in Live
           /\ rowState'[i] = "delivered" => rowState[i] = "delivered" \/ copies[i] > 0
           /\ rowState'[i] \in Live /\ Pasted(w, i) => Pasted(w, i)' \/ copies[i] <= Excuses'
           /\ RowShut(w, i)'
  PROVE  \A i \in RowIds : OfLane(w, i)' => RowOK(w, i)'
  BY ExcusesGrow, RowsLeave DEF SInv

\* No tab is closed or opened, so no row is left behind.
LEMMA ShutSame ==
  ASSUME SInv, IInv', NEW w \in Workspaces, UNCHANGED rowReq,
         \A t \in Tabs : Home[t] = w => (tabStatus'[t] = "closed" <=> tabStatus[t] = "closed"),
         wsStatus'[w] = "deleted" => wsStatus[w] = "deleted",
         NEW i \in RowIds, OfLane(w, i), rowState'[i] \in Live => rowState[i] \in Live
  PROVE  RowShut(w, i)'
<1>1. TypeOK /\ RowOK(w, i)
  BY DEF SInv, IInv, Work
<1>2. RowTab(i) \in Tabs /\ Home[RowTab(i)] = w /\ RowTab(i)' = RowTab(i)
  BY <1>1, RowUsed DEF OfLane, RowTab
<1>3. OpenTabs(w)' = OpenTabs(w)
  BY DEF OpenTabs
<1> QED
  BY <1>1, <1>2, <1>3 DEF RowShut, RowOK

\* A turn is started in a tab by the step that says so.
LEMMA TabsKeep ==
  ASSUME SInv, NEW w \in Workspaces, KeptElsewhere(w),
         \A t \in Tabs : Home[t] = w /\ tabStatus'[t] = "awaiting-input" /\ spent'[t] =>
           /\ tabStatus[t] = "awaiting-input" /\ spent[t]
           /\ ~(pc[w] = "mark" /\ Drained(w) = t)
           /\ ~(pc[w] = "composer" /\ Target[Req(w)] = t)
  PROVE  \A t \in Tabs : Home[t] = w => TabOK(w, t)'
<1> SUFFICES ASSUME NEW t \in Tabs, Home[t] = w PROVE TabOK(w, t)'
  OBVIOUS
<1>1. TabOK(w, t) /\ up' = up
  BY DEF SInv, Work, KeptElsewhere
<1> QED
  BY <1>1 DEF TabOK

\* A request whose rows and pastes stay as many as they are.
LEMMA RequestsStay ==
  ASSUME SInv, IInv', NEW w \in Workspaces, UNCHANGED <<rowReq, direct>>,
         Excuses' = Excuses \/ Excuses' = Excuses + 1,
         \A r \in Requests : Home[Target[r]] = w =>
           /\ "queued" \in {client'[r], receipt'[r]} =>
                "queued" \in {client[r], receipt[r]} \/ RowsOf(r) # {}
           /\ receipt'[r] = "none" => receipt[r] = "none" /\ (Done(w, r) => Done(w, r)' \/ Excuses' = Excuses + 1)
  PROVE  \A r \in Requests : Home[Target[r]] = w => ReqOK(w, r)'
<1> SUFFICES ASSUME NEW r \in Requests, Home[Target[r]] = w PROVE ReqOK(w, r)'
  OBVIOUS
<1>1. ReqOK(w, r) /\ IInv /\ TypeOK
  BY DEF SInv, IInv, Work
<1>2. RowsOf(r)' = RowsOf(r) /\ Effects(r)' = Effects(r)
  BY DEF RowsOf, Effects
<1>3. Effects(r) \in Nat /\ Excuses \in Nat /\ (Excuses' = Excuses \/ Excuses' = Excuses + 1)
  BY <1>1, Numbers
<1> QED
  BY <1>1, <1>2, <1>3 DEF ReqOK

LEMMA RequestsKeep ==
  ASSUME SInv, IInv', NEW w \in Workspaces, KeptElsewhere(w), UNCHANGED <<rowReq, direct>>,
         \A r \in Requests : Home[Target[r]] = w =>
           /\ "queued" \in {client'[r], receipt'[r]} =>
                "queued" \in {client[r], receipt[r]} \/ RowsOf(r) # {}
           /\ receipt'[r] = "none" => receipt[r] = "none" /\ (Done(w, r) => Done(w, r)')
  PROVE  \A r \in Requests : Home[Target[r]] = w => ReqOK(w, r)'
  BY ExcusesGrow, RequestsStay DEF SInv

\* Rows that stay as they are, in tabs that stay as open as they are.
LEMMA RowsQuiet ==
  ASSUME SInv, IInv', NEW w \in Workspaces, KeptElsewhere(w), UNCHANGED <<rowReq, rowState, copies>>,
         \A t \in Tabs : Home[t] = w => (tabStatus'[t] = "closed" <=> tabStatus[t] = "closed"),
         wsStatus'[w] = "deleted" => wsStatus[w] = "deleted",
         \A i \in RowIds : Pasted(w, i) => Pasted(w, i)'
  PROVE  \A i \in RowIds : OfLane(w, i)' => RowOK(w, i)'
<1>1. \A i \in RowIds : OfLane(w, i) => RowShut(w, i)'
  BY ShutSame
<1> QED
  BY <1>1, RowsKeep

\* A task that is no drain holds no row.
LEMMA NothingPasted ==
  ASSUME IInv, NEW w \in Workspaces, NEW kind, NEW label, At(w, kind, label),
         kind # "drain" \/ label \notin ClaimLabels, NEW i \in RowIds
  PROVE  ~Pasted(w, i)
  BY HeldOnlyByDrain DEF Pasted, RowIds

LEMMA InputEndsWork ==
  ASSUME SInv, IInv', NEW w \in Workspaces, KeptElsewhere(w), InputReplays(w) \/ InputRefused(w)
  PROVE  Work(w)'
<1>1. /\ At(w, "input", "start") /\ lane[w] # <<>> /\ pc[w] = "start" /\ Finish(w)
      /\ Req(w) \in Requests /\ IInv /\ TypeOK
  BY TaskHome DEF InputReplays, InputRefused, SInv, IInv
<1>2. UNCHANGED <<rowReq, rowState, copies, tabStatus, wsStatus, spent, receipt, direct>>
  BY DEF InputReplays, InputRefused, rowVars, tabVars, paneVars
<1>3. LaneOK(w)'
  BY <1>1, LaneEnds
<1>4. \A i \in RowIds : OfLane(w, i)' => RowOK(w, i)'
  BY <1>1, <1>2, NothingPasted, RowsQuiet
<1>5. \A t \in Tabs : Home[t] = w => TabOK(w, t)'
  BY <1>1, <1>2, TabsKeep DEF SInv, Work, TabOK
<1>6. \A r \in Requests : client'[r] = "queued" => "queued" \in {client[r], receipt[r]}
  BY <1>1 DEF InputReplays, InputRefused, Answer, Req, TypeOK, ClientsOK
<1>7. \A r \in Requests : ~Done(w, r)
  BY <1>1 DEF Done, DoneLabels
<1>8. \A r \in Requests : Home[Target[r]] = w => ReqOK(w, r)'
  BY <1>2, <1>6, <1>7, RequestsKeep
<1> QED
  BY <1>3, <1>4, <1>5, <1>8 DEF Work

LEMMA InputReadsWork ==
  ASSUME SInv, IInv', NEW w \in Workspaces, KeptElsewhere(w), InputReads(w)
  PROVE  Work(w)'
<1> DEFINE r == Req(w)
           t == Target[r]
<1>1. /\ At(w, "input", "start") /\ up /\ lane[w] # <<>> /\ pc[w] = "start" /\ Head(lane[w]).kind = "input"
      /\ r \in Requests /\ t \in Tabs /\ Home[t] = w /\ IInv /\ TypeOK
  BY TaskHome DEF InputReads, SInv, IInv
<1>2. UNCHANGED <<rowReq, rowState, copies, tabStatus, wsStatus, native, spent, receipt, direct, client>>
  BY DEF InputReads, rowVars, tabVars, paneVars, clientVars
<1>3. PICK label \in {"enqueue", "pty"} : Goto(w, label) /\ (label = "pty" => ~ShouldQueue(r))
  BY DEF InputReads, Req
<1>4. /\ lane'[w] = lane[w] /\ pc'[w] = label /\ SentHome(w)'
      /\ Req(w)' = r /\ Drained(w)' = Drained(w)
  BY <1>3, LaneGoes
<1>5. receipt[r] = "none" /\ Usable(t) /\ (Usable(t)' <=> Usable(t))
  BY <1>2, <1>4 DEF InputReads, Req, Usable, Active
<1>6. label = "pty" /\ Mode[r] = "send" /\ ~native[t] => RowsIn(t, Live) = {}
  <2> SUFFICES ASSUME label = "pty", Mode[r] = "send", ~native[t], NEW i \in RowsIn(t, Live)
               PROVE  FALSE
    OBVIOUS
  <2>1. RowsIn(t, {"queued"}) = {}
    BY <1>3 DEF ShouldQueue
  <2>2. i \in RowIds /\ OfLane(w, i) /\ rowState[i] = "inflight"
    BY <1>1, <2>1 DEF RowsIn, Live, OfLane
  <2>3. claimed[w] = 0
    BY <1>1, HeldOnlyByDrain
  <2> QED
    BY <1>1, <2>2, <2>3, NoneHeld
<1>7. RowsIn(t, Live)' = RowsIn(t, Live)
  BY <1>2, <1>4 DEF RowsIn, RowTab
<1>8. LaneOK(w)'
  BY <1>1, <1>2, <1>3, <1>4, <1>5, <1>6, <1>7 DEF LaneOK, DrainLabels, InputLabels, ClaimLabels
<1>9. \A i \in RowIds : OfLane(w, i)' => RowOK(w, i)'
  BY <1>1, <1>2, NothingPasted, RowsQuiet
<1>10. \A s \in Tabs : Home[s] = w => TabOK(w, s)'
  BY <1>1, <1>2, TabsKeep DEF SInv, Work, TabOK
<1>11. \A q \in Requests : ~Done(w, q)
  BY <1>1 DEF Done, DoneLabels
<1>12. \A q \in Requests : Home[Target[q]] = w => ReqOK(w, q)'
  BY <1>2, <1>11, RequestsKeep
<1> QED
  BY <1>8, <1>9, <1>10, <1>12 DEF Work

LEMMA InputEnqueuesWork ==
  ASSUME SInv, IInv', NEW w \in Workspaces, KeptElsewhere(w), InputEnqueues(w)
  PROVE  Work(w)'
<1>1. /\ At(w, "input", "enqueue") /\ up /\ lane[w] # <<>> /\ pc[w] = "enqueue"
      /\ Head(lane[w]).kind = "input" /\ Req(w) \in Requests /\ Target[Req(w)] \in Tabs
      /\ Home[Target[Req(w)]] = w /\ IInv /\ TypeOK /\ TypeOK'
  BY TaskHome DEF InputEnqueues, SInv, IInv
<1>2. UNCHANGED <<copies, tabStatus, wsStatus, spent, receipt, direct, client>>
  BY DEF InputEnqueues, tabVars, paneVars, clientVars
<1>3. PICK n \in RowIds :
        /\ n = lastRow + 1 /\ rowReq[n] = NoReq /\ rowState[n] = "unused"
        /\ rowReq' = [rowReq EXCEPT ![n] = Req(w)]
        /\ rowState' = [rowState EXCEPT ![n] = "queued"]
  BY <1>1, NewRow
<1>4. /\ lane'[w] = lane[w] /\ pc'[w] = "saveQueued" /\ SentHome(w)'
      /\ Req(w)' = Req(w) /\ Drained(w)' = Drained(w)
  BY LaneGoes DEF InputEnqueues
<1>5. /\ rowReq'[n] = Req(w) /\ rowState'[n] = "queued"
      /\ \A i \in RowIds : i # n => rowReq'[i] = rowReq[i] /\ rowState'[i] = rowState[i]
  BY <1>1, <1>3 DEF TypeOK, RowsOK
<1>6. LaneOK(w) /\ Usable(Target[Req(w)])
  BY <1>1 DEF SInv, Work, LaneOK, InputLabels
<1>7. LaneOK(w)'
  <2>1. Usable(Target[Req(w)])'
    BY <1>2, <1>4, <1>6 DEF Usable, Active
  <2> QED
    BY <1>1, <1>3, <1>4, <1>5, <2>1 DEF LaneOK, DrainLabels, InputLabels, ClaimLabels
<1>8. Excuses' \in Nat /\ Excuses \in Nat /\ (Excuses' = Excuses \/ Excuses' = Excuses + 1)
  BY <1>1, Numbers, ExcusesGrow
<1>9. ASSUME NEW i \in RowIds, OfLane(w, i)'
      PROVE  RowOK(w, i)'
  <2>1. CASE i = n
    <3>1. copies'[i] = 0
      BY <1>2, <1>3, <2>1 DEF SInv, UnusedClean
    <3>2. RowTab(i)' = Target[Req(w)] /\ tabStatus'[Target[Req(w)]] # "closed"
      BY <1>2, <1>5, <1>6, <2>1 DEF RowTab, Usable
    <3>3. copies'[i] <= 1 + Excuses' /\ copies'[i] <= Excuses' /\ ~(copies'[i] > 0)
      BY <1>8, <3>1
    <3>4. rowState'[i] # "delivered" /\ tabStatus'[RowTab(i)'] # "closed"
      BY <1>5, <2>1, <3>2
    <3> QED
      BY <3>3, <3>4 DEF RowOK
  <2>2. CASE i # n
    <3>1. rowReq'[i] = rowReq[i] /\ rowState'[i] = rowState[i] /\ RowTab(i)' = RowTab(i)
      BY <1>5, <2>2 DEF RowTab
    <3>2. OfLane(w, i) /\ RowOK(w, i)
      BY <1>9, <3>1 DEF OfLane, SInv, Work
    <3>3. i < n
      BY <1>1, <1>3, <3>2 DEF OfLane, TypeOK, RowsOK, RowIds
    <3>4. copies[i] > 0 => \A j \in RowIds : j < i /\ rowState'[j] \in Live => RowTab(j)' # RowTab(i)
      <4> SUFFICES ASSUME copies[i] > 0, NEW j \in RowIds, j < i, rowState'[j] \in Live PROVE RowTab(j)' # RowTab(i)
        OBVIOUS
      <4>1. j # n
        BY <1>3, <3>3, Bounds DEF RowIds
      <4> QED
        BY <1>5, <3>2, <4>1 DEF RowOK, RowTab
    <3>5. OpenTabs(w)' = OpenTabs(w)
      BY <1>2 DEF OpenTabs
    <3>6. ~Pasted(w, i) /\ copies[i] \in Nat
      BY <1>1, NothingPasted, Numbers
    <3> QED
      BY <1>2, <1>8, <3>1, <3>2, <3>4, <3>5, <3>6 DEF RowOK
  <2> QED
    BY <2>1, <2>2
<1>10. \A t \in Tabs : Home[t] = w => TabOK(w, t)'
  BY <1>1, <1>2, TabsKeep DEF SInv, Work, TabOK
<1>11. ASSUME NEW r \in Requests, Home[Target[r]] = w
       PROVE  ReqOK(w, r)'
  <2>1. ReqOK(w, r) /\ ~Done(w, r)
    BY <1>1, <1>11 DEF SInv, Work, Done, DoneLabels
  <2>2. CASE r = Req(w)
    <3>1. RowsOf(r)' = RowsOf(r) \cup {n} /\ n \notin RowsOf(r)
      BY <1>3, <1>5, <2>2 DEF RowsOf
    <3>2. Cardinality(RowsOf(r)') = Cardinality(RowsOf(r)) + 1
      BY <3>1, RowsFinite, FS_AddElement
    <3>3. Effects(r)' = Effects(r) + 1 /\ Effects(r) \in Nat
      <4>1. Cardinality(RowsOf(r)) \in Nat /\ direct[r] \in Nat /\ direct'[r] = direct[r]
        BY <1>1, <1>2, RowsFinite, Numbers
      <4> QED
        BY <3>2, <4>1 DEF Effects
    <3>4. receipt[r] = "none"
      BY <1>1, <1>6, <2>2 DEF LaneOK
    <3>5. Done(w, r)'
      BY <1>4, <2>2 DEF Done, DoneLabels
    <3> QED
      BY <1>2, <1>8, <2>1, <3>1, <3>3, <3>4, <3>5 DEF ReqOK
  <2>3. CASE r # Req(w)
    <3>1. RowsOf(r)' = RowsOf(r)
      BY <1>3, <1>5, <2>3 DEF RowsOf
    <3>2. Effects(r)' = Effects(r) /\ Effects(r) \in Nat
      BY <1>1, <1>2, <3>1, Numbers DEF Effects
    <3> QED
      BY <1>2, <1>8, <2>1, <3>1, <3>2 DEF ReqOK
  <2> QED
    BY <2>2, <2>3
<1> QED
  BY <1>7, <1>9, <1>10, <1>11 DEF Work

\* A paste of the input route is one more effect of the request.
LEMMA PasteEffect ==
  ASSUME TypeOK, NEW r \in Requests, UNCHANGED rowReq, NEW n \in Nat, direct'[r] = direct[r] + n
  PROVE  RowsOf(r)' = RowsOf(r) /\ Effects(r)' = Effects(r) + n /\ Effects(r) \in Nat
<1>1. RowsOf(r)' = RowsOf(r)
  BY DEF RowsOf
<1>2. Cardinality(RowsOf(r)) \in Nat /\ direct[r] \in Nat
  BY RowsFinite, Numbers
<1> QED
  BY <1>1, <1>2 DEF Effects

LEMMA InputWritesPtyWork ==
  ASSUME SInv, IInv', NEW w \in Workspaces, KeptElsewhere(w), InputWritesPty(w)
  PROVE  Work(w)'
<1>1. /\ At(w, "input", "pty") /\ up /\ lane[w] # <<>> /\ pc[w] = "pty"
      /\ Head(lane[w]).kind = "input" /\ Req(w) \in Requests /\ Target[Req(w)] \in Tabs
      /\ Home[Target[Req(w)]] = w /\ IInv /\ TypeOK
  BY TaskHome DEF InputWritesPty, SInv, IInv
<1>2. UNCHANGED <<rowReq, rowState, copies, tabStatus, wsStatus, native, receipt, client>>
  BY DEF InputWritesPty, rowVars, tabVars, clientVars
<1>3. PICK label \in {"saveOk", "interrupted", "composer"} :
        /\ Goto(w, label)
        /\ StartsTurn(Req(w)) /\ ~native[Target[Req(w)]] => label = "composer"
  BY DEF InputWritesPty, AfterPty, StartsTurn, Req
<1>4. /\ lane'[w] = lane[w] /\ pc'[w] = label /\ SentHome(w)'
      /\ Req(w)' = Req(w) /\ Drained(w)' = Drained(w)
  BY <1>3, LaneGoes
<1>5. LaneOK(w)'
  <2>1. Usable(Target[Req(w)])
    BY <1>1 DEF SInv, Work, LaneOK, InputLabels
  <2>2. Usable(Target[Req(w)])'
    BY <1>2, <1>4, <2>1 DEF Usable, Active
  <2> QED
    BY <1>1, <1>3, <1>4, <2>2 DEF LaneOK, DrainLabels, InputLabels, ClaimLabels
<1>6. \A i \in RowIds : OfLane(w, i)' => RowOK(w, i)'
  BY <1>1, <1>2, NothingPasted, RowsQuiet
<1>7. ASSUME NEW t \in Tabs, Home[t] = w
      PROVE  TabOK(w, t)'
  <2>1. TabOK(w, t)
    BY <1>7 DEF SInv, Work
  <2>2. spent'[t] => spent[t] \/ (t = Target[Req(w)] /\ label = "composer")
    BY <1>1, <1>3 DEF InputWritesPty, Req, TypeOK, TabsOK
  <2> QED
    BY <1>1, <1>2, <1>4, <2>1, <2>2 DEF TabOK
<1>8. ASSUME NEW r \in Requests, Home[Target[r]] = w
      PROVE  ReqOK(w, r)'
  <2>1. ReqOK(w, r) /\ ~Done(w, r)
    BY <1>1, <1>8 DEF SInv, Work, Done, DoneLabels
  <2>2. Excuses \in Nat /\ (Excuses' = Excuses \/ Excuses' = Excuses + 1)
    BY <1>1, ExcusesGrow
  <2>3. CASE r = Req(w)
    <3>1. direct'[r] = direct[r] + 1
      BY <1>1, <2>3 DEF InputWritesPty, Req, TypeOK, ClientsOK
    <3>2. RowsOf(r)' = RowsOf(r) /\ Effects(r)' = Effects(r) + 1 /\ Effects(r) \in Nat
      BY <1>1, <1>2, <3>1, PasteEffect
    <3>3. receipt[r] = "none"
      BY <1>1, <2>3 DEF SInv, Work, LaneOK
    <3>4. Done(w, r)'
      BY <1>3, <1>4, <2>3 DEF Done, DoneLabels
    <3> QED
      BY <1>2, <2>1, <2>2, <3>2, <3>3, <3>4 DEF ReqOK
  <2>4. CASE r # Req(w)
    <3>1. direct'[r] = direct[r] + 0
      BY <1>1, <2>4, Numbers DEF InputWritesPty, Req, TypeOK, ClientsOK
    <3>2. RowsOf(r)' = RowsOf(r) /\ Effects(r)' = Effects(r) + 0 /\ Effects(r) \in Nat
      BY <1>1, <1>2, <3>1, PasteEffect
    <3> QED
      BY <1>2, <2>1, <2>2, <3>2 DEF ReqOK
  <2> QED
    BY <2>3, <2>4
<1> QED
  BY <1>5, <1>6, <1>7, <1>8 DEF Work

LEMMA InputPtyFailsWork ==
  ASSUME SInv, IInv', NEW w \in Workspaces, KeptElsewhere(w), InputPtyFails(w)
  PROVE  Work(w)'
<1>1. /\ At(w, "input", "pty") /\ up /\ lane[w] # <<>> /\ pc[w] = "pty"
      /\ Req(w) \in Requests /\ IInv /\ TypeOK /\ Finish(w)
  BY TaskHome DEF InputPtyFails, SInv, IInv
<1>2. UNCHANGED <<rowReq, rowState, copies, tabStatus, wsStatus, spent, receipt>>
  BY DEF InputPtyFails, rowVars, tabVars
<1>3. LaneOK(w)'
  BY <1>1, LaneEnds
<1>4. \A i \in RowIds : OfLane(w, i)' => RowOK(w, i)'
  BY <1>1, <1>2, NothingPasted, RowsQuiet
<1>5. \A t \in Tabs : Home[t] = w => TabOK(w, t)'
  BY <1>1, <1>2, TabsKeep DEF SInv, Work, TabOK
<1>6. Excuses \in Nat /\ Excuses' = Excuses + 1
  <2>1. crashes \in Nat /\ mishaps \in Nat
    BY <1>1 DEF TypeOK, ClientsOK
  <2>2. crashes' = crashes /\ mishaps' = mishaps + 1
    BY DEF InputPtyFails
  <2> QED
    BY <2>1, <2>2 DEF Excuses
<1>7. ASSUME NEW r \in Requests, Home[Target[r]] = w
      PROVE  ReqOK(w, r)'
  <2>1. ReqOK(w, r) /\ ~Done(w, r)
    BY <1>1, <1>7 DEF SInv, Work, Done, DoneLabels
  <2>2. client'[r] = "queued" => client[r] = "queued"
    BY <1>1 DEF InputPtyFails, Answer, Req, TypeOK, ClientsOK
  <2>3. PICK n \in {0, 1} : direct'[r] = direct[r] + n /\ (n = 1 => r = Req(w))
    BY <1>1, Numbers DEF InputPtyFails, Req, TypeOK, ClientsOK
  <2>4. RowsOf(r)' = RowsOf(r) /\ Effects(r)' = Effects(r) + n /\ Effects(r) \in Nat
    BY <1>1, <1>2, <2>3, PasteEffect
  <2>5. n = 1 => receipt[r] = "none"
    BY <1>1, <2>3 DEF SInv, Work, LaneOK
  <2>6. n = 1 => Effects(r) <= Excuses
    BY <2>1, <2>5 DEF ReqOK
  <2>7. Effects(r)' <= 1 + Excuses'
    BY <1>6, <2>1, <2>4, <2>6 DEF ReqOK
  <2>8. receipt[r] = "none" => Effects(r)' <= Excuses'
    BY <1>6, <2>1, <2>4 DEF ReqOK
  <2> QED
    BY <1>2, <2>1, <2>2, <2>4, <2>7, <2>8 DEF ReqOK
<1> QED
  BY <1>3, <1>4, <1>5, <1>7 DEF Work

LEMMA InputMarksWork ==
  ASSUME SInv, IInv', NEW w \in Workspaces, KeptElsewhere(w),
         InputMarksInterrupted(w) \/ InputMarksWorking(w)
  PROVE  Work(w)'
<1>1. PICK label \in {"interrupted", "composer"}, status \in {"awaiting-input", "working"} :
        /\ At(w, "input", label) /\ WriteStatus(Target[Req(w)], status)
        /\ label = "composer" => status = "working"
  BY DEF InputMarksInterrupted, InputMarksWorking, Req
<1>2. /\ up /\ lane[w] # <<>> /\ pc[w] = label /\ Head(lane[w]).kind = "input"
      /\ Req(w) \in Requests /\ Target[Req(w)] \in Tabs /\ Home[Target[Req(w)]] = w
      /\ IInv /\ TypeOK
  BY <1>1, TaskHome DEF SInv, IInv
<1>3. UNCHANGED <<rowReq, rowState, copies, wsStatus, receipt, direct, client>> /\ Goto(w, "saveOk")
  BY DEF InputMarksInterrupted, InputMarksWorking, rowVars, clientVars, paneVars
<1>4. /\ lane'[w] = lane[w] /\ pc'[w] = "saveOk" /\ SentHome(w)'
      /\ Req(w)' = Req(w) /\ Drained(w)' = Drained(w)
  BY <1>3, LaneGoes
<1>5. Usable(Target[Req(w)])
  BY <1>2 DEF SInv, Work, LaneOK, InputLabels
<1>6. /\ tabStatus'[Target[Req(w)]] = status
      /\ spent'[Target[Req(w)]] => spent[Target[Req(w)]] /\ ~IsEdge(Target[Req(w)], status)
      /\ \A t \in Tabs : t # Target[Req(w)] => tabStatus'[t] = tabStatus[t] /\ spent'[t] = spent[t]
  BY <1>1, <1>2 DEF WriteStatus, TypeOK, TabsOK
<1>7. LaneOK(w)'
  <2>1. Usable(Target[Req(w)])'
    BY <1>3, <1>4, <1>5, <1>6 DEF Usable, Active
  <2> QED
    BY <1>2, <1>4, <2>1 DEF LaneOK, DrainLabels, InputLabels, ClaimLabels
<1>8. \A t \in Tabs : tabStatus'[t] = "closed" <=> tabStatus[t] = "closed"
  BY <1>5, <1>6 DEF Usable
<1>9. \A i \in RowIds : OfLane(w, i)' => RowOK(w, i)'
  BY <1>1, <1>2, <1>3, <1>8, NothingPasted, RowsQuiet
<1>10. ASSUME NEW t \in Tabs, Home[t] = w
       PROVE  TabOK(w, t)'
  <2>1. TabOK(w, t)
    BY <1>10 DEF SInv, Work
  <2>2. CASE t = Target[Req(w)]
    <3>1. SUFFICES ASSUME status = "awaiting-input", spent[t], tabStatus[t] = "awaiting-input" PROVE FALSE
      BY <1>6, <2>2 DEF TabOK, IsEdge
    <3> QED
      BY <1>1, <1>2, <2>1, <3>1 DEF TabOK
  <2>3. CASE t # Target[Req(w)]
    BY <1>2, <1>6, <2>1, <2>3 DEF TabOK
  <2> QED
    BY <2>2, <2>3
<1>11. \A r \in Requests : Done(w, r) => Done(w, r)'
  BY <1>4 DEF Done, DoneLabels
<1>12. \A r \in Requests : Home[Target[r]] = w => ReqOK(w, r)'
  BY <1>3, <1>11, RequestsKeep
<1> QED
  BY <1>7, <1>9, <1>10, <1>12 DEF Work

LEMMA InputSavesWork ==
  ASSUME SInv, IInv', NEW w \in Workspaces, KeptElsewhere(w), InputSaves(w)
  PROVE  Work(w)'
<1>1. PICK label \in {"saveQueued", "saveOk"}, answer \in {"queued", "ok"} :
        /\ At(w, "input", label) /\ (answer = "queued" => label = "saveQueued")
        /\ receipt' = [receipt EXCEPT ![Req(w)] = answer] /\ Answer(Req(w), answer)
  BY DEF InputSaves, Req
<1>2. /\ up /\ lane[w] # <<>> /\ pc[w] = label /\ Head(lane[w]).kind = "input"
      /\ Req(w) \in Requests /\ IInv /\ TypeOK
  BY <1>1, TaskHome DEF SInv, IInv
<1>3. UNCHANGED <<rowReq, rowState, copies, tabStatus, wsStatus, spent, direct>> /\ Finish(w)
  BY DEF InputSaves, rowVars, tabVars, paneVars
<1>4. LaneOK(w)'
  BY <1>2, <1>3, LaneEnds
<1>5. \A i \in RowIds : OfLane(w, i)' => RowOK(w, i)'
  BY <1>1, <1>2, <1>3, NothingPasted, RowsQuiet
<1>6. \A t \in Tabs : Home[t] = w => TabOK(w, t)'
  BY <1>2, <1>3, TabsKeep DEF SInv, Work, TabOK
<1>7. answer = "queued" => RowsOf(Req(w)) # {}
  BY <1>1, <1>2 DEF SInv, Work, LaneOK, RowsOf
<1>8. ASSUME NEW r \in Requests
      PROVE  /\ "queued" \in {client'[r], receipt'[r]} =>
                  "queued" \in {client[r], receipt[r]} \/ RowsOf(r) # {}
             /\ receipt'[r] = "none" => receipt[r] = "none" /\ ~Done(w, r)
  <2>1. CASE r = Req(w)
    <3>1. receipt'[r] = answer /\ (client'[r] = "queued" => client[r] = "queued" \/ answer = "queued")
      BY <1>1, <1>2, <2>1 DEF Answer, TypeOK, ClientsOK
    <3> QED
      BY <1>7, <2>1, <3>1
  <2>2. CASE r # Req(w)
    BY <1>1, <1>2, <2>2 DEF Answer, Done, TypeOK, ClientsOK
  <2> QED
    BY <2>1, <2>2
<1>9. \A r \in Requests : Home[Target[r]] = w => ReqOK(w, r)'
  BY <1>3, <1>8, RequestsKeep
<1> QED
  BY <1>4, <1>5, <1>6, <1>9 DEF Work

LEMMA InputWork ==
  ASSUME SInv, IInv', NEW w \in Workspaces, KeptElsewhere(w), InputSteps(w) \/ InputPtyFails(w)
  PROVE  Work(w)'
  BY InputEndsWork, InputReadsWork, InputEnqueuesWork, InputWritesPtyWork, InputPtyFailsWork,
     InputMarksWork, InputSavesWork DEF InputSteps

-----------------------------------------------------------------------------
(* The drain. *)

\* What a running drain knows.
LEMMA DrainHead ==
  ASSUME SInv, NEW w \in Workspaces, NEW label, At(w, "drain", label)
  PROVE  /\ up /\ lane[w] # <<>> /\ Head(lane[w]).kind = "drain" /\ pc[w] = label
         /\ Drained(w) \in Tabs /\ Home[Drained(w)] = w /\ IInv /\ TypeOK /\ LaneOK(w)
         /\ label # "start" => Usable(Drained(w)) \/ label \notin DrainLabels
         /\ label \in ClaimLabels =>
              /\ claimed[w] \in RowIds /\ claimed[w] # 0 /\ RowTab(claimed[w]) = Drained(w)
              /\ OfLane(w, claimed[w]) /\ rowState[claimed[w]] = "inflight"
              /\ RowOK(w, claimed[w])
<1>1. /\ up /\ lane[w] # <<>> /\ Head(lane[w]).kind = "drain" /\ pc[w] = label
      /\ Drained(w) \in Tabs /\ Home[Drained(w)] = w /\ IInv /\ TypeOK /\ LaneOK(w)
  BY TaskHome DEF SInv, IInv, Tabbed, Work
<1>2. label \in ClaimLabels => claimed[w] # 0
  BY <1>1 DEF IInv, LaneInv, ClaimsHeld
<1> QED
  BY <1>1, <1>2, Holding DEF LaneOK, SInv, Work

LEMMA DrainRequests ==
  ASSUME SInv, IInv', NEW w \in Workspaces, KeptElsewhere(w), DrainSteps(w) \/ DrainFails(w)
  PROVE  \A r \in Requests : Home[Target[r]] = w => ReqOK(w, r)'
<1>1. PICK label \in DrainLabels \cup {"start"} : At(w, "drain", label)
  BY DEF DrainSteps, DrainResolves, DrainClaims, DrainRechecks, DrainDelivers, DrainMarks,
         DrainSettles, DrainFails, DrainLabels
<1>2. \A r \in Requests : ~Done(w, r)
  BY <1>1 DEF At, Done, DoneLabels, DrainLabels
<1>3. UNCHANGED <<rowReq, receipt, direct, client>>
  BY DEF DrainSteps, DrainResolves, DrainClaims, DrainRechecks, DrainDelivers, DrainMarks,
         DrainSettles, DrainFails, DrainUnchanged, clientVars
<1> QED
  BY <1>2, <1>3, RequestsKeep

\* The steps of a drain that write no status and start no turn.
LEMMA DrainTabs ==
  ASSUME SInv, NEW w \in Workspaces, KeptElsewhere(w), NEW label, At(w, "drain", label), label # "mark",
         UNCHANGED <<tabStatus, spent>>
  PROVE  \A t \in Tabs : Home[t] = w => TabOK(w, t)'
<1>1. pc[w] # "mark" /\ pc[w] # "composer"
  BY DrainHead DEF LaneOK, InputLabels
<1> QED
  BY <1>1, TabsKeep DEF SInv, Work, TabOK

LEMMA DrainResolvesWork ==
  ASSUME SInv, IInv', NEW w \in Workspaces, KeptElsewhere(w), DrainResolves(w)
  PROVE  Work(w)'
<1>1. /\ At(w, "drain", "start") /\ lane[w] # <<>> /\ Head(lane[w]).kind = "drain" /\ pc[w] = "start"
      /\ IInv /\ TypeOK
  BY DrainHead DEF DrainResolves
<1>2. UNCHANGED <<rowReq, rowState, copies, tabStatus, wsStatus, spent>>
  BY DEF DrainResolves, DrainUnchanged
<1>3. LaneOK(w)'
  <2>1. CASE Ready(Drained(w)) /\ Goto(w, "claim")
    <3>1. lane'[w] = lane[w] /\ pc'[w] = "claim" /\ SentHome(w)' /\ Drained(w)' = Drained(w)
      BY <2>1, LaneGoes
    <3>2. Usable(Drained(w))'
      BY <1>2, <2>1, <3>1 DEF Ready, Usable, Active
    <3> QED
      BY <1>1, <3>1, <3>2 DEF LaneOK, DrainLabels, InputLabels, ClaimLabels
  <2>2. CASE Finish(w)
    BY <1>1, <2>2, LaneEnds
  <2> QED
    BY <2>1, <2>2 DEF DrainResolves, Drained
<1>4. \A i \in RowIds : ~Pasted(w, i)
  BY <1>1 DEF Pasted
<1>5. \A i \in RowIds : OfLane(w, i)' => RowOK(w, i)'
  BY <1>2, <1>4, RowsQuiet
<1> QED
  BY <1>1, <1>2, <1>3, <1>5, DrainTabs, DrainRequests DEF Work, DrainSteps

LEMMA DrainClaimsWork ==
  ASSUME SInv, IInv', NEW w \in Workspaces, KeptElsewhere(w), DrainClaims(w)
  PROVE  Work(w)'
<1>1. /\ At(w, "drain", "claim") /\ up /\ lane[w] # <<>> /\ Head(lane[w]).kind = "drain" /\ pc[w] = "claim"
      /\ Drained(w) \in Tabs /\ Home[Drained(w)] = w /\ IInv /\ TypeOK /\ Usable(Drained(w))
  BY DrainHead DEF DrainClaims, DrainLabels
<1>2. UNCHANGED <<rowReq, copies, tabStatus, wsStatus, spent>>
  BY DEF DrainClaims, DrainUnchanged
<1>3. claimed[w] = 0
  BY <1>1, HeldOnlyByDrain DEF ClaimLabels
<1>4. CASE Finish(w) /\ UNCHANGED rowState
  <2>1. LaneOK(w)'
    BY <1>1, <1>4, LaneEnds
  <2>2. \A i \in RowIds : ~Pasted(w, i)
    BY <1>1 DEF Pasted
  <2>3. \A i \in RowIds : OfLane(w, i)' => RowOK(w, i)'
    BY <1>2, <1>4, <2>2, RowsQuiet
  <2> QED
    BY <1>1, <1>2, <2>1, <2>3, DrainTabs, DrainRequests DEF Work, DrainSteps
<1>5. ASSUME NEW i \in RowIds, Oldest(Drained(w), i), rowState' = [rowState EXCEPT ![i] = "inflight"],
             claimed' = [claimed EXCEPT ![w] = i], Goto(w, "recheck")
      PROVE  Work(w)'
  <2>1. lane'[w] = lane[w] /\ pc'[w] = "recheck" /\ SentHome(w)' /\ Drained(w)' = Drained(w)
    BY <1>5, LaneGoes
  <2>2. claimed'[w] = i /\ rowState[i] = "queued"
    BY <1>1, <1>5 DEF Oldest, RowsIn, TypeOK, LanesOK
  <2>3. ASSUME NEW j \in RowIds, j < i, rowState'[j] \in Live, RowTab(j)' = Drained(w)
        PROVE  FALSE
    <3>1. rowState[j] \in Live /\ RowTab(j) = Drained(w)
      BY <1>1, <1>2, <1>5, <2>3, Bounds DEF RowIds, RowTab, TypeOK, RowsOK
    <3>2. rowState[j] # "inflight"
      BY <1>1, <1>3, <3>1, NoneHeld DEF OfLane
    <3>3. i <= j
      BY <1>5, <3>1, <3>2 DEF Oldest, RowsIn, Live
    <3> QED
      BY <2>3, <3>3, Bounds DEF RowIds
  <2>4. Usable(Drained(w))'
    BY <1>1, <1>2, <2>1 DEF Usable, Active
  <2>5. LaneOK(w)'
    BY <1>1, <2>1, <2>2, <2>3, <2>4 DEF LaneOK, DrainLabels, InputLabels, ClaimLabels
  <2>6. \A j \in RowIds : /\ rowState'[j] \in Live => rowState[j] \in Live
                          /\ rowState'[j] = "delivered" => rowState[j] = "delivered"
    BY <1>1, <1>5, <2>2 DEF TypeOK, RowsOK, Live
  <2>7. \A j \in RowIds : OfLane(w, j) => RowShut(w, j)'
    BY <1>2, <2>6, ShutSame
  <2>8. \A j \in RowIds : ~Pasted(w, j)
    BY <1>1 DEF Pasted
  <2>9. \A j \in RowIds : OfLane(w, j)' => RowOK(w, j)'
    BY <1>2, <2>6, <2>7, <2>8, RowsKeep
  <2> QED
    BY <1>1, <1>2, <2>5, <2>9, DrainTabs, DrainRequests DEF Work, DrainSteps
<1> QED
  BY <1>4, <1>5 DEF DrainClaims, Drained

\* A drain that puts its row back before anything was pasted.
LEMMA ReleaseWork ==
  ASSUME SInv, IInv', NEW w \in Workspaces, KeptElsewhere(w), DrainRechecks(w), Release(w)
  PROVE  Work(w)'
<1>1. /\ At(w, "drain", "recheck") /\ lane[w] # <<>> /\ pc[w] = "recheck" /\ IInv /\ TypeOK
      /\ claimed[w] \in RowIds /\ rowState[claimed[w]] = "inflight" /\ Finish(w)
  BY DrainHead DEF DrainRechecks, ClaimLabels, Release
<1>2. UNCHANGED <<rowReq, copies, tabStatus, wsStatus, spent>>
  BY DEF DrainRechecks, DrainUnchanged
<1>3. LaneOK(w)'
  BY <1>1, LaneEnds
<1>4. \A j \in RowIds : /\ rowState'[j] \in Live => rowState[j] \in Live
                        /\ rowState'[j] = "delivered" => rowState[j] = "delivered"
  BY <1>1 DEF Release, TypeOK, RowsOK, Live
<1>5. \A j \in RowIds : OfLane(w, j) => RowShut(w, j)'
  BY <1>2, <1>4, ShutSame
<1>6. \A j \in RowIds : ~Pasted(w, j)
  BY <1>1 DEF Pasted
<1>7. \A j \in RowIds : OfLane(w, j)' => RowOK(w, j)'
  BY <1>2, <1>4, <1>5, <1>6, RowsKeep
<1> QED
  BY <1>1, <1>2, <1>3, <1>7, DrainTabs, DrainRequests DEF Work, DrainSteps

LEMMA DrainRechecksWork ==
  ASSUME SInv, IInv', NEW w \in Workspaces, KeptElsewhere(w), DrainRechecks(w)
  PROVE  Work(w)'
<1>1. /\ At(w, "drain", "recheck") /\ up /\ lane[w] # <<>> /\ pc[w] = "recheck"
      /\ Head(lane[w]).kind = "drain" /\ Drained(w) \in Tabs /\ Home[Drained(w)] = w
      /\ IInv /\ TypeOK /\ LaneOK(w) /\ Usable(Drained(w))
      /\ claimed[w] \in RowIds /\ RowTab(claimed[w]) = Drained(w)
  BY DrainHead DEF DrainRechecks, ClaimLabels, DrainLabels
<1>2. UNCHANGED <<rowReq, copies, tabStatus, wsStatus, spent>>
  BY DEF DrainRechecks, DrainUnchanged
<1>3. CASE Release(w)
  BY <1>3, ReleaseWork
<1>4. ASSUME Ready(Drained(w)), Goto(w, "deliver"), UNCHANGED <<rowState, claimed>>
      PROVE  Work(w)'
  <2>1. lane'[w] = lane[w] /\ pc'[w] = "deliver" /\ SentHome(w)' /\ Drained(w)' = Drained(w)
    BY <1>4, LaneGoes
  <2>2. ~spent[Drained(w)]
    <3>1. TabOK(w, Drained(w))
      BY <1>1 DEF SInv, Work
    <3> QED
      BY <1>1, <1>4, <3>1 DEF TabOK, Ready
  <2>3. Usable(Drained(w))'
    BY <1>1, <1>2, <2>1 DEF Usable, Active
  <2>4. \A j \in RowIds : j < claimed[w] /\ rowState'[j] \in Live => RowTab(j)' # Drained(w)
    BY <1>1, <1>2, <1>4 DEF LaneOK, ClaimLabels, RowTab
  <2>5. LaneOK(w)'
    BY <1>1, <1>2, <1>4, <2>1, <2>2, <2>3, <2>4 DEF LaneOK, DrainLabels, InputLabels, ClaimLabels
  <2>6. \A j \in RowIds : ~Pasted(w, j)
    BY <1>1 DEF Pasted
  <2>7. \A j \in RowIds : OfLane(w, j)' => RowOK(w, j)'
    BY <1>2, <1>4, <2>6, RowsQuiet
  <2> QED
    BY <1>1, <1>2, <2>5, <2>7, DrainTabs, DrainRequests DEF Work, DrainSteps
<1> QED
  BY <1>1, <1>3, <1>4 DEF DrainRechecks

LEMMA DrainDeliversWork ==
  ASSUME SInv, IInv', NEW w \in Workspaces, KeptElsewhere(w), DrainDelivers(w)
  PROVE  Work(w)'
<1>1. /\ At(w, "drain", "deliver") /\ up /\ lane[w] # <<>> /\ pc[w] = "deliver"
      /\ Head(lane[w]).kind = "drain" /\ Drained(w) \in Tabs /\ Home[Drained(w)] = w
      /\ IInv /\ TypeOK /\ LaneOK(w) /\ Usable(Drained(w))
      /\ claimed[w] \in RowIds /\ RowTab(claimed[w]) = Drained(w) /\ rowState[claimed[w]] = "inflight"
      /\ OfLane(w, claimed[w])
  BY DrainHead DEF DrainDelivers, ClaimLabels, DrainLabels
<1>2. UNCHANGED <<rowReq, rowState, tabStatus, wsStatus, claimed>> /\ Goto(w, "mark")
  BY DEF DrainDelivers, DrainUnchanged
<1>3. lane'[w] = lane[w] /\ pc'[w] = "mark" /\ SentHome(w)' /\ Drained(w)' = Drained(w)
  BY <1>2, LaneGoes
<1>4. /\ copies[claimed[w]] \in Nat /\ copies'[claimed[w]] = copies[claimed[w]] + 1
      /\ \A j \in RowIds : j # claimed[w] => copies'[j] = copies[j]
  BY <1>1, Numbers DEF DrainDelivers, TypeOK, RowsOK
<1>5. \A j \in RowIds : j < claimed[w] /\ rowState[j] \in Live => RowTab(j) # Drained(w)
  BY <1>1 DEF LaneOK, ClaimLabels
<1>6. LaneOK(w)'
  <2>1. Usable(Drained(w))'
    BY <1>1, <1>2, <1>3 DEF Usable, Active
  <2>2. \A j \in RowIds : j < claimed[w] /\ rowState'[j] \in Live => RowTab(j)' # Drained(w)
    BY <1>2, <1>5 DEF RowTab
  <2>3. copies'[claimed[w]] > 0
    BY <1>4
  <2> QED
    BY <1>1, <1>2, <1>3, <2>1, <2>2, <2>3 DEF LaneOK, DrainLabels, InputLabels, ClaimLabels
<1>7. Excuses \in Nat /\ (Excuses' = Excuses \/ Excuses' = Excuses + 1)
  BY <1>1, ExcusesGrow
<1>8. OpenTabs(w)' = OpenTabs(w) /\ \A j \in RowIds : RowTab(j)' = RowTab(j)
  BY <1>2 DEF OpenTabs, RowTab
<1>9. ASSUME NEW i \in RowIds, OfLane(w, i)'
      PROVE  RowOK(w, i)'
  <2>1. OfLane(w, i) /\ RowOK(w, i) /\ ~Pasted(w, i)
    BY <1>1, <1>2, <1>9 DEF OfLane, RowTab, SInv, Work, Pasted
  <2>2. CASE i = claimed[w]
    <3>1. copies[i] <= Excuses
      BY <1>1, <2>1, <2>2 DEF RowOK, Live
    <3>2. copies'[i] <= 1 + Excuses'
      BY <1>4, <1>7, <2>2, <3>1
    <3>3. Pasted(w, i)' /\ rowState'[i] # "delivered"
      BY <1>1, <1>2, <1>3, <2>2 DEF Pasted
    <3>4. \A j \in RowIds : j < i /\ rowState'[j] \in Live => RowTab(j)' # RowTab(i)'
      BY <1>1, <1>2, <1>5, <1>8, <2>2
    <3>5. tabStatus'[RowTab(i)'] # "closed"
      BY <1>1, <1>2, <1>8, <2>2 DEF Usable
    <3> QED
      BY <3>2, <3>3, <3>4, <3>5 DEF RowOK
  <2>3. CASE i # claimed[w]
    BY <1>2, <1>4, <1>7, <1>8, <2>1, <2>3, Numbers, <1>1 DEF RowOK
  <2> QED
    BY <2>2, <2>3
<1>10. ASSUME NEW t \in Tabs, Home[t] = w
       PROVE  TabOK(w, t)'
  <2>1. TabOK(w, t)
    BY <1>10 DEF SInv, Work
  <2>2. t # Drained(w) => spent'[t] = spent[t]
    BY <1>1 DEF DrainDelivers, TypeOK, TabsOK
  <2> QED
    BY <1>1, <1>2, <1>3, <2>1, <2>2 DEF TabOK
<1> QED
  BY <1>6, <1>9, <1>10, DrainRequests DEF Work, DrainSteps

LEMMA DrainFailsWork ==
  ASSUME SInv, IInv', NEW w \in Workspaces, KeptElsewhere(w), DrainFails(w)
  PROVE  Work(w)'
<1>1. /\ At(w, "drain", "deliver") /\ up /\ lane[w] # <<>> /\ pc[w] = "deliver"
      /\ Head(lane[w]).kind = "drain" /\ Drained(w) \in Tabs /\ Home[Drained(w)] = w
      /\ IInv /\ TypeOK /\ LaneOK(w) /\ Usable(Drained(w))
      /\ claimed[w] \in RowIds /\ RowTab(claimed[w]) = Drained(w) /\ rowState[claimed[w]] = "inflight"
      /\ OfLane(w, claimed[w])
  BY DrainHead DEF DrainFails, ClaimLabels, DrainLabels
<1>2. UNCHANGED <<rowReq, tabStatus, wsStatus, spent>> /\ Release(w) /\ Finish(w)
  BY DEF DrainFails, DrainUnchanged, Release
<1>3. LaneOK(w)'
  BY <1>1, <1>2, LaneEnds
<1>4. PICK n \in {0, 1} : copies' = [copies EXCEPT ![claimed[w]] = @ + n]
  BY DEF DrainFails
<1>5. /\ rowState'[claimed[w]] = "queued" /\ copies'[claimed[w]] = copies[claimed[w]] + n
      /\ \A j \in RowIds : j # claimed[w] => rowState'[j] = rowState[j] /\ copies'[j] = copies[j]
  BY <1>1, <1>2, <1>4 DEF Release, TypeOK, RowsOK
<1>6. Excuses \in Nat /\ Excuses' = Excuses + 1
  <2>1. crashes \in Nat /\ mishaps \in Nat
    BY <1>1 DEF TypeOK, ClientsOK
  <2>2. crashes' = crashes /\ mishaps' = mishaps + 1
    BY <1>1 DEF DrainFails, DrainUnchanged
  <2> QED
    BY <2>1, <2>2 DEF Excuses
<1>7. /\ OpenTabs(w)' = OpenTabs(w)
      /\ \A j \in RowIds : RowTab(j)' = RowTab(j) /\ (rowState'[j] \in Live => rowState[j] \in Live)
  BY <1>1, <1>2, <1>5 DEF OpenTabs, RowTab, Live
<1>8. ASSUME NEW i \in RowIds, OfLane(w, i)'
      PROVE  RowOK(w, i)'
  <2>1. OfLane(w, i) /\ RowOK(w, i) /\ ~Pasted(w, i) /\ copies[i] \in Nat
    BY <1>1, <1>2, <1>5, <1>8, Numbers DEF OfLane, RowTab, SInv, Work, Pasted
  <2>2. CASE i = claimed[w]
    <3>1. copies[i] <= Excuses
      BY <1>1, <2>1, <2>2 DEF RowOK, Live
    <3>2. copies'[i] <= Excuses' /\ copies'[i] <= 1 + Excuses'
      BY <1>5, <1>6, <2>1, <2>2, <3>1
    <3>3. \A j \in RowIds : j < i /\ rowState'[j] \in Live => RowTab(j)' # RowTab(i)'
      BY <1>1, <1>7, <2>2 DEF LaneOK, ClaimLabels
    <3>4. tabStatus'[RowTab(i)'] # "closed" /\ rowState'[i] # "delivered"
      BY <1>1, <1>2, <1>5, <1>7, <2>2 DEF Usable
    <3> QED
      BY <3>2, <3>3, <3>4 DEF RowOK
  <2>3. CASE i # claimed[w]
    <3>1. copies'[i] = copies[i] /\ rowState'[i] = rowState[i]
      BY <1>5, <2>3
    <3>2. copies'[i] <= 1 + Excuses' /\ (rowState'[i] \in Live => copies'[i] <= Excuses')
      BY <1>6, <2>1, <3>1 DEF RowOK
    <3>3. copies'[i] > 0 => \A j \in RowIds : j < i /\ rowState'[j] \in Live => RowTab(j)' # RowTab(i)'
      BY <1>7, <2>1, <3>1 DEF RowOK
    <3> QED
      BY <1>2, <1>7, <2>1, <3>1, <3>2, <3>3 DEF RowOK
  <2> QED
    BY <2>2, <2>3
<1>9. \A t \in Tabs : Home[t] = w => TabOK(w, t)'
  BY <1>1, <1>2, DrainTabs
<1> QED
  BY <1>3, <1>8, <1>9, DrainRequests DEF Work

LEMMA DrainMarksWork ==
  ASSUME SInv, IInv', NEW w \in Workspaces, KeptElsewhere(w), DrainMarks(w)
  PROVE  Work(w)'
<1>1. /\ At(w, "drain", "mark") /\ up /\ lane[w] # <<>> /\ pc[w] = "mark"
      /\ Head(lane[w]).kind = "drain" /\ Drained(w) \in Tabs /\ Home[Drained(w)] = w
      /\ IInv /\ TypeOK /\ LaneOK(w) /\ Usable(Drained(w)) /\ RowTab(claimed[w]) = Drained(w)
  BY DrainHead DEF DrainMarks, ClaimLabels, DrainLabels
<1>2. UNCHANGED <<rowReq, rowState, copies, wsStatus, claimed>> /\ Goto(w, "settle")
  BY DEF DrainMarks, DrainUnchanged
<1>3. lane'[w] = lane[w] /\ pc'[w] = "settle" /\ SentHome(w)' /\ Drained(w)' = Drained(w)
  BY <1>2, LaneGoes
<1>4. /\ tabStatus'[Drained(w)] \in {tabStatus[Drained(w)], "working"}
      /\ \A t \in Tabs : t # Drained(w) => tabStatus'[t] = tabStatus[t] /\ spent'[t] = spent[t]
  BY <1>1 DEF DrainMarks, WriteStatus, TypeOK, TabsOK
<1>5. LaneOK(w)'
  <2>1. Usable(Drained(w))'
    BY <1>1, <1>2, <1>3, <1>4 DEF Usable, Active
  <2>2. \A j \in RowIds : j < claimed[w] /\ rowState'[j] \in Live => RowTab(j)' # Drained(w)
    BY <1>1, <1>2 DEF LaneOK, ClaimLabels, RowTab
  <2> QED
    BY <1>1, <1>2, <1>3, <2>1, <2>2 DEF LaneOK, DrainLabels, InputLabels, ClaimLabels
<1>6. \A t \in Tabs : tabStatus'[t] = "closed" <=> tabStatus[t] = "closed"
  BY <1>1, <1>4 DEF Usable
<1>7. \A i \in RowIds : Pasted(w, i) => Pasted(w, i)'
  BY <1>2, <1>3 DEF Pasted
<1>8. \A i \in RowIds : OfLane(w, i)' => RowOK(w, i)'
  BY <1>2, <1>6, <1>7, RowsQuiet
<1>9. \A t \in Tabs : Home[t] = w => TabOK(w, t)'
  <2>1. tabStatus'[Drained(w)] = "working" \/ ~spent'[Drained(w)]
    BY <1>1 DEF DrainMarks, WriteStatus, TypeOK, TabsOK
  <2>2. \A t \in Tabs : tabStatus'[t] = "awaiting-input" /\ spent'[t] =>
           t # Drained(w) /\ tabStatus[t] = "awaiting-input" /\ spent[t]
    BY <1>4, <2>1
  <2>3. \A u : ~(pc[w] = "composer" /\ Target[Req(w)] = u)
    BY <1>1
  <2> QED
    BY <2>2, <2>3, TabsKeep
<1> QED
  BY <1>5, <1>8, <1>9, DrainRequests DEF Work, DrainSteps

LEMMA DrainSettlesWork ==
  ASSUME SInv, IInv', NEW w \in Workspaces, KeptElsewhere(w), DrainSettles(w)
  PROVE  Work(w)'
<1>1. /\ At(w, "drain", "settle") /\ lane[w] # <<>> /\ pc[w] = "settle" /\ IInv /\ TypeOK
      /\ claimed[w] \in RowIds /\ LaneOK(w) /\ Finish(w)
  BY DrainHead DEF DrainSettles, ClaimLabels
<1>2. UNCHANGED <<rowReq, copies, tabStatus, wsStatus, spent>>
  BY DEF DrainSettles, DrainUnchanged
<1>3. LaneOK(w)'
  BY <1>1, LaneEnds
<1>4. \A j \in RowIds : /\ rowState'[j] \in Live => rowState[j] \in Live /\ j # claimed[w]
                        /\ rowState'[j] = "delivered" => rowState[j] = "delivered" \/ copies[j] > 0
  BY <1>1 DEF DrainSettles, LaneOK, TypeOK, RowsOK, Live
<1>5. \A j \in RowIds : OfLane(w, j) => RowShut(w, j)'
  BY <1>2, <1>4, ShutSame
<1>6. \A j \in RowIds : OfLane(w, j)' => RowOK(w, j)'
  BY <1>2, <1>4, <1>5, RowsKeep DEF Pasted
<1> QED
  BY <1>1, <1>2, <1>3, <1>6, DrainTabs, DrainRequests DEF Work, DrainSteps

LEMMA DrainWork ==
  ASSUME SInv, IInv', NEW w \in Workspaces, KeptElsewhere(w), DrainSteps(w) \/ DrainFails(w)
  PROVE  Work(w)'
  BY DrainResolvesWork, DrainClaimsWork, DrainRechecksWork, DrainDeliversWork, DrainFailsWork,
     DrainMarksWork, DrainSettlesWork DEF DrainSteps

-----------------------------------------------------------------------------
(* Reports of the engines, and the operations of a user. *)

LEMMA HookWork ==
  ASSUME SInv, IInv', NEW w \in Workspaces, KeptElsewhere(w), HookRuns(w)
  PROVE  Work(w)'
<1>1. /\ At(w, "hook", "start") /\ lane[w] # <<>> /\ pc[w] = "start" /\ lane[w] \in Seq(Tasks)
      /\ Drained(w) \in Tabs /\ Home[Drained(w)] = w /\ IInv /\ TypeOK /\ TypeOK' /\ SentHome(w)
  <2>1. At(w, "hook", "start") /\ IInv /\ TypeOK /\ TypeOK' /\ SentHome(w)
    BY DEF HookRuns, SInv, IInv, Work, LaneOK
  <2> QED
    BY <2>1, TaskHome DEF Tabbed
<1>2. UNCHANGED <<rowReq, rowState, copies, wsStatus, receipt, direct, client>>
  BY DEF HookRuns, rowVars, clientVars, paneVars
<1>3. \/ Finish(w) /\ UNCHANGED <<tabStatus, spent>>
      \/ \E status \in {"idle", "error", "working", "awaiting-input"} :
           /\ Usable(Drained(w)) /\ WriteStatus(Drained(w), status) /\ UNCHANGED pc
           /\ \E more \in {<<>>, <<Drain(Drained(w))>>} :
                lane' = [lane EXCEPT ![w] = Tail(lane[w]) \o more]
  <2>1. Head(lane[w]).signal \in Signals
    BY <1>1, HeadTask, TaskFields DEF At
  <2> QED
    BY <2>1 DEF HookRuns, Concerns, Reported, Drained, Signals
<1>4. CASE Finish(w) /\ UNCHANGED <<tabStatus, spent>>
  <2>1. LaneOK(w)'
    BY <1>1, <1>4, LaneEnds
  <2>2. \A i \in RowIds : OfLane(w, i)' => RowOK(w, i)'
    BY <1>1, <1>2, <1>4, NothingPasted, RowsQuiet
  <2>3. \A t \in Tabs : Home[t] = w => TabOK(w, t)'
    BY <1>1, <1>4, TabsKeep DEF SInv, Work, TabOK
  <2>4. \A r \in Requests : ~Done(w, r)
    BY <1>1 DEF Done, DoneLabels
  <2>5. \A r \in Requests : Home[Target[r]] = w => ReqOK(w, r)'
    BY <1>2, <2>4, RequestsKeep
  <2> QED
    BY <2>1, <2>2, <2>3, <2>5 DEF Work
<1>5. ASSUME NEW status \in {"idle", "error", "working", "awaiting-input"},
             Usable(Drained(w)), WriteStatus(Drained(w), status), UNCHANGED pc,
             NEW more \in {<<>>, <<Drain(Drained(w))>>},
             lane' = [lane EXCEPT ![w] = Tail(lane[w]) \o more]
      PROVE  Work(w)'
  <2>1. lane'[w] = Tail(lane[w]) \o more /\ pc'[w] = "start"
    BY <1>1, <1>5 DEF TypeOK, LanesOK
  <2>2. ASSUME NEW k \in DOMAIN lane'[w]
        PROVE  (\E m \in DOMAIN lane[w] : lane'[w][k] = lane[w][m]) \/ lane'[w][k] = Drain(Drained(w))
    <3>1. Tail(lane[w]) \in Seq(Tasks) /\ Drain(Drained(w)) \in Tasks
      BY <1>1, NewTasks
    <3>2. (k \in DOMAIN Tail(lane[w]) /\ lane'[w][k] = Tail(lane[w])[k]) \/ lane'[w][k] = Drain(Drained(w))
      <4>1. CASE more = <<>>
        BY <2>1, <2>2, <3>1, <4>1
      <4>2. CASE more = <<Drain(Drained(w))>>
        <5>1. lane'[w] = Append(Tail(lane[w]), Drain(Drained(w)))
          BY <2>1, <3>1, <4>2
        <5> QED
          BY <2>2, <3>1, <5>1
      <4> QED
        BY <1>5, <4>1, <4>2
    <3> QED
      BY <1>1, <3>2, TailElements
  <2>3. SentHome(w)'
    <3>1. ASSUME NEW k \in DOMAIN lane'[w], lane'[w][k] = Drain(Drained(w))
          PROVE  Sent(w, lane[w][k])'
      BY <3>1 DEF Drain, Sent
    <3> QED
      BY <1>1, <2>2, <3>1, SentStays DEF KeptElsewhere, RowsStay
  <2>4. LaneOK(w)'
    BY <2>1, <2>3 DEF LaneOK, DrainLabels, InputLabels, ClaimLabels
  <2>5. /\ tabStatus'[Drained(w)] = status
        /\ spent'[Drained(w)] => spent[Drained(w)] /\ ~IsEdge(Drained(w), status)
        /\ \A t \in Tabs : t # Drained(w) => tabStatus'[t] = tabStatus[t] /\ spent'[t] = spent[t]
    BY <1>1, <1>5 DEF WriteStatus, TypeOK, TabsOK
  <2>6. \A t \in Tabs : tabStatus'[t] = "closed" <=> tabStatus[t] = "closed"
    BY <1>5, <2>5 DEF Usable
  <2>7. \A i \in RowIds : OfLane(w, i)' => RowOK(w, i)'
    BY <1>1, <1>2, <2>6, NothingPasted, RowsQuiet
  <2>8. ASSUME NEW t \in Tabs, tabStatus'[t] = "awaiting-input", spent'[t]
        PROVE  tabStatus[t] = "awaiting-input" /\ spent[t]
    BY <2>5, <2>8 DEF IsEdge
  <2>9. \A t \in Tabs : Home[t] = w => TabOK(w, t)'
    BY <1>1, <2>8, TabsKeep
  <2>10. \A r \in Requests : ~Done(w, r)
    BY <1>1 DEF Done, DoneLabels
  <2>11. \A r \in Requests : Home[Target[r]] = w => ReqOK(w, r)'
    BY <1>2, <2>10, RequestsKeep
  <2> QED
    BY <2>4, <2>7, <2>9, <2>11 DEF Work
<1> QED
  BY <1>3, <1>4, <1>5

\* What every operation of a user leaves alone.
LEMMA ChoreParts ==
  ASSUME SInv, IInv', NEW w \in Workspaces, KeptElsewhere(w), ChoreSteps(w),
         \A i \in RowIds : OfLane(w, i) => RowShut(w, i)'
  PROVE  Work(w)'
<1> USE DEF ChoreUnchanged, ChoreSteps, ChoreRefused, Withdraw, CloseTab, SwitchEngine, Resume,
            ArchiveBegins, ArchiveEnds, Unarchive, DeleteBegins, DeleteEnds
<1>1. /\ pc[w] \in {"start", "teardown", "clear"} /\ lane[w] # <<>> /\ Head(lane[w]).kind # "drain"
      /\ IInv /\ TypeOK
  BY DEF At, SInv, IInv, AllChores
<1>2. UNCHANGED <<rowReq, copies, spent, receipt, direct, client>>
  BY DEF clientVars, paneVars
<1>3. LaneOK(w)'
  <2>1. CASE Finish(w)
    BY <1>1, <2>1, LaneEnds
  <2>2. ASSUME NEW label \in {"teardown", "clear"}, Goto(w, label) PROVE LaneOK(w)'
    BY <1>1, <2>2, LaneGoes DEF LaneOK, DrainLabels, InputLabels, ClaimLabels
  <2> QED
    BY <2>1, <2>2
<1>4. \A i \in RowIds : /\ rowState'[i] \in Live => rowState[i] \in Live
                        /\ rowState'[i] = "delivered" => rowState[i] = "delivered"
  <2>1. CASE CloseTab(w)
    BY <1>1, <2>1 DEF RemoveTab, DropRows, TypeOK, RowsOK, Live
  <2>2. CASE DeleteEnds(w)
    BY <1>1, <2>2 DEF DropRows, TypeOK, RowsOK, Live
  <2>3. CASE Withdraw(w)
    BY <1>1, <2>3 DEF TypeOK, RowsOK, Live
  <2> QED
    BY <2>1, <2>2, <2>3
<1>5. \A i \in RowIds : ~Pasted(w, i)
  BY <1>1 DEF Pasted
<1>6. \A i \in RowIds : OfLane(w, i)' => RowOK(w, i)'
  BY <1>2, <1>4, <1>5, RowsKeep
<1>7. \A t \in Tabs : tabStatus'[t] = "awaiting-input" => tabStatus[t] = "awaiting-input"
  <2>1. CASE CloseTab(w)
    BY <1>1, <2>1 DEF RemoveTab, TypeOK, TabsOK
  <2>2. CASE SwitchEngine(w)
    BY <1>1, <2>2 DEF Restart, TypeOK, TabsOK
  <2>3. CASE Resume(w)
    BY <1>1, <2>3 DEF Restart, TypeOK, TabsOK
  <2>4. CASE ArchiveEnds(w)
    <3>1. PICK outcome \in ArchiveOutcomes : ArchiveOutcome(w, outcome)
      BY <2>4
    <3> QED
      BY <1>1, <3>1 DEF ArchiveOutcomes, ArchiveOutcome, Restart, TypeOK, TabsOK
  <2>5. CASE Unarchive(w)
    BY <1>1, <2>5 DEF Restart, TypeOK, TabsOK
  <2>6. CASE DeleteBegins(w)
    BY <1>1, <2>6
  <2> QED
    BY <2>1, <2>2, <2>3, <2>4, <2>5, <2>6
<1>8. \A t \in Tabs : Home[t] = w => TabOK(w, t)'
  BY <1>1, <1>2, <1>7, TabsKeep
<1>9. \A r \in Requests : ~Done(w, r)
  BY <1>1 DEF Done, DoneLabels
<1>10. \A r \in Requests : Home[Target[r]] = w => ReqOK(w, r)'
  BY <1>2, <1>9, RequestsKeep
<1> QED
  BY <1>3, <1>6, <1>8, <1>10 DEF Work

\* No archive outcome closes a tab, opens one or deletes the workspace.
LEMMA OutcomeOpen ==
  ASSUME TypeOK, NEW w \in Workspaces, NEW outcome \in ArchiveOutcomes, ArchiveOutcome(w, outcome)
  PROVE  /\ \A t \in Tabs : tabStatus'[t] = "closed" <=> tabStatus[t] = "closed"
         /\ wsStatus'[w] = "deleted" => wsStatus[w] = "deleted"
  BY DEF ArchiveOutcomes, ArchiveOutcome, Restart, OpenTabs, TypeOK, TabsOK

LEMMA ChoreWork ==
  ASSUME SInv, IInv', NEW w \in Workspaces, KeptElsewhere(w), ChoreSteps(w)
  PROVE  Work(w)'
<1>1. IInv /\ TypeOK /\ UNCHANGED rowReq
  BY DEF SInv, IInv, ChoreUnchanged, ChoreSteps, ChoreRefused, Withdraw, CloseTab, SwitchEngine, Resume,
         ArchiveBegins, ArchiveEnds, Unarchive, DeleteBegins, DeleteEnds
<1>2. CASE CloseTab(w)
  <2>1. PICK t \in Tabs : t \in OpenTabs(w) /\ RemoveTab(t)
    BY <1>2 DEF CloseTab, OpenTabs
  <2>2. ASSUME NEW i \in RowIds, OfLane(w, i), rowState'[i] \in Live, tabStatus'[RowTab(i)'] = "closed"
        PROVE  FALSE
    <3>1. rowState[i] \in Live /\ RowTab(i) # t /\ RowTab(i) \in Tabs /\ RowTab(i)' = RowTab(i)
      BY <1>1, <2>1, <2>2, RowUsed DEF RemoveTab, DropRows, TypeOK, RowsOK, Live, OfLane, RowTab
    <3>2. tabStatus[RowTab(i)] = "closed"
      BY <1>1, <2>1, <2>2, <3>1 DEF RemoveTab, TypeOK, TabsOK
    <3>3. OpenTabs(w) = {}
      BY <2>2, <3>1, <3>2 DEF SInv, Work, RowOK
    <3> QED
      BY <2>1, <3>3
  <2> QED
    BY <1>2, <2>2, ChoreParts DEF ChoreSteps, RowShut
<1>3. CASE DeleteBegins(w)
  <2>1. wsStatus'[w] # "deleted"
    BY <1>3 DEF DeleteBegins
  <2>2. OpenTabs(w)' = {}
    BY <1>3 DEF DeleteBegins, OpenTabs, TabsOf
  <2> QED
    BY <1>3, <2>1, <2>2, ChoreParts DEF ChoreSteps, RowShut
<1>4. CASE DeleteEnds(w)
  <2>1. ASSUME NEW i \in RowIds, OfLane(w, i) PROVE rowState'[i] \notin Live
    <3>1. RowTab(i) \in TabsOf(w)
      BY <1>1, <2>1, RowUsed DEF OfLane, TabsOf
    <3> QED
      BY <1>1, <1>4, <3>1 DEF DeleteEnds, DropRows, Live
  <2> QED
    BY <1>4, <2>1, ChoreParts DEF ChoreSteps, RowShut
<1>5. CASE \/ ChoreRefused(w) \/ Withdraw(w) \/ SwitchEngine(w) \/ Resume(w)
           \/ ArchiveBegins(w) \/ ArchiveEnds(w) \/ Unarchive(w)
  <2>1. \A i \in RowIds : rowState'[i] \in Live => rowState[i] \in Live
    BY <1>1, <1>5 DEF ChoreRefused, Withdraw, SwitchEngine, Resume, ArchiveBegins, ArchiveEnds,
         Unarchive, TypeOK, RowsOK, Live
  <2>2. /\ \A t \in Tabs : Home[t] = w => (tabStatus'[t] = "closed" <=> tabStatus[t] = "closed")
        /\ wsStatus'[w] = "deleted" => wsStatus[w] = "deleted"
    <3>1. CASE ArchiveEnds(w)
      BY <1>1, <3>1, OutcomeOpen DEF ArchiveEnds
    <3>2. CASE SwitchEngine(w) \/ Resume(w)
      BY <1>1, <3>2 DEF SwitchEngine, Resume, Restart, Usable, TypeOK, TabsOK
    <3>3. CASE Unarchive(w) \/ ArchiveBegins(w)
      BY <1>1, <3>3 DEF Unarchive, ArchiveBegins, Restart, OpenTabs, TypeOK, TabsOK
    <3>4. CASE ChoreRefused(w) \/ Withdraw(w)
      BY <3>4 DEF ChoreRefused, Withdraw
    <3> QED
      BY <1>5, <3>1, <3>2, <3>3, <3>4
  <2>3. \A i \in RowIds : OfLane(w, i) => RowShut(w, i)'
    BY <1>1, <2>1, <2>2, ShutSame
  <2> QED
    BY <1>5, <2>3, ChoreParts DEF ChoreSteps
<1> QED
  BY <1>2, <1>3, <1>4, <1>5 DEF ChoreSteps

-----------------------------------------------------------------------------
(* Steps outside the lanes, and the death and birth of the daemon. *)

\* Tasks are admitted, statuses written, clients give up: no task under way notices.
LEMMA QuietStep ==
  ASSUME SInv, IInv',
         UNCHANGED <<pc, claimed, rowReq, rowState, copies, wsStatus, native, receipt, direct, up, crashes>>,
         mishaps' = mishaps \/ mishaps' = mishaps + 1,
         \A w \in Workspaces : lane[w] # <<>> => lane'[w] # <<>> /\ Head(lane'[w]) = Head(lane[w]),
         \A w \in Workspaces : SentHome(w)',
         \A t \in Tabs : tabStatus'[t] = "closed" <=> tabStatus[t] = "closed",
         \A t \in Tabs : spent'[t] => spent[t],
         \A t \in Tabs : tabStatus'[t] = "awaiting-input" /\ spent'[t] => tabStatus[t] = "awaiting-input",
         \A r \in Requests : client'[r] = "queued" => client[r] = "queued"
  PROVE  SInv'
<1>1. IInv /\ TypeOK
  BY DEF SInv, IInv
<1>2. Excuses' = Excuses \/ Excuses' = Excuses + 1
  BY <1>1 DEF Excuses, TypeOK, ClientsOK
<1>3. ASSUME NEW w \in Workspaces
      PROVE  Work(w)'
  <2>1. LaneOK(w)
    BY DEF SInv, Work
  <2>2. pc[w] # "start" =>
          lane'[w] # <<>> /\ Head(lane'[w]) = Head(lane[w]) /\ Req(w)' = Req(w) /\ Drained(w)' = Drained(w)
    BY <2>1 DEF LaneOK, Req, Drained
  <2>3. \A t \in Tabs : Usable(t)' <=> Usable(t)
    BY DEF Usable, Active
  <2>4. LaneOK(w)'
    <3>1. lane'[w] = <<>> => pc[w] = "start"
      BY <2>1 DEF LaneOK
    <3>2. pc[w] \in DrainLabels =>
            lane'[w] # <<>> /\ Head(lane'[w]).kind = "drain" /\ Usable(Drained(w))'
      <4> SUFFICES ASSUME pc[w] \in DrainLabels
                   PROVE  lane'[w] # <<>> /\ Head(lane'[w]).kind = "drain" /\ Usable(Drained(w))'
        OBVIOUS
      <4>1. Drained(w) \in Tabs /\ Usable(Drained(w)) /\ Drained(w)' = Drained(w)
        BY <1>1, <2>1, <2>2, HeadHome DEF LaneOK, DrainLabels, Tabbed
      <4> QED
        BY <2>1, <2>2, <2>3, <4>1 DEF LaneOK, Usable, Active, DrainLabels
    <3>3. pc[w] \in InputLabels =>
            lane'[w] # <<>> /\ Head(lane'[w]).kind = "input" /\ Usable(Target[Req(w)])'
      <4> SUFFICES ASSUME pc[w] \in InputLabels
                   PROVE  lane'[w] # <<>> /\ Head(lane'[w]).kind = "input" /\ Usable(Target[Req(w)])'
        OBVIOUS
      <4>1. Target[Req(w)] \in Tabs /\ Usable(Target[Req(w)]) /\ Req(w)' = Req(w)
        BY <1>1, <2>1, <2>2, HeadHome DEF LaneOK, InputLabels
      <4> QED
        BY <2>1, <2>2, <2>3, <4>1 DEF LaneOK, Usable, Active, InputLabels
    <3>4. pc[w] = "deliver" => ~spent'[Drained(w)]
      BY <1>1, <2>1, HeadHome DEF LaneOK, DrainLabels, Tabbed
    <3>6. pc[w] \in ClaimLabels => \A j \in RowIds : j < claimed[w] /\ rowState[j] \in Live => RowTab(j)' # Drained(w)
      BY <2>1 DEF LaneOK, RowTab
    <3>7. pc[w] \in ClaimLabels \/ pc[w] = "deliver" => Drained(w)' = Drained(w)
      BY <2>2 DEF ClaimLabels
    <3>8. pc[w] \in {"enqueue", "pty", "saveQueued"} => Req(w)' = Req(w)
      BY <2>2
    <3>9. pc[w] \in {"enqueue", "pty"} => receipt'[Req(w)'] = "none"
      BY <2>1, <3>8 DEF LaneOK
    <3>10. pc[w] = "pty" /\ Mode[Req(w)'] = "send" /\ ~native'[Target[Req(w)']] =>
             {i \in RowIds : rowState'[i] \in Live /\ RowTab(i)' = Target[Req(w)']} = {}
      BY <2>1, <3>8 DEF LaneOK, RowsIn, RowTab
    <3>11. pc[w] = "saveQueued" => \E i \in RowIds : rowReq'[i] = Req(w)'
      BY <2>1, <3>8 DEF LaneOK
    <3>12. pc[w] \in {"mark", "settle"} => copies'[claimed'[w]] > 0
      BY <2>1 DEF LaneOK
    <3>13. pc'[w] = pc[w] /\ claimed'[w] = claimed[w] /\ rowState' = rowState
      OBVIOUS
    <3> QED
      BY <3>1, <3>2, <3>3, <3>4, <3>6, <3>7, <3>9, <3>10, <3>11, <3>12, <3>13 DEF LaneOK, RowsIn
  <2>5. \A i \in RowIds : OfLane(w, i) => RowShut(w, i)'
    BY ShutSame
  <2>6. \A i \in RowIds : Pasted(w, i) => Pasted(w, i)'
    BY DEF Pasted
  <2>7. \A i \in RowIds : OfLane(w, i)' => RowOK(w, i)'
    BY <1>2, <2>5, <2>6, RowsLeave
  <2>8. ASSUME NEW t \in Tabs, Home[t] = w PROVE TabOK(w, t)'
    <3>1. TabOK(w, t)
      BY <2>8 DEF SInv, Work
    <3> QED
      BY <2>2, <3>1 DEF TabOK
  <2>9. \A r \in Requests : Done(w, r) => Done(w, r)'
    BY <2>2 DEF Done, DoneLabels
  <2>10. \A r \in Requests : Home[Target[r]] = w => ReqOK(w, r)'
    BY <1>2, <2>9, RequestsStay
  <2> QED
    BY <2>4, <2>7, <2>8, <2>10 DEF Work
<1> QED
  BY <1>3 DEF SInv, UnusedClean

\* One more task at the end of a lane.
LEMMA Admitted ==
  ASSUME SInv, IInv', NEW w \in Workspaces, NEW task \in Tasks, UNCHANGED <<rowReq, rowState>>, Sent(w, task),
         lane' = [lane EXCEPT ![w] = Append(@, task)]
  PROVE  /\ \A v \in Workspaces : lane[v] # <<>> => lane'[v] # <<>> /\ Head(lane'[v]) = Head(lane[v])
         /\ \A v \in Workspaces : SentHome(v)'
<1>1. TypeOK /\ TypeOK' /\ lane[w] \in Seq(Tasks) /\ RowsStay
  BY DEF SInv, IInv, TypeOK, LanesOK, RowsStay
<1>2. /\ lane'[w] = Append(lane[w], task)
      /\ \A v \in Workspaces : v # w => lane'[v] = lane[v]
  BY <1>1 DEF TypeOK, LanesOK
<1>3. lane[w] # <<>> => lane'[w] # <<>> /\ Head(lane'[w]) = Head(lane[w])
  <2>1. lane[w] # <<>> => Append(lane[w], task) # <<>> /\ Head(Append(lane[w], task)) = Head(lane[w])
    BY <1>1
  <2> QED
    BY <1>2, <2>1
<1>4. \A v \in Workspaces : SentHome(v)
  BY DEF SInv, Work, LaneOK
<1>5. SentHome(w)'
  <2>1. ASSUME NEW k \in DOMAIN lane'[w], lane'[w][k] = task
        PROVE  Sent(w, lane[w][k])'
    BY <2>1 DEF Sent, OfLane, RowTab
  <2>2. ASSUME NEW k \in DOMAIN lane'[w]
        PROVE  (\E m \in DOMAIN lane[w] : lane'[w][k] = lane[w][m]) \/ lane'[w][k] = task
    BY <1>1, <1>2, <2>2, AppendElements
  <2> QED
    BY <1>1, <1>4, <2>1, <2>2, SentStays
<1>6. ASSUME NEW v \in Workspaces, v # w PROVE SentHome(v)'
  BY <1>1, <1>2, <1>4, <1>6, SentStays
<1> QED
  BY <1>2, <1>3, <1>5, <1>6

LEMMA LanesStay ==
  ASSUME SInv, IInv', UNCHANGED <<lane, rowReq>>
  PROVE  /\ \A w \in Workspaces : lane[w] # <<>> => lane'[w] # <<>> /\ Head(lane'[w]) = Head(lane[w])
         /\ \A w \in Workspaces : SentHome(w)'
<1>1. TypeOK /\ TypeOK' /\ RowsStay /\ \A w \in Workspaces : SentHome(w)
  BY DEF SInv, IInv, Work, LaneOK, RowsStay
<1> QED
  BY <1>1, SentStays

LEMMA SubmitSafe ==
  ASSUME SInv, IInv', NEW r \in Requests, Submit(r)
  PROVE  SInv'
<1> DEFINE w == Home[Target[r]]
           task == [kind |-> "input", req |-> r]
<1>1. /\ UNCHANGED <<pc, claimed, rowReq, rowState, copies, wsStatus, native, receipt, direct, up, crashes,
                     mishaps, tabStatus, spent>>
      /\ lane' = [lane EXCEPT ![w] = Append(@, task)]
      /\ client' = [client EXCEPT ![r] = "waiting"]
  BY DEF Submit, Admit, rowVars, tabVars, paneVars, budgetVars
<1>2. w \in Workspaces /\ task \in Tasks /\ Sent(w, task)
  BY NewTasks DEF Sent, Tasks
<1>3. /\ \A v \in Workspaces : lane[v] # <<>> => lane'[v] # <<>> /\ Head(lane'[v]) = Head(lane[v])
      /\ \A v \in Workspaces : SentHome(v)'
  BY <1>1, <1>2, Admitted
<1>4. \A q \in Requests : client'[q] = "queued" => client[q] = "queued"
  BY <1>1 DEF SInv, IInv, TypeOK, ClientsOK
<1> QED
  BY <1>1, <1>3, <1>4, QuietStep

LEMMA RequestChoreSafe ==
  ASSUME SInv, IInv', NEW w \in Workspaces, RequestChore(w)
  PROVE  SInv'
<1>1. UNCHANGED <<pc, claimed, rowReq, rowState, copies, wsStatus, native, receipt, direct, up, crashes,
                  mishaps, tabStatus, spent, client>>
  BY DEF RequestChore, Admit, rowVars, tabVars, paneVars, clientVars
<1>2. PICK task \in Tasks :
        /\ lane' = [lane EXCEPT ![w] = Append(@, task)] /\ task.kind \in ChoreKinds
        /\ task.kind = "withdraw" => task.row <= lastRow /\ Home[RowTab(task.row)] = w
  BY DEF RequestChore, Admit
<1>3. Sent(w, task)
  <2>1. task.kind # "input"
    BY <1>2 DEF AllChores
  <2>2. task.kind = "withdraw" => task.row \in RowIds
    BY TaskFields
  <2>3. task.kind = "withdraw" => rowState[task.row] # "unused"
    BY <1>2, <2>2 DEF SInv, IInv, TypeOK, RowsOK
  <2> QED
    BY <1>2, <2>1, <2>3 DEF Sent, OfLane
<1>4. /\ \A v \in Workspaces : lane[v] # <<>> => lane'[v] # <<>> /\ Head(lane'[v]) = Head(lane[v])
      /\ \A v \in Workspaces : SentHome(v)'
  BY <1>1, <1>2, <1>3, Admitted
<1> QED
  BY <1>1, <1>4, QuietStep

LEMMA HookPostSafe ==
  ASSUME SInv, IInv', NEW t \in Tabs, NEW s \in Signals, HookPost(t, s)
  PROVE  SInv'
<1> DEFINE w == Home[t]
           task == [kind |-> "hook", tab |-> t, signal |-> s, native |-> native[t]]
<1>1. /\ UNCHANGED <<pc, claimed, rowReq, rowState, copies, wsStatus, native, receipt, direct, up, crashes,
                     mishaps, tabStatus, spent, client>>
      /\ lane' = [lane EXCEPT ![w] = Append(@, task)]
  BY DEF HookPost, Admit, rowVars, tabVars, paneVars, clientVars, budgetVars
<1>2. native[t] \in BOOLEAN
  BY DEF SInv, IInv, TypeOK, TabsOK
<1>3. w \in Workspaces /\ task \in Tasks /\ Sent(w, task)
  BY <1>2, NewTasks DEF Sent, Tasks, HookTasks
<1>4. /\ \A v \in Workspaces : lane[v] # <<>> => lane'[v] # <<>> /\ Head(lane'[v]) = Head(lane[v])
      /\ \A v \in Workspaces : SentHome(v)'
  BY <1>1, <1>3, Admitted
<1> QED
  BY <1>1, <1>4, QuietStep

LEMMA PollDecidesSafe ==
  ASSUME SInv, IInv', NEW t \in Tabs, PollDecides(t)
  PROVE  SInv'
<1>1. UNCHANGED <<pc, claimed, rowReq, rowState, copies, wsStatus, native, receipt, direct, up, crashes,
                  mishaps, client>>
  BY DEF PollDecides, rowVars, paneVars, clientVars, budgetVars
<1>2. CASE UNCHANGED <<tabStatus, spent, lane>>
  BY <1>1, <1>2, LanesStay, QuietStep
<1>3. ASSUME NEW status \in {"working", "awaiting-input"}, tabStatus[t] # "closed", WriteStatus(t, status),
             lane' = IF IsEdge(t, status) THEN [lane EXCEPT ![Home[t]] = Append(@, Drain(t))] ELSE lane
      PROVE  SInv'
  <2>1. /\ tabStatus'[t] = status /\ (spent'[t] => spent[t] /\ ~IsEdge(t, status))
        /\ \A s \in Tabs : s # t => tabStatus'[s] = tabStatus[s] /\ spent'[s] = spent[s]
    BY <1>3 DEF WriteStatus, SInv, IInv, TypeOK, TabsOK
  <2>2. Home[t] \in Workspaces /\ Drain(t) \in Tasks /\ Sent(Home[t], Drain(t))
    BY NewTasks DEF Sent, Drain
  <2>3. /\ \A v \in Workspaces : lane[v] # <<>> => lane'[v] # <<>> /\ Head(lane'[v]) = Head(lane[v])
        /\ \A v \in Workspaces : SentHome(v)'
    <3>1. CASE lane' = lane
      BY <1>1, <3>1, LanesStay
    <3>2. CASE lane' = [lane EXCEPT ![Home[t]] = Append(@, Drain(t))]
      BY <1>1, <2>2, <3>2, Admitted
    <3> QED
      BY <1>3, <3>1, <3>2
  <2>4. \A s \in Tabs : tabStatus'[s] = "closed" <=> tabStatus[s] = "closed"
    BY <1>3, <2>1
  <2>5. \A s \in Tabs : spent'[s] => spent[s]
    BY <2>1
  <2>6. \A s \in Tabs : tabStatus'[s] = "awaiting-input" /\ spent'[s] => tabStatus[s] = "awaiting-input"
    BY <2>1 DEF IsEdge
  <2> QED
    BY <1>1, <2>3, <2>4, <2>5, <2>6, QuietStep
<1> QED
  BY <1>2, <1>3 DEF PollDecides, MtimeStatus

\* Engines, clients and timers touch neither a lane nor a row nor a status.
LEMMA IdleSafe ==
  ASSUME SInv, IInv', UNCHANGED <<rowVars, tabVars, lane, pc, claimed, receipt, paneVars, up, spent, crashes>>,
         mishaps' = mishaps \/ mishaps' = mishaps + 1,
         \A r \in Requests : client'[r] = "queued" => client[r] = "queued"
  PROVE  SInv'
<1>1. UNCHANGED <<pc, claimed, rowReq, rowState, copies, wsStatus, native, receipt, direct, up, crashes, lane,
                  tabStatus, spent>>
  BY DEF rowVars, tabVars, paneVars
<1> QED
  BY <1>1, LanesStay, QuietStep

LEMMA AuthoritySafe ==
  ASSUME SInv, IInv', NEW t \in Tabs, AuthorityExpires(t)
  PROVE  SInv'
<1>1. UNCHANGED <<pc, claimed, rowReq, rowState, copies, wsStatus, native, receipt, direct, up, crashes, lane,
                  tabStatus, spent, mishaps, client>>
  BY DEF AuthorityExpires, rowVars, laneVars, clientVars, paneVars, budgetVars
<1> QED
  BY <1>1, LanesStay, QuietStep

LEMMA CrashSafe ==
  ASSUME SInv, IInv', Crash
  PROVE  SInv'
<1>1. IInv /\ TypeOK /\ UNCHANGED <<rowReq, rowState, copies, direct, receipt, tabStatus, wsStatus>>
  BY DEF SInv, IInv, Crash, rowVars, tabVars, paneVars
<1>2. Excuses \in Nat /\ Excuses' = Excuses + 1
  <2>1. crashes \in Nat /\ mishaps \in Nat
    BY <1>1 DEF TypeOK, ClientsOK
  <2>2. mishaps' = mishaps /\ crashes' = crashes + 1
    BY DEF Crash
  <2> QED
    BY <2>1, <2>2 DEF Excuses
<1>3. ASSUME NEW w \in Workspaces
      PROVE  Work(w)'
  <2>1. lane'[w] = <<>> /\ pc'[w] = "start"
    BY DEF Crash
  <2>2. LaneOK(w)'
    BY <2>1 DEF LaneOK, SentHome, DrainLabels, InputLabels, ClaimLabels
  <2>3. \A i \in RowIds : OfLane(w, i) => RowShut(w, i)' /\ copies[i] <= Excuses'
    BY <1>1, <1>2, ShutSame DEF SInv, Work, RowOK
  <2>4. \A i \in RowIds : OfLane(w, i)' => RowOK(w, i)'
    BY <1>1, <1>2, <2>3, RowsLeave
  <2>5. \A t \in Tabs : TabOK(w, t)'
    BY DEF Crash, TabOK
  <2>6. \A r \in Requests : client'[r] = "queued" => client[r] = "queued"
    BY DEF Crash
  <2>7. \A r \in Requests : Home[Target[r]] = w => ReqOK(w, r)'
    BY <1>1, <1>2, <2>6, RequestsStay
  <2> QED
    BY <2>2, <2>4, <2>5, <2>7 DEF Work
<1> QED
  BY <1>1, <1>3 DEF SInv, UnusedClean

LEMMA BootSafe ==
  ASSUME SInv, IInv', Boot
  PROVE  SInv'
<1>1. /\ IInv /\ TypeOK /\ ~up
      /\ UNCHANGED <<rowReq, copies, direct, receipt, client, tabStatus, wsStatus, pc, claimed, crashes, mishaps>>
  BY DEF SInv, IInv, Boot, tabVars, clientVars, paneVars, budgetVars
<1>2. Excuses' = Excuses
  BY <1>1 DEF Excuses
<1>3. \A i \in RowIds : /\ rowState'[i] \in Live => rowState[i] \in Live
                        /\ rowState'[i] \in {"delivered", "unused"} => rowState'[i] = rowState[i]
  BY <1>1 DEF Boot, Recovered, Live, TypeOK, RowsOK
<1>4. ASSUME NEW w \in Workspaces
      PROVE  Work(w)'
  <2>1. pc[w] = "start" /\ pc'[w] = "start" /\ claimed[w] = 0
    BY <1>1 DEF IInv, LaneInv, DownIsIdle
  <2>2. SentHome(w)'
    <3>1. PICK plan : lane' = [v \in Workspaces |-> [k \in DOMAIN plan[v] |-> Drain(plan[v][k])]]
      BY DEF Boot
    <3>2. \A k \in DOMAIN lane'[w] : lane'[w][k].kind = "drain"
      BY <3>1 DEF Drain
    <3> QED
      BY <3>2 DEF SentHome, Sent
  <2>3. LaneOK(w)'
    BY <2>1, <2>2 DEF LaneOK, DrainLabels, InputLabels, ClaimLabels
  <2>4. \A i \in RowIds : ~Pasted(w, i)
    BY <2>1 DEF Pasted
  <2>5. \A i \in RowIds : OfLane(w, i) => RowShut(w, i)'
    BY <1>1, <1>3, ShutSame
  <2>6. \A i \in RowIds : OfLane(w, i)' => RowOK(w, i)'
    BY <1>1, <1>2, <1>3, <2>4, <2>5, RowsLeave
  <2>7. \A t \in Tabs : TabOK(w, t)'
    BY DEF Boot, TabOK
  <2>8. \A r \in Requests : ~Done(w, r)
    BY <2>1 DEF Done, DoneLabels
  <2>9. \A r \in Requests : Home[Target[r]] = w => ReqOK(w, r)'
    BY <1>1, <1>2, <2>8, RequestsStay
  <2> QED
    BY <2>3, <2>6, <2>7, <2>9 DEF Work
<1> QED
  BY <1>1, <1>3, <1>4 DEF SInv, UnusedClean

LEMMA ReconcilesSafe ==
  ASSUME SInv, IInv', NEW w \in Workspaces, Reconciles(w)
  PROVE  SInv'
<1>1. /\ IInv /\ TypeOK /\ ~up
      /\ UNCHANGED <<rowReq, rowState, copies, native, spent, direct, receipt, client, lane, pc, claimed, up,
                     crashes, mishaps>>
  BY DEF SInv, IInv, Reconciles, rowVars, laneVars, clientVars, paneVars, budgetVars
<1>2. PICK outcome \in ArchiveOutcomes : ArchiveOutcome(w, outcome)
  BY DEF Reconciles
<1>3. KeptElsewhere(w)
  <2>1. /\ \A v \in Workspaces : v # w => wsStatus'[v] = wsStatus[v]
        /\ \A t \in Tabs : Home[t] # w => tabStatus'[t] = tabStatus[t]
    BY <1>1, <1>2, OutcomeElsewhere
  <2> QED
    BY <1>1, <2>1 DEF KeptElsewhere
<1>4. lane[w] = <<>> /\ pc[w] = "start"
  BY <1>1 DEF IInv, LaneInv, DownIsIdle
<1>5. LaneOK(w)'
  BY <1>1, <1>4 DEF LaneOK, SentHome, DrainLabels, InputLabels, ClaimLabels
<1>6. \A i \in RowIds : OfLane(w, i)' => RowOK(w, i)'
  <2>1. /\ \A t \in Tabs : tabStatus'[t] = "closed" <=> tabStatus[t] = "closed"
        /\ wsStatus'[w] = "deleted" => wsStatus[w] = "deleted"
    BY <1>1, <1>2, OutcomeOpen
  <2>2. \A i \in RowIds : ~Pasted(w, i)
    BY <1>4 DEF Pasted
  <2> QED
    BY <1>1, <1>3, <2>1, <2>2, RowsQuiet
<1>7. \A t \in Tabs : TabOK(w, t)'
  BY <1>1 DEF TabOK
<1>8. \A r \in Requests : ~Done(w, r)
  BY <1>4 DEF Done, DoneLabels
<1>9. \A r \in Requests : Home[Target[r]] = w => ReqOK(w, r)'
  BY <1>1, <1>3, <1>8, RequestsKeep
<1> QED
  BY <1>3, <1>5, <1>6, <1>7, <1>9, LaneStep DEF Work

-----------------------------------------------------------------------------
(* The invariant. *)

LEMMA InitSafe ==
  ASSUME Init
  PROVE  SInv
<1>1. IInv
  BY InitInv
<1>2. UnusedClean
  BY DEF Init, UnusedClean
<1>3. ASSUME NEW w \in Workspaces PROVE Work(w)
  <2>1. LaneOK(w)
    BY DEF Init, LaneOK, SentHome, DrainLabels, InputLabels, ClaimLabels
  <2>2. \A i \in RowIds : ~OfLane(w, i)
    BY DEF Init, OfLane
  <2>3. \A t \in Tabs : TabOK(w, t)
    BY DEF Init, TabOK
  <2>4. ASSUME NEW r \in Requests PROVE ReqOK(w, r)
    <3>1. RowsOf(r) = {}
      BY DEF Init, RowsOf
    <3>2. Effects(r) = 0
      BY <3>1, FS_EmptySet DEF Effects, Init
    <3>3. Excuses = 0
      BY DEF Init, Excuses
    <3> QED
      BY <3>2, <3>3 DEF Init, ReqOK
  <2> QED
    BY <2>1, <2>2, <2>3, <2>4 DEF Work
<1> QED
  BY <1>1, <1>2, <1>3 DEF SInv

LEMMA StepSafe ==
  ASSUME SInv, [Next]_vars
  PROVE  SInv'
<1>1. IInv /\ IInv'
  BY StepInv DEF SInv
<1>2. ASSUME NEW w \in Workspaces, LaneSteps(w) \/ InputPtyFails(w) \/ DrainFails(w)
      PROVE  SInv'
  <2>1. CASE InputSteps(w) \/ InputPtyFails(w)
    BY <1>1, <2>1, InputKept, InputWork, LaneStep
  <2>2. CASE DrainSteps(w) \/ DrainFails(w)
    BY <1>1, <2>2, DrainKept, DrainWork, LaneStep
  <2>3. CASE HookRuns(w)
    BY <1>1, <2>3, HookKept, HookWork, LaneStep
  <2>4. CASE ChoreSteps(w)
    BY <1>1, <2>4, ChoreKept, ChoreWork, LaneStep
  <2> QED
    BY <1>2, <2>1, <2>2, <2>3, <2>4 DEF LaneSteps
<1>3. ASSUME NEW w \in Workspaces, RequestChore(w) \/ Reconciles(w)
      PROVE  SInv'
  BY <1>1, <1>3, RequestChoreSafe, ReconcilesSafe
<1>4. ASSUME NEW r \in Requests, Submit(r) \/ GiveUp(r)
      PROVE  SInv'
  <2>1. CASE GiveUp(r)
    <3>1. UNCHANGED <<rowVars, tabVars, lane, pc, claimed, receipt, paneVars, up, spent, crashes, mishaps>>
      BY <2>1 DEF GiveUp, laneVars, budgetVars
    <3>2. \A q \in Requests : client'[q] = "queued" => client[q] = "queued"
      BY <1>1, <2>1 DEF GiveUp, IInv, TypeOK, ClientsOK
    <3> QED
      BY <1>1, <3>1, <3>2, IdleSafe
  <2> QED
    BY <1>1, <1>4, <2>1, SubmitSafe
<1>5. ASSUME NEW t \in Tabs, EngineSteps(t)
      PROVE  SInv'
  <2>1. ASSUME \/ EngineWrites(t) \/ TranscriptAges(t) \/ TurnEnds(t) \/ TypedTurn(t) \/ EngineExits(t)
               \/ \E s \in Signals : SignalLost(t, s)
        PROVE  SInv'
    <3>1. /\ UNCHANGED <<rowVars, tabVars, lane, pc, claimed, receipt, client, paneVars, up, spent, crashes>>
          /\ mishaps' = mishaps \/ mishaps' = mishaps + 1
      BY <2>1 DEF EngineWrites, TranscriptAges, TurnEnds, TypedTurn, EngineExits, SignalLost,
                  EngineUnchanged, laneVars, clientVars
    <3> QED
      BY <1>1, <3>1, IdleSafe
  <2> QED
    BY <1>1, <1>5, <2>1, AuthoritySafe, HookPostSafe DEF EngineSteps
<1>6. ASSUME PollerSteps
      PROVE  SInv'
  <2>1. CASE PollList
    <3>1. UNCHANGED <<rowVars, tabVars, lane, pc, claimed, receipt, client, paneVars, up, spent, crashes, mishaps>>
      BY <2>1 DEF PollList, laneVars, clientVars, budgetVars
    <3> QED
      BY <1>1, <3>1, IdleSafe
  <2> QED
    BY <1>1, <1>6, <2>1, PollDecidesSafe DEF PollerSteps
<1>7. CASE Crash \/ Boot
  BY <1>1, <1>7, CrashSafe, BootSafe
<1>8. CASE UNCHANGED vars
  <2>1. UNCHANGED <<rowVars, tabVars, lane, pc, claimed, receipt, client, paneVars, up, spent, crashes, mishaps>>
    BY <1>8 DEF vars, laneVars, clientVars, budgetVars
  <2> QED
    BY <1>1, <2>1, IdleSafe
<1> QED
  BY <1>2, <1>3, <1>4, <1>5, <1>6, <1>7, <1>8 DEF Next

\* The inductive invariant of the queue: what every running task knows, and what every row, tab
\* and request owes to the tasks that touched it.
THEOREM Safe == Spec => []SInv
<1>1. Init => SInv
  BY InitSafe
<1>2. SInv /\ [Next]_vars => SInv'
  BY StepSafe
<1> QED
  BY <1>1, <1>2, PTL DEF Spec

-----------------------------------------------------------------------------
(* What follows from it. *)

\* A row with a copy, or a live one, is of some workspace, whose work speaks of it.
LEMMA RowWork ==
  ASSUME SInv, NEW i \in RowIds, rowState[i] # "unused"
  PROVE  /\ RowTab(i) \in Tabs /\ Home[RowTab(i)] \in Workspaces
         /\ OfLane(Home[RowTab(i)], i) /\ RowOK(Home[RowTab(i)], i)
<1>1. RowTab(i) \in Tabs /\ Home[RowTab(i)] \in Workspaces
  BY RowUsed DEF SInv, IInv
<1> QED
  BY <1>1 DEF SInv, Work, OfLane

LEMMA SafeProperties ==
  ASSUME SInv
  PROVE  FifoPerTab /\ DuplicatesExplained /\ AcceptedIsDurable /\ NoOrphans
<1>1. TypeOK
  BY DEF SInv, IInv
<1>2. FifoPerTab
  BY RowWork DEF FifoPerTab, RowOK
<1>3. DuplicatesExplained
  <2>1. ASSUME NEW i \in RowIds PROVE copies[i] <= 1 + Excuses
    <3>1. CASE rowState[i] = "unused"
      BY <1>1, <3>1, Numbers DEF SInv, UnusedClean
    <3>2. CASE rowState[i] # "unused"
      BY <3>2, RowWork DEF RowOK
    <3> QED
      BY <3>1, <3>2
  <2>2. ASSUME NEW r \in Requests PROVE Effects(r) <= 1 + Excuses
    BY DEF SInv, Work, ReqOK
  <2>3. 1 + Excuses = 1 + crashes + mishaps
    BY <1>1 DEF Excuses, TypeOK, ClientsOK
  <2> QED
    BY <2>1, <2>2, <2>3 DEF DuplicatesExplained, Effects, RowsOf
<1>4. AcceptedIsDurable
  <2>1. ASSUME NEW r \in Requests, "queued" \in {client[r], receipt[r]}
        PROVE  \E i \in RowIds : rowReq[i] = r
    <3>1. ReqOK(Home[Target[r]], r)
      BY DEF SInv, Work
    <3> QED
      BY <2>1, <3>1 DEF ReqOK, RowsOf
  <2>2. ASSUME NEW i \in RowIds, rowState[i] = "delivered" PROVE copies[i] > 0
    BY <2>2, RowWork DEF RowOK
  <2> QED
    BY <2>1, <2>2 DEF AcceptedIsDurable
<1>5. NoOrphans
  BY RowWork DEF NoOrphans, RowOK, Live
<1> QED
  BY <1>2, <1>3, <1>4, <1>5

\* Only a drain at its delivery pastes a queued prompt, and only an input at its paste anything else.
LEMMA WhoPastes ==
  ASSUME SInv, [Next]_vars
  PROVE  \/ UNCHANGED paneVars
         \/ \E w \in Workspaces : DrainDelivers(w) \/ DrainFails(w)
         \/ \E w \in Workspaces : InputWritesPty(w) \/ InputPtyFails(w)
<1>1. ASSUME NEW w \in Workspaces, InputSteps(w), ~InputWritesPty(w) PROVE UNCHANGED paneVars
  BY <1>1 DEF InputSteps, InputReplays, InputRefused, InputReads, InputEnqueues,
              InputMarksInterrupted, InputMarksWorking, InputSaves
<1>2. ASSUME NEW w \in Workspaces, DrainSteps(w), ~DrainDelivers(w) PROVE UNCHANGED paneVars
  BY <1>2 DEF DrainSteps, DrainResolves, DrainClaims, DrainRechecks, DrainMarks, DrainSettles,
              DrainUnchanged, paneVars
<1>3. ASSUME NEW w \in Workspaces, HookRuns(w) PROVE UNCHANGED paneVars
  BY <1>3 DEF HookRuns
<1>4. ASSUME NEW w \in Workspaces, ChoreSteps(w) PROVE UNCHANGED paneVars
  BY <1>4 DEF ChoreSteps, ChoreRefused, Withdraw, CloseTab, SwitchEngine, Resume, ArchiveBegins,
              ArchiveEnds, Unarchive, DeleteBegins, DeleteEnds, ChoreUnchanged
<1>5. ASSUME NEW w \in Workspaces, RequestChore(w) \/ Reconciles(w) PROVE UNCHANGED paneVars
  BY <1>5 DEF RequestChore, Reconciles
<1>6. ASSUME NEW r \in Requests, Submit(r) \/ GiveUp(r) PROVE UNCHANGED paneVars
  BY <1>6 DEF Submit, GiveUp
<1>7. ASSUME NEW t \in Tabs, EngineSteps(t) PROVE UNCHANGED paneVars
  BY <1>7 DEF EngineSteps, EngineWrites, TranscriptAges, TurnEnds, TypedTurn, EngineExits,
              AuthorityExpires, HookPost, SignalLost, EngineUnchanged
<1>8. ASSUME PollerSteps \/ Crash \/ Boot \/ UNCHANGED vars PROVE UNCHANGED paneVars
  BY <1>8 DEF PollerSteps, PollList, PollDecides, Crash, Boot, vars
<1> QED
  BY <1>1, <1>2, <1>3, <1>4, <1>5, <1>6, <1>7, <1>8 DEF Next, LaneSteps

\* The drain pastes the row it holds: the oldest of its tab, which is usable and had no other turn.
LEMMA DrainPastes ==
  ASSUME SInv, NEW w \in Workspaces, DrainDelivers(w) \/ DrainFails(w)
  PROVE  /\ claimed[w] \in RowIds /\ rowState[claimed[w]] = "inflight"
         /\ \A j \in RowIds : j < claimed[w] /\ rowState[j] \in Live => RowTab(j) # RowTab(claimed[w])
         /\ Usable(RowTab(claimed[w])) /\ ~spent[RowTab(claimed[w])]
         /\ \A i \in RowIds : i # claimed[w] => copies'[i] = copies[i]
         /\ UNCHANGED direct
         /\ DrainFails(w) => mishaps' = mishaps + 1 /\ mishaps \in Nat
<1>1. At(w, "drain", "deliver")
  BY DEF DrainDelivers, DrainFails
<1>2. /\ pc[w] = "deliver" /\ IInv /\ TypeOK /\ LaneOK(w) /\ Usable(Drained(w))
      /\ claimed[w] \in RowIds /\ RowTab(claimed[w]) = Drained(w) /\ rowState[claimed[w]] = "inflight"
  BY <1>1, DrainHead DEF ClaimLabels, DrainLabels
<1>3. \A i \in RowIds : i # claimed[w] => copies'[i] = copies[i]
  BY <1>2 DEF DrainDelivers, DrainFails, TypeOK, RowsOK
<1>4. UNCHANGED direct /\ (DrainFails(w) => mishaps' = mishaps + 1 /\ mishaps \in Nat)
  BY <1>2 DEF DrainDelivers, DrainFails, DrainUnchanged, TypeOK, ClientsOK
<1> QED
  BY <1>2, <1>3, <1>4 DEF LaneOK, ClaimLabels

LEMMA InputPastes ==
  ASSUME SInv, NEW w \in Workspaces, InputWritesPty(w) \/ InputPtyFails(w)
  PROVE  /\ Req(w) \in Requests /\ Usable(Target[Req(w)])
         /\ Mode[Req(w)] = "send" /\ ~native[Target[Req(w)]] => RowsIn(Target[Req(w)], Live) = {}
         /\ \A r \in Requests : r # Req(w) => direct'[r] = direct[r]
         /\ UNCHANGED copies
<1>1. At(w, "input", "pty")
  BY DEF InputWritesPty, InputPtyFails
<1>2. pc[w] = "pty" /\ Req(w) \in Requests /\ TypeOK /\ LaneOK(w)
  BY <1>1, TaskHome DEF SInv, IInv, Work
<1>3. \A r \in Requests : r # Req(w) => direct'[r] = direct[r]
  BY <1>2 DEF InputWritesPty, InputPtyFails, Req, TypeOK, ClientsOK
<1> QED
  BY <1>2, <1>3 DEF LaneOK, InputLabels, InputWritesPty, InputPtyFails

LEMMA PasteRules ==
  ASSUME SInv, [Next]_vars
  PROVE  /\ \A i \in RowIds : copies'[i] # copies[i] => Usable(RowTab(i))
         /\ \A r \in Requests : direct'[r] # direct[r] => Usable(Target[r])
         /\ \A i \in RowIds : (copies'[i] # copies[i] /\ mishaps' = mishaps) => ~spent[RowTab(i)]
         /\ \A r \in Requests :
              (direct'[r] # direct[r] /\ Mode[r] = "send" /\ ~native[Target[r]])
                => RowsIn(Target[r], Live) = {}
<1>1. CASE UNCHANGED paneVars
  BY <1>1 DEF paneVars
<1>2. ASSUME NEW w \in Workspaces, DrainDelivers(w) \/ DrainFails(w)
      PROVE  /\ \A i \in RowIds : copies'[i] # copies[i] => Usable(RowTab(i)) /\ ~spent[RowTab(i)]
             /\ UNCHANGED direct
  BY <1>2, DrainPastes
<1>3. ASSUME NEW w \in Workspaces, InputWritesPty(w) \/ InputPtyFails(w)
      PROVE  /\ UNCHANGED copies
             /\ \A r \in Requests : direct'[r] # direct[r] =>
                  /\ Usable(Target[r])
                  /\ Mode[r] = "send" /\ ~native[Target[r]] => RowsIn(Target[r], Live) = {}
  BY <1>3, InputPastes
<1> QED
  BY <1>1, <1>2, <1>3, WhoPastes

\* At least once, and no worse: each copy of a queued prompt beyond the first, and each row or
\* paste of a repeated request, has a crash or a failure of its own, however many there were.
THEOREM CopiesAreExplained == Spec => []DuplicatesExplained
<1>1. SInv => DuplicatesExplained
  BY SafeProperties
<1> QED
  BY <1>1, Safe, PTL

\* Whoever was told `queued` has a row, and only a pasted row is settled, across any number of
\* crashes, replays and withdrawals.
THEOREM AcceptedStays == Spec => []AcceptedIsDurable
<1>1. SInv => AcceptedIsDurable
  BY SafeProperties
<1> QED
  BY <1>1, Safe, PTL

\* Nothing is typed into a frozen workspace or a closed tab, and no row waits for a tab that is
\* gone: the lane alone keeps archive, delete and close out of every delivery.
THEOREM FrozenIsLeftAlone == Spec => FrozenHolds
<1>1. SInv => NoOrphans
  BY SafeProperties
<1>2. SInv /\ [Next]_vars =>
        [/\ \A i \in RowIds : copies'[i] # copies[i] => Usable(RowTab(i))
         /\ \A r \in Requests : direct'[r] # direct[r] => Usable(Target[r])]_vars
  BY PasteRules
<1> QED
  BY <1>1, <1>2, Safe, PTL DEF Spec, FrozenHolds, FrozenIsSilent

\* Prompts reach a pane in the order in which they were queued, no `send` passes one that waits,
\* and an edge of the status starts at most one queued turn, with any number of tabs and lanes.
THEOREM OrderIsKept == Spec => InOrder
<1>1. SInv => FifoPerTab
  BY SafeProperties
<1>2. SInv /\ [Next]_vars =>
        [\A i \in RowIds : (copies'[i] # copies[i] /\ mishaps' = mishaps) => ~spent[RowTab(i)]]_vars
  BY PasteRules
<1>3. SInv /\ [Next]_vars =>
        [\A r \in Requests :
           (direct'[r] # direct[r] /\ Mode[r] = "send" /\ ~native[Target[r]])
             => RowsIn(Target[r], Live) = {}]_vars
  BY PasteRules
<1> QED
  BY <1>1, <1>2, <1>3, Safe, PTL DEF Spec, InOrder, NoOvertaking, OneTurnPerEdge

-----------------------------------------------------------------------------
(* The queue as an outbox. *)

Letters == [i \in RowIds |-> Letter(i)]
Dest == [i \in RowIds |-> IF rowReq[i] = NoReq THEN NoReq ELSE RowTab(i)]

LEMMA LetterOf ==
  ASSUME TypeOK, NEW i \in RowIds
  PROVE  /\ Letter(i) = "pending" <=> rowState[i] \in Live
         /\ Letter(i) = "unposted" <=> rowState[i] = "unused"
  BY DEF Letter, Live, RowStates, TypeOK, RowsOK

\* A row that stays what it is, or moves between the two live states.
LEMMA BoxStutters ==
  ASSUME TypeOK, UNCHANGED <<rowReq, copies>>,
         \A i \in RowIds : rowState'[i] = rowState[i] \/ (rowState[i] \in Live /\ rowState'[i] \in Live)
  PROVE  UNCHANGED Box!vars
<1>1. \A i \in RowIds : Letter(i)' = Letter(i)
  BY DEF Letter, Live
<1>2. Letters' = Letters /\ Dest' = Dest
  BY <1>1 DEF Letters, Dest, RowTab
<1> QED
  BY <1>2 DEF Box!vars, Letters, Dest

LEMMA BoxHands ==
  ASSUME SInv, NEW w \in Workspaces, DrainDelivers(w) \/ DrainFails(w)
  PROVE  [Box!Next]_(Box!vars)
<1> DEFINE c == claimed[w]
<1>1. /\ c \in RowIds /\ rowState[c] = "inflight"
      /\ \A j \in RowIds : j < c /\ rowState[j] \in Live => RowTab(j) # RowTab(c)
  BY DrainPastes
<1>2. TypeOK /\ UNCHANGED rowReq
  BY DEF SInv, IInv, DrainDelivers, DrainFails, DrainUnchanged
<1>3. \A i \in RowIds : rowState'[i] = rowState[i] \/ (rowState[i] \in Live /\ rowState'[i] \in Live)
  BY <1>1, <1>2 DEF DrainDelivers, DrainFails, Release, Live, TypeOK, RowsOK
<1>4. PICK n \in {0, 1} : copies' = [copies EXCEPT ![c] = @ + n]
  BY DEF DrainDelivers, DrainFails
<1>5. CASE n = 0
  <2>1. copies' = copies
    BY <1>1, <1>2, <1>4, <1>5, Numbers DEF TypeOK, RowsOK
  <2> QED
    BY <1>2, <1>3, <2>1, BoxStutters
<1>6. CASE n = 1
  <2>1. \A i \in RowIds : Letter(i)' = Letter(i)
    BY <1>3 DEF Letter, Live
  <2>2. Letters' = Letters /\ Dest' = Dest
    BY <1>2, <2>1 DEF Letters, Dest, RowTab
  <2>3. \A j \in RowIds : rowState[j] \in Live => Dest[j] = RowTab(j)
    BY <1>2 DEF Dest, Live, TypeOK, RowsOK
  <2>4. \A j \in RowIds : Letters[j] = "pending" <=> rowState[j] \in Live
    BY <1>2, LetterOf DEF Letters
  <2>5. Box!Pending = {j \in RowIds : rowState[j] \in Live}
    BY <2>4 DEF Box!Pending, Letters
  <2>6. \A j \in Box!Pending : j < c => Dest[j] # Dest[c]
    BY <1>1, <2>3, <2>5 DEF Live
  <2>7. c \in Box!Pending
    BY <1>1, <2>5 DEF Live
  <2>8. Box!Hand(c)
    BY <1>4, <1>6, <2>2, <2>6, <2>7 DEF Box!Hand, Letters, Dest
  <2> QED
    BY <1>1, <2>8 DEF Box!Next
<1> QED
  BY <1>5, <1>6

LEMMA BoxPosts ==
  ASSUME SInv, NEW w \in Workspaces, InputEnqueues(w)
  PROVE  [Box!Next]_(Box!vars)
<1>1. TypeOK /\ Req(w) \in Requests /\ Target[Req(w)] \in Tabs
  BY TaskHome DEF InputEnqueues, SInv, IInv
<1>2. PICK n \in RowIds :
        /\ n = lastRow + 1 /\ rowReq[n] = NoReq /\ rowState[n] = "unused"
        /\ rowReq' = [rowReq EXCEPT ![n] = Req(w)]
        /\ rowState' = [rowState EXCEPT ![n] = "queued"]
        /\ copies' = copies
  BY <1>1, NewRow
<1>3. /\ rowReq'[n] = Req(w) /\ rowState'[n] = "queued"
      /\ \A i \in RowIds : i # n => rowReq'[i] = rowReq[i] /\ rowState'[i] = rowState[i]
  BY <1>1, <1>2 DEF TypeOK, RowsOK
<1>4. Letters' = [Letters EXCEPT ![n] = "pending"]
  <2>1. Letter(n)' = "pending"
    BY <1>3 DEF Letter, Live
  <2>2. \A i \in RowIds : i # n => Letter(i)' = Letter(i)
    BY <1>3 DEF Letter
  <2> QED
    BY <2>1, <2>2 DEF Letters
<1>5. Dest' = [Dest EXCEPT ![n] = Target[Req(w)]]
  <2>1. \A i \in RowIds : i # n => rowReq'[i] = rowReq[i]
    BY <1>3
  <2>2. Req(w) # NoReq
    BY <1>1
  <2> QED
    BY <1>3, <2>1, <2>2 DEF Dest, RowTab
<1>6. Letters[n] = "unposted" /\ \A j \in RowIds : Letters[j] = "unposted" => n <= j
  <2>1. \A j \in RowIds : Letters[j] = "unposted" <=> rowState[j] = "unused"
    BY <1>1, LetterOf DEF Letters
  <2>2. \A j \in RowIds : rowState[j] = "unused" => n <= j
    BY <1>1, <1>2, Bounds DEF TypeOK, RowsOK, RowIds
  <2> QED
    BY <1>2, <2>1, <2>2
<1>7. Box!Post(n)
  BY <1>1, <1>2, <1>4, <1>5, <1>6 DEF Box!Post, Letters, Dest
<1> QED
  BY <1>7 DEF Box!Next

LEMMA BoxSettles ==
  ASSUME SInv, NEW w \in Workspaces, DrainSettles(w)
  PROVE  [Box!Next]_(Box!vars)
<1>1. PICK c \in RowIds : c = claimed[w] /\ TypeOK /\ rowState[c] = "inflight" /\ copies[c] > 0
  BY DrainHead DEF DrainSettles, ClaimLabels, LaneOK
<1>2. UNCHANGED <<rowReq, copies>> /\ rowState' = [rowState EXCEPT ![c] = "delivered"]
  BY <1>1 DEF DrainSettles, DrainUnchanged
<1>3. Letters' = [Letters EXCEPT ![c] = "settled"] /\ Dest' = Dest
  <2>1. Letter(c)' = "settled" /\ \A i \in RowIds : i # c => Letter(i)' = Letter(i)
    BY <1>1, <1>2 DEF Letter, Live, TypeOK, RowsOK
  <2> QED
    BY <1>2, <2>1 DEF Letters, Dest, RowTab
<1>4. c \in Box!Pending
  BY <1>1, LetterOf DEF Box!Pending, Live
<1>5. Box!Settle(c)
  BY <1>1, <1>2, <1>3, <1>4 DEF Box!Settle, Letters, Dest
<1> QED
  BY <1>1, <1>5 DEF Box!Next

\* Rows that are withdrawn or dropped.
LEMMA BoxDiscards ==
  ASSUME TypeOK, UNCHANGED <<rowReq, copies>>,
         \A i \in RowIds : \/ rowState'[i] = rowState[i]
                           \/ rowState[i] \in Live /\ rowState'[i] \in {"withdrawn", "dropped"}
  PROVE  [Box!Next]_(Box!vars)
<1> DEFINE is == {i \in RowIds : rowState'[i] # rowState[i]}
<1>1. is \subseteq Box!Pending
  BY LetterOf DEF Box!Pending
<1>2. Letters' = [i \in RowIds |-> IF i \in is THEN "discarded" ELSE Letters[i]] /\ Dest' = Dest
  <2>1. \A i \in RowIds : Letter(i)' = IF i \in is THEN "discarded" ELSE Letter(i)
    BY DEF Letter, Live
  <2> QED
    BY <2>1 DEF Letters, Dest, RowTab
<1>3. Box!Discard(is)
  BY <1>1, <1>2 DEF Box!Discard, Letters, Dest
<1> QED
  BY <1>1, <1>3 DEF Box!Next

LEMMA BoxStep ==
  ASSUME SInv, [Next]_vars
  PROVE  [Box!Next]_(Box!vars)
<1>1. IInv /\ TypeOK
  BY DEF SInv, IInv
<1>2. ASSUME NEW w \in Workspaces, InputSteps(w) \/ InputPtyFails(w) PROVE [Box!Next]_(Box!vars)
  <2>1. CASE InputEnqueues(w)
    BY <2>1, BoxPosts
  <2>2. CASE UNCHANGED <<rowReq, rowState, copies>>
    BY <1>1, <2>2, BoxStutters
  <2> QED
    BY <1>2, <2>1, <2>2 DEF InputSteps, InputReplays, InputRefused, InputReads, InputWritesPty,
         InputPtyFails, InputMarksInterrupted, InputMarksWorking, InputSaves, rowVars, paneVars
<1>3. ASSUME NEW w \in Workspaces, DrainSteps(w) \/ DrainFails(w) PROVE [Box!Next]_(Box!vars)
  <2>1. CASE DrainDelivers(w) \/ DrainFails(w)
    BY <2>1, BoxHands
  <2>2. CASE DrainSettles(w)
    BY <2>2, BoxSettles
  <2>3. ASSUME DrainResolves(w) \/ DrainClaims(w) \/ DrainRechecks(w) \/ DrainMarks(w)
        PROVE  [Box!Next]_(Box!vars)
    <3>1. UNCHANGED <<rowReq, copies>>
      BY <2>3 DEF DrainResolves, DrainClaims, DrainRechecks, DrainMarks, DrainUnchanged
    <3>2. DrainRechecks(w) => claimed[w] \in RowIds /\ rowState[claimed[w]] = "inflight"
      BY DrainHead DEF DrainRechecks, ClaimLabels
    <3>3. \A i \in RowIds : rowState'[i] = rowState[i] \/ (rowState[i] \in Live /\ rowState'[i] \in Live)
      BY <1>1, <2>3, <3>2 DEF DrainResolves, DrainClaims, DrainRechecks, DrainMarks, Release, Oldest,
                               RowsIn, Live, TypeOK, RowsOK
    <3> QED
      BY <1>1, <3>1, <3>3, BoxStutters
  <2> QED
    BY <1>3, <2>1, <2>2, <2>3 DEF DrainSteps
<1>4. ASSUME NEW w \in Workspaces, ChoreSteps(w) PROVE [Box!Next]_(Box!vars)
  <2>1. UNCHANGED <<rowReq, copies>>
    BY <1>4 DEF ChoreSteps, ChoreRefused, Withdraw, CloseTab, SwitchEngine, Resume, ArchiveBegins,
                ArchiveEnds, Unarchive, DeleteBegins, DeleteEnds, ChoreUnchanged, paneVars
  <2>2. \A i \in RowIds : \/ rowState'[i] = rowState[i]
                          \/ rowState[i] \in Live /\ rowState'[i] \in {"withdrawn", "dropped"}
    BY <1>1, <1>4 DEF ChoreSteps, ChoreRefused, Withdraw, CloseTab, SwitchEngine, Resume, ArchiveBegins,
                ArchiveEnds, Unarchive, DeleteBegins, DeleteEnds, RemoveTab, DropRows, Live, TypeOK, RowsOK
  <2> QED
    BY <1>1, <2>1, <2>2, BoxDiscards
<1>5. ASSUME Boot PROVE [Box!Next]_(Box!vars)
  <2>1. \A i \in RowIds : rowState'[i] = rowState[i] \/ (rowState[i] \in Live /\ rowState'[i] \in Live)
    BY <1>5 DEF Boot, Recovered, Live
  <2> QED
    BY <1>1, <1>5, <2>1, BoxStutters DEF Boot, paneVars
<1>6. ASSUME \/ \E w \in Workspaces : HookRuns(w) \/ RequestChore(w) \/ Reconciles(w)
             \/ \E r \in Requests : Submit(r) \/ GiveUp(r)
             \/ \E t \in Tabs : EngineSteps(t)
             \/ PollerSteps \/ Crash \/ UNCHANGED vars
      PROVE  [Box!Next]_(Box!vars)
  <2>1. UNCHANGED <<rowReq, rowState, copies>>
    <3> USE DEF rowVars, paneVars
    <3>1. ASSUME NEW w \in Workspaces, HookRuns(w) \/ RequestChore(w) \/ Reconciles(w)
          PROVE  UNCHANGED <<rowReq, rowState, copies>>
      BY <3>1 DEF HookRuns, RequestChore, Reconciles
    <3>2. ASSUME NEW r \in Requests, Submit(r) \/ GiveUp(r)
          PROVE  UNCHANGED <<rowReq, rowState, copies>>
      BY <3>2 DEF Submit, GiveUp
    <3>3. ASSUME NEW t \in Tabs, EngineSteps(t)
          PROVE  UNCHANGED <<rowReq, rowState, copies>>
      BY <3>3 DEF EngineSteps, EngineWrites, TranscriptAges, TurnEnds, TypedTurn, EngineExits,
                  AuthorityExpires, HookPost, SignalLost, EngineUnchanged
    <3>4. ASSUME PollerSteps \/ Crash \/ UNCHANGED vars
          PROVE  UNCHANGED <<rowReq, rowState, copies>>
      BY <3>4 DEF PollerSteps, PollList, PollDecides, Crash, vars
    <3> QED
      BY <1>6, <3>1, <3>2, <3>3, <3>4
  <2> QED
    BY <1>1, <2>1, BoxStutters
<1> QED
  BY <1>2, <1>3, <1>4, <1>5, <1>6 DEF Next, LaneSteps

\* The queue is an outbox: every step of the daemon, its crash and its recovery included, is a
\* step of the outbox or no step at all.  Rows leave in order, at least once, and none comes back.
THEOREM QueueIsOutbox == Spec => ImplementsOutbox
<1>1. Init => Box!Init
  <2> SUFFICES ASSUME Init PROVE Box!Init
    OBVIOUS
  <2>1. \A i \in RowIds : Letter(i) = "unposted"
    BY DEF Init, Letter, Live
  <2>2. Letters = [i \in RowIds |-> "unposted"] /\ Dest = [i \in RowIds |-> NoReq]
    BY <2>1 DEF Letters, Dest, Init
  <2> QED
    BY <2>2 DEF Init, Box!Init, Letters, Dest
<1>2. SInv /\ [Next]_vars => [Box!Next]_(Box!vars)
  BY BoxStep
<1> QED
  BY <1>1, <1>2, Safe, PTL DEF Spec, ImplementsOutbox, Box!Spec
=============================================================================
