------------------------- MODULE TabWindows_proofs -------------------------
(***************************************************************************)
(* Theorems about the tabs of a workspace and the windows of its session,  *)
(* for any number of tabs and windows and any number of deaths of tmux;    *)
(* and, at the end, about its zen layout, which is a specification of its  *)
(* own.                                                                    *)
(***************************************************************************)
EXTENDS TabWindows, Layout, WellFoundedInduction, TLAPS

-----------------------------------------------------------------------------
(* The inductive invariant.                                                  *)

RowsThere == {t \in Tabs : kind[t] # "none"}
OpType ==
  [at : {"free", "observe", "number", "resume", "record", "insert", "window", "row", "remove", "deliver"},
   tab : Tabs \cup {Nobody}, window : 0..NoWindow, todo : SUBSET Tabs,
   next : {"done", "create", "review", "deliver"}, ensured : BOOLEAN]

\* Rows that name the same number are the same row, and only one that is being opened names none.
Distinct == \A t, u \in RowsThere : t # u => win[t] # win[u]
Numbers == \A t \in RowsThere : win[t] = NoWindow => op.at \in {"window", "record"} /\ op.tab = t

\* What runs in the window of a row is its own, and no shell has window 0.
Own == \A t \in RowsThere : win[t] \in Indices => runs[win[t]] \in {Nobody, t}
NoShellFirst == \A t \in Tabs : kind[t] = "shell" => win[t] # 0

\* While a window is made or respawned every row has its window, but those that are yet to be
\* healed and the one that is opened.  At rest a heal that failed may have left rows without.
Pending == op.todo \cup (IF op.at \in {"window", "record", "remove"} THEN {op.tab} ELSE {})
Healed == Session /\ op.at \in {"resume", "record", "row"} => \A t \in RowsThere \ Pending : Live(win[t])

\* The window that was made for a tab is kept for it until its row says so.
Reserved ==
  /\ op.at \in {"record", "row"} =>
       /\ op.window \in Indices /\ op.tab \in Tabs
       /\ \A t \in RowsThere \ {op.tab} : win[t] # op.window
       /\ runs[op.window] \in {Nobody, op.tab}
       /\ Session => runs[op.window] = op.tab
  /\ op.at = "row" => kind[op.tab] = "none" /\ op.window # 0
  /\ op.at = "number" =>
       /\ op.tab \in Tabs
       /\ \A t \in RowsThere \ {op.tab} : win[t] # 0
       /\ runs[0] \in {Nobody, op.tab} /\ \A i \in Indices \ {0} : ~Live(i)

\* What a request knows of its tab.
Knows ==
  /\ op.todo \subseteq Engines /\ (op.todo # {} => op.at \in {"resume", "record"})
  /\ op.at \in {"number", "record", "window", "deliver"} => op.tab \in Engines \ op.todo
  /\ op.at = "window" => win[op.tab] = NoWindow
  /\ op.next = "deliver" /\ op.at # "free" => op.tab \in Engines /\ op.todo = {} /\ op.at \in {"window", "record", "resume", "deliver"}
  /\ op.at \in {"remove"} => op.tab \in Tabs
  /\ op.ensured => Session

Apart == Distinct /\ Numbers /\ Own /\ NoShellFirst /\ Healed /\ Reserved /\ Knows /\ ~hurt /\ ~stray
TabsInv == TabsTypeOK /\ op \in OpType /\ (Undisturbed => Apart)

\* The bounds and the types, as the steps below use them.
LEMMA TabTypes ==
  ASSUME TabsTypeOK, op \in OpType
  PROVE  /\ Nobody \notin Tabs /\ Indices \subseteq Nat /\ NoWindow \in Nat /\ NoWindow \notin Indices
         /\ 0 \in Indices /\ 0..NoWindow = Indices \cup {NoWindow} /\ \A i \in Indices : i < NoWindow
         /\ \A i \in Indices : \A j \in 0..i : j \in Indices
         /\ \A t \in Tabs : win[t] \in Nat /\ (win[t] # NoWindow => win[t] \in Indices)
         /\ kind \in [Tabs -> {"none", "engine", "shell"}] /\ win \in [Tabs -> Indices \cup {NoWindow}]
         /\ runs \in [Indices -> Tabs \cup {Nobody}]
<1>1. MaxWindow \in Nat /\ Nobody \notin Tabs
  BY TabWindowsAssumption
<1>2. /\ Indices \subseteq Nat /\ NoWindow \in Nat /\ NoWindow \notin Indices
      /\ 0 \in Indices /\ 0..NoWindow = Indices \cup {NoWindow} /\ \A i \in Indices : i < NoWindow
      /\ \A i \in Indices : \A j \in 0..i : j \in Indices
  BY <1>1 DEF Indices, NoWindow
<1>3. /\ kind \in [Tabs -> {"none", "engine", "shell"}] /\ win \in [Tabs -> Indices \cup {NoWindow}]
      /\ runs \in [Indices -> Tabs \cup {Nobody}]
  BY <1>2 DEF TabsTypeOK
<1>4. \A t \in Tabs : win[t] \in Nat /\ (win[t] # NoWindow => win[t] \in Indices)
  BY <1>2, <1>3
<1> QED
  BY <1>1, <1>2, <1>3, <1>4

\* A set of tabs that is not empty has one with the lowest number.
LEMMA FirstIsLowest ==
  ASSUME TabsTypeOK, op \in OpType, NEW S \in SUBSET Tabs, S # {}
  PROVE  FirstOf(S) \in S /\ \A u \in S : win[FirstOf(S)] <= win[u]
<1> DEFINE R == OpToRel(<, Nat)
           T == {win[t] : t \in S}
<1>1. \A t \in S : win[t] \in Nat
  BY TabTypes
<1>2. T \subseteq Nat /\ T # {}
  BY <1>1
<1>3. IsWellFoundedOn(R, Nat)
  BY NatLessThanWellFounded, Zenon
<1>4. \E x \in T : \A y \in T : <<y, x>> \notin R
  <2> HIDE DEF R, T
  <2> QED
    BY <1>2, <1>3, WFMin
<1>5. PICK x \in T : \A y \in T : <<y, x>> \notin R
  BY <1>4
<1>6. \A y \in T : ~(y < x)
  <2> SUFFICES ASSUME NEW y \in T, y < x PROVE FALSE
    OBVIOUS
  <2>1. <<y, x>> \in R
    BY <1>2 DEF OpToRel
  <2> QED
    BY <2>1, <1>5
<1>7. \A y \in T : x <= y
  BY <1>2, <1>6
<1>8. PICK t \in S : x = win[t]
  BY <1>5
<1>9. \A u \in S : win[t] <= win[u]
  BY <1>7, <1>8
<1> QED
  BY <1>9 DEF FirstOf

\* The types hold on, step by step.
LEMMA FreeTyped == TabsTypeOK /\ op \in OpType => Free \in OpType
BY TabTypes DEF Free, OpType

LEMMA PrunedTyped ==
  ASSUME TabsTypeOK, NEW w
  PROVE  /\ Pruned(w) \in [Tabs -> {"none", "engine", "shell"}]
         /\ \A t \in Tabs : Pruned(w)[t] = kind[t] \/ (kind[t] = "shell" /\ Pruned(w)[t] = "none")
BY DEF TabsTypeOK, Pruned

LEMMA RespawnTyped ==
  ASSUME TabsTypeOK, op \in OpType, NEW t \in Tabs, Respawn(t)
  PROVE  runs' \in [Indices -> Tabs \cup {Nobody}] /\ hurt' \in BOOLEAN
BY DEF TabsTypeOK, Respawn

LEMMA TabsTyped == TabsTypeOK /\ op \in OpType /\ [TabsNext]_tabVars => TabsTypeOK' /\ op' \in OpType
<1> SUFFICES ASSUME TabsTypeOK, op \in OpType, [TabsNext]_tabVars PROVE TabsTypeOK' /\ op' \in OpType
  OBVIOUS
<1> DEFINE Kinds == [Tabs -> {"none", "engine", "shell"}]
           Wins == [Tabs -> 0..NoWindow]
           Reviews == [Tabs -> BOOLEAN]
           Runs == [Indices -> Tabs \cup {Nobody}]
<1>1. /\ kind \in Kinds /\ win \in Wins /\ review \in Reviews /\ runs \in Runs
      /\ ended \in BOOLEAN /\ crashed \in BOOLEAN /\ lent \in BOOLEAN /\ muddled \in BOOLEAN
      /\ stray \in BOOLEAN /\ hurt \in BOOLEAN
      /\ faults \in 0..MaxFaults /\ 0 \in 0..NoWindow /\ NoWindow \in 0..NoWindow /\ Indices \subseteq 0..NoWindow
      /\ Free \in OpType /\ NoWindows \in Runs /\ 0 \in Indices /\ Engines \subseteq Tabs
  BY TabTypes, FreeTyped DEF TabsTypeOK, NoWindows, Engines
<1>2. ASSUME kind' \in Kinds, win' \in Wins, review' \in Reviews, runs' \in Runs, op' \in OpType,
             ended' \in BOOLEAN, crashed' \in BOOLEAN, lent' \in BOOLEAN, muddled' \in BOOLEAN,
             stray' \in BOOLEAN, hurt' \in BOOLEAN,
             faults' \in 0..MaxFaults
      PROVE  TabsTypeOK' /\ op' \in OpType
  BY <1>2 DEF TabsTypeOK, OpType
<1>3. ASSUME NEW a, AskOp(a, "done") \/ AskOp(a, "create") \/ AskOp(a, "review"), a \in {"observe", "insert"}
      PROVE  op' \in OpType
  <2>1. ASSUME NEW n \in {"done", "create", "review"}, AskOp(a, n) PROVE op' \in OpType
    <3>1. op' = [Free EXCEPT !.at = a, !.next = n]
      BY <2>1 DEF AskOp
    <3>2. a \in {"observe", "insert"}
      BY <1>3
    <3> QED
      BY <1>1, <3>1, <3>2 DEF OpType
  <2> QED
    BY <1>3, <2>1
<1> HIDE DEF Kinds, Wins, Reviews, Runs
<1>4. CASE AskEnsure
  BY <1>1, <1>2, <1>3, <1>4 DEF AskEnsure, rows, past
<1>5. CASE Observe
  <2>1. op' \in OpType
    BY <1>5, <1>1 DEF Observe, OpType
  <2>2. kind' \in Kinds
    BY <1>5, PrunedTyped DEF Observe, Kinds
  <2> QED
    BY <1>1, <1>2, <1>5, <2>1, <2>2 DEF Observe, past
<1>6. CASE Number
  <2>1. op' \in OpType
    <3>1. CASE op' = Free
      BY <1>1, <3>1
    <3>2. CASE op' = [op EXCEPT !.at = "resume", !.window = NoWindow, !.todo = Engines \ {op.tab}, !.ensured = TRUE]
      BY <1>1, <3>2 DEF OpType
    <3> QED
      BY <1>6, <3>1, <3>2 DEF Number
  <2>2. kind' \in Kinds
    BY <1>6, <1>1, PrunedTyped DEF Number, Kinds
  <2>3. win' \in Wins
    BY <1>6, <1>1 DEF Number, Wins
  <2> QED
    BY <1>1, <1>2, <1>6, <2>1, <2>2, <2>3 DEF Number, past
<1>7. CASE Record
  <2>1. op' \in OpType
    BY <1>7, <1>1 DEF Record, OpType
  <2>2. win' \in Wins
    BY <1>7, <1>1 DEF Record, Wins, OpType
  <2> QED
    BY <1>1, <1>2, <1>7, <2>1, <2>2 DEF Record, past
<1>8. CASE HealEnds
  <2>1. op' \in OpType
    BY <1>8, <1>1 DEF HealEnds, OpType
  <2> QED
    BY <1>1, <1>2, <1>8, <2>1 DEF HealEnds, past, rows
<1>9. CASE AskEngine
  BY <1>1, <1>2, <1>3, <1>9 DEF AskEngine, rows, past
<1>10. CASE OpenWindow
  <2>1. op' \in OpType
    <3>1. ASSUME NEW i \in Indices, op' = [op EXCEPT !.at = "record", !.window = i] PROVE op' \in OpType
      BY <1>1, <3>1 DEF OpType
    <3> QED
      BY <1>10, <1>1, <3>1 DEF OpenWindow
  <2>2. kind' \in Kinds
    BY <1>10, <1>1 DEF OpenWindow, Kinds
  <2>3. runs' \in Runs
    BY <1>10, <1>1 DEF OpenWindow, Runs, OpType
  <2>4. muddled' \in BOOLEAN
    BY <1>10, <1>1 DEF OpenWindow, OpensPast
  <2> QED
    BY <1>1, <1>2, <1>10, <2>1, <2>2, <2>3, <2>4 DEF OpenWindow
<1>11. CASE OutOfNames
  BY <1>1, <1>2, <1>11 DEF OutOfNames, rows, past
<1>12. CASE AskReview
  <2>1. op' \in OpType
    <3>1. ASSUME NEW t \in Engines, op' = [Free EXCEPT !.at = "deliver", !.tab = t] PROVE op' \in OpType
      BY <3>1, <1>1 DEF Free, OpType
    <3> QED
      BY <1>3, <1>12, <3>1 DEF AskReview
  <2> QED
    BY <1>1, <1>2, <1>12, <2>1 DEF AskReview, rows, past
<1>13. CASE DeliverReview
  <2>1. stray' \in BOOLEAN
    BY <1>13 DEF DeliverReview, Lands
  <2> QED
    BY <1>1, <1>2, <1>13, <2>1 DEF DeliverReview, rows
<1>14. CASE InsertShell
  <2>1. kind' \in Kinds
    BY <1>14, <1>1 DEF InsertShell, Kinds
  <2>2. win' \in Wins
    BY <1>14, <1>1 DEF InsertShell, Wins, OpType
  <2>3. review' \in Reviews
    BY <1>14, <1>1 DEF InsertShell, Reviews
  <2> QED
    BY <1>1, <1>2, <1>14, <2>1, <2>2, <2>3 DEF InsertShell, past
<1>15. CASE RemoveRow
  <2>1. kind' \in Kinds
    BY <1>15, <1>1 DEF RemoveRow, Kinds
  <2> QED
    BY <1>1, <1>2, <1>15, <2>1 DEF RemoveRow, past
<1>16. CASE TmuxServerEnds
  <2>1. faults' \in 0..MaxFaults
    BY <1>16, <1>1, TabWindowsAssumption DEF TmuxServerEnds
  <2>2. op' \in OpType
    BY <1>16 DEF TmuxServerEnds, OpType
  <2> QED
    BY <1>1, <1>2, <1>16, <2>1, <2>2 DEF TmuxServerEnds, rows, past
<1>17. CASE DaemonCrashes
  <2>1. faults' \in 0..MaxFaults
    BY <1>17, <1>1, TabWindowsAssumption DEF DaemonCrashes
  <2> QED
    BY <1>1, <1>2, <1>17, <2>1 DEF DaemonCrashes, rows
<1>18. ASSUME NEW i \in Indices, WindowEnds(i) PROVE TabsTypeOK' /\ op' \in OpType
  <2>1. faults' \in 0..MaxFaults
    BY <1>18, <1>1, TabWindowsAssumption DEF WindowEnds
  <2>2. runs' \in Runs
    BY <1>18, <1>1 DEF WindowEnds, Runs
  <2> QED
    BY <1>1, <1>2, <1>18, <2>1, <2>2 DEF WindowEnds, rows
<1>19. ASSUME NEW t \in Tabs, Recreate(t) PROVE TabsTypeOK' /\ op' \in OpType
  <2>1. op' \in OpType
    BY <1>19, <1>1 DEF Recreate, OpType
  <2>2. kind' \in Kinds
    BY <1>19, <1>1 DEF Recreate, Kinds, rows
  <2>3. win' \in Wins
    BY <1>19, <1>1 DEF Recreate, Wins, rows
  <2>4. review' \in Reviews
    BY <1>19, <1>1 DEF Recreate, Reviews, rows
  <2>5. runs' \in Runs
    BY <1>19, <1>1 DEF Recreate, Runs
  <2> QED
    BY <1>1, <1>2, <1>19, <2>1, <2>2, <2>3, <2>4, <2>5 DEF Recreate, past
<1>20. ASSUME NEW t \in Tabs, AskResume(t) PROVE TabsTypeOK' /\ op' \in OpType
  <2>1. op' \in OpType
    BY <1>20, <1>1 DEF AskResume, Free, OpType
  <2>2. muddled' \in BOOLEAN
    BY <1>20, <1>1 DEF AskResume, OpensPast
  <2> QED
    BY <1>1, <1>2, <1>20, <2>1, <2>2 DEF AskResume, rows
<1>21. ASSUME NEW t \in Tabs, Resume(t) PROVE TabsTypeOK' /\ op' \in OpType
  <2>1. op' \in OpType
    <3>1. CASE op' = [op EXCEPT !.at = "observe", !.todo = {}]
      BY <3>1 DEF OpType
    <3>2. CASE op' = [op EXCEPT !.todo = @ \ {t}]
      BY <3>2 DEF OpType
    <3>3. ASSUME NEW i \in Indices,
                 op' = [op EXCEPT !.at = "record", !.tab = t, !.window = i, !.todo = @ \ {t}]
          PROVE  op' \in OpType
      BY <1>1, <3>3 DEF OpType
    <3> QED
      BY <1>21, <3>1, <3>2, <3>3 DEF Resume
  <2>2. runs' \in Runs /\ hurt' \in BOOLEAN
    <3>1. CASE UNCHANGED <<runs, hurt>>
      BY <1>1, <3>1
    <3>2. CASE Respawn(t)
      BY <3>2, RespawnTyped DEF Runs
    <3>3. ASSUME NEW i \in Indices, runs' = [runs EXCEPT ![i] = t], UNCHANGED hurt PROVE runs' \in Runs /\ hurt' \in BOOLEAN
      BY <1>1, <3>3 DEF Runs
    <3> QED
      BY <1>21, <3>1, <3>2, <3>3 DEF Resume
  <2> QED
    BY <1>1, <1>2, <1>21, <2>1, <2>2 DEF Resume, rows
<1>22. ASSUME NEW t \in Tabs, InsertRow(t) PROVE TabsTypeOK' /\ op' \in OpType
  <2>1. op' \in OpType
    BY <1>22 DEF InsertRow, OpType
  <2>2. kind' \in Kinds
    BY <1>22, <1>1 DEF InsertRow, Kinds
  <2>3. win' \in Wins
    BY <1>22, <1>1 DEF InsertRow, Wins
  <2>4. review' \in Reviews
    BY <1>22, <1>1 DEF InsertRow, Reviews
  <2> QED
    BY <1>1, <1>2, <1>22, <2>1, <2>2, <2>3, <2>4 DEF InsertRow, past
<1>23. ASSUME NEW t \in Tabs, Input(t) PROVE TabsTypeOK' /\ op' \in OpType
  <2>1. stray' \in BOOLEAN
    BY <1>23 DEF Input, Lands
  <2> QED
    BY <1>1, <1>2, <1>23, <2>1 DEF Input, rows
<1>24. ASSUME NEW t \in Tabs, AskShell(t) PROVE TabsTypeOK' /\ op' \in OpType
  <2>1. PICK i \in Indices : /\ runs' = [runs EXCEPT ![i] = t]
                             /\ op' = [Free EXCEPT !.at = "row", !.tab = t, !.window = i]
                             /\ lent' = (lent \/ i = 0)
    BY <1>24 DEF AskShell
  <2>2. op' \in OpType
    BY <1>1, <2>1 DEF Free, OpType
  <2>3. runs' \in Runs
    BY <1>1, <2>1 DEF Runs
  <2>4. lent' \in BOOLEAN /\ muddled' \in BOOLEAN
    BY <1>1, <1>24, <2>1 DEF AskShell, OpensPast
  <2> QED
    BY <1>1, <1>2, <1>24, <2>2, <2>3, <2>4 DEF AskShell, rows
<1>25. ASSUME NEW t \in Tabs, AskClose(t) PROVE TabsTypeOK' /\ op' \in OpType
  <2>1. op' \in OpType
    BY <1>25, <1>1 DEF AskClose, Free, OpType
  <2>2. runs' \in Runs /\ hurt' \in BOOLEAN
    BY <1>25, <1>1 DEF AskClose, Runs
  <2> QED
    BY <1>1, <1>2, <1>25, <2>1, <2>2 DEF AskClose, rows
<1>26. ASSUME NEW t \in Tabs, SwitchEngine(t) PROVE TabsTypeOK' /\ op' \in OpType
  <2>1. runs' \in Runs /\ hurt' \in BOOLEAN
    BY <1>26, RespawnTyped DEF SwitchEngine, Runs
  <2> QED
    BY <1>1, <1>2, <1>26, <2>1 DEF SwitchEngine, rows
<1>27. ASSUME NEW t \in Tabs, Rename(t) PROVE TabsTypeOK' /\ op' \in OpType
  <2>1. review' \in Reviews
    BY <1>27, <1>1 DEF Rename, Reviews
  <2> QED
    BY <1>1, <1>2, <1>27, <2>1 DEF Rename, past
<1>28. CASE UNCHANGED tabVars
  BY <1>1, <1>2, <1>28 DEF tabVars, rows, past
<1>29. CASE StartFails
  <2>1. kind' \in Kinds
    BY <1>29, <1>1 DEF StartFails, Kinds
  <2> QED
    BY <1>1, <1>2, <1>29, <2>1 DEF StartFails, past
<1>30. CASE RequestFails
  BY <1>1, <1>2, <1>30 DEF RequestFails, rows, past
<1> QED
  BY <1>4, <1>5, <1>6, <1>7, <1>8, <1>9, <1>10, <1>11, <1>12, <1>13, <1>14, <1>15, <1>16, <1>17, <1>18, <1>19, <1>20,
     <1>21, <1>22, <1>23, <1>24, <1>25, <1>26, <1>27, <1>28, <1>29, <1>30 DEF TabsNext

\* A history of faults only grows.
LEMMA UndisturbedBefore == TabsTypeOK /\ [TabsNext]_tabVars /\ Undisturbed' => Undisturbed
<1> SUFFICES ASSUME TabsTypeOK, [TabsNext]_tabVars, Undisturbed' PROVE Undisturbed
  OBVIOUS
<1> DEFINE Same == ended' = ended /\ crashed' = crashed /\ lent' = lent /\ (muddled => muddled')
<1>1. Same => Undisturbed
  BY DEF Undisturbed
<1>2. AskEnsure => Same
  BY DEF AskEnsure, past
<1>3. Observe => Same
  BY DEF Observe, past
<1>4. Number => Same
  BY DEF Number, past
<1>5. Record => Same
  BY DEF Record, past
<1>6. HealEnds => Same
  BY DEF HealEnds, past
<1>7. AskEngine => Same
  BY DEF AskEngine, past
<1>8. OpenWindow => Same
  <2> SUFFICES ASSUME OpenWindow PROVE Same
    OBVIOUS
  <2>1. ended' = ended /\ crashed' = crashed /\ lent' = lent
    BY DEF OpenWindow
  <2>2. muddled' = muddled \/ OpensPast(op.tab)
    BY DEF OpenWindow
  <2>3. muddled => muddled'
    <3>1. CASE OpensPast(op.tab)
      BY <3>1 DEF OpensPast
    <3> QED
      BY <2>2, <3>1
  <2> QED
    BY <2>1, <2>3
<1>9. OutOfNames => Same
  BY DEF OutOfNames, past
<1>10. AskReview => Same
  <2> SUFFICES ASSUME AskReview PROVE Same
    OBVIOUS
  <2>1. past' = past
    BY DEF AskReview
  <2> QED
    BY <2>1 DEF past
<1>11. DeliverReview => Same
  BY DEF DeliverReview, past
<1>12. InsertShell => Same
  BY DEF InsertShell, past
<1>13. RemoveRow => Same
  BY DEF RemoveRow, past
<1>14. TmuxServerEnds => Same
  BY DEF TmuxServerEnds, past
<1>15. \A t \in Tabs : Recreate(t) => Same
  BY DEF Recreate, past
<1>16. \A t \in Tabs : AskResume(t) => Same
  BY DEF AskResume, OpensPast
<1>17. \A t \in Tabs : Resume(t) => Same
  <2> SUFFICES ASSUME NEW t \in Tabs, Resume(t) PROVE Same
    OBVIOUS
  <2>1. ended' = ended /\ crashed' = crashed /\ lent' = lent /\ muddled' = muddled
    BY DEF Resume
  <2> QED
    BY <2>1
<1>18. \A t \in Tabs : InsertRow(t) => Same
  BY DEF InsertRow, past
<1>19. \A t \in Tabs : Input(t) => Same
  BY DEF Input, past
<1>20. \A t \in Tabs : AskClose(t) => Same
  BY DEF AskClose, past
<1>21. \A t \in Tabs : SwitchEngine(t) => Same
  BY DEF SwitchEngine, past
<1>22. \A t \in Tabs : Rename(t) => Same
  BY DEF Rename, past
<1>23. (UNCHANGED tabVars) => Same
  BY DEF tabVars, past
<1>24. \A i \in Indices : ~WindowEnds(i)
  BY DEF WindowEnds, Undisturbed
<1>25. ~DaemonCrashes
  BY DEF DaemonCrashes, Undisturbed
<1>26. \A t \in Tabs : AskShell(t) => Undisturbed
  <2> SUFFICES ASSUME NEW t \in Tabs, AskShell(t) PROVE Undisturbed
    OBVIOUS
  <2>1. PICK i \in Indices : lent' = (lent \/ i = 0)
    BY DEF AskShell
  <2>2. lent \in BOOLEAN /\ ended' = ended /\ crashed' = crashed /\ (muddled => muddled')
    BY DEF AskShell, OpensPast, TabsTypeOK
  <2>3. ~lent
    BY <2>1, <2>2 DEF Undisturbed
  <2> QED
    BY <2>2, <2>3 DEF Undisturbed
<1>27. StartFails => Same
  BY DEF StartFails, past
<1>28. RequestFails => Same
  BY DEF RequestFails, past
<1> HIDE DEF Same
<1> QED
  BY <1>1, <1>2, <1>3, <1>4, <1>5, <1>6, <1>7, <1>8, <1>9, <1>10, <1>11, <1>12, <1>13, <1>14, <1>15, <1>16, <1>17, <1>18, <1>19, <1>20, <1>21, <1>22, <1>23, <1>24, <1>25, <1>26,
     <1>27, <1>28 DEF TabsNext

\* While no request is in the middle of something, every row has a number, and after a heal its
\* window with the session.
Quiet == op.todo = {} /\ op.at \notin {"window", "record", "remove", "number"}

LEMMA QuietIsWhole ==
  ASSUME TabsTypeOK, op \in OpType, Apart, Quiet
  PROVE  /\ \A t \in RowsThere : win[t] # NoWindow /\ win[t] \in Indices
         /\ Session /\ op.at \in {"resume", "row"} => \A t \in RowsThere : Live(win[t])
<1>1. \A t \in RowsThere : win[t] # NoWindow
  BY DEF Apart, Numbers, Quiet
<1>2. \A t \in RowsThere : win[t] \in Indices
  BY <1>1, TabTypes DEF RowsThere
<1>3. Pending = {}
  BY DEF Quiet, Pending
<1>4. Session /\ op.at \in {"resume", "row"} => \A t \in RowsThere : Live(win[t])
  BY <1>3 DEF Apart, Healed
<1> QED
  BY <1>1, <1>2, <1>4

LEMMA FreeIsQuiet ==
  ASSUME Apart, op.at \in {"free", "insert", "observe", "deliver", "row"}
  PROVE  Quiet
BY DEF Apart, Knows, Quiet

\* A step that leaves rows and windows alone, from a request that is in the middle of nothing.
LEMMA RequestMoves ==
  ASSUME TabsTypeOK, op \in OpType, Apart, Quiet, kind' = kind, win' = win, runs' = runs, ~hurt', ~stray',
         Healed', Reserved', Knows'
  PROVE  Apart'
<1>1. RowsThere' = RowsThere
  BY DEF RowsThere
<1>2. \A t \in RowsThere : win[t] # NoWindow /\ win[t] \in Indices
  BY QuietIsWhole
<1>3. Distinct' /\ Own' /\ NoShellFirst'
  BY <1>1 DEF Apart, Distinct, Own, NoShellFirst
<1>4. Numbers'
  BY <1>1, <1>2 DEF Numbers
<1> QED
  BY <1>3, <1>4 DEF Apart

\* A request that is asked for, or that ends, is in the middle of nothing.
LEMMA FreeReserves ==
  ASSUME op'.at \in {"free", "observe", "insert", "resume", "deliver"} PROVE Reserved'
BY DEF Reserved

LEMMA FreeHeals ==
  ASSUME op'.at \in {"free", "observe", "insert", "window", "remove", "deliver"} PROVE Healed'
BY DEF Healed

LEMMA FreeKnows ==
  ASSUME op'.at \in {"free", "observe", "insert"}, op'.todo = {}, op'.next # "deliver" \/ op'.at = "free",
         op'.ensured => Session'
  PROVE  Knows'
BY DEF Knows

LEMMA AskKnows ==
  ASSUME NEW a, AskOp(a, "done") \/ AskOp(a, "create") \/ AskOp(a, "review"), a \in {"observe", "insert"}
  PROVE  Healed' /\ Reserved' /\ Knows'
<1>1. op'.at = a /\ op'.todo = {} /\ op'.next # "deliver" /\ op'.ensured = FALSE
  BY DEF AskOp, Free
<1> QED
  BY <1>1, FreeHeals, FreeReserves, FreeKnows

LEMMA FreeIs == op' = Free => op'.at = "free" /\ op'.todo = {} /\ op'.next = "done" /\ op'.ensured = FALSE
BY DEF Free

LEMMA AskApart ==
  ASSUME TabsTypeOK, op \in OpType, Apart, AskEnsure \/ AskEngine \/ AskReview \/ OutOfNames
  PROVE  Apart'
<1>1. op.at \in {"free", "insert"} /\ kind' = kind /\ win' = win /\ runs' = runs /\ hurt' = hurt /\ stray' = stray
  BY DEF AskEnsure, AskEngine, AskReview, OutOfNames, AskOp, OpAt, rows, past
<1>2. Healed' /\ Reserved' /\ Knows'
  <2>1. CASE AskEnsure
    BY <2>1, AskKnows DEF AskEnsure
  <2>2. CASE AskEngine
    BY <2>2, AskKnows DEF AskEngine
  <2>3. ASSUME NEW t \in Engines, op' = [Free EXCEPT !.at = "deliver", !.tab = t], AskReview PROVE Healed' /\ Reserved' /\ Knows'
    <3>1. Engines' = Engines
      BY <1>1 DEF Engines
    <3>2. op'.at = "deliver" /\ op'.todo = {} /\ op'.tab = t /\ op'.ensured = FALSE
      BY <2>3 DEF Free
    <3> QED
      BY <2>3, <3>1, <3>2, FreeHeals, FreeReserves DEF Knows
  <2>4. CASE AskReview
    BY <2>3, <2>4, AskKnows DEF AskReview
  <2>5. CASE OutOfNames
    BY <2>5, FreeIs, FreeHeals, FreeReserves, FreeKnows DEF OutOfNames
  <2> QED
    BY <2>1, <2>2, <2>4, <2>5
<1>3. ~hurt' /\ ~stray'
  BY <1>1 DEF Apart
<1> QED
  BY <1>1, <1>2, <1>3, FreeIsQuiet, RequestMoves

LEMMA AskResumeApart ==
  ASSUME TabsTypeOK, op \in OpType, Apart, NEW t \in Tabs, AskResume(t), ~muddled'
  PROVE  Apart'
<1>1. op.at = "free" /\ kind' = kind /\ win' = win /\ runs' = runs /\ hurt' = hurt /\ stray' = stray
  BY DEF AskResume, OpAt, rows, past
<1>2. op'.at = "resume" /\ op'.todo = {t} /\ op'.next = "done" /\ op'.ensured = FALSE
  BY DEF AskResume, Free
<1>3. Engines' = Engines /\ t \in Engines
  BY <1>1 DEF Engines, AskResume
<1>4. Reserved' /\ Knows'
  BY <1>2, <1>3, FreeReserves DEF Knows
<1>5. ~hurt' /\ ~stray'
  BY <1>1 DEF Apart
<1>6. Healed'
  <2>1. RowsThere' = RowsThere /\ (Session' <=> Session) /\ Pending' = {t} /\ win' = win /\ \A i : Live(i)' <=> Live(i)
    BY <1>1, <1>2 DEF RowsThere, Session, Live, Pending
  <2>2. Session => Unhealed(t) = {}
    BY DEF AskResume, OpensPast
  <2>3. Session => \A u \in RowsThere \ {t} : Live(win[u])
    BY <2>2 DEF Unhealed, RowsThere
  <2> QED
    BY <2>1, <2>3 DEF Healed
<1> QED
  BY <1>1, <1>4, <1>5, <1>6, FreeIsQuiet, RequestMoves

LEMMA HealEndsApart ==
  ASSUME TabsTypeOK, op \in OpType, Apart, HealEnds
  PROVE  Apart'
<1>1. op.at = "resume" /\ op.todo = {} /\ kind' = kind /\ win' = win /\ runs' = runs /\ hurt' = hurt /\ stray' = stray
  BY DEF HealEnds, OpAt, rows, past
<1>2. Engines' = Engines /\ (Session' <=> Session) /\ Quiet
  BY <1>1 DEF Engines, Session, Live, Quiet
<1>3. Healed' /\ Reserved' /\ Knows'
  <2>1. CASE op.next \in {"create", "review"}
    <3>1. op' = [op EXCEPT !.at = "insert"]
      BY <2>1 DEF HealEnds
    <3>2. op'.at = "insert" /\ op'.todo = {} /\ op'.next = op.next /\ op'.ensured = op.ensured
      BY <1>1, <3>1 DEF OpType
    <3>3. op'.ensured => Session'
      BY <1>2, <3>2 DEF Apart, Knows
    <3> QED
      BY <2>1, <3>2, <3>3, FreeHeals, FreeReserves, FreeKnows
  <2>2. CASE op.next = "deliver"
    <3>1. op' = [op EXCEPT !.at = "deliver"]
      BY <2>2 DEF HealEnds
    <3>2. op'.at = "deliver" /\ op'.todo = {} /\ op'.tab = op.tab /\ op'.ensured = op.ensured
      BY <1>1, <3>1 DEF OpType
    <3>3. (op'.ensured => Session') /\ op'.tab \in Engines'
      BY <1>1, <1>2, <2>2, <3>2 DEF Apart, Knows
    <3> QED
      BY <3>2, <3>3, FreeHeals, FreeReserves DEF Knows
  <2>3. CASE op.next \notin {"create", "review", "deliver"}
    <3>1. op' = Free
      BY <2>3 DEF HealEnds
    <3> QED
      BY <3>1, FreeIs, FreeHeals, FreeReserves, FreeKnows
  <2> QED
    BY <2>1, <2>2, <2>3
<1>4. ~hurt' /\ ~stray'
  BY <1>1 DEF Apart
<1> QED
  BY <1>1, <1>2, <1>3, <1>4, RequestMoves

\* Text for a tab that has its window reaches that tab.
LEMMA LandsWell ==
  ASSUME TabsTypeOK, op \in OpType, Apart, Quiet, NEW t \in Engines, Lands(t)
  PROVE  ~stray'
<1>1. t \in RowsThere
  BY DEF Engines, RowsThere
<1>2. win[t] # NoWindow /\ win[t] \in Indices
  BY <1>1, QuietIsWhole
<1>3. runs[win[t]] \in {Nobody, t}
  BY <1>1, <1>2 DEF Apart, Own
<1> QED
  BY <1>2, <1>3 DEF Lands, Apart

LEMMA InputApart ==
  ASSUME TabsTypeOK, op \in OpType, Apart, NEW t \in Tabs, Input(t)
  PROVE  Apart'
<1>1. op.at = "free" /\ kind' = kind /\ win' = win /\ runs' = runs /\ hurt' = hurt /\ op' = op /\ t \in Engines /\ Lands(t)
  BY DEF Input, OpAt, rows
<1>2. Quiet
  BY <1>1, FreeIsQuiet
<1>3. Engines' = Engines /\ (Session' <=> Session)
  BY <1>1 DEF Engines, Session, Live
<1>4. Healed' /\ Reserved' /\ Knows'
  BY <1>1, <1>3, FreeHeals, FreeReserves DEF Apart, Knows
<1> QED
  BY <1>1, <1>2, <1>4, LandsWell, RequestMoves DEF Apart

LEMMA DeliverReviewApart ==
  ASSUME TabsTypeOK, op \in OpType, Apart, DeliverReview
  PROVE  Apart'
<1>1. op.at = "deliver" /\ kind' = kind /\ win' = win /\ runs' = runs /\ hurt' = hurt /\ op' = Free /\ Lands(op.tab)
  BY DEF DeliverReview, OpAt, rows
<1>2. Quiet /\ op.tab \in Engines
  BY <1>1, FreeIsQuiet DEF Apart, Knows
<1>3. Healed' /\ Reserved' /\ Knows'
  BY <1>1, FreeIs, FreeHeals, FreeReserves, FreeKnows
<1> QED
  BY <1>1, <1>2, <1>3, LandsWell, RequestMoves DEF Apart

LEMMA RenameApart ==
  ASSUME TabsTypeOK, op \in OpType, Apart, NEW t \in Tabs, Rename(t)
  PROVE  Apart'
<1>1. op.at = "free" /\ kind' = kind /\ win' = win /\ runs' = runs /\ hurt' = hurt /\ stray' = stray /\ op' = op
  BY DEF Rename, OpAt, past
<1>2. Engines' = Engines /\ (Session' <=> Session)
  BY <1>1 DEF Engines, Session, Live
<1>3. Healed' /\ Reserved' /\ Knows'
  BY <1>1, <1>2, FreeHeals, FreeReserves DEF Apart, Knows
<1> QED
  BY <1>1, <1>3, FreeIsQuiet, RequestMoves DEF Apart

\* A request that fails leaves the rows and the windows as they are.
LEMMA RequestFailsApart ==
  ASSUME TabsTypeOK, op \in OpType, Apart, RequestFails
  PROVE  Apart'
<1>1. /\ op.at \in {"observe", "resume", "insert", "deliver"} /\ op' = Free
      /\ kind' = kind /\ win' = win /\ runs' = runs /\ hurt' = hurt /\ stray' = stray
  BY DEF RequestFails, rows, past
<1>2. RowsThere' = RowsThere
  BY <1>1 DEF RowsThere
<1>3. Distinct' /\ Own' /\ NoShellFirst'
  BY <1>1, <1>2 DEF Apart, Distinct, Own, NoShellFirst
<1>4. Numbers'
  BY <1>1, <1>2 DEF Apart, Numbers
<1>5. Healed' /\ Reserved' /\ Knows'
  BY <1>1, FreeIs, FreeHeals, FreeReserves, FreeKnows
<1> QED
  BY <1>1, <1>3, <1>4, <1>5 DEF Apart

LEMMA StartFailsApart ==
  ASSUME TabsTypeOK, op \in OpType, Apart, StartFails
  PROVE  Apart'
<1>1. /\ op.at = "number" /\ op' = Free /\ win' = win /\ runs' = runs /\ hurt' = hurt /\ stray' = stray
      /\ kind' = [kind EXCEPT ![op.tab] = IF op.window = 0 THEN "none" ELSE @]
  BY DEF StartFails, OpAt, past
<1>2. \A t \in Tabs : kind'[t] \in {kind[t], "none"}
  BY <1>1 DEF TabsTypeOK
<1>3. RowsThere' \subseteq RowsThere
  BY <1>2 DEF RowsThere
<1>4. Distinct' /\ Own'
  BY <1>1, <1>3 DEF Apart, Distinct, Own
<1>5. Numbers'
  BY <1>1, <1>3 DEF Apart, Numbers
<1>6. NoShellFirst'
  BY <1>1, <1>2 DEF Apart, NoShellFirst
<1>7. Healed' /\ Reserved' /\ Knows'
  BY <1>1, FreeIs, FreeHeals, FreeReserves, FreeKnows
<1> QED
  BY <1>1, <1>4, <1>5, <1>6, <1>7 DEF Apart

-----------------------------------------------------------------------------
(* The steps that heal.                                                      *)

LEMMA ObserveApart ==
  ASSUME TabsTypeOK, op \in OpType, Apart, Observe
  PROVE  Apart'
<1>1. /\ op.at = "observe" /\ Session /\ kind' = Pruned(runs) /\ win' = win /\ runs' = runs
      /\ hurt' = hurt /\ stray' = stray
      /\ op' = [op EXCEPT !.at = "resume", !.todo = {t \in Engines : ~Live(win[t])}, !.ensured = TRUE]
  BY DEF Observe, OpAt, past
<1>2. op'.at = "resume" /\ op'.todo = {t \in Engines : ~Live(win[t])} /\ op'.next = op.next
  BY <1>1 DEF OpType
<1>3. Quiet /\ op.next # "deliver"
  BY <1>1, FreeIsQuiet DEF Apart, Knows
<1>4. (Session' <=> Session) /\ \A i : Live(i)' <=> Live(i)
  BY <1>1 DEF Session, Live
<1>5. \A t \in Tabs : kind'[t] = kind[t] \/ (kind[t] = "shell" /\ kind'[t] = "none")
  BY <1>1, PrunedTyped
<1>6. RowsThere' \subseteq RowsThere /\ Engines' = Engines
  BY <1>5 DEF RowsThere, Engines
<1>7. \A t \in RowsThere : win[t] # NoWindow /\ win[t] \in Indices
  BY <1>1, <1>3, QuietIsWhole
<1>8. Distinct' /\ Own'
  BY <1>1, <1>6 DEF Apart, Distinct, Own
<1>9. Numbers'
  BY <1>1, <1>6, <1>7 DEF Numbers
<1>10. NoShellFirst'
  BY <1>1, <1>5 DEF Apart, NoShellFirst
<1>11. Healed'
  <2> SUFFICES ASSUME NEW t \in RowsThere' \ Pending' PROVE Live(win[t])
    BY <1>1, <1>4 DEF Healed
  <2>1. t \in Tabs /\ kind'[t] # "none" /\ kind[t] \in {"engine", "shell"} /\ t \notin op'.todo
    BY <1>5 DEF RowsThere, TabsTypeOK, Pending
  <2>2. CASE kind[t] = "engine"
    BY <1>2, <2>1, <2>2 DEF Engines
  <2>3. CASE kind[t] = "shell"
    BY <1>1, <2>1, <2>3 DEF Pruned, Live
  <2> QED
    BY <2>1, <2>2, <2>3
<1>12. Reserved'
  BY <1>2, FreeReserves
<1>13. Knows'
  BY <1>1, <1>2, <1>3, <1>4, <1>6 DEF Knows
<1> QED
  BY <1>1, <1>8, <1>9, <1>10, <1>11, <1>12, <1>13 DEF Apart

LEMMA RecreateApart ==
  ASSUME TabsTypeOK, op \in OpType, Apart, NEW t \in Tabs, Recreate(t)
  PROVE  Apart'
<1>1. /\ op.at = "observe" /\ ~Session /\ runs' = [NoWindows EXCEPT ![0] = t] /\ hurt' = hurt /\ stray' = stray
      /\ op' = [op EXCEPT !.at = "number", !.tab = t, !.window = IF Engines = {} THEN 0 ELSE NoWindow]
  BY DEF Recreate, OpAt, past
<1>2. op'.at = "number" /\ op'.tab = t /\ op'.todo = op.todo /\ op'.next = op.next /\ op'.ensured = op.ensured
  BY <1>1 DEF OpType
<1>3. Quiet /\ op.next # "deliver" /\ ~op.ensured
  BY <1>1, FreeIsQuiet DEF Apart, Knows
<1>4. /\ \A u \in RowsThere : win[u] # NoWindow /\ win[u] \in Indices
      /\ \A u \in RowsThere : kind[u] = "shell" => win[u] # 0
  BY <1>3, QuietIsWhole DEF Apart, NoShellFirst, RowsThere
<1>5. 0 \in Indices /\ 0 \in Nat /\ 0 # NoWindow /\ \A u \in Tabs : win[u] \in Nat
  BY TabTypes
<1>6. runs'[0] = t /\ \A i \in Indices \ {0} : runs'[i] = Nobody
  BY <1>1, <1>5 DEF NoWindows
<1>7. /\ t \in Engines' /\ RowsThere' = RowsThere \cup {t}
      /\ \A u \in Tabs \ {t} : kind'[u] = kind[u] /\ win'[u] = win[u]
      /\ \A u \in RowsThere' \ {t} : win'[u] # 0
      /\ win'[t] # NoWindow
  <2>1. CASE Engines = {}
    <3>1. kind' = [kind EXCEPT ![t] = "engine"] /\ win' = [win EXCEPT ![t] = 0]
      BY <2>1 DEF Recreate
    <3>2. kind'[t] = "engine" /\ win'[t] = 0 /\ \A u \in Tabs \ {t} : kind'[u] = kind[u] /\ win'[u] = win[u]
      BY <3>1 DEF TabsTypeOK
    <3>3. \A u \in RowsThere : kind[u] = "shell"
      BY <2>1 DEF RowsThere, Engines, TabsTypeOK
    <3>4. t \in Engines' /\ RowsThere' = RowsThere \cup {t}
      BY <3>2 DEF RowsThere, Engines
    <3> QED
      BY <1>4, <1>5, <3>2, <3>3, <3>4 DEF RowsThere
  <2>2. CASE Engines # {}
    <3>1. t = FirstOf(Engines) /\ kind' = kind /\ win' = win
      BY <2>2 DEF Recreate, rows
    <3>2. t \in Engines /\ \A u \in Engines : win[t] <= win[u]
      <4>1. Engines \in SUBSET Tabs
        BY DEF Engines
      <4> QED
        BY <2>2, <3>1, <4>1, FirstIsLowest
    <3>3. t \in Engines' /\ t \in RowsThere /\ RowsThere' = RowsThere
      BY <3>1, <3>2 DEF RowsThere, Engines
    <3>4. \A u \in RowsThere \ {t} : win[u] # 0
      <4> SUFFICES ASSUME NEW u \in RowsThere \ {t}, win[u] = 0 PROVE FALSE
        OBVIOUS
      <4>1. u \in Engines
        BY <1>4 DEF RowsThere, Engines, TabsTypeOK
      <4>2. win[t] \in Nat /\ win[t] <= 0
        BY <1>5, <3>2, <4>1
      <4>3. win[t] = win[u]
        BY <4>2
      <4> QED
        BY <3>3, <4>3 DEF Apart, Distinct
    <3> QED
      BY <1>4, <3>1, <3>3, <3>4
  <2> QED
    BY <2>1, <2>2
<1>8. RowsThere' \subseteq Tabs /\ RowsThere \subseteq Tabs /\ t \notin RowsThere' \ {t} /\ RowsThere' \ {t} \subseteq RowsThere
  BY <1>7 DEF RowsThere
<1>9. Distinct'
  <2> SUFFICES ASSUME NEW u \in RowsThere', NEW v \in RowsThere', u # v PROVE win'[u] # win'[v]
    BY DEF Distinct
  <2>1. CASE u # t /\ v # t
    BY <1>7, <1>8, <2>1 DEF Apart, Distinct
  <2>2. ASSUME NEW x \in RowsThere' \ {t} PROVE win'[x] # win'[t]
    <3>1. CASE Engines = {}
      BY <1>7, <3>1 DEF Recreate, TabsTypeOK
    <3>2. CASE Engines # {}
      <4>1. kind' = kind /\ win' = win
        BY <3>2 DEF Recreate, rows
      <4>2. t \in RowsThere
        BY <1>7, <4>1 DEF Engines, RowsThere
      <4> QED
        BY <1>8, <4>1, <4>2 DEF Apart, Distinct
    <3> QED
      BY <3>1, <3>2
  <2> QED
    BY <2>1, <2>2
<1>10. Numbers'
  BY <1>4, <1>7, <1>8 DEF Numbers
<1>11. Own'
  BY <1>6, <1>7, <1>8 DEF Own
<1>12. NoShellFirst'
  BY <1>4, <1>7, <1>8 DEF NoShellFirst, RowsThere, Engines
<1>13. Healed'
  BY <1>2 DEF Healed
<1>14. Reserved'
  <2>1. \A i \in Indices \ {0} : ~Live(i)'
    BY <1>6 DEF Live
  <2> QED
    BY <1>2, <1>6, <1>7, <2>1 DEF Reserved
<1>15. Knows'
  BY <1>2, <1>3, <1>7 DEF Knows, Quiet
<1> QED
  BY <1>1, <1>9, <1>10, <1>11, <1>12, <1>13, <1>14, <1>15 DEF Apart

LEMMA NumberApart ==
  ASSUME TabsTypeOK, op \in OpType, Apart, Number
  PROVE  Apart'
<1>1. op.at = "number" /\ win' = [win EXCEPT ![op.tab] = 0] /\ runs' = runs /\ hurt' = hurt /\ stray' = stray
  BY DEF Number, OpAt, past
<1>2. /\ op.tab \in Engines /\ op.tab \in Tabs /\ op.todo = {} /\ op.next # "deliver"
      /\ \A t \in RowsThere \ {op.tab} : win[t] # 0
      /\ runs[0] \in {Nobody, op.tab} /\ \A i \in Indices \ {0} : ~Live(i)
  BY <1>1 DEF Apart, Knows, Reserved
<1>3. 0 \in Indices /\ 0 # NoWindow
  BY TabTypes
<1>4. win'[op.tab] = 0 /\ \A t \in Tabs \ {op.tab} : win'[t] = win[t]
  BY <1>1, <1>2 DEF TabsTypeOK
<1>5. (Session' <=> Session) /\ \A i : Live(i)' <=> Live(i)
  BY <1>1 DEF Session, Live
<1>6. \A t \in Tabs : kind'[t] = kind[t] \/ (kind[t] = "shell" /\ kind'[t] = "none")
  BY PrunedTyped DEF Number
<1>7. RowsThere' \subseteq RowsThere /\ Engines' = Engines /\ RowsThere \subseteq Tabs
  BY <1>6 DEF RowsThere, Engines
<1>8. Distinct'
  BY <1>2, <1>4, <1>7 DEF Apart, Distinct
<1>9. Numbers'
  BY <1>1, <1>2, <1>3, <1>4, <1>7 DEF Apart, Numbers
<1>10. Own'
  BY <1>1, <1>2, <1>4, <1>7 DEF Apart, Own
<1>11. NoShellFirst'
  BY <1>2, <1>4, <1>6 DEF Apart, NoShellFirst, Engines
<1>12. CASE op' = Free
  <2>1. Healed' /\ Reserved' /\ Knows'
    BY <1>12, FreeIs, FreeHeals, FreeReserves, FreeKnows
  <2> QED
    BY <1>1, <1>8, <1>9, <1>10, <1>11, <2>1 DEF Apart
<1>13. ASSUME Session, kind' = Pruned(runs),
              op' = [op EXCEPT !.at = "resume", !.window = NoWindow, !.todo = Engines \ {op.tab}, !.ensured = TRUE]
       PROVE  Apart'
  <2>1. kind' = Pruned(runs)
    BY <1>13
  <2>2. op'.at = "resume" /\ op'.todo = Engines \ {op.tab} /\ op'.next = op.next
    BY <1>13 DEF OpType
  <2>3. Live(0)
    BY <1>2, <1>13 DEF Session
  <2>4. \A t \in RowsThere' : kind[t] = "shell" => FALSE
    <3> SUFFICES ASSUME NEW t \in RowsThere', kind[t] = "shell" PROVE FALSE
      OBVIOUS
    <3>1. t \in Tabs /\ kind'[t] # "none"
      BY <1>7 DEF RowsThere
    <3>2. win[t] \in Indices /\ runs[win[t]] # Nobody
      BY <2>1, <3>1 DEF Pruned
    <3>3. win[t] # 0
      BY <3>1 DEF Apart, NoShellFirst
    <3> QED
      BY <1>2, <3>2, <3>3 DEF Live
  <2>5. RowsThere' \subseteq Engines
    BY <1>7, <2>4 DEF RowsThere, Engines, TabsTypeOK
  <2>6. Healed'
    <3>1. \A t \in RowsThere' \ Pending' : t = op.tab
      BY <2>2, <2>5 DEF Pending
    <3> QED
      BY <1>4, <1>5, <2>3, <3>1 DEF Healed
  <2>7. Reserved' /\ Knows'
    BY <1>2, <1>5, <1>7, <1>13, <2>2, FreeReserves DEF Knows
  <2> QED
    BY <1>1, <1>8, <1>9, <1>10, <1>11, <2>6, <2>7 DEF Apart
<1> QED
  BY <1>12, <1>13 DEF Number

\* What respawn-window does to a window that is the tab's own.
LEMMA RespawnsOwn ==
  ASSUME TabsTypeOK, op \in OpType, Apart, NEW t \in RowsThere, win[t] # NoWindow, Respawn(t)
  PROVE  ~hurt' /\ runs' = runs
<1>1. t \in Tabs /\ win[t] \in Indices /\ runs \in [Indices -> Tabs \cup {Nobody}]
  BY TabTypes DEF RowsThere
<1>2. runs[win[t]] \in {Nobody, t}
  BY <1>1 DEF Apart, Own
<1>3. ~hurt'
  BY <1>2 DEF Respawn, Apart
<1>4. CASE Live(win[t])
  <2>1. runs[win[t]] = t
    BY <1>2, <1>4 DEF Live
  <2>2. runs' = [runs EXCEPT ![win[t]] = t]
    BY <1>4 DEF Respawn
  <2>3. [runs EXCEPT ![win[t]] = t] = runs
    BY <1>1, <2>1
  <2> QED
    BY <1>3, <2>2, <2>3
<1>5. CASE ~Live(win[t])
  BY <1>3, <1>5 DEF Respawn
<1> QED
  BY <1>4, <1>5

LEMMA SwitchEngineApart ==
  ASSUME TabsTypeOK, op \in OpType, Apart, NEW t \in Tabs, SwitchEngine(t)
  PROVE  Apart'
<1>1. /\ op.at = "free" /\ op' = op /\ kind' = kind /\ win' = win /\ stray' = stray
      /\ t \in Engines /\ win[t] # NoWindow /\ Respawn(t)
  BY DEF SwitchEngine, OpAt, rows
<1>2. t \in RowsThere
  BY <1>1 DEF Engines, RowsThere
<1>3. ~hurt' /\ runs' = runs
  BY <1>1, <1>2, RespawnsOwn
<1>4. Engines' = Engines /\ (Session' <=> Session)
  BY <1>1, <1>3 DEF Engines, Session, Live
<1>5. Healed' /\ Reserved' /\ Knows'
  BY <1>1, <1>4, FreeHeals, FreeReserves DEF Apart, Knows
<1> QED
  BY <1>1, <1>3, <1>5, FreeIsQuiet, RequestMoves DEF Apart

\* A new window for one of the tabs that are healed: no other row names its number.  A tab that has
\* been healed has a live window, and one that is still to come keeps a higher number than this tab,
\* whose own is free.
LEMMA NewWindowIsNobodys ==
  ASSUME TabsTypeOK, op \in OpType, Apart, OpAt("resume"), Session, op.todo # {}, NEW i \in Indices, FreeWindow(i),
         ~Live(win[FirstOf(op.todo)])
  PROVE  \A u \in RowsThere : u # FirstOf(op.todo) => win[u] # i
<1> DEFINE t == FirstOf(op.todo)
<1>1. op.todo \subseteq Engines /\ op.todo \in SUBSET Tabs /\ op.at = "resume"
  BY DEF Apart, Knows, OpAt, OpType
<1>2. t \in op.todo /\ \A u \in op.todo : win[t] <= win[u]
  BY <1>1, FirstIsLowest
<1>3. t \in RowsThere
  BY <1>1, <1>2 DEF RowsThere, Engines
<1> HIDE DEF t
<1> SUFFICES ASSUME NEW u \in RowsThere, u # t, win[u] = i PROVE FALSE
  BY DEF t
<1>4. CASE u \notin op.todo
  <2>1. u \in RowsThere \ Pending
    BY <1>1, <1>4 DEF Pending
  <2>2. Live(win[u])
    BY <1>1, <2>1 DEF Apart, Healed
  <2> QED
    BY <2>2 DEF FreeWindow
<1>5. CASE u \in op.todo
  <2>1. win[t] <= i /\ win[t] # i
    BY <1>2, <1>3, <1>5 DEF Apart, Distinct
  <2>2. win[t] \in Indices
    BY <1>1, <1>3, TabTypes DEF Apart, Numbers, RowsThere
  <2>3. win[t] < i
    BY <2>1, <2>2, TabTypes
  <2>4. Live(win[t])
    BY <2>2, <2>3 DEF FreeWindow
  <2> QED
    BY <2>4 DEF t
<1> QED
  BY <1>4, <1>5

LEMMA ResumeApart ==
  ASSUME TabsTypeOK, op \in OpType, Apart, NEW t \in Tabs, Resume(t)
  PROVE  Apart'
<1>1. op.at = "resume" /\ op.todo # {} /\ t = FirstOf(op.todo) /\ kind' = kind /\ win' = win /\ stray' = stray
  BY DEF Resume, OpAt, rows
<1>2. op.todo \subseteq Engines /\ op.todo \in SUBSET Tabs /\ op.next # "deliver" /\ (op.ensured => Session)
  BY <1>1 DEF Apart, Knows, OpType
<1>3. t \in op.todo /\ t \in Engines /\ t \in RowsThere
  BY <1>1, <1>2, FirstIsLowest DEF Engines, RowsThere
<1>4. RowsThere' = RowsThere /\ Engines' = Engines
  BY <1>1 DEF RowsThere, Engines
<1>5. Distinct' /\ NoShellFirst'
  BY <1>1, <1>4 DEF Apart, Distinct, NoShellFirst
<1>6. \A u \in RowsThere : win[u] # NoWindow
  BY <1>1 DEF Apart, Numbers
<1>7. Numbers'
  BY <1>1, <1>4, <1>6 DEF Numbers
<1>8. Pending = op.todo
  BY <1>1 DEF Pending
<1>9. \A u \in RowsThere \ op.todo : Session => Live(win[u])
  BY <1>1, <1>8 DEF Apart, Healed
<1>10. CASE ~Session /\ op' = [op EXCEPT !.at = "observe", !.todo = {}] /\ UNCHANGED <<runs, hurt>>
  <2>1. op'.at = "observe" /\ op'.todo = {} /\ op'.next = op.next /\ op'.ensured = op.ensured
    BY <1>10 DEF OpType
  <2>2. (Session' <=> Session) /\ Own'
    BY <1>1, <1>4, <1>10 DEF Session, Live, Apart, Own
  <2>3. Healed'
    BY <1>10, <2>2 DEF Healed
  <2>4. Reserved' /\ Knows'
    BY <1>2, <1>10, <2>1, <2>2, FreeReserves, FreeKnows
  <2> QED
    BY <1>1, <1>5, <1>7, <1>10, <2>2, <2>3, <2>4 DEF Apart
<1>11. CASE Live(win[t]) /\ Respawn(t) /\ op' = [op EXCEPT !.todo = @ \ {t}]
  <2>1. ~hurt' /\ runs' = runs
    BY <1>3, <1>6, <1>11, RespawnsOwn
  <2>2. (Session' <=> Session) /\ Own' /\ \A i : Live(i)' <=> Live(i)
    BY <1>1, <1>4, <2>1 DEF Session, Live, Apart, Own
  <2>3. op'.at = "resume" /\ op'.todo = op.todo \ {t} /\ op'.next = op.next /\ op'.ensured = op.ensured
    BY <1>1, <1>11 DEF OpType
  <2>4. Healed'
    BY <1>1, <1>4, <1>9, <1>11, <2>2, <2>3 DEF Healed, Pending
  <2>5. Reserved' /\ Knows'
    BY <1>2, <1>4, <2>2, <2>3, FreeReserves DEF Knows
  <2> QED
    BY <1>1, <1>5, <1>7, <2>1, <2>2, <2>4, <2>5 DEF Apart
<1>12. ASSUME Session, ~Live(win[t]), NEW i \in Indices, FreeWindow(i), runs' = [runs EXCEPT ![i] = t], UNCHANGED hurt,
              op' = [op EXCEPT !.at = "record", !.tab = t, !.window = i, !.todo = @ \ {t}]
       PROVE  Apart'
  <2>1. /\ op'.at = "record" /\ op'.tab = t /\ op'.window = i /\ op'.todo = op.todo \ {t} /\ op'.next = op.next
        /\ op'.ensured = op.ensured
    BY <1>12 DEF OpType
  <2>2. runs'[i] = t /\ \A j \in Indices \ {i} : runs'[j] = runs[j]
    BY <1>12, TabTypes
  <2>3. \A u \in RowsThere : u # t => win[u] # i
    BY <1>1, <1>12, NewWindowIsNobodys DEF OpAt
  <2>4. t # Nobody
    BY TabTypes
  <2>5. Session' /\ \A j : Live(j) => Live(j)'
    BY <1>12, <2>2, <2>4 DEF Session, Live
  <2>6. Own'
    BY <1>1, <1>4, <2>2, <2>3 DEF Apart, Own
  <2>7. Healed'
    BY <1>1, <1>4, <1>9, <1>12, <2>1, <2>5 DEF Healed, Pending
  <2>8. Reserved'
    BY <1>1, <1>4, <2>1, <2>2, <2>3 DEF Reserved
  <2>9. Knows'
    BY <1>2, <1>3, <1>4, <2>1, <2>5 DEF Knows
  <2> QED
    BY <1>1, <1>5, <1>7, <1>12, <2>6, <2>7, <2>8, <2>9 DEF Apart
<1> QED
  BY <1>10, <1>11, <1>12 DEF Resume

LEMMA RecordApart ==
  ASSUME TabsTypeOK, op \in OpType, Apart, Record
  PROVE  Apart'
<1>1. /\ op.at = "record" /\ win' = [win EXCEPT ![op.tab] = op.window] /\ kind' = kind /\ runs' = runs
      /\ hurt' = hurt /\ stray' = stray
  BY DEF Record, OpAt, past
<1>2. /\ op.window \in Indices /\ op.tab \in Tabs /\ op.tab \in Engines \ op.todo /\ op.todo \subseteq Engines
      /\ \A t \in RowsThere \ {op.tab} : win[t] # op.window
      /\ runs[op.window] \in {Nobody, op.tab} /\ (Session => runs[op.window] = op.tab)
      /\ (op.next = "deliver" => op.todo = {}) /\ (op.ensured => Session)
  BY <1>1 DEF Apart, Knows, Reserved
<1>3. win'[op.tab] = op.window /\ \A t \in Tabs \ {op.tab} : win'[t] = win[t]
  BY <1>1, <1>2 DEF TabsTypeOK
<1>4. op.window # NoWindow /\ op.tab # Nobody
  BY <1>2, TabTypes
<1>5. RowsThere' = RowsThere /\ Engines' = Engines /\ (Session' <=> Session) /\ \A i : Live(i)' <=> Live(i)
  BY <1>1 DEF RowsThere, Engines, Session, Live
<1>6. RowsThere \subseteq Tabs
  BY DEF RowsThere
<1>7. Distinct'
  BY <1>2, <1>3, <1>5, <1>6 DEF Apart, Distinct
<1>8. Numbers'
  BY <1>1, <1>3, <1>4, <1>5, <1>6 DEF Apart, Numbers
<1>9. Own'
  BY <1>1, <1>2, <1>3, <1>5, <1>6 DEF Apart, Own
<1>10. NoShellFirst'
  BY <1>1, <1>2, <1>3 DEF Apart, NoShellFirst, Engines
<1>11. CASE ~Live(op.window)
  <2>1. op' = Free /\ ~Session
    BY <1>2, <1>4, <1>11 DEF Record, Live
  <2>2. Healed' /\ Reserved' /\ Knows'
    BY <1>5, <2>1, FreeIs, FreeReserves, FreeKnows DEF Healed
  <2> QED
    BY <1>1, <1>7, <1>8, <1>9, <1>10, <2>2 DEF Apart
<1>12. CASE Live(op.window)
  <2>1. op' = [op EXCEPT !.at = "resume"]
    BY <1>12 DEF Record
  <2>2. op'.at = "resume" /\ op'.tab = op.tab /\ op'.todo = op.todo /\ op'.next = op.next /\ op'.ensured = op.ensured
    BY <2>1 DEF OpType
  <2>3. Pending = op.todo \cup {op.tab} /\ Pending' = op.todo
    BY <1>1, <2>2 DEF Pending
  <2>4. Healed'
    BY <1>1, <1>3, <1>5, <1>6, <1>12, <2>3 DEF Apart, Healed
  <2>5. Reserved' /\ Knows'
    BY <1>2, <1>5, <2>2, FreeReserves DEF Knows
  <2> QED
    BY <1>1, <1>7, <1>8, <1>9, <1>10, <2>4, <2>5 DEF Apart
<1> QED
  BY <1>11, <1>12

-----------------------------------------------------------------------------
(* The steps that open and close tabs.                                       *)

LEMMA InsertRowApart ==
  ASSUME TabsTypeOK, op \in OpType, Apart, NEW t \in Tabs, InsertRow(t)
  PROVE  Apart'
<1>1. /\ op.at = "insert" /\ kind' = [kind EXCEPT ![t] = "engine"] /\ win' = [win EXCEPT ![t] = NoWindow]
      /\ runs' = runs /\ hurt' = hurt /\ stray' = stray
      /\ op' = [op EXCEPT !.at = "window", !.tab = t, !.ensured = FALSE,
                          !.next = IF @ = "review" THEN "deliver" ELSE "done"]
  BY DEF InsertRow, OpAt, past
<1>2. op'.at = "window" /\ op'.tab = t /\ op'.todo = op.todo /\ op'.ensured = FALSE
  BY <1>1 DEF OpType
<1>3. kind[t] = "none"
  <2>1. Unused # {} /\ t = NewTab
    BY DEF InsertRow
  <2>2. t \in Unused
    BY <2>1 DEF NewTab
  <2> QED
    BY <2>2 DEF Unused
<1>4. kind'[t] = "engine" /\ win'[t] = NoWindow /\ \A u \in Tabs \ {t} : kind'[u] = kind[u] /\ win'[u] = win[u]
  BY <1>1 DEF TabsTypeOK
<1>5. RowsThere' = RowsThere \cup {t} /\ t \notin RowsThere /\ RowsThere \subseteq Tabs /\ t \in Engines'
  BY <1>3, <1>4 DEF RowsThere, Engines
<1>6. Quiet
  BY <1>1, FreeIsQuiet
<1>7. \A u \in RowsThere : win[u] # NoWindow /\ win[u] \in Indices
  BY <1>6, QuietIsWhole
<1>9. Distinct'
  BY <1>4, <1>5, <1>7 DEF Apart, Distinct
<1>10. Numbers'
  BY <1>2, <1>4, <1>5, <1>7 DEF Numbers
<1>11. Own'
  BY <1>1, <1>4, <1>5, TabTypes DEF Apart, Own
<1>12. NoShellFirst'
  BY <1>4 DEF Apart, NoShellFirst
<1>13. Healed'
  BY <1>2, FreeHeals
<1>14. Reserved'
  BY <1>2 DEF Reserved
<1>15. Knows'
  BY <1>2, <1>4, <1>5, <1>6 DEF Knows, Quiet
<1> QED
  BY <1>1, <1>9, <1>10, <1>11, <1>12, <1>13, <1>14, <1>15 DEF Apart

\* A window that is made while every other row has its own takes no row's number.
LEMMA FreeIsNobodys ==
  ASSUME NEW S, \A u \in S : Live(win[u]), NEW i, FreeWindow(i) PROVE \A u \in S : win[u] # i
BY DEF FreeWindow

LEMMA OpenWindowApart ==
  ASSUME TabsTypeOK, op \in OpType, Apart, OpenWindow, ~muddled'
  PROVE  Apart'
<1>1. op.at = "window" /\ win' = win /\ hurt' = hurt /\ stray' = stray
  BY DEF OpenWindow, OpAt
<1>2. op.tab \in Engines /\ win[op.tab] = NoWindow /\ op.todo = {} /\ op.tab \in Tabs
  BY <1>1 DEF Apart, Knows, Engines
<1>3. RowsThere \subseteq Tabs /\ op.tab \in RowsThere
  BY <1>2 DEF RowsThere, Engines
<1>4. \A u \in RowsThere \ {op.tab} : win[u] # NoWindow
  BY <1>1 DEF Apart, Numbers
<1>5. CASE kind' = [kind EXCEPT ![op.tab] = "none"] /\ op' = Free /\ UNCHANGED runs
  <2>1. kind'[op.tab] = "none" /\ \A u \in Tabs \ {op.tab} : kind'[u] = kind[u]
    BY <1>2, <1>5 DEF TabsTypeOK
  <2>2. RowsThere' = RowsThere \ {op.tab}
    BY <1>2, <1>5, <2>1 DEF RowsThere
  <2>3. Distinct' /\ Numbers' /\ Own'
    BY <1>1, <1>4, <1>5, <2>2 DEF Apart, Distinct, Numbers, Own
  <2>4. NoShellFirst'
    BY <1>1, <2>1 DEF Apart, NoShellFirst
  <2>5. Healed' /\ Reserved' /\ Knows'
    BY <1>5, FreeIs, FreeHeals, FreeReserves, FreeKnows
  <2> QED
    BY <1>1, <2>3, <2>4, <2>5 DEF Apart
<1>6. ASSUME Session, NEW i \in Indices, FreeWindow(i), runs' = [runs EXCEPT ![i] = op.tab],
             op' = [op EXCEPT !.at = "record", !.window = i], OpensPast(op.tab), UNCHANGED kind
      PROVE  Apart'
  <2>1. /\ op'.at = "record" /\ op'.window = i /\ op'.tab = op.tab /\ op'.todo = {} /\ op'.next = op.next
        /\ op'.ensured = op.ensured
    BY <1>2, <1>6 DEF OpType
  <2>2. runs'[i] = op.tab /\ \A j \in Indices \ {i} : runs'[j] = runs[j]
    BY <1>6, TabTypes
  <2>3. op.tab # Nobody
    BY <1>2, TabTypes
  <2>4. Session' /\ \A j : Live(j) => Live(j)'
    BY <1>6, <2>2, <2>3 DEF Session, Live
  <2>5. RowsThere' = RowsThere /\ Engines' = Engines
    BY <1>6 DEF RowsThere, Engines
  <2>6. \A u \in RowsThere \ {op.tab} : Live(win[u])
    BY <1>6 DEF OpensPast, Unhealed, RowsThere
  <2>7. \A u \in RowsThere \ {op.tab} : win[u] # i
    BY <1>6, <2>6, FreeIsNobodys
  <2>8. Distinct' /\ NoShellFirst'
    BY <1>1, <1>6, <2>5 DEF Apart, Distinct, NoShellFirst
  <2>9. Numbers'
    BY <1>1, <1>4, <2>1, <2>5 DEF Numbers
  <2>10. Own'
    BY <1>1, <1>2, <2>2, <2>5, <2>7, TabTypes DEF Apart, Own
  <2>11. Healed'
    BY <1>1, <2>1, <2>4, <2>5, <2>6 DEF Healed, Pending
  <2>12. Reserved'
    BY <1>1, <1>2, <2>1, <2>2, <2>5, <2>7 DEF Reserved
  <2>13. Knows'
    BY <1>1, <1>2, <2>1, <2>4, <2>5 DEF Apart, Knows
  <2> QED
    BY <1>1, <2>8, <2>9, <2>10, <2>11, <2>12, <2>13 DEF Apart
<1> QED
  BY <1>5, <1>6 DEF OpenWindow

LEMMA AskShellApart ==
  ASSUME TabsTypeOK, op \in OpType, Apart, NEW t \in Tabs, AskShell(t), ~lent', ~muddled'
  PROVE  Apart'
<1>1. op.at = "free" /\ kind' = kind /\ win' = win /\ hurt' = hurt /\ stray' = stray /\ Session
  BY DEF AskShell, OpAt, rows
<1>2. kind[t] = "none"
  <2>1. t \in Unused
    BY DEF AskShell, NewTab
  <2> QED
    BY <2>1 DEF Unused
<1>3. PICK i \in Indices : /\ FreeWindow(i) /\ runs' = [runs EXCEPT ![i] = t]
                           /\ op' = [Free EXCEPT !.at = "row", !.tab = t, !.window = i]
                           /\ lent' = (lent \/ i = 0)
  BY DEF AskShell
<1>4. i # 0
  BY <1>3
<1>5. /\ op'.at = "row" /\ op'.tab = t /\ op'.window = i /\ op'.todo = {} /\ op'.next = "done"
      /\ op'.ensured = FALSE
  BY <1>3 DEF Free
<1>6. runs'[i] = t /\ \A j \in Indices \ {i} : runs'[j] = runs[j]
  BY <1>3, TabTypes
<1>7. t # Nobody
  BY TabTypes
<1>8. Session' /\ \A j : Live(j) => Live(j)'
  BY <1>3, <1>6, <1>7 DEF Session, Live
<1>9. RowsThere' = RowsThere /\ t \notin RowsThere
  BY <1>1, <1>2 DEF RowsThere
<1>10. Quiet
  BY <1>1, FreeIsQuiet
<1>11. \A u \in RowsThere : win[u] # NoWindow /\ Live(win[u])
  <2>1. Unhealed(t) = {}
    BY <1>1 DEF AskShell, OpensPast
  <2>2. \A u \in RowsThere : Live(win[u])
    BY <1>9, <2>1 DEF Unhealed, RowsThere
  <2> QED
    BY <1>10, <2>2, QuietIsWhole
<1>12. \A u \in RowsThere : win[u] # i
  BY <1>3, <1>11, FreeIsNobodys
<1>13. Distinct' /\ NoShellFirst'
  BY <1>1, <1>9 DEF Apart, Distinct, NoShellFirst
<1>14. Numbers'
  BY <1>1, <1>9, <1>11 DEF Numbers
<1>15. Own'
  BY <1>1, <1>6, <1>9, <1>12 DEF Apart, Own
<1>16. Healed'
  BY <1>1, <1>8, <1>9, <1>11 DEF Healed
<1>17. Reserved'
  BY <1>1, <1>2, <1>4, <1>5, <1>6, <1>9, <1>12 DEF Reserved
<1>18. Knows'
  BY <1>5 DEF Knows
<1> QED
  BY <1>1, <1>13, <1>14, <1>15, <1>16, <1>17, <1>18 DEF Apart

LEMMA InsertShellApart ==
  ASSUME TabsTypeOK, op \in OpType, Apart, InsertShell
  PROVE  Apart'
<1>1. /\ op.at = "row" /\ kind' = [kind EXCEPT ![op.tab] = "shell"] /\ win' = [win EXCEPT ![op.tab] = op.window]
      /\ op' = Free /\ runs' = runs /\ hurt' = hurt /\ stray' = stray
  BY DEF InsertShell, OpAt, past
<1>2. /\ op.window \in Indices /\ op.tab \in Tabs /\ op.window # 0 /\ kind[op.tab] = "none"
      /\ \A t \in RowsThere \ {op.tab} : win[t] # op.window
      /\ runs[op.window] \in {Nobody, op.tab} /\ (Session => runs[op.window] = op.tab)
  BY <1>1 DEF Apart, Reserved
<1>3. /\ kind'[op.tab] = "shell" /\ win'[op.tab] = op.window
      /\ \A u \in Tabs \ {op.tab} : kind'[u] = kind[u] /\ win'[u] = win[u]
  BY <1>1, <1>2 DEF TabsTypeOK
<1>4. RowsThere' = RowsThere \cup {op.tab} /\ op.tab \notin RowsThere /\ RowsThere \subseteq Tabs
  BY <1>2, <1>3 DEF RowsThere
<1>5. op.window # NoWindow /\ op.tab # Nobody
  BY <1>2, TabTypes
<1>7. Quiet
  BY <1>1, FreeIsQuiet
<1>8. \A u \in RowsThere : win[u] # NoWindow
  BY <1>7, QuietIsWhole
<1>9. Distinct'
  BY <1>2, <1>3, <1>4 DEF Apart, Distinct
<1>10. Numbers'
  BY <1>3, <1>4, <1>5, <1>8 DEF Numbers
<1>11. Own'
  BY <1>1, <1>2, <1>3, <1>4 DEF Apart, Own
<1>12. NoShellFirst'
  BY <1>2, <1>3 DEF Apart, NoShellFirst
<1>13. Healed' /\ Reserved' /\ Knows'
  BY <1>1, FreeIs, FreeHeals, FreeReserves, FreeKnows
<1> QED
  BY <1>1, <1>9, <1>10, <1>11, <1>12, <1>13 DEF Apart

LEMMA AskCloseApart ==
  ASSUME TabsTypeOK, op \in OpType, Apart, NEW t \in Tabs, AskClose(t)
  PROVE  Apart'
<1>1. op.at = "free" /\ op' = [Free EXCEPT !.at = "remove", !.tab = t] /\ kind' = kind /\ win' = win /\ stray' = stray
  BY DEF AskClose, OpAt, rows
<1>2. op'.at = "remove" /\ op'.tab = t /\ op'.todo = {} /\ op'.next = "done" /\ op'.ensured = FALSE
  BY <1>1 DEF Free
<1>3. t \in RowsThere
  BY DEF AskClose, RowsThere, Engines
<1>4. RowsThere' = RowsThere
  BY <1>1 DEF RowsThere
<1>5. Quiet
  BY <1>1, FreeIsQuiet
<1>6. \A u \in RowsThere : win[u] # NoWindow /\ win[u] \in Indices
  BY <1>5, QuietIsWhole
<1>7. /\ ~hurt' /\ \A j \in Indices : runs'[j] = runs[j] \/ (j = win[t] /\ runs'[j] = Nobody)
      /\ \A j \in Indices : j # win[t] => runs'[j] = runs[j]
  <2>1. CASE Live(win[t])
    <3>1. runs[win[t]] = t
      BY <1>3, <1>6, <2>1 DEF Apart, Own, Live
    <3>2. hurt' = (hurt \/ runs[win[t]] # t) /\ runs' = [runs EXCEPT ![win[t]] = Nobody]
      BY <2>1 DEF AskClose
    <3>3. ~hurt'
      BY <3>1, <3>2 DEF Apart
    <3>4. \A j \in Indices : runs'[j] = IF j = win[t] THEN Nobody ELSE runs[j]
      BY <3>2, TabTypes
    <3> QED
      BY <3>3, <3>4
  <2>2. CASE ~Live(win[t])
    BY <2>2 DEF AskClose, Apart
  <2> QED
    BY <2>1, <2>2
<1>11. Distinct' /\ NoShellFirst'
  BY <1>1, <1>4 DEF Apart, Distinct, NoShellFirst
<1>12. Numbers'
  BY <1>1, <1>4, <1>6 DEF Numbers
<1>13. Own'
  BY <1>1, <1>4, <1>7 DEF Apart, Own
<1>14. Healed'
  BY <1>2, FreeHeals
<1>15. Reserved'
  BY <1>2 DEF Reserved
<1>16. Knows'
  BY <1>2 DEF Knows
<1> QED
  BY <1>1, <1>7, <1>11, <1>12, <1>13, <1>14, <1>15, <1>16 DEF Apart

LEMMA RemoveRowApart ==
  ASSUME TabsTypeOK, op \in OpType, Apart, RemoveRow
  PROVE  Apart'
<1>1. /\ op.at = "remove" /\ kind' = [kind EXCEPT ![op.tab] = "none"] /\ op' = Free /\ win' = win /\ runs' = runs
      /\ hurt' = hurt /\ stray' = stray
  BY DEF RemoveRow, OpAt, past
<1>2. op.tab \in Tabs /\ op.todo = {}
  BY <1>1 DEF Apart, Knows
<1>3. kind'[op.tab] = "none" /\ \A u \in Tabs \ {op.tab} : kind'[u] = kind[u]
  BY <1>1, <1>2 DEF TabsTypeOK
<1>4. RowsThere' = RowsThere \ {op.tab} /\ (Session' <=> Session) /\ \A i : Live(i)' <=> Live(i)
  BY <1>1, <1>3 DEF RowsThere, Session, Live
<1>5. \A u \in RowsThere : win[u] # NoWindow
  BY <1>1 DEF Apart, Numbers
<1>6. Distinct' /\ Numbers' /\ Own'
  BY <1>1, <1>4, <1>5 DEF Apart, Distinct, Numbers, Own
<1>7. NoShellFirst'
  BY <1>1, <1>3 DEF Apart, NoShellFirst
<1>8. Healed' /\ Reserved' /\ Knows'
  BY <1>1, FreeIs, FreeHeals, FreeReserves, FreeKnows
<1> QED
  BY <1>1, <1>6, <1>7, <1>8 DEF Apart

\* Without a session nothing is asked of the windows; what the rows and the request say remains.
LEMMA TmuxServerEndsApart ==
  ASSUME TabsTypeOK, op \in OpType, Apart, TmuxServerEnds
  PROVE  Apart'
<1>1. /\ runs' = NoWindows /\ op' = [op EXCEPT !.ensured = FALSE] /\ kind' = kind /\ win' = win
      /\ hurt' = hurt /\ stray' = stray
  BY DEF TmuxServerEnds, rows, past
<1>2. /\ op'.at = op.at /\ op'.tab = op.tab /\ op'.window = op.window /\ op'.todo = op.todo /\ op'.next = op.next
      /\ op'.ensured = FALSE
  BY <1>1 DEF OpType
<1>3. RowsThere' = RowsThere /\ Engines' = Engines /\ 0 \in Indices /\ \A i \in Indices : runs'[i] = Nobody
  BY <1>1, TabTypes DEF RowsThere, Engines, NoWindows
<1>4. ~Session' /\ \A i : ~Live(i)'
  BY <1>3 DEF Session, Live
<1>5. Distinct' /\ NoShellFirst' /\ Numbers'
  BY <1>1, <1>2, <1>3 DEF Apart, Distinct, NoShellFirst, Numbers
<1>6. Own'
  BY <1>1, <1>3 DEF Apart, Own
<1>7. Healed'
  BY <1>4 DEF Healed
<1>8. Reserved'
  BY <1>1, <1>2, <1>3, <1>4 DEF Apart, Reserved
<1>9. Knows'
  BY <1>1, <1>2, <1>3 DEF Apart, Knows
<1> QED
  BY <1>1, <1>5, <1>6, <1>7, <1>8, <1>9 DEF Apart

LEMMA ApartStutters ==
  ASSUME Apart, UNCHANGED tabVars PROVE Apart'
BY DEF tabVars, rows, past, Apart, Distinct, Numbers, Own, NoShellFirst, Healed, Reserved, Knows, RowsThere, Pending,
   Session, Live, Engines

-----------------------------------------------------------------------------
(* The invariant, and what it gives.                                         *)

LEMMA TabsInitInv == TabsInit => TabsInv
<1> SUFFICES ASSUME TabsInit PROVE TabsInv
  OBVIOUS
<1>1. MaxWindow \in Nat /\ MaxFaults \in Nat /\ Nobody \notin Tabs /\ Tabs # {}
  BY TabWindowsAssumption
<1>2. 0 \in Indices /\ NoWindow \notin Indices /\ 0 \in 0..NoWindow /\ NoWindow \in 0..NoWindow /\ 0 # NoWindow
  BY <1>1 DEF Indices, NoWindow
<1>3. PICK t \in Tabs :
        \/ /\ kind = [u \in Tabs |-> IF u = t THEN "engine" ELSE "none"]
           /\ win = [u \in Tabs |-> IF u = t THEN 0 ELSE NoWindow]
           /\ runs = [NoWindows EXCEPT ![0] = t]
        \/ /\ kind = [u \in Tabs |-> "none"]
           /\ win = [u \in Tabs |-> NoWindow]
           /\ runs = NoWindows
  BY <1>1 DEF TabsInit
<1>4. op = Free /\ op \in OpType
  BY <1>2 DEF TabsInit, Free, OpType
<1>5. op.at = "free" /\ op.todo = {} /\ op.next = "done" /\ op.ensured = FALSE
  BY <1>4 DEF Free
<1>6. NoWindows \in [Indices -> Tabs \cup {Nobody}] /\ runs \in [Indices -> Tabs \cup {Nobody}]
  BY <1>2, <1>3 DEF NoWindows
<1>7. TabsTypeOK
  <2>1. kind \in [Tabs -> {"none", "engine", "shell"}] /\ win \in [Tabs -> 0..NoWindow]
    BY <1>2, <1>3
  <2>2. /\ review \in [Tabs -> BOOLEAN] /\ faults \in 0..MaxFaults /\ ended \in BOOLEAN /\ crashed \in BOOLEAN
        /\ lent \in BOOLEAN /\ muddled \in BOOLEAN /\ stray \in BOOLEAN /\ hurt \in BOOLEAN
    <3>1. /\ review = [u \in Tabs |-> FALSE] /\ faults = 0 /\ ended = FALSE /\ crashed = FALSE /\ lent = FALSE
          /\ muddled = FALSE /\ stray = FALSE /\ hurt = FALSE
      BY DEF TabsInit
    <3>2. review \in [Tabs -> BOOLEAN]
      BY <3>1
    <3>3. faults \in 0..MaxFaults
      BY <1>1, <3>1
    <3>4. ended \in BOOLEAN /\ crashed \in BOOLEAN /\ lent \in BOOLEAN /\ muddled \in BOOLEAN /\ stray \in BOOLEAN /\ hurt \in BOOLEAN
      BY <3>1, Zenon
    <3> QED
      BY <3>2, <3>3, <3>4
  <2> QED
    BY <1>5, <1>6, <2>1, <2>2 DEF TabsTypeOK
<1>8. \A u \in RowsThere : u = t /\ win[u] = 0 /\ runs[0] = t
  BY <1>2, <1>3 DEF RowsThere, NoWindows
<1>9. \A u \in Tabs : kind[u] # "shell"
  BY <1>3
<1>10. Live(0) \/ RowsThere = {}
  BY <1>1, <1>2, <1>8 DEF Live
<1>11. Distinct /\ Numbers /\ Own /\ NoShellFirst /\ Healed
  BY <1>2, <1>8, <1>9, <1>10 DEF Distinct, Numbers, Own, NoShellFirst, Healed
<1>12. Reserved /\ Knows
  BY <1>5 DEF Reserved, Knows
<1> QED
  BY <1>4, <1>7, <1>11, <1>12 DEF TabsInit, TabsInv, Apart

LEMMA TabsStepInv == TabsInv /\ [TabsNext]_tabVars => TabsInv'
<1> SUFFICES ASSUME TabsInv, [TabsNext]_tabVars PROVE TabsInv'
  OBVIOUS
<1>1. TabsTypeOK /\ op \in OpType /\ TabsTypeOK' /\ op' \in OpType
  BY TabsTyped DEF TabsInv
<1> SUFFICES ASSUME Undisturbed' PROVE Apart'
  BY <1>1 DEF TabsInv
<1>2. Apart /\ ~ended' /\ ~crashed' /\ ~lent' /\ ~muddled'
  BY <1>1, UndisturbedBefore DEF TabsInv, Undisturbed
<1>3. CASE AskEnsure \/ AskEngine \/ AskReview \/ OutOfNames
  BY <1>1, <1>2, <1>3, AskApart
<1>4. CASE Observe
  BY <1>1, <1>2, <1>4, ObserveApart
<1>5. CASE Number
  BY <1>1, <1>2, <1>5, NumberApart
<1>6. CASE Record
  BY <1>1, <1>2, <1>6, RecordApart
<1>7. CASE HealEnds
  BY <1>1, <1>2, <1>7, HealEndsApart
<1>8. CASE OpenWindow
  BY <1>1, <1>2, <1>8, OpenWindowApart
<1>9. CASE DeliverReview
  BY <1>1, <1>2, <1>9, DeliverReviewApart
<1>10. CASE InsertShell
  BY <1>1, <1>2, <1>10, InsertShellApart
<1>11. CASE RemoveRow
  BY <1>1, <1>2, <1>11, RemoveRowApart
<1>12. CASE TmuxServerEnds
  BY <1>1, <1>2, <1>12, TmuxServerEndsApart
<1>13. CASE DaemonCrashes
  BY <1>2, <1>13 DEF DaemonCrashes
<1>14. ASSUME NEW i \in Indices, WindowEnds(i) PROVE Apart'
  BY <1>2, <1>14 DEF WindowEnds
<1>15. ASSUME NEW t \in Tabs, Recreate(t) \/ AskResume(t) \/ Resume(t) \/ InsertRow(t) \/ Input(t)
                              \/ AskShell(t) \/ AskClose(t) \/ SwitchEngine(t) \/ Rename(t)
       PROVE  Apart'
  BY <1>1, <1>2, <1>15, RecreateApart, AskResumeApart, ResumeApart, InsertRowApart, InputApart, AskShellApart,
     AskCloseApart, SwitchEngineApart, RenameApart, Zenon
<1>16. CASE UNCHANGED tabVars
  BY <1>2, <1>16, ApartStutters
<1>17. CASE StartFails
  BY <1>1, <1>2, <1>17, StartFailsApart
<1>18. CASE RequestFails
  BY <1>1, <1>2, <1>18, RequestFailsApart
<1> QED
  BY <1>3, <1>4, <1>5, <1>6, <1>7, <1>8, <1>9, <1>10, <1>11, <1>12, <1>13, <1>14, <1>15, <1>16, <1>17, <1>18, Zenon DEF TabsNext

\* While no window ends by itself, no crash cuts a request in two, no shell has window 0 and no window
\* is opened past rows that a failed heal left behind, nothing that is typed, respawned or closed
\* reaches the program of another tab, wherever requests fail (heal.ts, tabs.ts).
THEOREM TabsApart == TabsSpec => []TabsStayApart
<1>1. TabsInv => TabsStayApart
  BY DEF TabsInv, Apart, TabsStayApart
<1> QED
  BY <1>1, TabsInitInv, TabsStepInv, PTL DEF TabsSpec

\* A heal that comes to its end leaves every engine tab with a window that runs its engine.
THEOREM HealsAll == TabsSpec => []EnsureHeals
<1>1. TabsInv => EnsureHeals
  <2> SUFFICES ASSUME TabsInv, OpAt("resume"), op.todo = {}, op.ensured, Undisturbed, NEW t \in Engines
               PROVE  win[t] \in Indices /\ runs[win[t]] = t
    BY DEF EnsureHeals, HealIsDone, EnginesRun
  <2>1. TabsTypeOK /\ op \in OpType /\ Apart /\ Quiet /\ Session /\ op.at = "resume"
    BY DEF TabsInv, Quiet, OpAt, Apart, Knows
  <2>2. t \in RowsThere
    BY DEF RowsThere, Engines
  <2>3. win[t] \in Indices /\ Live(win[t])
    BY <2>1, <2>2, QuietIsWhole
  <2> QED
    BY <2>1, <2>2, <2>3 DEF Apart, Own, Live
<1> QED
  BY <1>1, TabsInitInv, TabsStepInv, PTL DEF TabsSpec

-----------------------------------------------------------------------------
(* Zen, and the way back.                                                    *)

\* While a workspace is in zen and nothing went wrong, the tab to go back to is the one that was in
\* front.
Remembers == layout.zen /\ ~spoilt /\ came # NoTab => layout.restore = came
LayoutInv ==
  /\ Open \subseteq EngineTabs \cup ShellTabs
  /\ breaks \in Nat
  /\ layout = [zen |-> layout.zen, focused |-> layout.focused, restore |-> layout.restore, sizes |-> layout.sizes]
  /\ Remembers

\* A workspace starts out of zen.
LEMMA LayoutInvInit == LayoutInit => LayoutInv
<1> SUFFICES ASSUME LayoutInit PROVE LayoutInv
  OBVIOUS
<1>1. PICK t \in EngineTabs : place = [u \in {t} |-> 0]
  BY DEF LayoutInit
<1>2. Open \subseteq EngineTabs \cup ShellTabs
  BY <1>1 DEF Open
<1>3. breaks \in Nat /\ layout = [zen |-> FALSE, focused |-> NoTab, restore |-> NoTab, sizes |-> <<>>]
  BY DEF LayoutInit
<1>4. layout.zen = FALSE
  BY <1>3
<1> QED
  BY <1>2, <1>3, <1>4 DEF LayoutInv, Remembers

\* The tabs that are open after a step.
LEMMA OpenTabs ==
  ASSUME LayoutInv, [LayoutNext]_layoutVars
  PROVE  Open' \subseteq EngineTabs \cup ShellTabs
<1> DEFINE Fine == Open' \subseteq EngineTabs \cup ShellTabs
<1>1. CASE place' = place
  BY <1>1 DEF Open, LayoutInv
<1>2. ASSUME NEW t \in EngineTabs \cup ShellTabs, Opens(t)
      PROVE  Fine
  <2>1. PICK i : place' = Add(place, t, i)
    BY <1>2 DEF Opens
  <2> QED
    BY <2>1 DEF Add, Open, LayoutInv
<1>3. ASSUME NEW S, place' = Keep(place, S)
      PROVE  Fine
  BY <1>3 DEF Keep, Open, LayoutInv
<1>4. ASSUME NEW t \in EngineTabs \cup ShellTabs, Closes(t)
      PROVE  Fine
  BY <1>3, <1>4 DEF Closes
<1>5. CASE Ensures
  BY <1>3, <1>5 DEF Ensures
<1>6. CASE Recreates
  <2>1. CASE place' = [t \in OpenEngines \cup {u \in Open : place[u] = 0} |->
                         IF t = FirstEngine THEN 0 ELSE place[t]]
    BY <2>1 DEF Open, OpenEngines, LayoutInv
  <2> QED
    BY <1>1, <1>6, <2>1 DEF Recreates
<1>7. ASSUME NEW t \in EngineTabs, Resumes(t)
      PROVE  Fine
  <2>1. ASSUME NEW i, place' = [place EXCEPT ![t] = i]
        PROVE  Fine
    BY <2>1 DEF Open, LayoutInv
  <2>2. place' = place \/ \E i : place' = [place EXCEPT ![t] = i]
    BY <1>7 DEF Resumes
  <2> QED
    BY <1>1, <2>1, <2>2
<1>8. CASE EnsureEnds \/ EnsureFails \/ UserWorks \/ TmuxEnds
  BY <1>1, <1>8 DEF EnsureEnds, EnsureFails, UserWorks, TmuxEnds
<1>9. ASSUME NEW p \in presses, Serves(p) \/ Refuses(p)
      PROVE  Fine
  BY <1>1, <1>9 DEF Serves, Refuses, session
<1>10. ASSUME NEW d \in Desktops, Refreshes(d) \/ \E tab \in EngineTabs \cup {NoTab} : PressesZen(d, tab)
       PROVE  Fine
  BY <1>1, <1>10 DEF Refreshes, PressesZen, session
<1>11. CASE UNCHANGED layoutVars
  BY <1>1, <1>11 DEF layoutVars, session
<1> QED
  BY <1>2, <1>4, <1>5, <1>6, <1>7, <1>8, <1>9, <1>10, <1>11 DEF LayoutNext

\* Only a request of the button writes the layout, and what it came from.
LEMMA LayoutOnlyServed ==
  ASSUME LayoutInv, [LayoutNext]_layoutVars, ~(\E p \in presses : Serves(p))
  PROVE  layout' = layout /\ came' = came /\ spoilt' = spoilt /\ breaks' \in Nat
<1> DEFINE Same == layout' = layout /\ came' = came /\ spoilt' = spoilt /\ breaks' \in Nat
<1>1. breaks \in Nat /\ breaks + 1 \in Nat
  BY DEF LayoutInv
<1>2. ASSUME NEW t \in EngineTabs \cup ShellTabs, Opens(t) \/ Closes(t)
      PROVE  Same
  BY <1>1, <1>2 DEF Opens, Closes, memory
<1>3. CASE Ensures \/ Recreates \/ EnsureEnds \/ EnsureFails
  BY <1>1, <1>3 DEF Ensures, Recreates, EnsureEnds, EnsureFails, memory
<1>4. ASSUME NEW t \in EngineTabs, Resumes(t)
      PROVE  Same
  BY <1>1, <1>4 DEF Resumes, memory
<1>5. CASE UserWorks \/ TmuxEnds
  BY <1>1, <1>5 DEF UserWorks, TmuxEnds, memory
<1>6. ASSUME NEW p \in presses, Refuses(p)
      PROVE  Same
  BY <1>1, <1>6 DEF Refuses, memory
<1>7. ASSUME NEW d \in Desktops, Refreshes(d) \/ \E tab \in EngineTabs \cup {NoTab} : PressesZen(d, tab)
      PROVE  Same
  BY <1>1, <1>7 DEF Refreshes, PressesZen, memory
<1>8. CASE UNCHANGED layoutVars
  BY <1>1, <1>8 DEF layoutVars, memory
<1> QED
  BY <1>2, <1>3, <1>4, <1>5, <1>6, <1>7, <1>8 DEF LayoutNext

\* A request that enters zen writes down the tab in front; one that leaves it keeps what was
\* written down, and brings the window of that tab to the front.
LEMMA ServedRemembers ==
  ASSUME LayoutInv, NEW p \in presses, Serves(p)
  PROVE  /\ layout' = [zen |-> layout'.zen, focused |-> layout'.focused, restore |-> layout'.restore,
                       sizes |-> layout'.sizes]
         /\ breaks' \in Nat /\ Remembers'
         /\ layout.zen /\ ~layout'.zen /\ ~spoilt' /\ came \in Open /\ place[came] \in DOMAIN frames
              => front' = place[came]
<1>1. layout' = IF p.zen THEN ZenOn(p.tab) ELSE ZenOff
  BY DEF Serves
<1>2. breaks' = breaks \/ breaks' = breaks + 1
  BY DEF Serves
<1>3. breaks' \in Nat /\ ~(breaks > breaks)
  BY <1>2 DEF LayoutInv
<1>4. spoilt' = IF p.zen /\ ~layout.zen THEN breaks' > breaks ELSE (spoilt \/ p.zen \/ breaks' > breaks)
  BY DEF Serves
<1>5. came' = IF p.zen /\ ~layout.zen THEN (IF frames # <<>> THEN Holder(front) ELSE NoTab) ELSE came
  BY DEF Serves
<1>6. CASE p.zen
  <2>1. PICK sizes, focused : layout' = [zen |-> TRUE, focused |-> focused, sizes |-> sizes,
             restore |-> IF frames # <<>> /\ Holder(front) # NoTab THEN Holder(front)
                         ELSE layout.restore]
    BY <1>1, <1>6 DEF ZenOn
  <2>2. layout'.zen = TRUE
        /\ layout'.restore = IF frames # <<>> /\ Holder(front) # NoTab THEN Holder(front)
                             ELSE layout.restore
    BY <2>1
  <2>3. Remembers'
    <3>1. CASE layout.zen
      <4>1. spoilt'
        BY <1>4, <1>6, <3>1
      <4> QED
        BY <4>1 DEF Remembers
    <3>2. CASE ~layout.zen
      BY <1>5, <1>6, <2>2, <3>2 DEF Remembers
    <3> QED
      BY <3>1, <3>2
  <2> QED
    BY <1>3, <2>1, <2>2, <2>3
<1>7. CASE ~p.zen
  <2>1. layout' = [layout EXCEPT !.zen = FALSE, !.focused = NoTab]
    BY <1>1, <1>7 DEF ZenOff
  <2>2. layout'.zen = FALSE /\ layout'.restore = layout.restore
        /\ layout' = [zen |-> layout'.zen, focused |-> layout'.focused, restore |-> layout'.restore,
                      sizes |-> layout'.sizes]
    BY <2>1 DEF LayoutInv
  <2>3. ASSUME layout.zen, ~spoilt', came \in Open, place[came] \in DOMAIN frames
        PROVE  front' = place[came]
    <3>1. came # NoTab
      BY <2>3, LayoutAssumption DEF LayoutInv
    <3>2. ~spoilt /\ ~(breaks' > breaks)
      BY <1>4, <1>7, <2>3
    <3>3. layout.restore = came
      BY <2>3, <3>1, <3>2 DEF LayoutInv, Remembers
    <3>4. ~(breaks' = breaks + 1)
      BY <3>2 DEF LayoutInv
    <3>5. SelectsWindow(frames, FrameOf(ZenOff.restore))
      BY <1>7, <3>4 DEF Serves
    <3>6. FrameOf(ZenOff.restore) = place[came]
      BY <1>1, <1>7, <2>2, <2>3, <3>3 DEF FrameOf
    <3> QED
      BY <2>3, <3>5, <3>6 DEF SelectsWindow
  <2> QED
    BY <1>3, <2>2, <2>3 DEF Remembers
<1> QED
  BY <1>6, <1>7

\* Leaving zen brings back the tab that was in front when it was entered (POST /workspaces/:id/zen).
THEOREM ZenIsLeft == LayoutSpec => ZenReturns
<1>1. LayoutInit => LayoutInv
  BY LayoutInvInit
<1>2. LayoutInv /\ [LayoutNext]_layoutVars => LayoutInv'
  <2> SUFFICES ASSUME LayoutInv, [LayoutNext]_layoutVars
               PROVE  LayoutInv'
    OBVIOUS
  <2>1. CASE \E p \in presses : Serves(p)
    BY <2>1, OpenTabs, ServedRemembers DEF LayoutInv
  <2>2. CASE ~(\E p \in presses : Serves(p))
    <3>1. layout' = layout /\ came' = came /\ spoilt' = spoilt /\ breaks' \in Nat
      BY <2>2, LayoutOnlyServed
    <3> QED
      BY <3>1, OpenTabs DEF LayoutInv, Remembers
  <2> QED
    BY <2>1, <2>2
<1>3. LayoutInv /\ [LayoutNext]_layoutVars =>
        [layout.zen /\ ~layout'.zen /\ ~spoilt' /\ came \in Open /\ place[came] \in DOMAIN frames
           => front' = place[came]]_layoutVars
  <2> SUFFICES ASSUME LayoutInv, [LayoutNext]_layoutVars, layout.zen, ~layout'.zen, ~spoilt', came \in Open,
                      place[came] \in DOMAIN frames
               PROVE  front' = place[came]
    OBVIOUS
  <2>1. CASE \E p \in presses : Serves(p)
    BY <2>1, ServedRemembers
  <2>2. CASE ~(\E p \in presses : Serves(p))
    BY <2>2, LayoutOnlyServed
  <2> QED
    BY <2>1, <2>2
<1> QED
  BY <1>1, <1>2, <1>3, PTL DEF LayoutSpec, ZenReturns
=============================================================================
