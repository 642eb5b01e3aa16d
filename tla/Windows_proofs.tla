--------------------------- MODULE Windows_proofs ---------------------------
(***************************************************************************)
(* Theorems about what stands between a user and the daemon: the engines   *)
(* that a tab may run, through migrations, crashes and saves; the composer *)
(* and its drafts; the terminal and its connections, through the ends of   *)
(* either side; the inbox, the lists and the waits that follow the events. *)
(***************************************************************************)
EXTENDS ClientStores, Engines, Composer, Terminal, FiniteSetTheorems, SequenceTheorems, WellFoundedInduction,
        TLAPS

-----------------------------------------------------------------------------
(* The engines a tab may run.                                                *)

AllSteps == {"core", "engines", "attention", "copilot"}

\* Migrations are applied in their order, and a daemon knows of none that is not.
InOrderOf ==
  /\ applied \in {{}, {"core"}, {"core", "engines"}, {"core", "engines", "attention"}, AllSteps}
  /\ \A d \in Starters : known[d] \subseteq applied
  /\ \A d \in Starters : up[d] \in {"built", "live"} => known[d] = AllSteps

\* What each migration has done, once.
Done ==
  /\ \A t \in EngineTabs : inbox[t] = IF "attention" \in applied /\ t \in awaits THEN 1 ELSE 0
  /\ "copilot" \in applied => rows[Copilot] = NoRow
  /\ "copilot" \notin applied => \E i \in DOMAIN Spares : rows[Spares[i]] = NoRow

\* What the user means for a tab: what its row says, and for the built-in id the built-in engine
\* unless an old row has that id yet, and the row of no tab is gone before it is migrated.
MeantIs ==
  \A t \in EngineTabs :
    /\ "copilot" \notin applied => Means(uses[t], rows) # NoRun /\ meant[t] = Means(uses[t], rows)
    /\ uses[t] # Copilot /\ rows[uses[t]].def # NoRun => meant[t] = rows[uses[t]].def
    /\ "copilot" \in applied /\ uses[t] = Copilot => meant[t] = BuiltIn

\* One daemon lives; one that has its registry from the rows as they are was not overtaken, and
\* nobody lived beside it before it did.
InStep ==
  /\ \A d, e \in Starters : up[d] = "live" /\ up[e] = "live" => d = e
  /\ \A d \in Starters \ overtaken :
       /\ up[d] \in {"built", "live"} => registry[d] = Registered(rows)
       /\ up[d] = "built" => \A e \in Starters : up[e] # "live"

EnginesInv == EnginesTypeOK /\ InOrderOf /\ Done /\ MeantIs /\ InStep /\ wrong = {}

\* The migrations, one by one.
LEMMA StepsAre ==
  /\ DOMAIN Steps = 1 .. 4 /\ Len(Steps) = 4
  /\ Steps[1] = "core" /\ Steps[2] = "engines" /\ Steps[3] = "attention" /\ Steps[4] = "copilot"
  /\ Applied(Len(Steps)) = AllSteps
<1>1. /\ DOMAIN Steps = 1 .. 4 /\ Len(Steps) = 4
      /\ Steps[1] = "core" /\ Steps[2] = "engines" /\ Steps[3] = "attention" /\ Steps[4] = "copilot"
  BY DEF Steps
<1>2. \A i \in 1 .. 4 : i = 1 \/ i = 2 \/ i = 3 \/ i = 4
  OBVIOUS
<1>3. 1 \in 1 .. 4 /\ 2 \in 1 .. 4 /\ 3 \in 1 .. 4 /\ 4 \in 1 .. 4
  OBVIOUS
<1>4. {Steps[i] : i \in 1 .. 4} = AllSteps
  <2>1. \A x \in AllSteps : \E i \in 1 .. 4 : x = Steps[i]
    BY <1>1, <1>3 DEF AllSteps
  <2>2. \A i \in 1 .. 4 : Steps[i] \in AllSteps
    BY <1>1, <1>2 DEF AllSteps
  <2> QED
    BY <2>1, <2>2
<1> QED
  BY <1>1, <1>4 DEF Applied

LEMMA AppliedIs ==
  /\ Applied(0) = {} /\ Applied(1) = {"core"} /\ Applied(2) = {"core", "engines"}
  /\ Applied(3) = {"core", "engines", "attention"} /\ Applied(4) = AllSteps
<1>1. 1 .. 0 = {} /\ 1 .. 1 = {1} /\ 1 .. 2 = {1, 2} /\ 1 .. 3 = {1, 2, 3}
  OBVIOUS
<1>2. Applied(0) = {} /\ Applied(1) = {Steps[1]} /\ Applied(2) = {Steps[1], Steps[2]} /\ Applied(3) = {Steps[1], Steps[2], Steps[3]}
  BY <1>1 DEF Applied
<1> QED
  BY <1>2, StepsAre

\* The next migration is the one that follows those that are applied.
LEMMA NextStep ==
  ASSUME InOrderOf, NEW d \in Starters, NEW i \in DOMAIN Steps, Steps[i] \notin known[d] \cup applied,
         \A j \in 1 .. i - 1 : Steps[j] \in known[d]
  PROVE  /\ applied \cup {Steps[i]} \in {{"core"}, {"core", "engines"}, {"core", "engines", "attention"}, AllSteps}
         /\ Steps[i] = "copilot" => applied = {"core", "engines", "attention"}
<1>1. i \in 1 .. 4 /\ known[d] \subseteq applied /\ Steps[i] \notin applied
  BY StepsAre DEF InOrderOf
<1>2. \A j \in 1 .. i - 1 : Steps[j] \in applied
  BY <1>1
<1>3. CASE i = 1
  BY <1>1, <1>3, StepsAre DEF InOrderOf, AllSteps
<1>4. CASE i = 2
  <2>1. "core" \in applied
    BY <1>2, <1>4, StepsAre
  <2> QED
    BY <1>1, <1>4, <2>1, StepsAre DEF InOrderOf, AllSteps
<1>5. CASE i = 3
  <2>1. "core" \in applied /\ "engines" \in applied
    BY <1>2, <1>5, StepsAre
  <2> QED
    BY <1>1, <1>5, <2>1, StepsAre DEF InOrderOf, AllSteps
<1>6. CASE i = 4
  <2>1. "core" \in applied /\ "engines" \in applied /\ "attention" \in applied
    BY <1>2, <1>6, StepsAre
  <2> QED
    BY <1>1, <1>6, <2>1, StepsAre DEF InOrderOf, AllSteps
<1> QED
  BY <1>1, <1>3, <1>4, <1>5, <1>6

\* While one of the names the migration may give is free, it finds the first of them.
LEMMA SpareIsFree ==
  ASSUME \E i \in DOMAIN Spares : rows[Spares[i]] = NoRow
  PROVE  FreeSpare \in Ids /\ rows[FreeSpare] = NoRow /\ FreeSpare # Copilot
<1> DEFINE S == {i \in DOMAIN Spares : rows[Spares[i]] = NoRow}
           R == OpToRel(<, Nat)
<1>1. S \subseteq Nat /\ S # {}
  BY EngineConstants
<1>2. IsWellFoundedOn(R, Nat)
  BY NatLessThanWellFounded, Zenon
<1>3. \E i \in S : \A j \in S : <<j, i>> \notin R
  <2> HIDE DEF R, S
  <2> QED
    BY <1>1, <1>2, WFMin
<1>4. PICK i \in S : \A j \in S : <<j, i>> \notin R
  BY <1>3
<1>5. \A j \in S : ~(j < i)
  <2> SUFFICES ASSUME NEW j \in S, j < i PROVE FALSE
    OBVIOUS
  <2>1. <<j, i>> \in R
    BY <1>1 DEF OpToRel
  <2> QED
    BY <1>4, <2>1
<1>6. i \in DOMAIN Spares /\ rows[Spares[i]] = NoRow
  BY <1>4
<1>7. \A j \in 1 .. i - 1 : rows[Spares[j]] # NoRow
  <2> SUFFICES ASSUME NEW j \in 1 .. i - 1, rows[Spares[j]] = NoRow PROVE FALSE
    OBVIOUS
  <2>1. j \in DOMAIN Spares /\ j < i
    BY <1>6, EngineConstants
  <2> QED
    BY <1>5, <2>1
<1>8. PICK k \in DOMAIN Spares : rows[Spares[k]] = NoRow /\ FreeSpare = Spares[k]
  BY <1>6, <1>7 DEF FreeSpare
<1>9. Spares[k] \in Ids
  BY EngineConstants
<1> QED
  BY <1>8, <1>9, EngineConstants

LEMMA EnginesTypes ==
  ASSUME EnginesTypeOK
  PROVE  /\ rows \in [AllIds -> Row] /\ uses \in [EngineTabs -> AllIds] /\ inbox \in [EngineTabs -> 0 .. 1]
         /\ awaits \subseteq EngineTabs /\ up \in [Starters -> {"down", "migrating", "built", "live"}]
         /\ applied \subseteq AllSteps /\ known \in [Starters -> SUBSET AllSteps]
         /\ registry \in [Starters -> [AllIds -> Bodies \cup {Preset, NoRun, BuiltIn}]]
         /\ (listing = <<>> \/ listing \in [AllIds -> Row])
         /\ listed \in [on : SUBSET AllIds, off : SUBSET AllIds, as : [AllIds -> Row]]
         /\ meant \in [EngineTabs -> Bodies \cup {BuiltIn, Preset, NoRun}]
         /\ overtaken \subseteq Starters /\ saves \in 0 .. MaxSaves /\ MaxSaves \in Nat
         /\ AllIds = Ids \cup {Copilot} /\ Copilot \in AllIds /\ Copilot \notin Ids /\ NoRow \in Row
         /\ NoRun \notin Bodies /\ NoRun # Preset
BY StepsAre, EngineConstants DEF EnginesTypeOK, AllIds, Row, NoRow

LEMMA EnginesTyped ==
  ASSUME rows' \in [AllIds -> Row], uses' \in [EngineTabs -> AllIds], inbox' \in [EngineTabs -> 0 .. 1],
         awaits' \subseteq EngineTabs, up' \in [Starters -> {"down", "migrating", "built", "live"}],
         applied' \subseteq AllSteps, known' \in [Starters -> SUBSET AllSteps],
         registry' \in [Starters -> [AllIds -> Bodies \cup {Preset, NoRun, BuiltIn}]],
         listing' = <<>> \/ listing' \in [AllIds -> Row],
         listed' \in [on : SUBSET AllIds, off : SUBSET AllIds, as : [AllIds -> Row]],
         meant' \in [EngineTabs -> Bodies \cup {BuiltIn, Preset, NoRun}],
         wrong' \subseteq EngineTabs, overtaken' \subseteq Starters, saves' \in 0 .. MaxSaves
  PROVE  EnginesTypeOK'
BY StepsAre DEF EnginesTypeOK

LEMMA EnginesInitially == EnginesInit => EnginesInv
<1> SUFFICES ASSUME EnginesInit PROVE EnginesInv
  OBVIOUS
<1>1. PICK n \in 0 .. Len(Steps) :
       /\ applied = Applied(n)
       /\ rows \in [AllIds -> {NoRow} \cup [def : Bodies \cup {Preset}, on : {TRUE}]]
       /\ "copilot" \in applied => rows[Copilot] = NoRow
       /\ \E i \in DOMAIN Spares : rows[Spares[i]] = NoRow
  BY DEF EnginesInit
<1>2. /\ uses \in [EngineTabs -> AllIds]
      /\ \A t \in EngineTabs : Means(uses[t], rows) # NoRun
      /\ awaits \subseteq EngineTabs
      /\ inbox = [t \in EngineTabs |-> IF "attention" \in applied /\ t \in awaits THEN 1 ELSE 0]
      /\ up = [d \in Starters |-> "down"] /\ known = [d \in Starters |-> {}]
      /\ registry = [d \in Starters |-> [e \in AllIds |-> NoRun]]
      /\ listing = <<>> /\ listed = [on |-> {}, off |-> {}, as |-> [e \in AllIds |-> NoRow]]
      /\ meant = [t \in EngineTabs |-> Means(uses[t], rows)]
      /\ wrong = {} /\ overtaken = {} /\ saves = 0
  BY DEF EnginesInit
<1>3. n = 0 \/ n = 1 \/ n = 2 \/ n = 3 \/ n = 4
  BY StepsAre
<1>4. applied \in {{}, {"core"}, {"core", "engines"}, {"core", "engines", "attention"}, AllSteps} /\ applied \subseteq AllSteps
  BY <1>1, <1>3, AppliedIs DEF AllSteps
<1>5. /\ NoRow \in Row /\ NoRow.def = NoRun /\ MaxSaves \in Nat
      /\ {NoRow} \cup [def : Bodies \cup {Preset}, on : {TRUE}] \subseteq Row
  <2>1. NoRow \in Row /\ NoRow.def = NoRun
    BY DEF NoRow, Row
  <2>2. [def : Bodies \cup {Preset}, on : {TRUE}] \subseteq Row
    <3>1. TRUE \in BOOLEAN /\ {TRUE} \subseteq BOOLEAN
      OBVIOUS
    <3> QED
      BY <3>1 DEF Row
  <2> QED
    BY <2>1, <2>2, EngineConstants
<1>6. rows \in [AllIds -> Row] /\ \A e \in AllIds : rows[e].def \in Bodies \cup {Preset, NoRun}
  BY <1>1, <1>5 DEF Row
<1>7. meant \in [EngineTabs -> Bodies \cup {BuiltIn, Preset, NoRun}]
  BY <1>2, <1>6 DEF Means
<1>8. EnginesTypeOK
  <2>1. inbox \in [EngineTabs -> 0 .. 1] /\ listed \in [on : SUBSET AllIds, off : SUBSET AllIds, as : [AllIds -> Row]]
    BY <1>2, <1>5
  <2>2. up \in [Starters -> {"down", "migrating", "built", "live"}] /\ known \in [Starters -> SUBSET AllSteps]
    BY <1>2
  <2>3. registry \in [Starters -> [AllIds -> Bodies \cup {Preset, NoRun, BuiltIn}]]
    BY <1>2
  <2> QED
    BY <1>2, <1>4, <1>5, <1>6, <1>7, <2>1, <2>2, <2>3, StepsAre DEF EnginesTypeOK
<1>9. InOrderOf
  BY <1>2, <1>4 DEF InOrderOf
<1>10. Done
  BY <1>1, <1>2 DEF Done
<1>11. MeantIs
  <2> SUFFICES ASSUME NEW t \in EngineTabs
               PROVE  /\ meant[t] = Means(uses[t], rows) /\ Means(uses[t], rows) # NoRun
                      /\ uses[t] # Copilot /\ rows[uses[t]].def # NoRun => meant[t] = rows[uses[t]].def
                      /\ "copilot" \in applied /\ uses[t] = Copilot => meant[t] = BuiltIn
    BY DEF MeantIs
  <2> QED
    BY <1>1, <1>2, <1>5 DEF Means
<1>12. InStep
  BY <1>2 DEF InStep
<1> QED
  BY <1>2, <1>8, <1>9, <1>10, <1>11, <1>12 DEF EnginesInv

\* What the data keeps while a step leaves it alone.
LEMMA EnginesAlone ==
  ASSUME Done, MeantIs, UNCHANGED <<applied, rows, uses, inbox, awaits, meant>>
  PROVE  Done' /\ MeantIs'
<1>1. Done'
  BY DEF Done
<1>2. MeantIs'
  BY DEF MeantIs, Means
<1> QED
  BY <1>1, <1>2

\* A daemon starts.
LEMMA StartsKeeps ==
  ASSUME EnginesInv, NEW d \in Starters, Starts(d)
  PROVE  EnginesInv'
<1>1. /\ up[d] = "down" /\ saves < MaxSaves /\ saves' = saves + 1
      /\ up' = [up EXCEPT ![d] = "migrating"] /\ known' = [known EXCEPT ![d] = applied]
      /\ UNCHANGED <<applied, rows, uses, inbox, awaits, registry, listing, listed, meant, wrong, overtaken>>
  BY DEF Starts, Saves
<1>2. EnginesTypeOK /\ InOrderOf /\ Done /\ MeantIs /\ InStep /\ wrong = {}
  BY DEF EnginesInv
<1>3. \A e \in Starters : up'[e] = (IF e = d THEN "migrating" ELSE up[e]) /\ known'[e] = (IF e = d THEN applied ELSE known[e])
  BY <1>1, <1>2, EnginesTypes
<1>4. EnginesTypeOK'
  <2>1. saves' \in 0 .. MaxSaves
    BY <1>1, <1>2, EnginesTypes
  <2>2. up' \in [Starters -> {"down", "migrating", "built", "live"}] /\ known' \in [Starters -> SUBSET AllSteps]
    BY <1>1, <1>2, EnginesTypes
  <2>3. wrong' \subseteq EngineTabs
    BY <1>1, <1>2
  <2> QED
    BY <1>1, <1>2, <2>1, <2>2, <2>3, EnginesTypes, EnginesTyped
<1>5. InOrderOf'
  BY <1>1, <1>2, <1>3 DEF InOrderOf
<1>6. Done' /\ MeantIs'
  BY <1>1, <1>2, EnginesAlone
<1>7. InStep'
  BY <1>1, <1>2, <1>3 DEF InStep
<1> QED
  BY <1>1, <1>2, <1>4, <1>5, <1>6, <1>7 DEF EnginesInv

\* The legacy row makes way, and the tabs that use it follow.
LEMMA MakesWayKeeps ==
  ASSUME EnginesTypeOK, Done, MeantIs, MakesWay, "copilot" \notin applied, applied' = AllSteps,
         UNCHANGED <<inbox, awaits, meant>>, "attention" \in applied
  PROVE  rows' \in [AllIds -> Row] /\ uses' \in [EngineTabs -> AllIds] /\ Done' /\ MeantIs'
<1>1. /\ rows \in [AllIds -> Row] /\ uses \in [EngineTabs -> AllIds] /\ NoRow \in Row
      /\ AllIds = Ids \cup {Copilot} /\ Copilot \notin Ids
  BY EnginesTypes
<1>2. FreeSpare \in Ids /\ rows[FreeSpare] = NoRow /\ FreeSpare # Copilot
  BY SpareIsFree DEF Done
<1>3. NoRow.def = NoRun
  BY DEF NoRow
<1>4. \A t \in EngineTabs : Means(uses[t], rows) # NoRun /\ meant[t] = Means(uses[t], rows)
  BY DEF MeantIs
<1>5. \A e \in AllIds : rows[e] \in Row
  BY <1>1
<1>6. rows' \in [AllIds -> Row] /\ rows'[Copilot] = NoRow
  <2>1. CASE rows[Copilot].def \in {NoRun, Preset}
    BY <1>1, <2>1 DEF MakesWay
  <2>2. CASE rows[Copilot].def \notin {NoRun, Preset}
    <3>1. rows' = [rows EXCEPT ![FreeSpare] = rows[Copilot], ![Copilot] = NoRow]
      BY <2>2 DEF MakesWay
    <3> QED
      BY <1>1, <1>2, <1>5, <3>1
  <2> QED
    BY <2>1, <2>2
<1>7. uses' \in [EngineTabs -> AllIds]
  BY <1>1, <1>2 DEF MakesWay
<1>8. Done'
  BY <1>6 DEF Done, AllSteps
<1>9. \A t \in EngineTabs : /\ uses'[t] # Copilot /\ rows'[uses'[t]].def # NoRun => meant[t] = rows'[uses'[t]].def
                            /\ uses'[t] = Copilot => meant[t] = BuiltIn
  <2> SUFFICES ASSUME NEW t \in EngineTabs
               PROVE  /\ uses'[t] # Copilot /\ rows'[uses'[t]].def # NoRun => meant[t] = rows'[uses'[t]].def
                      /\ uses'[t] = Copilot => meant[t] = BuiltIn
    OBVIOUS
  <2>1. meant[t] = Means(uses[t], rows) /\ Means(uses[t], rows) # NoRun /\ uses[t] \in AllIds
    BY <1>1, <1>4
  <2>2. CASE rows[Copilot].def \in {NoRun, Preset}
    <3>1. rows' = [rows EXCEPT ![Copilot] = NoRow] /\ uses' = uses
      BY <2>2 DEF MakesWay
    <3>2. CASE uses[t] = Copilot
      BY <2>1, <2>2, <3>1, <3>2 DEF Means
    <3>3. CASE uses[t] # Copilot
      <4>1. rows'[uses[t]] = rows[uses[t]]
        BY <1>1, <2>1, <3>1, <3>3
      <4> QED
        BY <2>1, <3>1, <3>3, <4>1 DEF Means
    <3> QED
      BY <3>2, <3>3
  <2>3. CASE rows[Copilot].def \notin {NoRun, Preset}
    <3>1. /\ rows' = [rows EXCEPT ![FreeSpare] = rows[Copilot], ![Copilot] = NoRow]
          /\ uses'[t] = IF uses[t] = Copilot THEN FreeSpare ELSE uses[t]
      BY <2>3 DEF MakesWay
    <3>2. CASE uses[t] = Copilot
      <4>1. rows'[FreeSpare] = rows[Copilot]
        BY <1>1, <1>2, <3>1
      <4>2. meant[t] = rows[Copilot].def
        BY <2>1, <2>3, <3>2 DEF Means
      <4> QED
        BY <1>2, <3>1, <3>2, <4>1, <4>2
    <3>3. CASE uses[t] # Copilot
      <4>1. uses[t] # FreeSpare
        BY <1>2, <1>3, <2>1, <3>3 DEF Means
      <4>2. rows'[uses[t]] = rows[uses[t]]
        BY <1>1, <2>1, <3>1, <3>3, <4>1
      <4> QED
        BY <2>1, <3>1, <3>3, <4>2 DEF Means
    <3> QED
      BY <3>2, <3>3
  <2> QED
    BY <2>2, <2>3
<1>10. MeantIs'
  <2>1. "copilot" \in applied' /\ meant' = meant
    BY DEF AllSteps
  <2> QED
    BY <1>9, <2>1 DEF MeantIs
<1> QED
  BY <1>6, <1>7, <1>8, <1>10

\* A migration is applied.
LEMMA MigratesKeeps ==
  ASSUME EnginesInv, NEW d \in Starters, Migrates(d)
  PROVE  EnginesInv'
<1>1. EnginesTypeOK /\ InOrderOf /\ Done /\ MeantIs /\ InStep /\ wrong = {}
  BY DEF EnginesInv
<1>2. PICK i \in DOMAIN Steps :
       /\ Steps[i] \notin known[d] \cup applied
       /\ \A j \in 1 .. i - 1 : Steps[j] \in known[d]
       /\ applied' = applied \cup {Steps[i]}
       /\ known' = [known EXCEPT ![d] = @ \cup {Steps[i]}]
       /\ IF Steps[i] = "attention" THEN Backfills ELSE UNCHANGED inbox
       /\ IF Steps[i] = "copilot" THEN MakesWay ELSE UNCHANGED <<rows, uses>>
  BY DEF Migrates
<1>3. up[d] = "migrating" /\ UNCHANGED <<awaits, up, registry, listing, listed, meant, wrong, overtaken, saves>>
  BY DEF Migrates
<1>4. /\ applied' \in {{"core"}, {"core", "engines"}, {"core", "engines", "attention"}, AllSteps}
      /\ Steps[i] = "copilot" => applied = {"core", "engines", "attention"}
  BY <1>1, <1>2, NextStep
<1>5. Steps[i] \in AllSteps /\ applied # AllSteps /\ applied' \subseteq AllSteps
  BY <1>2, <1>4, StepsAre DEF AllSteps
<1>6. known \in [Starters -> SUBSET AllSteps] /\ \A e \in Starters : known[e] \subseteq AllSteps
  BY <1>1, EnginesTypes
<1>7. \A e \in Starters : known'[e] = IF e = d THEN known[d] \cup {Steps[i]} ELSE known[e]
  BY <1>2, <1>6
<1>8. \A e \in Starters : up[e] \notin {"built", "live"}
  <2> SUFFICES ASSUME NEW e \in Starters, up[e] \in {"built", "live"} PROVE FALSE
    OBVIOUS
  <2>1. known[e] = AllSteps /\ known[e] \subseteq applied
    BY <1>1 DEF InOrderOf
  <2>2. applied \subseteq AllSteps
    BY <1>1, EnginesTypes
  <2> QED
    BY <1>5, <2>1, <2>2
<1>9. InOrderOf'
  <2>1. \A e \in Starters : known'[e] \subseteq applied'
    BY <1>1, <1>2, <1>7 DEF InOrderOf
  <2>2. \A e \in Starters : up'[e] \notin {"built", "live"}
    BY <1>3, <1>8
  <2> QED
    BY <1>4, <2>1, <2>2 DEF InOrderOf
<1>10. InStep'
  BY <1>3, <1>8 DEF InStep
<1>11. inbox \in [EngineTabs -> 0 .. 1] /\ awaits \subseteq EngineTabs
  BY <1>1, EnginesTypes
<1>12. rows' \in [AllIds -> Row] /\ uses' \in [EngineTabs -> AllIds] /\ inbox' \in [EngineTabs -> 0 .. 1] /\ Done' /\ MeantIs'
  <2>1. CASE Steps[i] = "copilot"
    <3>1. MakesWay /\ inbox' = inbox
      BY <1>2, <2>1
    <3>2. applied = {"core", "engines", "attention"} /\ "copilot" \notin applied /\ "attention" \in applied
      BY <1>4, <2>1
    <3>3. applied' = AllSteps
      BY <1>2, <2>1, <3>2 DEF AllSteps
    <3> QED
      BY <1>1, <1>3, <1>11, <3>1, <3>2, <3>3, MakesWayKeeps
  <2>2. CASE Steps[i] # "copilot"
    <3>1. rows' = rows /\ uses' = uses /\ ("copilot" \in applied' <=> "copilot" \in applied)
      BY <1>2, <2>2
    <3>2. MeantIs'
      BY <1>1, <1>3, <3>1 DEF MeantIs, Means
    <3>3. \A t \in EngineTabs : inbox'[t] = IF "attention" \in applied' /\ t \in awaits THEN 1 ELSE 0
      <4>1. CASE Steps[i] = "attention"
        <5>1. "attention" \notin applied /\ "attention" \in applied'
          BY <1>2, <4>1
        <5>2. \A t \in EngineTabs : inbox[t] = 0
          BY <1>1, <5>1 DEF Done
        <5>3. \A t \in EngineTabs : inbox'[t] = IF t \in awaits THEN 0 + 1 ELSE 0
          BY <1>2, <4>1, <5>2 DEF Backfills
        <5> QED
          BY <5>1, <5>3
      <4>2. CASE Steps[i] # "attention"
        <5>1. inbox' = inbox /\ ("attention" \in applied' <=> "attention" \in applied)
          BY <1>2, <4>2
        <5> QED
          BY <1>1, <5>1 DEF Done
      <4> QED
        BY <4>1, <4>2
    <3>4. inbox' \in [EngineTabs -> 0 .. 1]
      <4>1. \A t \in EngineTabs : inbox'[t] \in 0 .. 1
        BY <3>3
      <4>2. inbox' = [t \in EngineTabs |-> inbox'[t]]
        BY <1>2, <1>11 DEF Backfills
      <4> QED
        BY <4>1, <4>2
    <3>5. Done'
      BY <1>1, <1>3, <3>1, <3>3 DEF Done
    <3> QED
      BY <1>1, <3>1, <3>2, <3>4, <3>5, EnginesTypes
  <2> QED
    BY <2>1, <2>2
<1>13. EnginesTypeOK'
  <2>1. known' \in [Starters -> SUBSET AllSteps]
    BY <1>2, <1>5, <1>6
  <2>2. wrong' \subseteq EngineTabs
    BY <1>1, <1>3
  <2> QED
    BY <1>1, <1>3, <1>5, <1>12, <2>1, <2>2, EnginesTypes, EnginesTyped
<1> QED
  BY <1>1, <1>3, <1>9, <1>10, <1>12, <1>13 DEF EnginesInv

\* A daemon collides, has its registry, is the one that lives, or ends.
LEMMA TurnsKeep ==
  ASSUME EnginesInv, NEW d \in Starters, Collides(d) \/ Builds(d) \/ Lives(d) \/ Ends(d)
  PROVE  EnginesInv'
<1>1. EnginesTypeOK /\ InOrderOf /\ Done /\ MeantIs /\ InStep /\ wrong = {}
  BY DEF EnginesInv
<1>2. UNCHANGED <<applied, rows, uses, inbox, awaits, known, listed, meant, wrong>>
  BY DEF Collides, Builds, Lives, Ends
<1>3. Done' /\ MeantIs'
  BY <1>1, <1>2, EnginesAlone
<1>4. rows \in [AllIds -> Row] /\ up \in [Starters -> {"down", "migrating", "built", "live"}] /\ overtaken \subseteq Starters
  BY <1>1, EnginesTypes
<1>5. PICK now \in {"down", "built", "live"} : up' = [up EXCEPT ![d] = now]
  BY DEF Collides, Builds, Lives, Ends
<1>6. up' \in [Starters -> {"down", "migrating", "built", "live"}]
      /\ \A e \in Starters : up'[e] = IF e = d THEN now ELSE up[e]
  BY <1>4, <1>5
<1>7. saves' \in 0 .. MaxSaves
  <2>1. saves' = saves \/ (saves < MaxSaves /\ saves' = saves + 1)
    BY DEF Collides, Builds, Lives, Ends, Saves
  <2> QED
    BY <1>1, <2>1, EnginesTypes
<1>8. listing' = <<>> \/ listing' \in [AllIds -> Row]
  <2>1. listing' = listing \/ listing' = <<>>
    BY DEF Collides, Builds, Lives, Ends
  <2> QED
    BY <1>1, <2>1, EnginesTypes
<1>9. Registered(rows) \in [AllIds -> Bodies \cup {Preset, NoRun, BuiltIn}]
  <2>1. \A e \in AllIds : rows[e].def \in Bodies \cup {Preset, NoRun}
    BY <1>4 DEF Row
  <2> QED
    BY <2>1 DEF Registered
<1>10. registry' = registry \/ (registry' = [registry EXCEPT ![d] = Registered(rows)] /\ Builds(d))
  BY DEF Collides, Builds, Lives, Ends
<1>11. registry \in [Starters -> [AllIds -> Bodies \cup {Preset, NoRun, BuiltIn}]]
  BY <1>1, EnginesTypes
<1>12. registry' \in [Starters -> [AllIds -> Bodies \cup {Preset, NoRun, BuiltIn}]]
  BY <1>9, <1>10, <1>11
<1>13. overtaken' \subseteq Starters
  BY <1>4 DEF Collides, Builds, Lives, Ends
<1>14. EnginesTypeOK'
  BY <1>1, <1>2, <1>6, <1>7, <1>8, <1>12, <1>13, EnginesTypes, EnginesTyped
<1>15. InOrderOf'
  <2>1. now \in {"built", "live"} => known[d] = AllSteps
    <3>1. CASE Builds(d)
      BY <3>1, StepsAre DEF Builds
    <3>2. CASE Lives(d)
      BY <1>1, <3>2 DEF Lives, InOrderOf
    <3>3. CASE Collides(d) \/ Ends(d)
      <4>1. up'[d] = "down"
        BY <1>4, <3>3 DEF Collides, Ends
      <4> QED
        BY <1>6, <4>1
    <3> QED
      BY <3>1, <3>2, <3>3
  <2> QED
    BY <1>1, <1>2, <1>6, <2>1 DEF InOrderOf
<1>16. InStep'
  <2>1. CASE Collides(d) \/ Ends(d)
    <3>1. up'[d] = "down" /\ registry' = registry /\ overtaken' = overtaken /\ now = "down"
      BY <1>4, <1>6, <2>1 DEF Collides, Ends
    <3> QED
      BY <1>1, <1>2, <1>6, <3>1 DEF InStep, Registered
  <2>2. CASE Builds(d)
    <3>1. /\ up[d] = "migrating" /\ up'[d] = "built"
          /\ \A e \in Starters : registry'[e] = IF e = d THEN Registered(rows) ELSE registry[e]
          /\ overtaken' = IF \E e \in Starters \ {d} : up[e] = "live" THEN overtaken \cup {d} ELSE overtaken \ {d}
      BY <1>4, <1>11, <2>2 DEF Builds
    <3>2. \A e \in Starters : up'[e] = "live" => up[e] = "live"
      BY <1>6, <3>1
    <3>3. \A e \in Starters : e # d => up'[e] = up[e] /\ (e \in overtaken' <=> e \in overtaken)
      BY <1>6, <3>1
    <3>4. d \notin overtaken' => \A e \in Starters : up'[e] # "live"
      BY <3>1, <3>3, <1>6
    <3>5. Registered(rows') = Registered(rows)
      BY <1>2
    <3>6. ASSUME NEW e \in Starters \ overtaken'
          PROVE  /\ up'[e] \in {"built", "live"} => registry'[e] = Registered(rows)
                 /\ up'[e] = "built" => \A x \in Starters : up'[x] # "live"
      <4>1. CASE e = d
        BY <3>1, <3>4, <3>6, <4>1
      <4>2. CASE e # d
        BY <1>1, <3>1, <3>2, <3>3, <3>6, <4>2 DEF InStep
      <4> QED
        BY <4>1, <4>2
    <3>7. \A x, y \in Starters : up'[x] = "live" /\ up'[y] = "live" => x = y
      BY <1>1, <3>2 DEF InStep
    <3> QED
      BY <3>5, <3>6, <3>7 DEF InStep
  <2>3. CASE Lives(d)
    <3>1. /\ up[d] = "built" /\ up'[d] = "live" /\ registry' = registry /\ \A e \in Starters : up[e] # "live"
          /\ overtaken' = overtaken \cup {e \in Starters \ {d} : up[e] = "built"}
      BY <1>4, <2>3 DEF Lives
    <3>2. \A e \in Starters : up'[e] = "live" => e = d
      BY <1>6, <3>1
    <3>3. Registered(rows') = Registered(rows)
      BY <1>2
    <3>4. ASSUME NEW e \in Starters \ overtaken'
          PROVE  /\ up'[e] \in {"built", "live"} => registry'[e] = Registered(rows)
                 /\ up'[e] # "built"
      <4>1. CASE e = d
        BY <1>1, <3>1, <3>4, <4>1 DEF InStep
      <4>2. CASE e # d
        BY <1>6, <3>1, <3>4, <4>2
      <4> QED
        BY <4>1, <4>2
    <3> QED
      BY <3>2, <3>3, <3>4 DEF InStep
  <2> QED
    BY <2>1, <2>2, <2>3
<1> QED
  BY <1>1, <1>2, <1>3, <1>14, <1>15, <1>16 DEF EnginesInv

\* A row is stored or removed, and the registry follows in the same turn.
LEMMA SavedKeeps ==
  ASSUME EnginesInv, NEW d \in Starters, Live(d), Saves, NEW e \in Ids, NEW row \in Row,
         NEW runs, row.on => runs = row.def, ~row.on => runs = NoRun,
         Stores(e, row), Registers(d, e, runs),
         meant' = [t \in EngineTabs |-> IF uses[t] = e THEN row.def ELSE meant[t]],
         UNCHANGED <<applied, uses, inbox, awaits, up, known, listing, listed, wrong, overtaken>>
  PROVE  EnginesInv'
<1>1. EnginesTypeOK /\ InOrderOf /\ Done /\ MeantIs /\ InStep /\ wrong = {}
  BY DEF EnginesInv
<1>2. /\ rows \in [AllIds -> Row] /\ uses \in [EngineTabs -> AllIds]
      /\ AllIds = Ids \cup {Copilot} /\ e # Copilot /\ e \in AllIds
      /\ meant \in [EngineTabs -> Bodies \cup {BuiltIn, Preset, NoRun}]
      /\ registry \in [Starters -> [AllIds -> Bodies \cup {Preset, NoRun, BuiltIn}]]
  BY <1>1, EnginesTypes
<1>3. rows' \in [AllIds -> Row] /\ \A x \in AllIds : rows'[x] = IF x = e THEN row ELSE rows[x]
  BY <1>2 DEF Stores
<1>4. row.def \in Bodies \cup {Preset, NoRun} /\ runs \in Bodies \cup {Preset, NoRun, BuiltIn}
  <2>1. row.def \in Bodies \cup {Preset, NoRun}
    BY DEF Row
  <2> QED
    BY <2>1
<1>5. /\ registry' \in [Starters -> [AllIds -> Bodies \cup {Preset, NoRun, BuiltIn}]]
      /\ registry'[d] = [registry[d] EXCEPT ![e] = runs]
      /\ \A x \in AllIds : registry'[d][x] = IF x = e THEN runs ELSE registry[d][x]
  BY <1>2, <1>4 DEF Registers
<1>6. meant' \in [EngineTabs -> Bodies \cup {BuiltIn, Preset, NoRun}]
  BY <1>2, <1>4
<1>7. saves' \in 0 .. MaxSaves
  BY <1>1, EnginesTypes DEF Saves
<1>8. EnginesTypeOK'
  <2>1. wrong' \subseteq EngineTabs
    BY <1>1
  <2> QED
    BY <1>1, <1>3, <1>5, <1>6, <1>7, <2>1, EnginesTypes, EnginesTyped
<1>9. applied = AllSteps /\ "copilot" \in applied
  <2>1. known[d] = AllSteps /\ known[d] \subseteq applied /\ applied \subseteq AllSteps
    BY <1>1, EnginesTypes DEF InOrderOf, Live
  <2> QED
    BY <2>1 DEF AllSteps
<1>10. InOrderOf'
  BY <1>1 DEF InOrderOf
<1>11. Done'
  <2>1. rows'[Copilot] = rows[Copilot] /\ rows[Copilot] = NoRow
    BY <1>1, <1>2, <1>3, <1>9 DEF Done
  <2> QED
    BY <1>1, <1>9, <2>1 DEF Done
<1>12. MeantIs'
  <2>1. \A t \in EngineTabs : uses'[t] = uses[t] /\ uses[t] \in AllIds /\ meant'[t] = IF uses[t] = e THEN row.def ELSE meant[t]
    BY <1>2
  <2>2. \A t \in EngineTabs : /\ uses'[t] # Copilot /\ rows'[uses'[t]].def # NoRun => meant'[t] = rows'[uses'[t]].def
                              /\ uses'[t] = Copilot => meant'[t] = BuiltIn
    BY <1>1, <1>2, <1>3, <1>9, <2>1 DEF MeantIs
  <2> QED
    BY <1>9, <2>2 DEF MeantIs
<1>13. InStep'
  <2>1. \A x \in Starters : up[x] = "live" => x = d
    BY <1>1 DEF InStep, Live
  <2>2. \A x \in Starters \ overtaken : up[x] # "built"
    BY <1>1 DEF InStep, Live
  <2>3. d \notin overtaken => registry'[d] = Registered(rows')
    <3>1. HAVE d \notin overtaken
    <3>2. registry[d] = Registered(rows)
      BY <1>1, <3>1 DEF InStep, Live
    <3>3. \A x \in AllIds : registry'[d][x] = Registered(rows')[x]
      <4> SUFFICES ASSUME NEW x \in AllIds PROVE registry'[d][x] = Registered(rows')[x]
        OBVIOUS
      <4>1. CASE x = e
        <5>1. rows'[x] = row /\ registry'[d][x] = runs /\ x # Copilot
          BY <1>2, <1>3, <1>5, <4>1
        <5>2. Registered(rows')[x] = IF row.on THEN row.def ELSE NoRun
          BY <5>1 DEF Registered
        <5> QED
          BY <5>1, <5>2
      <4>2. CASE x # e
        BY <1>3, <1>5, <3>2, <4>2 DEF Registered
      <4> QED
        BY <4>1, <4>2
    <3>4. registry'[d] \in [AllIds -> Bodies \cup {Preset, NoRun, BuiltIn}]
      BY <1>5
    <3>5. Registered(rows') = [x \in AllIds |-> Registered(rows')[x]]
      BY DEF Registered
    <3> QED
      BY <3>3, <3>4, <3>5
  <2> QED
    BY <1>1, <2>1, <2>2, <2>3 DEF InStep
<1> QED
  BY <1>1, <1>8, <1>10, <1>11, <1>12, <1>13 DEF EnginesInv

\* An engine is put.
LEMMA PutsKeeps ==
  ASSUME EnginesInv, NEW d \in Starters, NEW e \in AllIds, NEW def \in Bodies \cup {Preset, NoRun},
         NEW on \in BOOLEAN, Puts(d, e, def, on)
  PROVE  EnginesInv'
<1> DEFINE row == [def |-> def, on |-> on]
<1>1. e \in Ids
  BY DEF Puts, Validates, AllIds
<1>2. row \in Row /\ row.def = def /\ row.on = on
  BY DEF Row
<1>3. Stores(e, row) /\ Registers(d, e, IF on THEN def ELSE NoRun) /\ Live(d) /\ Saves
  BY DEF Puts
<1>4. /\ meant' = [t \in EngineTabs |-> IF uses[t] = e THEN row.def ELSE meant[t]]
      /\ UNCHANGED <<applied, uses, inbox, awaits, up, known, listing, listed, wrong, overtaken>>
  BY DEF Puts
<1>5. (row.on => (IF on THEN def ELSE NoRun) = row.def) /\ (~row.on => (IF on THEN def ELSE NoRun) = NoRun)
  OBVIOUS
<1> HIDE DEF row
<1> QED
  BY <1>1, <1>2, <1>3, <1>4, <1>5, SavedKeeps

\* An engine is deleted.
LEMMA RemovesKeeps ==
  ASSUME EnginesInv, NEW d \in Starters, NEW e, Removes(d, e)
  PROVE  EnginesInv'
<1>1. e \in Ids /\ Live(d) /\ Saves /\ Stores(e, NoRow) /\ Registers(d, e, NoRun)
  BY DEF Removes
<1>2. NoRow.def = NoRun /\ ~NoRow.on /\ NoRow \in Row
  BY DEF NoRow, Row
<1>3. /\ meant' = [t \in EngineTabs |-> IF uses[t] = e THEN NoRow.def ELSE meant[t]]
      /\ UNCHANGED <<applied, uses, inbox, awaits, up, known, listing, listed, wrong, overtaken>>
  BY <1>2 DEF Removes
<1> QED
  BY <1>1, <1>2, <1>3, SavedKeeps

\* Lists and launches.
LEMMA ReadsKeep ==
  ASSUME EnginesInv, NEW d \in Starters,
         ListStarts(d) \/ ListEnds(d) \/ \E t \in EngineTabs : Launches(d, t)
  PROVE  EnginesInv'
<1>1. EnginesTypeOK /\ InOrderOf /\ Done /\ MeantIs /\ InStep /\ wrong = {}
  BY DEF EnginesInv
<1>2. UNCHANGED <<applied, rows, uses, inbox, awaits, up, known, registry, meant, overtaken>>
  BY DEF ListStarts, ListEnds, Launches
<1>3. Done' /\ MeantIs'
  BY <1>1, <1>2, EnginesAlone
<1>4. InOrderOf' /\ InStep'
  <2>1. InOrderOf'
    BY <1>1, <1>2 DEF InOrderOf
  <2>2. InStep'
    BY <1>1, <1>2 DEF InStep, Registered
  <2> QED
    BY <2>1, <2>2
<1>5. saves' \in 0 .. MaxSaves
  <2>1. saves' = saves \/ (saves < MaxSaves /\ saves' = saves + 1)
    BY DEF ListStarts, ListEnds, Launches, Saves
  <2> QED
    BY <1>1, <2>1, EnginesTypes
<1>6. listing' = <<>> \/ listing' \in [AllIds -> Row]
  <2>1. listing' = listing \/ listing' = <<>> \/ listing' = rows
    BY DEF ListStarts, ListEnds, Launches
  <2> QED
    BY <1>1, <2>1, EnginesTypes
<1>7. listed' \in [on : SUBSET AllIds, off : SUBSET AllIds, as : [AllIds -> Row]]
  <2>1. CASE ListEnds(d)
    <3>1. /\ listing # <<>>
          /\ listed' = [on |-> {e \in AllIds : registry[d][e] # NoRun},
                        off |-> {e \in AllIds : listing[e] # NoRow /\ ~listing[e].on},
                        as |-> listing]
      BY <2>1 DEF ListEnds
    <3>2. listing \in [AllIds -> Row]
      BY <1>1, <3>1, EnginesTypes
    <3> QED
      BY <3>1, <3>2
  <2>2. CASE ~ListEnds(d)
    <3>1. listed' = listed
      BY <2>2 DEF ListStarts, Launches
    <3> QED
      BY <1>1, <3>1, EnginesTypes
  <2> QED
    BY <2>1, <2>2
<1>8. wrong' = {}
  <2>1. CASE ListStarts(d) \/ ListEnds(d)
    BY <1>1, <2>1 DEF ListStarts, ListEnds
  <2>2. CASE \E t \in EngineTabs : Launches(d, t)
    <3>1. PICK t \in EngineTabs : Launches(d, t)
      BY <2>2
    <3>2. /\ Live(d) /\ registry[d][uses[t]] # NoRun
          /\ wrong' = IF registry[d][uses[t]] = meant[t] \/ d \in overtaken THEN wrong ELSE wrong \cup {t}
      BY <3>1 DEF Launches
    <3>3. registry[d][uses[t]] = meant[t] \/ d \in overtaken
      <4> SUFFICES ASSUME d \notin overtaken PROVE registry[d][uses[t]] = meant[t]
        OBVIOUS
      <4>1. registry[d] = Registered(rows)
        BY <1>1, <3>2 DEF InStep, Live
      <4>2. known[d] = AllSteps /\ known[d] \subseteq applied
        BY <1>1, <3>2 DEF InOrderOf, Live
      <4>3. "copilot" \in applied
        BY <4>2 DEF AllSteps
      <4>4. uses[t] \in AllIds
        BY <1>1, EnginesTypes
      <4>5. CASE uses[t] = Copilot
        BY <1>1, <4>1, <4>3, <4>4, <4>5 DEF Registered, MeantIs
      <4>6. CASE uses[t] # Copilot
        <5>1. registry[d][uses[t]] = IF rows[uses[t]].on THEN rows[uses[t]].def ELSE NoRun
          BY <4>1, <4>4, <4>6 DEF Registered
        <5>2. registry[d][uses[t]] = rows[uses[t]].def /\ rows[uses[t]].def # NoRun
          BY <3>2, <5>1
        <5> QED
          BY <1>1, <4>6, <5>2 DEF MeantIs
      <4> QED
        BY <4>5, <4>6
    <3> QED
      BY <1>1, <3>2, <3>3
  <2> QED
    BY <2>1, <2>2
<1>9. awaits' = awaits /\ known' = known
  BY <1>2
<1>10. EnginesTypeOK'
  <2>1. wrong' \subseteq EngineTabs
    BY <1>8
  <2> QED
    BY <1>1, <1>2, <1>5, <1>6, <1>7, <2>1, EnginesTypes, EnginesTyped
<1> QED
  BY <1>3, <1>4, <1>8, <1>10 DEF EnginesInv

\* Every step keeps the invariant.
LEMMA EnginesKept == EnginesInv /\ [EnginesNext]_engineVars => EnginesInv'
<1> SUFFICES ASSUME EnginesInv, [EnginesNext]_engineVars PROVE EnginesInv'
  OBVIOUS
<1>1. CASE UNCHANGED engineVars
  <2>1. UNCHANGED <<applied, rows, uses, inbox, awaits, up, known, registry, listing, listed,
                    meant, wrong, overtaken, saves>>
    BY <1>1 DEF engineVars
  <2>2. EnginesTypeOK /\ InOrderOf /\ Done /\ MeantIs /\ InStep /\ wrong = {}
    BY DEF EnginesInv
  <2>3. EnginesTypeOK'
    BY <2>1, <2>2 DEF EnginesTypeOK
  <2>4. InOrderOf' /\ InStep'
    <3>1. InOrderOf'
      BY <2>1, <2>2 DEF InOrderOf
    <3>2. InStep'
      BY <2>1, <2>2 DEF InStep, Registered
    <3> QED
      BY <3>1, <3>2
  <2>5. Done' /\ MeantIs'
    BY <2>1, <2>2, EnginesAlone
  <2> QED
    BY <2>1, <2>2, <2>3, <2>4, <2>5 DEF EnginesInv
<1>2. CASE EnginesNext
  <2>1. PICK d \in Starters :
          \/ Starts(d) \/ Migrates(d) \/ Collides(d) \/ Builds(d) \/ Lives(d) \/ Ends(d)
          \/ ListStarts(d) \/ ListEnds(d) \/ EnginesPage(d) \/ CliEngines(d)
          \/ \E t \in EngineTabs : Launches(d, t)
    BY <1>2 DEF EnginesNext
  <2>2. CASE Starts(d)
    BY <2>2, StartsKeeps
  <2>3. CASE Migrates(d)
    BY <2>3, MigratesKeeps
  <2>4. CASE Collides(d) \/ Builds(d) \/ Lives(d) \/ Ends(d)
    BY <2>4, TurnsKeep
  <2>5. CASE ListStarts(d) \/ ListEnds(d) \/ \E t \in EngineTabs : Launches(d, t)
    BY <2>5, ReadsKeep
  <2>6. CASE EnginesPage(d)
    <3>1. PICK e \in AllIds : \/ Toggles(d, e)
                              \/ listed.as[e] # NoRow /\ Removes(d, e)
                              \/ \E def \in Bodies : Puts(d, e, def, TRUE)
      BY <2>6 DEF EnginesPage
    <3>2. CASE Toggles(d, e)
      <4>1. PICK on \in BOOLEAN : Puts(d, e, listed.as[e].def, on)
        BY <3>2 DEF Toggles
      <4>2. listed.as[e] \in Row
        BY EnginesTypes DEF EnginesInv
      <4>3. listed.as[e].def \in Bodies \cup {Preset, NoRun}
        BY <4>2 DEF Row
      <4> QED
        BY <4>1, <4>3, PutsKeeps
    <3>3. CASE Removes(d, e)
      BY <3>3, RemovesKeeps
    <3>4. CASE \E def \in Bodies : Puts(d, e, def, TRUE)
      BY <3>4, PutsKeeps
    <3> QED
      BY <3>1, <3>2, <3>3, <3>4
  <2>7. CASE CliEngines(d)
    <3>1. PICK e \in AllIds : \/ Removes(d, e) \/ PutsPreset(d, e)
                              \/ \E def \in Bodies, on \in BOOLEAN : Puts(d, e, def, on)
      BY <2>7 DEF CliEngines
    <3>2. CASE Removes(d, e)
      BY <3>2, RemovesKeeps
    <3>3. CASE PutsPreset(d, e)
      BY <3>3, PutsKeeps DEF PutsPreset
    <3>4. CASE \E def \in Bodies, on \in BOOLEAN : Puts(d, e, def, on)
      BY <3>4, PutsKeeps
    <3> QED
      BY <3>1, <3>2, <3>3, <3>4
  <2> QED
    BY <2>1, <2>2, <2>3, <2>4, <2>5, <2>6, <2>7
<1> QED
  BY <1>1, <1>2

\* Theorem: however daemons that start together, crashes between two migrations, saves, deletions
\* and restarts interleave, the database of a daemon that lives has every migration once, its
\* registry agrees with the rows, and a tab is launched with the definition its user gave it.
THEOREM EnginesAreTrue == EnginesSpec => []EnginesHold
<1>1. EnginesInv => EnginesHold
  <2> SUFFICES ASSUME EnginesInv PROVE EnginesHold
    OBVIOUS
  <2>1. EnginesTypeOK /\ InOrderOf /\ Done /\ MeantIs /\ InStep /\ wrong = {}
    BY DEF EnginesInv
  <2>2. Migrated
    <3> SUFFICES ASSUME NEW d \in Starters, Live(d)
                 PROVE  /\ applied = Applied(Len(Steps)) /\ rows[Copilot] = NoRow
                        /\ \A t \in EngineTabs : inbox[t] = IF t \in awaits THEN 1 ELSE 0
      BY DEF Migrated
    <3>1. known[d] = AllSteps /\ known[d] \subseteq applied /\ applied \subseteq AllSteps
      BY <2>1, EnginesTypes DEF InOrderOf, Live
    <3>2. applied = AllSteps /\ "attention" \in applied /\ "copilot" \in applied
      BY <3>1 DEF AllSteps
    <3> QED
      BY <2>1, <3>2, StepsAre DEF Done
  <2>3. RegistryIsStore
    BY <2>1 DEF RegistryIsStore, InStep, Live
  <2> QED
    BY <2>1, <2>2, <2>3 DEF EnginesHold
<1> QED
  BY <1>1, EnginesInitially, EnginesKept, PTL DEF EnginesSpec

-----------------------------------------------------------------------------
(* The composer, its drafts and what is on its way.                          *)

\* A text, or a list of pictures, holds only what was written or attached there: in the workspace
\* itself, or anywhere in the dispatch panel, where a text is carried from project to project.
Homely(y) == IF y \in Spaces THEN {y} ELSE Projects
WordsOf(h, body, y) == \A x \in body : x[1] = "word" => x \in DOMAIN h /\ h[x] \in Homely(y)
PicturesOf(h, pictures, y) ==
  \A i \in DOMAIN pictures : Picture(pictures[i]) \in DOMAIN h /\ h[Picture(pictures[i])] \in Homely(y)
Reached(h, body, w) == \A x \in body : x \in DOMAIN h /\ h[x] \in {w} \cup Projects

Marks == {Word(n) : n \in Nat} \cup {Label(n) : n \in Nat}
Flights == [kind : {"message", "dispatch", "picture"}, from : Places, body : SUBSET Marks,
            pictures : Seq(Nat), gone : BOOLEAN]

Numbered(words, pictures) ==
  home = [x \in {Word(n) : n \in 1 .. words} \cup {Picture(n) : n \in 1 .. pictures} |-> home[x]]

\* The types, as far as the proof needs them; words and pictures are numbered without a gap, and
\* the composer of a workspace sends messages, that of a project dispatches.
Typed ==
  /\ knownSpaces \subseteq Spaces /\ place \in Places
  /\ text \in SUBSET Marks /\ attached \in Seq(Nat)
  /\ drafts \in [Places -> SUBSET Marks]
  /\ under \subseteq Flights
  /\ \A f \in under : /\ f.kind = "message" => f.from \in Spaces
                      /\ f.kind = "dispatch" => f.from \in Projects
  /\ arrived = [w \in Spaces |-> arrived[w]]
  /\ \E words, pictures \in Nat : Numbered(words, pictures)
  /\ misled \in BOOLEAN /\ lostSome \in BOOLEAN

\* Everything that may still reach a workspace belongs there.
AtHome ==
  ~misled =>
    /\ WordsOf(home, text, place) /\ PicturesOf(home, attached, place)
    /\ \A y \in Places : WordsOf(home, drafts[y], y)
    /\ \A f \in under : WordsOf(home, f.body, f.from) /\ PicturesOf(home, f.pictures, f.from)
    /\ \A w \in Spaces : Reached(home, arrived[w], w)

\* Where a word is: what the composer shows replaces the draft of its place, so there it is safe
\* only if the composer shows it.
Safe(x) ==
  \/ \E y \in Places : x \in drafts[y] /\ (y = place => x \in text)
  \/ \E f \in under : f.kind # "picture" /\ x \in f.body
  \/ \E w \in Spaces : x \in arrived[w]
Kept == ~lostSome => \A x \in DOMAIN home : x[1] = "word" => Safe(x)

ComposerInv == Typed /\ AtHome /\ Kept

\* Words, labels and pictures are told apart, and two of a kind by their number.
LEMMA MarksApart ==
  ASSUME NEW n, NEW m
  PROVE  /\ Word(n)[1] = "word" /\ Label(n)[1] = "label" /\ Picture(n)[1] = "picture"
         /\ Word(n) # Picture(m) /\ Word(n) # Label(m) /\ Label(n) # Picture(m)
         /\ (Word(n) = Word(m) => n = m) /\ (Picture(n) = Picture(m) => n = m)
  BY DEF Word, Label, Picture

\* A numbered set has as many members as numbers.
LEMMA AsMany ==
  ASSUME NEW a \in Nat, NEW S, NEW f \in Bijection(1 .. a, S)
  PROVE  Cardinality(S) = a
<1>1. IsFiniteSet(1 .. a) /\ Cardinality(1 .. a) = a
  BY FS_Interval
<1>2. ExistsBijection(1 .. a, S)
  BY DEF ExistsBijection
<1> QED
  BY <1>1, <1>2, FS_Bijection

\* The next number of a word or of a picture was never used.
LEMMA MadeIs ==
  ASSUME NEW a \in Nat, NEW b \in Nat,
         DOMAIN home = {Word(n) : n \in 1 .. a} \cup {Picture(n) : n \in 1 .. b}
  PROVE  /\ Made("word") = a /\ Made("picture") = b
         /\ Word(a + 1) \notin DOMAIN home /\ Picture(b + 1) \notin DOMAIN home
<1>1. /\ {x \in DOMAIN home : x[1] = "word"} = {Word(n) : n \in 1 .. a}
      /\ {x \in DOMAIN home : x[1] = "picture"} = {Picture(n) : n \in 1 .. b}
  BY MarksApart
<1>2. [n \in 1 .. a |-> Word(n)] \in Bijection(1 .. a, {Word(n) : n \in 1 .. a})
  BY MarksApart DEF Bijection, Injection, Surjection, IsInjective
<1>3. [n \in 1 .. b |-> Picture(n)] \in Bijection(1 .. b, {Picture(n) : n \in 1 .. b})
  BY MarksApart DEF Bijection, Injection, Surjection, IsInjective
<1>4. Made("word") = a /\ Made("picture") = b
  BY <1>1, <1>2, <1>3, AsMany DEF Made
<1>5. Word(a + 1) \notin DOMAIN home
  BY MarksApart
<1>6. Picture(b + 1) \notin DOMAIN home
  BY MarksApart
<1> QED
  BY <1>4, <1>5, <1>6

\* What belongs somewhere still does when another word or picture is noted.
Gains(h, g, w, p) == g = [y \in DOMAIN h \cup {w} |-> IF y = w THEN p ELSE h[y]]
\* Noting one more word changes nothing for those that were noted before.
LEMMA StillHome ==
  ASSUME NEW h, NEW w, w \notin DOMAIN h, NEW p, NEW g, Gains(h, g, w, p)
  PROVE  /\ w \in DOMAIN g /\ g[w] = p
         /\ \A x \in DOMAIN g : x = w \/ x \in DOMAIN h
         /\ \A x \in DOMAIN h : x \in DOMAIN g /\ g[x] = h[x]
         /\ \A body, y : WordsOf(h, body, y) => WordsOf(g, body, y)
         /\ \A pictures, y : PicturesOf(h, pictures, y) => PicturesOf(g, pictures, y)
         /\ \A body, v : Reached(h, body, v) => Reached(g, body, v)
<1>1. /\ w \in DOMAIN g /\ g[w] = p
      /\ \A x \in DOMAIN g : x = w \/ x \in DOMAIN h
      /\ \A x \in DOMAIN h : x \in DOMAIN g /\ g[x] = h[x]
  BY DEF Gains
<1>2. \A body, y : WordsOf(h, body, y) => WordsOf(g, body, y)
  BY <1>1 DEF WordsOf
<1>3. \A pictures, y : PicturesOf(h, pictures, y) => PicturesOf(g, pictures, y)
  BY <1>1 DEF PicturesOf
<1>4. \A body, v : Reached(h, body, v) => Reached(g, body, v)
  BY <1>1 DEF Reached
<1> QED
  BY <1>1, <1>2, <1>3, <1>4

\* A new request has the place and the pictures of the composer.
LEMMA FlightIs ==
  ASSUME NEW kind \in {"message", "dispatch", "picture"}, NEW body \in SUBSET Marks,
         place \in Places, attached \in Seq(Nat)
  PROVE  /\ Flight(kind, body) \in Flights /\ Flight(kind, body).kind = kind
         /\ Flight(kind, body).from = place /\ Flight(kind, body).body = body
         /\ Flight(kind, body).pictures = attached
<1>1. PICK q : q = [kind |-> kind, from |-> place, body |-> body, pictures |-> attached, gone |-> FALSE]
  OBVIOUS
<1>2. Flight(kind, body) = q
  BY <1>1 DEF Flight
<1>3. /\ q \in Flights
      /\ q.kind = kind /\ q.from = place /\ q.body = body /\ q.pictures = attached
  BY <1>1 DEF Flights
<1> QED
  BY <1>2, <1>3

\* A picture on its way has its own number.
PictureFlight(n) == [Flight("picture", {}) EXCEPT !.pictures = <<n>>]
\* Its flight holds that picture and no text.
LEMMA PictureFlightIs ==
  ASSUME NEW n \in Nat, place \in Places, attached \in Seq(Nat)
  PROVE  /\ PictureFlight(n) \in Flights /\ PictureFlight(n).kind = "picture"
         /\ PictureFlight(n).from = place /\ PictureFlight(n).body = {}
         /\ PictureFlight(n).pictures = <<n>>
<1>1. PICK q : q = Flight("picture", {})
  OBVIOUS
<1>2. {} \in SUBSET Marks /\ "picture" \in {"message", "dispatch", "picture"}
  OBVIOUS
<1>3. q \in Flights /\ q.kind = "picture" /\ q.from = place /\ q.body = {}
  BY <1>1, <1>2, FlightIs
<1>4. <<n>> \in Seq(Nat)
  OBVIOUS
<1>5. PICK r : r = [q EXCEPT !.pictures = <<n>>]
  OBVIOUS
<1>6. r \in Flights /\ r.kind = "picture" /\ r.from = place /\ r.body = {} /\ r.pictures = <<n>>
  BY <1>3, <1>4, <1>5 DEF Flights
<1> QED
  BY <1>1, <1>5, <1>6 DEF PictureFlight

\* What has gone before is not changed.
LEMMA StaysSo ==
  ASSUME NEW f \in Flights, f.gone
  PROVE  Left(f) = f
BY DEF Flights, Left

\* What a composer that goes leaves under way is what it began, but a picture takes the text and
\* the pictures that it had along.
LEMMA LeavesAre ==
  ASSUME NEW asked \in SUBSET Flights, text \in SUBSET Marks, attached \in Seq(Nat),
         NEW g \in Leaves(asked)
  PROVE  \E f \in asked :
           /\ g \in Flights /\ g.kind = f.kind /\ g.from = f.from
           /\ \/ g.body = f.body /\ g.pictures = f.pictures
              \/ g.kind = "picture" /\ g.body = text /\ g.pictures = attached /\ g.from = place
<1>1. PICK f \in asked : (f.gone \/ f.kind # "picture" \/ f.from = place) /\ g = Left(f)
  BY DEF Leaves
<1>2. f \in Flights
  BY <1>1
<1>3. CASE f.gone
  <2>1. Left(f) = f
    BY <1>2, <1>3, StaysSo
  <2> QED
    BY <1>1, <1>2, <2>1
<1>4. CASE ~f.gone /\ f.kind # "picture"
  <2>1. g = [f EXCEPT !.gone = TRUE]
    BY <1>1, <1>4 DEF Left
  <2> QED
    BY <1>2, <2>1 DEF Flights
<1>5. CASE ~f.gone /\ f.kind = "picture"
  <2>1. g = [f EXCEPT !.gone = TRUE, !.pictures = attached, !.body = text]
    BY <1>1, <1>5 DEF Left
  <2>2. f.from = place
    BY <1>1, <1>5
  <2> QED
    BY <1>2, <1>5, <2>1, <2>2 DEF Flights
<1> QED
  BY <1>2, <1>3, <1>4, <1>5 DEF Flights

\* And nothing but pictures is forgotten.
LEMMA LeavesKeep ==
  ASSUME NEW asked \in SUBSET Flights, NEW f \in asked, f.kind # "picture"
  PROVE  \E g \in Leaves(asked) : g.kind = f.kind /\ g.body = f.body
<1>1. Left(f) \in Leaves(asked)
  BY DEF Leaves
<1>2. CASE f.gone
  <2>1. Left(f) = f
    BY <1>2, StaysSo
  <2> QED
    BY <1>1, <2>1
<1>3. CASE ~f.gone /\ f.kind # "picture"
  <2>1. Left(f) = [f EXCEPT !.gone = TRUE]
    BY <1>3 DEF Left
  <2> QED
    BY <1>1, <2>1 DEF Flights
<1> QED
  BY <1>2, <1>3 DEF Flights

\* The next word and the next picture are new and numbered.
LEMMA NotesNew ==
  ASSUME Typed, NEW w, NEW p, Notes(w, p),
         w = Word(Made("word") + 1) \/ w = Picture(Made("picture") + 1)
  PROVE  /\ Made("word") \in Nat /\ Made("picture") \in Nat
         /\ w \notin DOMAIN home
         /\ Gains(home, home', w, p)
         /\ \E words, pictures \in Nat : Numbered(words, pictures)'
<1>1. PICK a \in Nat, b \in Nat : Numbered(a, b)
  BY DEF Typed
<1>2. DOMAIN home = {Word(n) : n \in 1 .. a} \cup {Picture(n) : n \in 1 .. b}
  BY <1>1 DEF Numbered
<1>3. /\ Made("word") = a /\ Made("picture") = b
      /\ Word(a + 1) \notin DOMAIN home /\ Picture(b + 1) \notin DOMAIN home
  BY <1>2, MadeIs
<1>4. Gains(home, home', w, p)
  BY DEF Notes, Gains
<1>5. /\ 1 .. a + 1 = 1 .. a \cup {a + 1}
      /\ 1 .. b + 1 = 1 .. b \cup {b + 1}
      /\ a + 1 \in Nat /\ b + 1 \in Nat
  OBVIOUS
<1>6. CASE w = Word(a + 1)
  <2>1. DOMAIN home \cup {w} = {Word(n) : n \in 1 .. a + 1} \cup {Picture(n) : n \in 1 .. b}
    BY <1>2, <1>5, <1>6
  <2>2. Numbered(a + 1, b)'
    BY <1>4, <2>1 DEF Numbered, Gains
  <2> QED
    BY <1>3, <1>4, <1>5, <1>6, <2>2
<1>7. CASE w = Picture(b + 1)
  <2>1. DOMAIN home \cup {w} = {Word(n) : n \in 1 .. a} \cup {Picture(n) : n \in 1 .. b + 1}
    BY <1>2, <1>5, <1>7
  <2>2. Numbered(a, b + 1)'
    BY <1>4, <2>1 DEF Numbered, Gains
  <2> QED
    BY <1>3, <1>4, <1>5, <1>7, <2>2
<1> QED
  BY <1>3, <1>6, <1>7

\* A text with one more mark is a text.
LEMMA TextsGrow ==
  ASSUME NEW t \in SUBSET Marks, NEW n \in Nat
  PROVE  /\ {} \in SUBSET Marks /\ <<>> \in Seq(Nat)
         /\ t \cup {Word(n)} \in SUBSET Marks /\ t \cup {Label(n)} \in SUBSET Marks
         /\ {Word(n)} \in SUBSET Marks
<1>1. Word(n) \in Marks /\ Label(n) \in Marks
  BY DEF Marks
<1>2. <<>> \in Seq(Nat)
  BY EmptySeq
<1> QED
  BY <1>1, <1>2

\* The types are kept.
LEMMA TypedStep ==
  ASSUME Typed, [ComposerNext]_composerVars
  PROVE  Typed'
<1> USE DEF Typed
<1>1. CASE Writes
  <2>1. PICK w : /\ w = Word(Made("word") + 1) /\ Write(text \cup {w}) /\ Notes(w, place)
    BY <1>1 DEF Writes
  <2>2. Made("word") \in Nat /\ \E words, pictures \in Nat : Numbered(words, pictures)'
    BY <2>1, NotesNew
  <2>3. text \cup {w} \in SUBSET Marks
    BY <2>1, <2>2, TextsGrow
  <2> QED
    BY <1>1, <2>1, <2>2, <2>3 DEF Writes, Write
<1>2. CASE SendsText
  <2>1. PICK f : f = Flight("message", text) /\ Flies(f)
    BY <1>2 DEF SendsText
  <2>2. f \in Flights /\ f.kind = "message" /\ f.from = place
    BY <2>1, FlightIs
  <2>3. under' = under \cup {f} /\ place \in Spaces
    BY <1>2, <2>1 DEF Flies, SendsText
  <2>4. \E words, pictures \in Nat : Numbered(words, pictures)'
    BY <1>2 DEF SendsText, Numbered
  <2> QED
    BY <1>2, <2>2, <2>3, <2>4, TextsGrow, 0 \in Nat DEF SendsText, Write
<1>3. CASE Dispatches
  <2>1. PICK f : f = Flight("dispatch", text)
    OBVIOUS
  <2>2. f \in Flights /\ f.kind = "dispatch" /\ f.from = place /\ place \in Projects
    BY <1>3, <2>1, FlightIs DEF Dispatches
  <2>3. under' = under \/ under' = under \cup {f}
    BY <1>3, <2>1 DEF Flies, Dispatches
  <2>4. \E words, pictures \in Nat : Numbered(words, pictures)'
    BY <1>3 DEF Dispatches, Numbered
  <2>5. lostSome' \in BOOLEAN
    BY <1>3 DEF Dispatches
  <2> QED
    BY <1>3, <2>2, <2>3, <2>4, <2>5, TextsGrow, 0 \in Nat DEF Dispatches, Write
<1>4. CASE Attaches
  <2>1. PICK n : n = Made("picture") + 1 /\ Notes(Picture(n), place)
                 /\ Flies([Flight("picture", {}) EXCEPT !.pictures = <<n>>])
    BY <1>4 DEF Attaches
  <2>2. PICK w : w = Picture(n)
    OBVIOUS
  <2>3. w = Picture(Made("picture") + 1) /\ Notes(w, place)
    BY <2>1, <2>2
  <2>4. Made("picture") \in Nat /\ \E words, pictures \in Nat : Numbered(words, pictures)'
    BY <2>3, NotesNew
  <2>5. n \in Nat
    BY <2>1, <2>4
  <2>6. PICK f : f = PictureFlight(n)
    OBVIOUS
  <2>7. f \in Flights /\ f.kind = "picture"
    BY <2>5, <2>6, PictureFlightIs
  <2>8. under' = under \cup {f}
    BY <2>1, <2>6 DEF Flies, PictureFlight
  <2> QED
    BY <1>4, <2>4, <2>7, <2>8 DEF Attaches
<1>5. ASSUME NEW there \in Places, GoesTo(there)
      PROVE  Typed'
  <2>1. under' \subseteq under \cup Leaves(under)
    BY <1>5 DEF GoesTo
  <2>2. /\ under' \subseteq Flights
        /\ \A f \in under' : /\ f.kind = "message" => f.from \in Spaces
                             /\ f.kind = "dispatch" => f.from \in Projects
    BY <2>1, LeavesAre
  <2>3. \E words, pictures \in Nat : Numbered(words, pictures)'
    BY <1>5 DEF GoesTo, Numbered
  <2> QED
    BY <1>5, <2>2, <2>3, TextsGrow, 0 \in Nat DEF GoesTo, Shows
<1>6. ASSUME NEW there \in Places, Carries(there)
      PROVE  Typed'
  <2>1. \E words, pictures \in Nat : Numbered(words, pictures)'
    BY <1>6 DEF Carries, Numbered
  <2>2. lostSome' \in BOOLEAN
    BY <1>6 DEF Carries
  <2>3. /\ place' \in Places /\ attached' = <<>>
        /\ text' \in SUBSET Marks /\ drafts' \in [Places -> SUBSET Marks]
    BY <1>6 DEF Carries, Shows
  <2> QED
    BY <1>6, <2>1, <2>2, <2>3, TextsGrow, 0 \in Nat DEF Carries
<1>7. ASSUME NEW there \in Places, Injects(there)
      PROVE  Typed'
  <2>1. PICK w : w = Word(Made("word") + 1) /\ Notes(w, there)
                 /\ drafts' = [drafts EXCEPT ![there] = @ \cup {w}]
    BY <1>7 DEF Injects
  <2>2. Made("word") \in Nat /\ \E words, pictures \in Nat : Numbered(words, pictures)'
    BY <2>1, NotesNew
  <2>3. drafts[there] \cup {w} \in SUBSET Marks
    BY <2>1, <2>2, TextsGrow
  <2>4. lostSome' \in BOOLEAN
    BY <1>7 DEF Injects
  <2>5. drafts' \in [Places -> SUBSET Marks] /\ text' \in SUBSET Marks
    BY <1>7, <2>1, <2>3 DEF Injects
  <2> QED
    BY <1>7, <2>2, <2>4, <2>5 DEF Injects
<1>8. ASSUME NEW f \in under, Delivered(f)
      PROVE  Typed'
  <2>1. \E words, pictures \in Nat : Numbered(words, pictures)'
    BY <1>8 DEF Delivered, Numbered
  <2> QED
    BY <1>8, <2>1 DEF Delivered, Arrive
<1>9. ASSUME NEW f \in under, Undelivered(f)
      PROVE  Typed'
  <2>1. \E words, pictures \in Nat : Numbered(words, pictures)'
    BY <1>9 DEF Undelivered, Numbered
  <2>2. misled' \in BOOLEAN /\ lostSome' \in BOOLEAN
    BY <1>9 DEF Undelivered
  <2>3. arrived' = [w \in Spaces |-> arrived'[w]]
    BY <1>9 DEF Undelivered, Arrive
  <2>4. f.body \in SUBSET Marks /\ f.pictures \in Seq(Nat)
    BY DEF Flights
  <2>5. text' \in SUBSET Marks /\ attached' \in Seq(Nat)
    BY <1>9, <2>4 DEF Undelivered
  <2>6. drafts' \in [Places -> SUBSET Marks]
    BY <1>9, <2>4 DEF Undelivered
  <2> QED
    BY <1>9, <2>1, <2>2, <2>3, <2>5, <2>6 DEF Undelivered
<1>10. ASSUME NEW f \in under, Created(f)
       PROVE  Typed'
  <2>1. \E words, pictures \in Nat : Numbered(words, pictures)'
    BY <1>10 DEF Created, Numbered
  <2>2. PICK w \in Spaces \ knownSpaces : knownSpaces' = knownSpaces \cup {w} /\ Arrive(f, w) /\ Shows(w, drafts)
    BY <1>10 DEF Created
  <2>3. under \ {f} \in SUBSET Flights /\ under' \subseteq under \cup Leaves(under \ {f})
    BY <1>10 DEF Created
  <2>4. /\ under' \subseteq Flights
        /\ \A g \in under' : /\ g.kind = "message" => g.from \in Spaces
                             /\ g.kind = "dispatch" => g.from \in Projects
    BY <2>3, LeavesAre
  <2>5. w \in Places
    BY DEF Places
  <2> QED
    BY <1>10, <2>1, <2>2, <2>4, <2>5, TextsGrow, 0 \in Nat DEF Created, Shows, Arrive
<1>11. ASSUME NEW f \in under, NotCreated(f)
       PROVE  Typed'
  <2>1. \E words, pictures \in Nat : Numbered(words, pictures)'
    BY <1>11 DEF NotCreated, Numbered
  <2> QED
    BY <1>11, <2>1 DEF NotCreated
<1>12. ASSUME NEW f \in under, Uploaded(f)
       PROVE  Typed'
  <2>1. \E words, pictures \in Nat : Numbered(words, pictures)'
    BY <1>12 DEF Uploaded, Numbered
  <2>2. f.body \in SUBSET Marks /\ f.pictures \in Seq(Nat) /\ attached \o f.pictures \in Seq(Nat)
    BY ConcatProperties DEF Flights
  <2>3. Len(f.pictures) + 1 \in Nat /\ Len(attached \o f.pictures) \in Nat
    BY <2>2
  <2>4. f.body \cup {Label(Len(f.pictures) + 1)} \in SUBSET Marks
        /\ text \cup {Label(Len(attached \o f.pictures))} \in SUBSET Marks
    BY <2>2, <2>3, TextsGrow
  <2>5. lostSome' \in BOOLEAN
    BY <1>12 DEF Uploaded
  <2>6. attached' \in Seq(Nat) /\ text' \in SUBSET Marks
    BY <1>12, <2>2, <2>4 DEF Uploaded, Write
  <2>7. drafts' \in [Places -> SUBSET Marks]
    BY <1>12, <2>4 DEF Uploaded, Write
  <2> QED
    BY <1>12, <2>1, <2>5, <2>6, <2>7 DEF Uploaded
<1>13. CASE UNCHANGED composerVars
  <2>1. \E words, pictures \in Nat : Numbered(words, pictures)'
    BY <1>13 DEF composerVars, Numbered
  <2> QED
    BY <1>13, <2>1 DEF composerVars
<1> QED
  BY <1>1, <1>2, <1>3, <1>4, <1>5, <1>6, <1>7, <1>8, <1>9, <1>10, <1>11, <1>12, <1>13 DEF ComposerNext

\* What a place holds, by how it is put together.
LEMMA HomelyIs ==
  ASSUME NEW y \in Places
  PROVE  /\ y \in Homely(y)
         /\ y \in Projects => Homely(y) = Projects
         /\ y \in Spaces => Homely(y) = {y}
  BY ComposerAssumption DEF Homely, Places

\* Nothing belongs anywhere, and a text stays at home with a label or with a word of its place.
LEMMA AtHomeTogether ==
  ASSUME NEW h, NEW y
  PROVE  /\ WordsOf(h, {}, y) /\ PicturesOf(h, <<>>, y)
         /\ \A body, n : WordsOf(h, body, y) => WordsOf(h, body \cup {Label(n)}, y)
         /\ \A body, w : WordsOf(h, body, y) /\ w \in DOMAIN h /\ h[w] \in Homely(y) => WordsOf(h, body \cup {w}, y)
<1>1. WordsOf(h, {}, y)
  BY DEF WordsOf
<1>2. PicturesOf(h, <<>>, y)
  BY DEF PicturesOf
<1>3. \A body, n : WordsOf(h, body, y) => WordsOf(h, body \cup {Label(n)}, y)
  BY MarksApart DEF WordsOf
<1>4. \A body, w : WordsOf(h, body, y) /\ w \in DOMAIN h /\ h[w] \in Homely(y) => WordsOf(h, body \cup {w}, y)
  BY DEF WordsOf
<1> QED
  BY <1>1, <1>2, <1>3, <1>4

\* Two lists of pictures of one place, one after the other, are of that place.
LEMMA PicturesTogether ==
  ASSUME NEW h, NEW y, NEW p \in Seq(Nat), NEW q \in Seq(Nat), PicturesOf(h, p, y), PicturesOf(h, q, y)
  PROVE  PicturesOf(h, p \o q, y)
<1> SUFFICES ASSUME NEW i \in DOMAIN (p \o q)
             PROVE  /\ Picture((p \o q)[i]) \in DOMAIN h
                    /\ h[Picture((p \o q)[i])] \in Homely(y)
  BY DEF PicturesOf
<1>1. Len(p) \in Nat /\ Len(q) \in Nat /\ DOMAIN p = 1 .. Len(p) /\ DOMAIN q = 1 .. Len(q)
  OBVIOUS
<1>2. i \in 1 .. Len(p) + Len(q)
  BY <1>1, ConcatProperties
<1>3. CASE i <= Len(p)
  <2>1. (p \o q)[i] = p[i] /\ i \in DOMAIN p
    BY <1>1, <1>2, <1>3, ConcatProperties
  <2> QED
    BY <2>1 DEF PicturesOf
<1>4. CASE i > Len(p)
  <2>1. (p \o q)[i] = q[i - Len(p)] /\ i - Len(p) \in DOMAIN q
    BY <1>1, <1>2, <1>4, ConcatProperties
  <2> QED
    BY <2>1 DEF PicturesOf
<1> QED
  BY <1>1, <1>2, <1>3, <1>4

\* What is sent reaches a workspace with words and pictures that belong to it, or to a project.
LEMMA TranslatedReaches ==
  ASSUME NEW h, NEW body, NEW pictures, NEW y \in Places, NEW w \in Spaces, y = w \/ y \in Projects,
         WordsOf(h, body, y), PicturesOf(h, pictures, y)
  PROVE  Reached(h, Translated(body, pictures), w)
<1>1. Homely(y) \subseteq {w} \cup Projects
  BY HomelyIs
<1>2. ASSUME NEW x \in Translated(body, pictures)
      PROVE  x \in DOMAIN h /\ h[x] \in Homely(y)
  <2>1. CASE x \in body /\ x[1] = "word"
    BY <2>1 DEF WordsOf
  <2>2. CASE \E n \in DOMAIN pictures : x = Picture(pictures[n])
    BY <2>2 DEF PicturesOf
  <2> QED
    BY <2>1, <2>2 DEF Translated
<1> QED
  BY <1>1, <1>2 DEF Reached

\* Where a request arrives.
LEMMA ArrivesHome ==
  ASSUME Typed, NEW h, NEW f \in under, NEW w \in Spaces, Arrive(f, w), f.from = w \/ f.from \in Projects,
         WordsOf(h, f.body, f.from), PicturesOf(h, f.pictures, f.from),
         \A v \in Spaces : Reached(h, arrived[v], v)
  PROVE  \A v \in Spaces : Reached(h, arrived'[v], v)
<1>1. f.from \in Places
  BY DEF Typed, Flights
<1>2. Reached(h, Translated(f.body, f.pictures), w)
  BY <1>1, TranslatedReaches
<1>3. \A v \in Spaces : arrived'[v] = IF v = w THEN arrived[v] \cup Translated(f.body, f.pictures) ELSE arrived[v]
  BY DEF Arrive, Typed
<1> QED
  BY <1>2, <1>3 DEF Reached

\* What a composer that goes leaves under way belongs where it did.
LEMMA LeavesHome ==
  ASSUME NEW h, NEW asked \in SUBSET Flights, text \in SUBSET Marks, attached \in Seq(Nat),
         WordsOf(h, text, place), PicturesOf(h, attached, place),
         \A f \in asked : WordsOf(h, f.body, f.from) /\ PicturesOf(h, f.pictures, f.from)
  PROVE  \A g \in Leaves(asked) : WordsOf(h, g.body, g.from) /\ PicturesOf(h, g.pictures, g.from)
  BY LeavesAre

\* What belongs somewhere stays there.
LEMMA AtHomeStep ==
  ASSUME Typed, Typed', AtHome, [ComposerNext]_composerVars
  PROVE  AtHome'
<1> DEFINE Shown(h, t, a, p) == WordsOf(h, t, p) /\ PicturesOf(h, a, p)
           Drafted(h, d) == \A y \in Places : WordsOf(h, d[y], y)
           Flying(h, u) == \A f \in u : WordsOf(h, f.body, f.from) /\ PicturesOf(h, f.pictures, f.from)
           There(h, r) == \A w \in Spaces : Reached(h, r[w], w)
<1> SUFFICES ASSUME misled' = FALSE
             PROVE  /\ Shown(home', text', attached', place') /\ Drafted(home', drafts')
                    /\ Flying(home', under') /\ There(home', arrived')
  BY DEF AtHome, Typed
<1>1. misled = FALSE
  <2>1. misled' = misled \/ \E f \in under : Undelivered(f)
    BY DEF ComposerNext, Writes, SendsText, Dispatches, Attaches, GoesTo, Carries, Injects, Delivered,
           Created, NotCreated, Uploaded, composerVars
  <2> QED
    BY <2>1 DEF Undelivered, Typed
<1>2. Shown(home, text, attached, place) /\ Drafted(home, drafts) /\ Flying(home, under) /\ There(home, arrived)
  BY <1>1 DEF AtHome
<1> USE DEF Typed
<1>3. CASE Writes
  <2>1. PICK w : /\ w = Word(Made("word") + 1) /\ Notes(w, place)
                 /\ text' = text \cup {w} /\ drafts' = [drafts EXCEPT ![place] = text \cup {w}]
    BY <1>3 DEF Writes, Write
  <2>2. /\ w \notin DOMAIN home
        /\ Gains(home, home', w, place)
    BY <2>1, NotesNew
  <2>3. PICK g : g = home' /\ Gains(home, g, w, place)
    BY <2>2
  <2>4. /\ w \in DOMAIN g /\ g[w] = place
        /\ \A body, y : WordsOf(home, body, y) => WordsOf(g, body, y)
        /\ \A pictures, y : PicturesOf(home, pictures, y) => PicturesOf(g, pictures, y)
        /\ \A body, v : Reached(home, body, v) => Reached(g, body, v)
    BY ONLY <2>2, <2>3, StillHome
  <2>5. WordsOf(g, text \cup {w}, place)
    BY <1>2, <2>4, HomelyIs, AtHomeTogether
  <2>6. Shown(g, text', attached', place')
    BY <1>2, <1>3, <2>1, <2>4, <2>5 DEF Writes
  <2>7. Drafted(g, drafts')
    BY <1>2, <2>1, <2>4, <2>5
  <2>8. Flying(g, under') /\ There(g, arrived')
    BY <1>2, <1>3, <2>4 DEF Writes
  <2> QED
    BY <2>3, <2>6, <2>7, <2>8
<1>4. CASE SendsText
  <2>1. PICK f : f = Flight("message", text) /\ Flies(f)
    BY <1>4 DEF SendsText
  <2>2. f.from = place /\ f.body = text /\ f.pictures = attached
    BY <2>1, FlightIs
  <2>3. /\ under' = under \cup {f} /\ home' = home /\ text' = {} /\ attached' = <<>>
        /\ drafts' = [drafts EXCEPT ![place] = {}] /\ arrived' = arrived
    BY <1>4, <2>1 DEF Flies, SendsText, Write
  <2> QED
    BY <1>2, <2>2, <2>3, AtHomeTogether
<1>5. CASE Dispatches
  <2>1. PICK f : f = Flight("dispatch", text)
    OBVIOUS
  <2>2. f.from = place /\ f.body = text /\ f.pictures = attached
    BY <2>1, FlightIs
  <2>3. under' = under \/ under' = under \cup {f}
    BY <1>5, <2>1 DEF Flies, Dispatches
  <2>4. /\ home' = home /\ text' = {} /\ attached' = <<>>
        /\ drafts' = [drafts EXCEPT ![place] = {}] /\ arrived' = arrived
    BY <1>5 DEF Dispatches, Write
  <2> QED
    BY <1>2, <2>2, <2>3, <2>4, AtHomeTogether
<1>6. CASE Attaches
  <2>1. PICK n : n = Made("picture") + 1 /\ Notes(Picture(n), place)
                 /\ Flies([Flight("picture", {}) EXCEPT !.pictures = <<n>>])
    BY <1>6 DEF Attaches
  <2>2. PICK w : w = Picture(n)
    OBVIOUS
  <2>3. w = Picture(Made("picture") + 1) /\ Notes(w, place)
    BY <2>1, <2>2
  <2>4. /\ Made("picture") \in Nat /\ w \notin DOMAIN home
        /\ Gains(home, home', w, place)
    BY <2>3, NotesNew
  <2>5. PICK g : g = home' /\ Gains(home, g, w, place)
    BY <2>4
  <2>6. /\ w \in DOMAIN g /\ g[w] = place
        /\ \A body, y : WordsOf(home, body, y) => WordsOf(g, body, y)
        /\ \A pictures, y : PicturesOf(home, pictures, y) => PicturesOf(g, pictures, y)
        /\ \A body, v : Reached(home, body, v) => Reached(g, body, v)
    BY ONLY <2>4, <2>5, StillHome
  <2>7. n \in Nat
    BY <2>1, <2>4
  <2>8. PICK f : f = PictureFlight(n)
    OBVIOUS
  <2>9. f.from = place /\ f.body = {} /\ f.pictures = <<n>>
    BY <2>7, <2>8, PictureFlightIs
  <2>10. under' = under \cup {f}
    BY <2>1, <2>8 DEF Flies, PictureFlight
  <2>11. PicturesOf(g, <<n>>, place)
    <3>1. DOMAIN <<n>> = {1} /\ <<n>>[1] = n
      OBVIOUS
    <3> QED
      BY <2>2, <2>6, <3>1, HomelyIs DEF PicturesOf
  <2>12. Flying(g, under')
    BY <1>2, <2>6, <2>9, <2>10, <2>11, AtHomeTogether
  <2>13. Shown(g, text', attached', place') /\ Drafted(g, drafts') /\ There(g, arrived')
    BY <1>2, <1>6, <2>6 DEF Attaches
  <2> QED
    BY <2>5, <2>12, <2>13
<1>7. ASSUME NEW there \in Places, GoesTo(there)
      PROVE  /\ Shown(home', text', attached', place') /\ Drafted(home', drafts')
             /\ Flying(home', under') /\ There(home', arrived')
  <2>1. under' \subseteq under \cup Leaves(under)
    BY <1>7 DEF GoesTo
  <2>2. Flying(home, Leaves(under))
    BY <1>2, LeavesHome
  <2>3. home' = home /\ place' = there /\ text' = drafts[there] /\ attached' = <<>> /\ drafts' = drafts
        /\ arrived' = arrived
    BY <1>7 DEF GoesTo, Shows
  <2> QED
    BY <1>2, <2>1, <2>2, <2>3, AtHomeTogether
<1>8. ASSUME NEW there \in Places, Carries(there)
      PROVE  /\ Shown(home', text', attached', place') /\ Drafted(home', drafts')
             /\ Flying(home', under') /\ There(home', arrived')
  <2>1. /\ place \in Projects /\ there \in Projects /\ home' = home /\ under' = under /\ arrived' = arrived
        /\ place' = there /\ attached' = <<>>
    BY <1>8 DEF Carries, Shows
  <2>2. \/ text' = drafts[there] /\ drafts' = drafts
        \/ /\ text' = drafts[place]
           /\ drafts' = [drafts EXCEPT ![place] = {}, ![there] = drafts[place]]
    BY <1>8, <2>1 DEF Carries, Shows
  <2>3. Homely(place) = Homely(there)
    BY <2>1, HomelyIs
  <2>4. WordsOf(home, drafts[place], there)
    BY <1>2, <2>3 DEF WordsOf
  <2>5. \A y \in Places : drafts'[y] \in {{}, drafts[y]} \/ (y = there /\ drafts'[y] = drafts[place])
    BY <2>2
  <2>6. Drafted(home, drafts')
    BY <1>2, <2>4, <2>5, AtHomeTogether
  <2>7. Shown(home, text', attached', there)
    BY <1>2, <2>1, <2>2, <2>4, AtHomeTogether
  <2> QED
    BY <1>2, <2>1, <2>6, <2>7
<1>9. ASSUME NEW there \in Places, Injects(there)
      PROVE  /\ Shown(home', text', attached', place') /\ Drafted(home', drafts')
             /\ Flying(home', under') /\ There(home', arrived')
  <2>1. PICK w : w = Word(Made("word") + 1) /\ Notes(w, there)
                 /\ drafts' = [drafts EXCEPT ![there] = drafts[there] \cup {w}]
    BY <1>9 DEF Injects
  <2>2. /\ w \notin DOMAIN home
        /\ Gains(home, home', w, there)
    BY <2>1, NotesNew
  <2>3. PICK g : g = home' /\ Gains(home, g, w, there)
    BY <2>2
  <2>4. /\ w \in DOMAIN g /\ g[w] = there
        /\ \A body, y : WordsOf(home, body, y) => WordsOf(g, body, y)
        /\ \A pictures, y : PicturesOf(home, pictures, y) => PicturesOf(g, pictures, y)
        /\ \A body, v : Reached(home, body, v) => Reached(g, body, v)
    BY ONLY <2>2, <2>3, StillHome
  <2>5. WordsOf(g, drafts[there] \cup {w}, there)
    BY <1>2, <2>4, HomelyIs, AtHomeTogether
  <2>6. Drafted(g, drafts')
    BY <1>2, <2>1, <2>4, <2>5
  <2>7. Shown(g, text', attached', place')
    BY <1>2, <1>9, <2>4, <2>6 DEF Injects
  <2>8. Flying(g, under') /\ There(g, arrived')
    BY <1>2, <1>9, <2>4 DEF Injects
  <2> QED
    BY <2>3, <2>6, <2>7, <2>8
<1>10. ASSUME NEW f \in under, Delivered(f)
       PROVE  /\ Shown(home', text', attached', place') /\ Drafted(home', drafts')
              /\ Flying(home', under') /\ There(home', arrived')
  <2>1. f.from \in Spaces /\ Arrive(f, f.from)
    BY <1>10 DEF Delivered
  <2>2. There(home, arrived')
    BY <1>2, <2>1, ArrivesHome
  <2> QED
    BY <1>2, <1>10, <2>2 DEF Delivered
<1>11. ASSUME NEW f \in under, Undelivered(f)
       PROVE  /\ Shown(home', text', attached', place') /\ Drafted(home', drafts')
              /\ Flying(home', under') /\ There(home', arrived')
  <2>1. f.from \in Spaces /\ f.from \in Places
    BY <1>11 DEF Undelivered, Places
  <2>2. There(home, arrived')
    <3>1. CASE arrived' = arrived
      BY <1>2, <3>1
    <3>2. CASE Arrive(f, f.from)
      BY <1>2, <2>1, <3>2, ArrivesHome
    <3> QED
      BY <1>11, <3>1, <3>2 DEF Undelivered
  <2>3. \/ text' = text /\ attached' = attached
        \/ text' = f.body /\ attached' = f.pictures /\ place = f.from
    BY <1>1, <1>11 DEF Undelivered, Flights
  <2>4. /\ home' = home /\ place' = place /\ under' \subseteq under
        /\ drafts' = [drafts EXCEPT ![f.from] = f.body]
    BY <1>11 DEF Undelivered
  <2>5. Shown(home, text', attached', place)
    BY <1>2, <2>3
  <2>6. Drafted(home, drafts')
    BY <1>2, <2>4
  <2> QED
    BY <1>2, <2>2, <2>4, <2>5, <2>6
<1>12. ASSUME NEW f \in under, Created(f)
       PROVE  /\ Shown(home', text', attached', place') /\ Drafted(home', drafts')
              /\ Flying(home', under') /\ There(home', arrived')
  <2>1. PICK w \in Spaces \ knownSpaces : Arrive(f, w) /\ Shows(w, drafts)
    BY <1>12 DEF Created
  <2>2. w \in Places /\ f.from \in Projects
    BY <1>12 DEF Created, Places
  <2>3. There(home, arrived')
    BY <1>2, <2>1, <2>2, ArrivesHome
  <2>4. under \ {f} \in SUBSET Flights /\ under' \subseteq under \cup Leaves(under \ {f})
    BY <1>12 DEF Created
  <2>5. Flying(home, Leaves(under \ {f}))
    BY <1>2, <2>4, LeavesHome
  <2>6. Flying(home, under')
    BY <1>2, <2>4, <2>5
  <2>7. home' = home /\ place' = w /\ text' = drafts[w] /\ attached' = <<>> /\ drafts' = drafts
    BY <1>12, <2>1 DEF Created, Shows
  <2> QED
    BY <1>2, <2>2, <2>3, <2>6, <2>7, AtHomeTogether
<1>13. ASSUME NEW f \in under, NotCreated(f)
       PROVE  /\ Shown(home', text', attached', place') /\ Drafted(home', drafts')
              /\ Flying(home', under') /\ There(home', arrived')
  BY <1>2, <1>13 DEF NotCreated
<1>14. ASSUME NEW f \in under, Uploaded(f)
       PROVE  /\ Shown(home', text', attached', place') /\ Drafted(home', drafts')
              /\ Flying(home', under') /\ There(home', arrived')
  <2>1. f.from \in Places /\ f.pictures \in Seq(Nat) /\ f.gone \in BOOLEAN
    BY DEF Flights
  <2>2. home' = home /\ place' = place /\ under' \subseteq under /\ arrived' = arrived
    BY <1>14 DEF Uploaded
  <2>3. \/ /\ drafts' = [drafts EXCEPT ![f.from] = f.body \cup {Label(Len(f.pictures) + 1)}]
           /\ text' = text /\ attached' = attached
        \/ text' = text /\ attached' = attached /\ drafts' = drafts
        \/ /\ place = f.from /\ attached' = attached \o f.pictures
           /\ text' = text \cup {Label(Len(attached'))}
           /\ drafts' = [drafts EXCEPT ![place] = text \cup {Label(Len(attached'))}]
    BY <1>14, <2>1 DEF Uploaded, Write
  <2>4. CASE /\ drafts' = [drafts EXCEPT ![f.from] = f.body \cup {Label(Len(f.pictures) + 1)}]
             /\ text' = text /\ attached' = attached
    <3>1. WordsOf(home, f.body \cup {Label(Len(f.pictures) + 1)}, f.from)
      BY <1>2, AtHomeTogether
    <3>2. Drafted(home, drafts')
      BY <1>2, <2>4, <3>1
    <3> QED
      BY <1>2, <2>2, <2>4, <3>2
  <2>5. CASE text' = text /\ attached' = attached /\ drafts' = drafts
    BY <1>2, <2>2, <2>5
  <2>6. CASE /\ place = f.from /\ attached' = attached \o f.pictures
             /\ text' = text \cup {Label(Len(attached'))}
             /\ drafts' = [drafts EXCEPT ![place] = text \cup {Label(Len(attached'))}]
    <3>1. PicturesOf(home, attached', place)
      BY <1>2, <2>1, <2>6, PicturesTogether
    <3>2. WordsOf(home, text', place)
      BY <1>2, <2>6, AtHomeTogether
    <3>3. Drafted(home, drafts')
      BY <1>2, <2>6, <3>2
    <3> QED
      BY <1>2, <2>2, <3>1, <3>2, <3>3
  <2> QED
    BY <2>3, <2>4, <2>5, <2>6
<1>15. CASE UNCHANGED composerVars
  BY <1>2, <1>15 DEF composerVars
<1> HIDE DEF Shown, Drafted, Flying, There
<1> QED
  BY <1>3, <1>4, <1>5, <1>6, <1>7, <1>8, <1>9, <1>10, <1>11, <1>12, <1>13, <1>14, <1>15 DEF ComposerNext

\* A word that is safe stays safe in a step that lets no text be put over another.
SafeThere(x, d, t, p, u, r) ==
  \/ \E y \in Places : x \in d[y] /\ (y = p => x \in t)
  \/ \E f \in u : f.kind # "picture" /\ x \in f.body
  \/ \E w \in Spaces : x \in r[w]
\* No step of the composer loses a word: it stays in the text, a draft, a flight or a workspace.
LEMMA KeptStep ==
  ASSUME Typed, Typed', Kept, [ComposerNext]_composerVars
  PROVE  Kept'
<1> USE DEF Typed
<1>1. SUFFICES ASSUME lostSome' = FALSE, NEW x \in DOMAIN home', x[1] = "word"
               PROVE  SafeThere(x, drafts', text', place', under', arrived')
  BY DEF Kept, Safe, SafeThere
<1> DEFINE Goal == SafeThere(x, drafts', text', place', under', arrived')
<1>2. lostSome = FALSE
  BY <1>1 DEF ComposerNext, Writes, SendsText, Dispatches, Attaches, GoesTo, Carries, Injects, Delivered,
              Undelivered, Created, NotCreated, Uploaded, composerVars
<1>3. x \in DOMAIN home => SafeThere(x, drafts, text, place, under, arrived)
  BY <1>1, <1>2 DEF Kept, Safe, SafeThere
<1>4. CASE Writes
  <2>1. PICK w : /\ w = Word(Made("word") + 1) /\ Notes(w, place)
                 /\ text' = text \cup {w} /\ drafts' = [drafts EXCEPT ![place] = text \cup {w}]
    BY <1>4 DEF Writes, Write
  <2>2. x = w \/ x \in DOMAIN home
    BY <1>1, <2>1 DEF Notes
  <2>3. place' = place /\ under' = under /\ arrived' = arrived
    BY <1>4 DEF Writes
  <2> QED
    BY <1>3, <2>1, <2>2, <2>3 DEF SafeThere
<1>5. CASE SendsText
  <2>1. PICK f : f = Flight("message", text) /\ Flies(f)
    BY <1>5 DEF SendsText
  <2>2. f.kind = "message" /\ f.body = text
    BY <2>1, FlightIs
  <2>3. /\ under' = under \cup {f} /\ home' = home /\ place' = place
        /\ drafts' = [drafts EXCEPT ![place] = {}] /\ arrived' = arrived
    BY <1>5, <2>1 DEF Flies, SendsText, Write
  <2> QED
    BY <1>1, <1>3, <2>2, <2>3 DEF SafeThere
<1>6. CASE Dispatches
  <2>1. PICK f : f = Flight("dispatch", text)
    OBVIOUS
  <2>2. f.kind = "dispatch" /\ f.body = text
    BY <2>1, FlightIs
  <2>3. under' = under \cup {f}
    BY <1>1, <1>6, <2>1 DEF Flies, Dispatches
  <2>4. home' = home /\ place' = place /\ drafts' = [drafts EXCEPT ![place] = {}] /\ arrived' = arrived
    BY <1>6 DEF Dispatches, Write
  <2> QED
    BY <1>1, <1>3, <2>2, <2>3, <2>4 DEF SafeThere
<1>7. CASE Attaches
  <2>1. PICK n : Notes(Picture(n), place)
    BY <1>7 DEF Attaches
  <2>2. x \in DOMAIN home
    BY <1>1, <2>1, MarksApart DEF Notes
  <2>3. text' = text /\ place' = place /\ drafts' = drafts /\ arrived' = arrived
    BY <1>7 DEF Attaches
  <2>4. under \subseteq under'
    BY <1>7 DEF Attaches, Flies
  <2> QED
    BY <1>3, <2>2, <2>3, <2>4 DEF SafeThere
<1>8. ASSUME NEW there \in Places, GoesTo(there)
      PROVE  Goal
  <2>1. /\ home' = home /\ place' = there /\ text' = drafts[there] /\ drafts' = drafts
        /\ arrived' = arrived
    BY <1>8 DEF GoesTo, Shows
  <2>2. \A f \in under : f.kind # "picture" => \E g \in under' : g.kind = f.kind /\ g.body = f.body
    BY <1>8, LeavesKeep DEF GoesTo
  <2> QED
    BY <1>1, <1>3, <2>1, <2>2 DEF SafeThere
<1>9. ASSUME NEW there \in Places, Carries(there)
      PROVE  Goal
  <2>1. /\ home' = home /\ under' = under /\ arrived' = arrived /\ place' = there /\ there # place
    BY <1>9 DEF Carries, Shows
  <2>2. \/ text' = drafts[there] /\ drafts' = drafts
        \/ /\ text' = drafts[place] /\ drafts[there] = {}
           /\ drafts' = [drafts EXCEPT ![place] = {}, ![there] = drafts[place]]
    BY <1>1, <1>9, <2>1 DEF Carries, Shows
  <2>3. CASE text' = drafts[there] /\ drafts' = drafts
    BY <1>1, <1>3, <2>1, <2>3 DEF SafeThere
  <2>4. CASE /\ text' = drafts[place] /\ drafts[there] = {}
             /\ drafts' = [drafts EXCEPT ![place] = {}, ![there] = drafts[place]]
    <3>1. /\ drafts'[there] = drafts[place]
          /\ \A y \in Places \ {place, there} : drafts'[y] = drafts[y]
      BY <2>1, <2>4
    <3>2. ASSUME NEW y \in Places, x \in drafts[y]
          PROVE  \E z \in Places : x \in drafts'[z] /\ (z = there => x \in text')
      <4>1. CASE y = place
        BY <2>4, <3>1, <3>2, <4>1
      <4>2. CASE y # place
        BY <2>4, <3>1, <3>2, <4>2
      <4> QED
        BY <4>1, <4>2
    <3> QED
      BY <1>1, <1>3, <2>1, <3>2 DEF SafeThere
  <2> QED
    BY <2>2, <2>3, <2>4
<1>10. ASSUME NEW there \in Places, Injects(there)
       PROVE  Goal
  <2>1. PICK w : w = Word(Made("word") + 1) /\ Notes(w, there)
                 /\ drafts' = [drafts EXCEPT ![there] = drafts[there] \cup {w}]
    BY <1>10 DEF Injects
  <2>2. x = w \/ x \in DOMAIN home
    BY <1>1, <2>1 DEF Notes
  <2>3. place' = place /\ under' = under /\ arrived' = arrived /\ text' = drafts'[place]
    BY <1>10 DEF Injects
  <2> QED
    BY <1>3, <2>1, <2>2, <2>3 DEF SafeThere
<1>11. ASSUME NEW f \in under, Delivered(f)
       PROVE  Goal
  <2>1. /\ home' = home /\ text' = text /\ place' = place /\ drafts' = drafts /\ under' = under \ {f}
    BY <1>11 DEF Delivered
  <2>2. f.from \in Spaces /\ Arrive(f, f.from)
    BY <1>11 DEF Delivered
  <2>3. /\ \A w \in Spaces : arrived[w] \subseteq arrived'[w]
        /\ x \in f.body => x \in arrived'[f.from]
    BY <1>1, <2>2 DEF Arrive, Translated
  <2> QED
    BY <1>1, <1>3, <2>1, <2>2, <2>3 DEF SafeThere
<1>12. ASSUME NEW f \in under, Undelivered(f)
       PROVE  Goal
  <2>1. /\ home' = home /\ place' = place /\ under' = under \ {f}
        /\ drafts' = [drafts EXCEPT ![f.from] = f.body] /\ f.from \in Spaces /\ f.from \in Places
    BY <1>12 DEF Undelivered, Places
  <2>2. \A w \in Spaces : arrived[w] \subseteq arrived'[w]
    <3>1. PICK more : more = Translated(f.body, f.pictures)
      OBVIOUS
    <3>2. arrived' = arrived \/ arrived' = [arrived EXCEPT ![f.from] = @ \cup more]
      BY <1>12, <3>1 DEF Undelivered, Arrive
    <3>3. arrived = [w \in Spaces |-> arrived[w]]
      OBVIOUS
    <3> QED
      BY ONLY <3>2, <3>3
  <2>3. /\ drafts[f.from] = {}
        /\ \/ text' = text /\ place # f.from
           \/ text' = f.body /\ text = {}
    <3>1. f.gone \in BOOLEAN
      BY DEF Flights
    <3>2. drafts[f.from] = {}
      BY <1>1, <1>12 DEF Undelivered
    <3>3. CASE f.gone
      BY <1>1, <1>12, <3>2, <3>3 DEF Undelivered
    <3>4. CASE ~f.gone
      BY <1>1, <1>12, <3>2, <3>4 DEF Undelivered
    <3> QED
      BY <3>1, <3>3, <3>4
  <2>4. CASE \E y \in Places : x \in drafts[y] /\ (y = place => x \in text)
    BY <2>1, <2>3, <2>4 DEF SafeThere
  <2>5. CASE x \in f.body
    BY <2>1, <2>3, <2>5 DEF SafeThere
  <2>6. CASE \E g \in under \ {f} : g.kind # "picture" /\ x \in g.body
    BY <2>1, <2>6 DEF SafeThere
  <2>7. CASE \E w \in Spaces : x \in arrived[w]
    BY <2>2, <2>7 DEF SafeThere
  <2> QED
    BY <1>1, <1>3, <2>1, <2>4, <2>5, <2>6, <2>7 DEF SafeThere
<1>13. ASSUME NEW f \in under, Created(f)
       PROVE  Goal
  <2>1. PICK w \in Spaces \ knownSpaces : Arrive(f, w) /\ Shows(w, drafts)
    BY <1>13 DEF Created
  <2>2. home' = home /\ place' = w /\ text' = drafts[w] /\ drafts' = drafts
    BY <1>13, <2>1 DEF Created, Shows
  <2>3. /\ \A v \in Spaces : arrived[v] \subseteq arrived'[v]
        /\ x \in f.body => x \in arrived'[w]
    BY <1>1, <2>1 DEF Arrive, Translated
  <2>4. under \ {f} \in SUBSET Flights /\ (under' = under \ {f} \/ under' = Leaves(under \ {f}))
    BY <1>13 DEF Created
  <2>5. \A g \in under \ {f} : g.kind # "picture" => \E e \in under' : e.kind = g.kind /\ e.body = g.body
    BY <2>4, LeavesKeep
  <2> QED
    BY <1>1, <1>3, <2>1, <2>2, <2>3, <2>5 DEF SafeThere
<1>14. ASSUME NEW f \in under, NotCreated(f)
       PROVE  Goal
  BY <1>1, <1>14 DEF NotCreated
<1>15. ASSUME NEW f \in under, Uploaded(f)
       PROVE  Goal
  <2>1. f.from \in Places /\ f.gone \in BOOLEAN
    BY DEF Flights
  <2>2. home' = home /\ place' = place /\ under' = under \ {f} /\ arrived' = arrived /\ f.kind = "picture"
    BY <1>15 DEF Uploaded
  <2>3. \/ /\ drafts' = [drafts EXCEPT ![f.from] = f.body \cup {Label(Len(f.pictures) + 1)}]
           /\ text' = text /\ drafts[f.from] \subseteq f.body
        \/ text' = text /\ drafts' = drafts
        \/ /\ text' = text \cup {Label(Len(attached'))}
           /\ drafts' = [drafts EXCEPT ![place] = text \cup {Label(Len(attached'))}]
    <3>1. CASE f.gone
      BY <1>1, <1>15, <3>1 DEF Uploaded
    <3>2. CASE ~f.gone
      BY <1>15, <3>2 DEF Uploaded, Write
    <3> QED
      BY <2>1, <3>1, <3>2
  <2>4. \A y \in Places : x \in drafts[y] /\ (y = place => x \in text) => x \in drafts'[y] /\ (y = place => x \in text')
    BY <2>1, <2>3
  <2> QED
    BY <1>1, <1>3, <2>2, <2>4 DEF SafeThere
<1>16. CASE UNCHANGED composerVars
  BY <1>1, <1>3, <1>16 DEF composerVars
<1> QED
  BY <1>4, <1>5, <1>6, <1>7, <1>8, <1>9, <1>10, <1>11, <1>12, <1>13, <1>14, <1>15, <1>16 DEF ComposerNext

\* The first composer is empty.
LEMMA ComposerStarts ==
  ASSUME ComposerInit
  PROVE  ComposerInv
<1>1. PICK w \in Spaces : knownSpaces = {w} /\ place = w
  BY DEF ComposerInit
<1>2. text = {} /\ attached = <<>> /\ under = {} /\ drafts = [y \in Places |-> {}] /\ arrived = [v \in Spaces |-> {}]
      /\ misled = FALSE /\ lostSome = FALSE
  BY DEF ComposerInit
<1>3. DOMAIN home = {} /\ Numbered(0, 0)
  BY DEF ComposerInit, Numbered
<1>4. Typed
  BY <1>1, <1>2, <1>3, EmptySeq DEF Typed, Places
<1>5. AtHome
  BY <1>1, <1>2, AtHomeTogether DEF AtHome, Reached
<1>6. Kept
  BY <1>3 DEF Kept
<1> QED
  BY <1>4, <1>5, <1>6 DEF ComposerInv

\* What reaches a workspace was written for it, or in the dispatch panel, and every word typed is
\* in a draft, under way or in a workspace, for any number of workspaces, projects, words,
\* pictures, requests and failures: unless a message that failed came back elsewhere, a text was
\* put over another, or one that was dispatched was dropped.
THEOREM WordsAreKept == ComposerSpec => []WordsKept
<1>1. ComposerInit => ComposerInv
  BY ComposerStarts
<1>2. ComposerInv /\ [ComposerNext]_composerVars => ComposerInv'
  BY TypedStep, AtHomeStep, KeptStep DEF ComposerInv
<1>3. ComposerInv => WordsKept
  <2> SUFFICES ASSUME ComposerInv
               PROVE  WordsKept
    OBVIOUS
  <2>1. WordsStayHome
    BY DEF ComposerInv, AtHome, Reached, WordsStayHome
  <2>2. NothingTypedIsLost
    BY DEF ComposerInv, Kept, Safe, NothingTypedIsLost
  <2> QED
    BY <2>1, <2>2 DEF WordsKept
<1> QED
  BY <1>1, <1>2, <1>3, PTL DEF ComposerSpec

-----------------------------------------------------------------------------
(* The terminal, its sessions and their connections.                         *)

\* What a session and a connection are made of.
SessType == [state : {"none", "connecting", "open", "exited", "dead"}, cur : 0 .. MaxSockets, old : 0 .. MaxSockets]
SockType == [client : {"none", "connecting", "open", "ending", "closed"},
             server : {"none", "resolve", "view", "select", "ready", "over"},
             key : TabSlots, view : 0 .. MaxGroups, cut : BOOLEAN,
             sent : 0 .. MaxKeys, came : 0 .. MaxKeys, pend : Seq(1 .. MaxKeys), got : Seq(1 .. MaxKeys)]

\* One connection: its view is made in the last steps of the set-up, and what was typed waits or
\* has been handed on, never both.
Counted(q, m) == q = [n \in 1 .. m |-> n]
Wire(s) ==
  /\ s.client = "none" => s = NoSocket
  /\ s.client = "connecting" => s.server = "none"
  /\ s.server \in {"none", "resolve", "view"} => s.view = 0
  /\ s.server \in {"none", "resolve", "view", "select"} => s.got = <<>>
  /\ s.server = "none" => s.came = 0 /\ s.cut = FALSE
  /\ s.server = "ready" => s.pend = <<>> /\ s.cut = FALSE
  /\ \/ s.got = <<>> /\ Counted(s.pend, s.came)
     \/ s.pend = <<>> /\ Counted(s.got, s.came)
  /\ s.came <= s.sent

\* The connections of the sessions: an open one is the current one of its session; the one before
\* is closing, and then there is no current one.
Owned(ses, ss) ==
  /\ \A k \in Sockets : ss[k].client \in {"connecting", "open"} => ses[ss[k].key].cur = k
  /\ \A i \in TabSlots : ses[i].cur # 0 =>
       ss[ses[i].cur].key = i /\ ss[ses[i].cur].client \in {"connecting", "open", "ending"}
  /\ \A i \in TabSlots : ses[i].old # 0 =>
       ses[i].cur = 0 /\ ss[ses[i].old].key = i /\ ss[ses[i].old].client = "ending"
  /\ \A i \in TabSlots : ses[i].state = "connecting" =>
       \/ ses[i].cur # 0 /\ ss[ses[i].cur].client \in {"connecting", "ending"}
       \/ ses[i].old # 0

\* As Owned, for a session whose next connection opens now.
OwnedBut(ses, ss, i) ==
  /\ \A k \in Sockets : ss[k].client \in {"connecting", "open"} => ss[k].key # i /\ ses[ss[k].key].cur = k
  /\ \A j \in TabSlots \ {i} : ses[j].cur # 0 =>
       ss[ses[j].cur].key = j /\ ss[ses[j].cur].client \in {"connecting", "open", "ending"}
  /\ \A j \in TabSlots \ {i} : ses[j].old # 0 =>
       ses[j].cur = 0 /\ ss[ses[j].old].key = j /\ ss[ses[j].old].client = "ending"
  /\ \A j \in TabSlots \ {i} : ses[j].state = "connecting" =>
       \/ ses[j].cur # 0 /\ ss[ses[j].cur].client \in {"connecting", "ending"}
       \/ ses[j].old # 0

\* A reconnect that waits finds a connection when its turn comes.
FreeOf(ss) == {k \in Sockets : ss[k] = NoSocket}
OldsOf(ses) == {i \in TabSlots : ses[i].old # 0}
Reserved(ses, ss) == Cardinality(OldsOf(ses)) <= Cardinality(FreeOf(ss))

Collected(ss, lk) == \A k \in Sockets : ss[k].server = "over" => ss[k].view = 0 \/ k \in lk

Good(ses, ss, lk) ==
  /\ ses \in [TabSlots -> SessType] /\ ss \in [Sockets -> SockType]
  /\ \A k \in Sockets : Wire(ss[k])
  /\ Owned(ses, ss) /\ Reserved(ses, ss) /\ Collected(ss, lk)

Plain ==
  /\ group \in 0 .. MaxGroups /\ groups \in 1 .. MaxGroups
  /\ at \in TabSlots /\ archived \in BOOLEAN
  /\ {shown, mounted} \subseteq TabSlots \cup {Nowhere}
  /\ recovery \in [step : {"off", "ask", "refresh", "reconnect"}, key : TabSlots]
  /\ leaked \subseteq Sockets
  /\ mishaps \in 0 .. MaxMishaps

TerminalInv == Plain /\ Good(sess, sock, leaked)

\* What the constants of the terminal are.
LEMMA TermConstants ==
  /\ MaxSockets \in Nat /\ MaxGroups \in Nat /\ MaxKeys \in Nat /\ MaxMishaps \in Nat /\ MaxGroups # 0
  /\ 0 \in TabSlots /\ 1 \in TabSlots /\ \A i \in TabSlots : i = 0 \/ i = 1
  /\ Nowhere \notin TabSlots /\ 0 \notin Sockets /\ 0 .. MaxSockets = Sockets \cup {0}
<1>1. /\ MaxSockets \in Nat /\ MaxGroups \in Nat /\ MaxKeys \in Nat /\ MaxMishaps \in Nat /\ MaxGroups # 0
  BY TerminalAssumption
<1>2. 0 \in TabSlots /\ 1 \in TabSlots /\ (\A i \in TabSlots : i = 0 \/ i = 1) /\ Nowhere \notin TabSlots
  BY DEF TabSlots, Nowhere
<1>3. 0 \notin Sockets /\ 0 .. MaxSockets = Sockets \cup {0}
  BY <1>1 DEF Sockets
<1> QED
  BY <1>1, <1>2, <1>3

\* A session and a connection that are not used yet are well-formed.
LEMMA NoneYet ==
  /\ NoSocket \in SockType /\ Wire(NoSocket) /\ NoSession \in SessType
  /\ NoSocket.client = "none" /\ NoSocket.server = "none" /\ NoSocket.view = 0
  /\ NoSession.state = "none" /\ NoSession.cur = 0 /\ NoSession.old = 0
<1>1. <<>> \in Seq(1 .. MaxKeys) /\ 0 \in 0 .. MaxKeys /\ 0 \in 0 .. MaxGroups /\ 0 \in 0 .. MaxSockets
  BY TermConstants
<1>2. NoSocket \in SockType
  BY <1>1, TermConstants DEF NoSocket, SockType
<1>3. Counted(<<>>, 0)
  BY DEF Counted
<1>4. Wire(NoSocket)
  BY <1>3 DEF Wire, NoSocket
<1>5. NoSession \in SessType
  BY <1>1 DEF NoSession, SessType
<1> QED
  BY <1>2, <1>4, <1>5 DEF NoSocket, NoSession

\* The sets that a reservation counts are finite.
LEMMA FewSockets ==
  ASSUME NEW ses, NEW ss
  PROVE  /\ IsFiniteSet(OldsOf(ses)) /\ IsFiniteSet(FreeOf(ss))
         /\ Cardinality(OldsOf(ses)) \in Nat /\ Cardinality(FreeOf(ss)) \in Nat
<1>1. \A a, b \in Int : IsFiniteSet(a .. b)
  BY ONLY FS_Interval
<1>2. MaxSockets \in Int /\ 1 \in Int /\ 0 \in Int
  BY TermConstants
<1>3. IsFiniteSet(1 .. MaxSockets) /\ IsFiniteSet(0 .. 1)
  BY ONLY <1>1, <1>2
<1>4. OldsOf(ses) \subseteq 0 .. 1 /\ FreeOf(ss) \subseteq 1 .. MaxSockets
  BY DEF OldsOf, FreeOf, TabSlots, Sockets
<1>5. IsFiniteSet(OldsOf(ses)) /\ IsFiniteSet(FreeOf(ss))
  BY <1>3, <1>4, FS_Subset
<1> QED
  BY <1>5, FS_CardinalityType

\* A connection that is new, and one whose close has begun.
LEMMA DialledIs ==
  ASSUME NEW i \in TabSlots, NEW r, r = [NoSocket EXCEPT !.client = "connecting", !.key = i]
  PROVE  /\ r \in SockType /\ Wire(r) /\ r.client = "connecting" /\ r.key = i /\ r.server = "none"
<1>1. PICK q : q = NoSocket
  OBVIOUS
<1>2. q \in SockType /\ q.server = "none"
  BY <1>1, NoneYet
<1>3. /\ r \in SockType /\ r.client = "connecting" /\ r.key = i /\ r.server = q.server /\ r.view = q.view
      /\ r.cut = q.cut /\ r.sent = q.sent /\ r.came = q.came /\ r.pend = q.pend /\ r.got = q.got
  BY <1>1, <1>2 DEF SockType
<1>4. Wire(q)
  BY <1>1, NoneYet
<1>5. Wire(r)
  BY <1>2, <1>3, <1>4 DEF Wire
<1> QED
  BY <1>2, <1>3, <1>5

Eases(s, r) ==
  /\ r.key = s.key
  /\ r.client = s.client \/ (s.client \in {"connecting", "open"} /\ r.client = "ending")

\* A client that closes its connection leaves the server side of it as it was.
LEMMA EndedIs ==
  ASSUME NEW s \in SockType, Wire(s), s.client \in {"connecting", "open"},
         NEW r, r = [s EXCEPT !.client = "ending"]
  PROVE  r \in SockType /\ Wire(r) /\ Eases(s, r) /\ r.server = s.server /\ r.view = s.view /\ r.client = "ending"
<1>1. /\ r \in SockType /\ r.client = "ending" /\ r.key = s.key /\ r.server = s.server /\ r.view = s.view
      /\ r.cut = s.cut /\ r.sent = s.sent /\ r.came = s.came /\ r.pend = s.pend /\ r.got = s.got
  BY DEF SockType
<1>2. Wire(r)
  BY <1>1 DEF Wire
<1> QED
  BY <1>1, <1>2 DEF Eases

\* Connections that only end leave the sessions as they are.
LEMMA GoodEased ==
  ASSUME NEW ses, NEW ss, NEW lk, Good(ses, ss, lk), NEW tt \in [Sockets -> SockType], NEW mk,
         \A k \in Sockets : Wire(tt[k]) /\ Eases(ss[k], tt[k]), Collected(tt, mk)
  PROVE  Good(ses, tt, mk) /\ FreeOf(tt) = FreeOf(ss)
<1> USE DEF Good
<1>1. \A k \in Sockets : ss[k] = NoSocket <=> tt[k] = NoSocket
  BY NoneYet DEF Wire, Eases
<1>2. FreeOf(tt) = FreeOf(ss)
  BY <1>1 DEF FreeOf
<1>3. \A i \in TabSlots : /\ ses[i].cur \in Sockets \cup {0} /\ ses[i].old \in Sockets \cup {0}
  BY TermConstants DEF SessType
<1>4. Owned(ses, tt)
  <2>1. \A k \in Sockets : tt[k].client \in {"connecting", "open"} => ses[tt[k].key].cur = k
    BY DEF Owned, Eases
  <2>2. \A i \in TabSlots : ses[i].cur # 0 =>
          tt[ses[i].cur].key = i /\ tt[ses[i].cur].client \in {"connecting", "open", "ending"}
    BY <1>3 DEF Owned, Eases
  <2>3. \A i \in TabSlots : ses[i].old # 0 =>
          ses[i].cur = 0 /\ tt[ses[i].old].key = i /\ tt[ses[i].old].client = "ending"
    BY <1>3 DEF Owned, Eases
  <2>4. \A i \in TabSlots : ses[i].state = "connecting" =>
          \/ ses[i].cur # 0 /\ tt[ses[i].cur].client \in {"connecting", "ending"}
          \/ ses[i].old # 0
    BY <1>3 DEF Owned, Eases
  <2> QED
    BY <2>1, <2>2, <2>3, <2>4 DEF Owned
<1>5. Reserved(ses, tt)
  BY <1>2 DEF Reserved
<1> QED
  BY <1>2, <1>4, <1>5

\* A step of the server on one connection keeps the rest of the picture.
LEMMA GoodServe ==
  ASSUME NEW ses, NEW ss, NEW lk, Good(ses, ss, lk), NEW k \in Sockets, NEW r \in SockType,
         Wire(r), Eases(ss[k], r), r.server = "over" => r.view = 0 \/ k \in lk
  PROVE  Good(ses, [ss EXCEPT ![k] = r], lk)
<1>1. PICK tt : tt = [ss EXCEPT ![k] = r]
  OBVIOUS
<1>2. tt \in [Sockets -> SockType] /\ \A j \in Sockets : tt[j] = IF j = k THEN r ELSE ss[j]
  BY <1>1 DEF Good
<1>3. \A j \in Sockets : Wire(tt[j]) /\ Eases(ss[j], tt[j])
  BY <1>2 DEF Good, Eases
<1>4. Collected(tt, lk)
  BY <1>2 DEF Good, Collected
<1>5. Good(ses, tt, lk)
  BY <1>2, <1>3, <1>4, GoodEased
<1> QED
  BY <1>1, <1>5

\* Closing one connection frees none, and changes no other.
LEMMA GoodEnding ==
  ASSUME NEW ses, NEW ss, NEW lk, Good(ses, ss, lk), NEW k \in 0 .. MaxSockets
  PROVE  /\ Good(ses, Ending(ss, k), lk) /\ FreeOf(Ending(ss, k)) = FreeOf(ss)
         /\ \A j \in Sockets : /\ Eases(ss[j], Ending(ss, k)[j])
                               /\ j # k => Ending(ss, k)[j] = ss[j]
         /\ k # 0 => Ending(ss, k)[k].client \notin {"connecting", "open"}
<1>1. PICK tt : tt = Ending(ss, k)
  OBVIOUS
<1>2. \A j \in Sockets : Wire(ss[j]) /\ ss[j] \in SockType
  BY DEF Good
<1>3. k # 0 => k \in Sockets
  BY TermConstants
<1>4. CASE k # 0 /\ ss[k].client \in {"connecting", "open"}
  <2>1. PICK r : r = [ss[k] EXCEPT !.client = "ending"]
    OBVIOUS
  <2>2. /\ r \in SockType /\ Wire(r) /\ Eases(ss[k], r) /\ r.server = ss[k].server /\ r.view = ss[k].view
        /\ r.client = "ending"
    BY <1>2, <1>3, <1>4, <2>1, EndedIs
  <2>3. tt = [ss EXCEPT ![k] = r]
    BY <1>1, <1>4, <2>1 DEF Ending
  <2>4. /\ tt \in [Sockets -> SockType] /\ \A j \in Sockets : tt[j] = IF j = k THEN r ELSE ss[j]
    BY <2>2, <2>3, <1>3, <1>4 DEF Good
  <2>5. \A j \in Sockets : Wire(tt[j]) /\ Eases(ss[j], tt[j])
    BY <1>2, <2>2, <2>4 DEF Eases
  <2>6. Collected(tt, lk)
    BY <2>2, <2>4 DEF Good, Collected
  <2> QED
    BY <1>1, <1>3, <1>4, <2>2, <2>4, <2>5, <2>6, GoodEased
<1>5. CASE ~(k # 0 /\ ss[k].client \in {"connecting", "open"})
  <2>1. tt = ss
    BY <1>1, <1>5 DEF Ending
  <2> QED
    BY <1>1, <1>5, <2>1 DEF Eases
<1> QED
  BY <1>4, <1>5

\* A session that is disposed of closes its connection.
LEMMA GoodDisposed ==
  ASSUME NEW ses, NEW ss, NEW lk, Good(ses, ss, lk), NEW i \in TabSlots
  PROVE  /\ Good([ses EXCEPT ![i] = NoSession], Ending(ss, ses[i].cur), lk)
         /\ FreeOf(Ending(ss, ses[i].cur)) = FreeOf(ss)
         /\ OldsOf([ses EXCEPT ![i] = NoSession]) \subseteq OldsOf(ses)
<1>1. PICK tt : tt = Ending(ss, ses[i].cur)
  OBVIOUS
<1>2. ses \in [TabSlots -> SessType] /\ ses[i].cur \in 0 .. MaxSockets
  BY DEF Good, SessType
<1>3. /\ Good(ses, tt, lk) /\ FreeOf(tt) = FreeOf(ss)
      /\ ses[i].cur # 0 => tt[ses[i].cur].client \notin {"connecting", "open"}
  BY <1>1, <1>2, GoodEnding
<1>4. PICK res : res = [ses EXCEPT ![i] = NoSession]
  OBVIOUS
<1>5. res \in [TabSlots -> SessType] /\ \A j \in TabSlots : res[j] = IF j = i THEN NoSession ELSE ses[j]
  BY <1>2, <1>4, NoneYet
<1>6. OldsOf(res) \subseteq OldsOf(ses)
  BY <1>5, NoneYet DEF OldsOf
<1>7. Cardinality(OldsOf(res)) <= Cardinality(OldsOf(ses))
  BY <1>6, FewSockets, FS_Subset
<1>8. \A k \in Sockets : tt[k].client \in {"connecting", "open"} => tt[k].key # i /\ ses[tt[k].key].cur = k /\ tt[k].key \in TabSlots
  BY <1>3, TermConstants DEF Good, Owned, SockType
<1>9. Owned(res, tt)
  BY <1>3, <1>5, <1>8, NoneYet DEF Good, Owned
<1>10. Reserved(res, tt)
  BY <1>3, <1>7, FewSockets DEF Good, Reserved
<1>11. Good(res, tt, lk)
  BY <1>3, <1>5, <1>9, <1>10 DEF Good
<1> QED
  BY <1>1, <1>3, <1>4, <1>6, <1>11

\* The connection whose close begins, by itself.
LEMMA EndingHere ==
  ASSUME Good(sess, sock, leaked), NEW k \in Sockets
  PROVE  /\ Ending(sock, k)[k] \in SockType /\ Wire(Ending(sock, k)[k]) /\ Eases(sock[k], Ending(sock, k)[k])
         /\ Ending(sock, k)[k].server = sock[k].server /\ Ending(sock, k)[k].view = sock[k].view
         /\ Ending(sock, k)[k].client \notin {"connecting", "open"}
<1>1. sock \in [Sockets -> SockType] /\ sock[k] \in SockType /\ Wire(sock[k]) /\ k # 0
  BY TermConstants DEF Good
<1>2. PICK r : r = [sock[k] EXCEPT !.client = "ending"]
  OBVIOUS
<1>3. CASE sock[k].client \in {"connecting", "open"}
  <2>1. /\ r \in SockType /\ Wire(r) /\ Eases(sock[k], r) /\ r.server = sock[k].server /\ r.view = sock[k].view
        /\ r.client = "ending"
    BY <1>1, <1>2, <1>3, EndedIs
  <2>2. Ending(sock, k)[k] = r
    BY <1>1, <1>2, <1>3 DEF Ending
  <2> QED
    BY <2>1, <2>2
<1>4. CASE sock[k].client \notin {"connecting", "open"}
  <2>1. Ending(sock, k)[k] = sock[k]
    BY <1>4 DEF Ending
  <2> QED
    BY <1>1, <1>4, <2>1 DEF Eases
<1> QED
  BY <1>3, <1>4

\* The next connection of a session opens: there is one for it.
Opened(ses, ss, i) == [ses EXCEPT ![i].cur = Fresh(ss), ![i].old = 0]
Dialled(ss, i) == [ss EXCEPT ![Fresh(ss)] = [NoSocket EXCEPT !.client = "connecting", !.key = i]]
\* A session that opens its next connection gets one that is not used.
LEMMA GoodOpens ==
  ASSUME NEW ses \in [TabSlots -> SessType], NEW ss \in [Sockets -> SockType], NEW lk, NEW i \in TabSlots,
         \A k \in Sockets : Wire(ss[k]), Collected(ss, lk), OwnedBut(ses, ss, i),
         Cardinality(OldsOf(ses) \ {i}) < Cardinality(FreeOf(ss))
  PROVE  Good(Opened(ses, ss, i), Dialled(ss, i), lk)
<1>1. PICK k : k = Fresh(ss)
  OBVIOUS
<1>2. k \in Sockets /\ ss[k] = NoSocket
  <2>1. FreeOf(ss) # {}
    <3>1. CASE FreeOf(ss) = {}
      <4>1. Cardinality(FreeOf(ss)) = 0
        BY <3>1, FS_EmptySet
      <4>2. Cardinality(OldsOf(ses) \ {i}) \in Nat
        <5>1. IsFiniteSet(OldsOf(ses) \ {i})
          BY FewSockets, FS_Subset
        <5> QED
          BY <5>1, FS_CardinalityType
      <4> QED
        BY <4>1, <4>2
    <3> QED
      BY <3>1
  <2> QED
    BY <1>1, <2>1 DEF FreeOf, Fresh
<1>3. PICK r : r = [NoSocket EXCEPT !.client = "connecting", !.key = i]
  OBVIOUS
<1>4. r \in SockType /\ Wire(r) /\ r.client = "connecting" /\ r.key = i /\ r.server = "none"
  BY <1>3, DialledIs
<1>5. PICK tt : tt = Dialled(ss, i)
  OBVIOUS
<1>6. tt \in [Sockets -> SockType] /\ \A j \in Sockets : tt[j] = IF j = k THEN r ELSE ss[j]
  BY <1>1, <1>2, <1>3, <1>4, <1>5 DEF Dialled
<1>7. PICK res : res = Opened(ses, ss, i)
  OBVIOUS
<1>8. res = [ses EXCEPT ![i] = [[ses[i] EXCEPT !.cur = k] EXCEPT !.old = 0]]
  BY <1>1, <1>7 DEF Opened
<1>9. PICK s : s = [[ses[i] EXCEPT !.cur = k] EXCEPT !.old = 0]
  OBVIOUS
<1>10. s \in SessType /\ s.cur = k /\ s.old = 0 /\ s.state = ses[i].state
  <2>1. k \in 0 .. MaxSockets /\ 0 \in 0 .. MaxSockets /\ ses[i] \in SessType
    BY <1>2, TermConstants
  <2>2. PICK q : q = [ses[i] EXCEPT !.cur = k]
    OBVIOUS
  <2>3. q \in SessType /\ q.cur = k /\ q.state = ses[i].state
    BY <2>1, <2>2 DEF SessType
  <2>4. s = [q EXCEPT !.old = 0]
    BY <1>9, <2>2
  <2> QED
    BY <2>1, <2>3, <2>4 DEF SessType
<1>11. res \in [TabSlots -> SessType] /\ \A j \in TabSlots : res[j] = IF j = i THEN s ELSE ses[j]
  BY <1>8, <1>9, <1>10
<1>12. k # 0 /\ \A j \in TabSlots : ses[j].cur \in Sockets \cup {0} /\ ses[j].old \in Sockets \cup {0}
  BY <1>2, TermConstants DEF SessType
<1>13. ss[k].client = "none"
  BY <1>2, NoneYet
<1>14. Owned(res, tt)
  <2>1. \A m \in Sockets : tt[m].client \in {"connecting", "open"} => res[tt[m].key].cur = m
    <3> SUFFICES ASSUME NEW m \in Sockets, tt[m].client \in {"connecting", "open"}
                 PROVE  res[tt[m].key].cur = m
      OBVIOUS
    <3>1. CASE m = k
      BY <1>4, <1>6, <1>10, <1>11, <3>1
    <3>2. CASE m # k
      <4>1. tt[m] = ss[m] /\ tt[m].key \in TabSlots
        BY <1>6, <3>2 DEF SockType
      <4> QED
        BY <1>11, <4>1 DEF OwnedBut
    <3> QED
      BY <3>1, <3>2
  <2>2. \A j \in TabSlots : res[j].cur # 0 =>
          tt[res[j].cur].key = j /\ tt[res[j].cur].client \in {"connecting", "open", "ending"}
    BY <1>2, <1>4, <1>6, <1>10, <1>11, <1>12, <1>13 DEF OwnedBut
  <2>3. \A j \in TabSlots : res[j].old # 0 =>
          res[j].cur = 0 /\ tt[res[j].old].key = j /\ tt[res[j].old].client = "ending"
    BY <1>2, <1>4, <1>6, <1>10, <1>11, <1>12, <1>13 DEF OwnedBut
  <2>4. \A j \in TabSlots : res[j].state = "connecting" =>
          \/ res[j].cur # 0 /\ tt[res[j].cur].client \in {"connecting", "ending"}
          \/ res[j].old # 0
    BY <1>2, <1>4, <1>6, <1>10, <1>11, <1>12, <1>13 DEF OwnedBut
  <2> QED
    BY <2>1, <2>2, <2>3, <2>4 DEF Owned
<1>15. Reserved(res, tt)
  <2>1. OldsOf(res) = OldsOf(ses) \ {i}
    BY <1>10, <1>11 DEF OldsOf
  <2>2. FreeOf(tt) = FreeOf(ss) \ {k}
    BY <1>4, <1>6, NoneYet DEF FreeOf
  <2>3. Cardinality(FreeOf(tt)) = Cardinality(FreeOf(ss)) - 1
    BY <1>2, <2>2, FewSockets, FS_RemoveElement DEF FreeOf
  <2>4. Cardinality(OldsOf(res)) \in Nat /\ Cardinality(FreeOf(ss)) \in Nat
    BY FewSockets
  <2> QED
    BY <2>1, <2>3, <2>4 DEF Reserved
<1>16. Collected(tt, lk)
  BY <1>4, <1>6 DEF Collected
<1>17. Good(res, tt, lk)
  BY <1>4, <1>6, <1>11, <1>14, <1>15, <1>16 DEF Good
<1> QED
  BY <1>5, <1>7, <1>17

\* A session whose connection is gone may open the next one.
LEMMA MayOpen ==
  ASSUME NEW ses, NEW ss, NEW lk, Good(ses, ss, lk), NEW i \in TabSlots, ses[i].cur = 0, ses[i].old = 0,
         NEW res \in [TabSlots -> SessType], \A j \in TabSlots \ {i} : res[j] = ses[j]
  PROVE  OwnedBut(res, ss, i)
<1>1. \A k \in Sockets : ss[k].client \in {"connecting", "open"} =>
        ss[k].key # i /\ ss[k].key \in TabSlots /\ res[ss[k].key].cur = k
  BY TermConstants DEF Good, Owned, SockType
<1> QED
  BY <1>1 DEF Good, Owned, OwnedBut

\* reconnect: the session connects, whatever it did.
LEMMA GoodReconnect ==
  ASSUME Good(sess, sock, leaked), NEW i \in TabSlots, Reconnect(i)
  PROVE  Good(sess', sock', leaked)
<1>1. PICK ses : ses = [sess EXCEPT ![i].state = "connecting"]
  OBVIOUS
<1>2. PICK s : s = [sess[i] EXCEPT !.state = "connecting"]
  OBVIOUS
<1>3. sess \in [TabSlots -> SessType] /\ sock \in [Sockets -> SockType]
  BY DEF Good
<1>4. s \in SessType /\ s.state = "connecting" /\ s.cur = sess[i].cur /\ s.old = sess[i].old
  BY <1>2, <1>3 DEF SessType
<1>5. ses \in [TabSlots -> SessType] /\ \A j \in TabSlots : ses[j] = IF j = i THEN s ELSE sess[j]
  BY <1>1, <1>2, <1>3, <1>4
<1>6. CASE sess[i].old # 0 /\ sess' = ses /\ UNCHANGED sock
  <2>1. Owned(ses, sock)
    <3>1. \A k \in Sockets : sock[k].key \in TabSlots /\ ses[sock[k].key].cur = sess[sock[k].key].cur
      BY <1>3, <1>4, <1>5 DEF SockType
    <3> QED
      BY <1>4, <1>5, <1>6, <3>1 DEF Good, Owned
  <2>2. OldsOf(ses) = OldsOf(sess)
    BY <1>4, <1>5 DEF OldsOf
  <2> QED
    BY <1>5, <1>6, <2>1, <2>2 DEF Good, Reserved
<1>7. CASE sess[i].old = 0 /\ sess[i].cur = 0 /\ Room /\ Opens(ses, sock, i)
  <2>1. OwnedBut(ses, sock, i)
    BY <1>5, <1>7, MayOpen
  <2>2. OldsOf(ses) \ {i} \subseteq OldsOf(sess)
    BY <1>5 DEF OldsOf
  <2>3. Cardinality(OldsOf(ses) \ {i}) <= Cardinality(OldsOf(sess)) /\ Cardinality(OldsOf(ses) \ {i}) \in Nat
    BY <2>2, FewSockets, FS_Subset, FS_CardinalityType
  <2>4. Cardinality(OldsOf(ses) \ {i}) < Cardinality(FreeOf(sock))
    <3>1. Cardinality(FreeOf(sock)) > Cardinality(OldsOf(sess))
      BY <1>7 DEF Room, OldsOf, FreeOf
    <3> QED
      BY <2>3, <3>1, FewSockets
  <2>5. Good(Opened(ses, sock, i), Dialled(sock, i), leaked)
    BY <1>3, <1>5, <2>1, <2>4, GoodOpens DEF Good
  <2> QED
    BY <1>7, <2>5 DEF Opens, Opened, Dialled
<1>8. CASE /\ sess[i].old = 0 /\ sess[i].cur # 0 /\ Room
           /\ sess' = [ses EXCEPT ![i].old = sess[i].cur, ![i].cur = 0]
           /\ sock' = Ending(sock, sess[i].cur)
  <2>1. PICK c : c = sess[i].cur
    OBVIOUS
  <2>2. c \in 0 .. MaxSockets /\ c # 0 /\ c \in Sockets
    BY <1>3, <1>8, <2>1, TermConstants DEF SessType
  <2>3. /\ Good(sess, sock', leaked) /\ FreeOf(sock') = FreeOf(sock)
        /\ Eases(sock[c], sock'[c]) /\ sock'[c].client \notin {"connecting", "open"}
    BY <1>8, <2>1, <2>2, GoodEnding
  <2>4. sock'[c].client = "ending" /\ sock'[c].key = i
    BY <1>8, <2>1, <2>3 DEF Good, Owned, Eases
  <2>5. PICK r : r = [[s EXCEPT !.old = c] EXCEPT !.cur = 0]
    OBVIOUS
  <2>6. r \in SessType /\ r.old = c /\ r.cur = 0 /\ r.state = "connecting"
    BY <1>4, <2>2, <2>5, TermConstants DEF SessType
  <2>7. sess' \in [TabSlots -> SessType] /\ \A j \in TabSlots : sess'[j] = IF j = i THEN r ELSE sess[j]
    BY <1>5, <1>8, <2>1, <2>5, <2>6
  <2>8. Owned(sess', sock')
    <3>1. \A k \in Sockets : sock'[k].client \in {"connecting", "open"} =>
            sock'[k].key \in TabSlots /\ sock'[k].key # i /\ sess[sock'[k].key].cur = k
      BY <2>1, <2>3 DEF Good, Owned, SockType
    <3> QED
      BY <2>2, <2>3, <2>4, <2>6, <2>7, <3>1 DEF Good, Owned
  <2>9. Reserved(sess', sock')
    <3>1. OldsOf(sess') = OldsOf(sess) \cup {i} /\ i \notin OldsOf(sess)
      BY <1>8, <2>2, <2>6, <2>7 DEF OldsOf
    <3>2. Cardinality(OldsOf(sess')) = Cardinality(OldsOf(sess)) + 1
      BY <3>1, FewSockets, FS_AddElement
    <3>3. Cardinality(FreeOf(sock)) > Cardinality(OldsOf(sess))
      BY <1>8 DEF Room, OldsOf, FreeOf
    <3> QED
      BY <2>3, <3>2, <3>3, FewSockets DEF Reserved
  <2> QED
    BY <2>3, <2>7, <2>8, <2>9 DEF Good
<1> QED
  BY <1>1, <1>6, <1>7, <1>8 DEF Reconnect

\* One more key at the end.
LEMMA CountOn ==
  ASSUME NEW m \in Nat, m + 1 <= MaxKeys, NEW q \in Seq(1 .. MaxKeys), Counted(q, m)
  PROVE  Append(q, m + 1) \in Seq(1 .. MaxKeys) /\ Counted(Append(q, m + 1), m + 1)
<1>1. m + 1 \in 1 .. MaxKeys
  BY TermConstants
<1>2. Len(q) = m /\ DOMAIN q = 1 .. m
  BY DEF Counted
<1>3. PICK r : r = Append(q, m + 1)
  OBVIOUS
<1>4. /\ r \in Seq(1 .. MaxKeys) /\ Len(r) = m + 1 /\ r[m + 1] = m + 1
      /\ \A n \in 1 .. m : r[n] = q[n]
  BY <1>1, <1>2, <1>3, AppendProperties
<1>5. DOMAIN r = 1 .. m + 1
  BY <1>4
<1>6. \A n \in 1 .. m + 1 : r[n] = n
  BY <1>2, <1>4 DEF Counted
<1>7. r = [n \in 1 .. m + 1 |-> r[n]]
  BY <1>4, <1>5
<1> QED
  BY <1>3, <1>4, <1>6, <1>7 DEF Counted

\* What becomes of a connection in each step of its handler.
LEMMA ServedIs ==
  ASSUME NEW s \in SockType, Wire(s), s.server # "none"
  PROVE  s.client \notin {"none", "connecting"} /\ s # NoSocket
  BY NoneYet DEF Wire

Refused(s) == [s EXCEPT !.server = "over", !.view = 0, !.client = IF @ = "open" THEN "ending" ELSE @]
\* A connection whose set-up fails is over and has no view.
LEMMA RefusedIs ==
  ASSUME NEW s \in SockType, Wire(s), s.server \in {"resolve", "view", "select"}
  PROVE  Refused(s) \in SockType /\ Wire(Refused(s)) /\ Eases(s, Refused(s)) /\ Refused(s).view = 0
<1>1. PICK r : r = Refused(s)
  OBVIOUS
<1>2. 0 \in 0 .. MaxGroups
  BY TermConstants
<1>3. PICK c : c = IF s.client = "open" THEN "ending" ELSE s.client
  OBVIOUS
<1>4. c \in {"none", "connecting", "open", "ending", "closed"}
  BY <1>3 DEF SockType
<1>5. r = [[[s EXCEPT !.server = "over"] EXCEPT !.view = 0] EXCEPT !.client = c]
  BY <1>1, <1>3 DEF Refused, SockType
<1>6. r \in SockType /\ r.client = c /\ r.server = "over" /\ r.view = 0 /\ r.key = s.key /\ r.cut = s.cut
  BY <1>2, <1>4, <1>5 DEF SockType
<1>7. r.sent = s.sent /\ r.came = s.came /\ r.pend = s.pend /\ r.got = s.got
  BY <1>5 DEF SockType
<1>8. s.client \notin {"none", "connecting"}
  BY ServedIs
<1>9. Wire(r)
  BY <1>3, <1>6, <1>7, <1>8 DEF Wire
<1>10. Eases(s, r)
  BY <1>3, <1>6 DEF Eases
<1> QED
  BY <1>1, <1>6, <1>9, <1>10

Stepped(s, p, v) == [s EXCEPT !.server = p, !.view = v]
\* A step of the set-up: the view is there when the next step begins, and not before.
LEMMA SteppedIs ==
  ASSUME NEW s \in SockType, Wire(s), s.server \in {"resolve", "view", "select"},
         NEW v \in 0 .. MaxGroups, NEW p \in {"view", "select", "over"},
         p = "view" => v = 0
  PROVE  /\ Stepped(s, p, v) \in SockType /\ Wire(Stepped(s, p, v)) /\ Eases(s, Stepped(s, p, v))
         /\ Stepped(s, p, v).server = p /\ Stepped(s, p, v).view = v
<1>1. PICK r : r = Stepped(s, p, v)
  OBVIOUS
<1>2. r = [s EXCEPT !.server = p, !.view = v]
  BY <1>1 DEF Stepped
<1>3. r \in SockType /\ r.client = s.client /\ r.server = p /\ r.view = v /\ r.key = s.key /\ r.cut = s.cut
  BY <1>2 DEF SockType
<1>4. r.sent = s.sent /\ r.came = s.came /\ r.pend = s.pend /\ r.got = s.got
  BY <1>2 DEF SockType
<1>5. s.client \notin {"none", "connecting"}
  BY ServedIs
<1>6. Wire(r)
  BY <1>3, <1>4, <1>5 DEF Wire
<1> QED
  BY <1>1, <1>3, <1>6 DEF Eases

\* At the end of the set-up, what was typed meanwhile is handed on in its order.
LEMMA ReadyIs ==
  ASSUME NEW s \in SockType, Wire(s), s.server = "select", s.cut = FALSE,
         NEW r, r = [s EXCEPT !.server = "ready", !.got = s.pend, !.pend = <<>>]
  PROVE  r \in SockType /\ Wire(r) /\ Eases(s, r) /\ r.server = "ready"
<1>1. <<>> \in Seq(1 .. MaxKeys)
  OBVIOUS
<1>2. PICK q : q = s.pend
  OBVIOUS
<1>3. q \in Seq(1 .. MaxKeys)
  BY <1>2 DEF SockType
<1>4. r = [s EXCEPT !.server = "ready", !.got = q, !.pend = <<>>]
  BY <1>2
<1>5. r \in SockType /\ r.client = s.client /\ r.server = "ready" /\ r.view = s.view /\ r.key = s.key /\ r.cut = s.cut
  BY <1>1, <1>3, <1>4 DEF SockType
<1>6. r.sent = s.sent /\ r.came = s.came /\ r.pend = <<>> /\ r.got = q
  BY <1>4 DEF SockType
<1>7. s.client \notin {"none", "connecting"}
  BY ServedIs
<1>8. Counted(q, s.came)
  <2>1. s.got = <<>>
    BY DEF Wire
  <2>2. CASE Counted(s.pend, s.came)
    BY <1>2, <2>2
  <2>3. CASE s.pend = <<>> /\ Counted(s.got, s.came)
    BY <1>2, <2>1, <2>3
  <2> QED
    BY <2>2, <2>3 DEF Wire
<1>9. Wire(r)
  BY <1>5, <1>6, <1>7, <1>8 DEF Wire
<1> QED
  BY <1>5, <1>9 DEF Eases

\* A key that arrives is handed on or waits for the set-up, after those before it.
LEMMA CameIs ==
  ASSUME NEW s \in SockType, Wire(s), s.came < s.sent, NEW r,
         \/ s.server = "ready" /\ r = [s EXCEPT !.came = s.came + 1, !.got = Append(s.got, s.came + 1)]
         \/ /\ s.server \in {"resolve", "view", "select"}
            /\ r = [s EXCEPT !.came = s.came + 1, !.pend = Append(s.pend, s.came + 1)]
  PROVE  r \in SockType /\ Wire(r) /\ Eases(s, r) /\ r.server = s.server /\ r.server # "over"
<1>1. PICK m \in Nat : m = s.came
  BY DEF SockType
<1>2. s.sent \in Nat /\ s.sent <= MaxKeys /\ m + 1 <= s.sent /\ m + 1 <= MaxKeys /\ m + 1 \in 0 .. MaxKeys
  BY <1>1, TermConstants DEF SockType
<1>3. s.got \in Seq(1 .. MaxKeys) /\ s.pend \in Seq(1 .. MaxKeys)
  BY DEF SockType
<1>4. s.client \notin {"none", "connecting"}
  BY ServedIs
<1>5. Counted(<<>>, m) => m = 0
  BY DEF Counted
<1>6. CASE s.server = "ready" /\ r = [s EXCEPT !.came = s.came + 1, !.got = Append(s.got, s.came + 1)]
  <2>1. s.pend = <<>> /\ s.cut = FALSE
    BY <1>6 DEF Wire
  <2>2. Counted(s.got, m)
    BY <1>1, <2>1 DEF Wire
  <2>3. PICK q \in Seq(1 .. MaxKeys) : q = Append(s.got, m + 1) /\ Counted(q, m + 1)
    BY <1>2, <1>3, <2>2, CountOn
  <2>4. r = [s EXCEPT !.came = m + 1, !.got = q]
    BY <1>1, <1>6, <2>3
  <2>5. r \in SockType /\ r.client = s.client /\ r.server = "ready" /\ r.view = s.view /\ r.key = s.key /\ r.cut = s.cut
    BY <1>2, <1>6, <2>4 DEF SockType
  <2>6. r.sent = s.sent /\ r.came = m + 1 /\ r.pend = s.pend /\ r.got = q
    BY <2>4 DEF SockType
  <2>7. Wire(r)
    BY <1>2, <1>4, <2>1, <2>3, <2>5, <2>6 DEF Wire
  <2> QED
    BY <1>6, <2>5, <2>7 DEF Eases
<1>7. CASE /\ s.server \in {"resolve", "view", "select"}
           /\ r = [s EXCEPT !.came = s.came + 1, !.pend = Append(s.pend, s.came + 1)]
  <2>1. s.got = <<>>
    BY <1>7 DEF Wire
  <2>2. Counted(s.pend, m)
    BY <1>1, <2>1 DEF Wire
  <2>3. PICK q \in Seq(1 .. MaxKeys) : q = Append(s.pend, m + 1) /\ Counted(q, m + 1)
    BY <1>2, <1>3, <2>2, CountOn
  <2>4. r = [s EXCEPT !.came = m + 1, !.pend = q]
    BY <1>1, <1>7, <2>3
  <2>5. r \in SockType /\ r.client = s.client /\ r.server = s.server /\ r.view = s.view /\ r.key = s.key /\ r.cut = s.cut
    BY <1>2, <2>4 DEF SockType
  <2>6. r.sent = s.sent /\ r.came = m + 1 /\ r.pend = q /\ r.got = s.got
    BY <2>4 DEF SockType
  <2>7. Wire(r)
    BY <1>2, <1>4, <1>7, <2>1, <2>3, <2>5, <2>6 DEF Wire
  <2> QED
    BY <1>7, <2>5, <2>7 DEF Eases
<1> QED
  BY <1>6, <1>7

\* A connection that is cut is over at once when it was ready, and after the set-up otherwise.
LEMMA CutIs ==
  ASSUME NEW s \in SockType, Wire(s), NEW r,
         \/ s.server = "ready" /\ r = [s EXCEPT !.cut = TRUE, !.server = "over", !.view = 0]
         \/ s.server \in {"resolve", "view", "select"} /\ r = [s EXCEPT !.cut = TRUE]
  PROVE  r \in SockType /\ Wire(r) /\ Eases(s, r) /\ (r.server = "over" => r.view = 0)
<1>1. 0 \in 0 .. MaxGroups
  BY TermConstants
<1>2. s.client \notin {"none", "connecting"}
  BY ServedIs
<1>3. CASE s.server = "ready" /\ r = [s EXCEPT !.cut = TRUE, !.server = "over", !.view = 0]
  <2>1. r \in SockType /\ r.client = s.client /\ r.server = "over" /\ r.view = 0 /\ r.key = s.key /\ r.cut = TRUE
    BY <1>1, <1>3 DEF SockType
  <2>2. r.sent = s.sent /\ r.came = s.came /\ r.pend = s.pend /\ r.got = s.got
    BY <1>3 DEF SockType
  <2>3. Wire(r)
    BY <1>2, <2>1, <2>2 DEF Wire
  <2> QED
    BY <2>1, <2>3 DEF Eases
<1>4. CASE s.server \in {"resolve", "view", "select"} /\ r = [s EXCEPT !.cut = TRUE]
  <2>1. r \in SockType /\ r.client = s.client /\ r.server = s.server /\ r.view = s.view /\ r.key = s.key /\ r.cut = TRUE
    BY <1>4 DEF SockType
  <2>2. r.sent = s.sent /\ r.came = s.came /\ r.pend = s.pend /\ r.got = s.got
    BY <1>4 DEF SockType
  <2>3. Wire(r)
    BY <1>2, <1>4, <2>1, <2>2 DEF Wire
  <2> QED
    BY <1>4, <2>1, <2>3 DEF Eases
<1> QED
  BY <1>3, <1>4

\* A key is sent on an open connection only.
LEMMA TypedIs ==
  ASSUME NEW s \in SockType, Wire(s), s.client = "open", s.sent < MaxKeys, NEW r, r = [s EXCEPT !.sent = s.sent + 1]
  PROVE  r \in SockType /\ Wire(r) /\ Eases(s, r) /\ r.server = s.server /\ r.view = s.view
<1>1. PICK m \in Nat : m = s.sent + 1 /\ m \in 0 .. MaxKeys /\ s.came <= m
  <2>1. s.sent \in 0 .. MaxKeys /\ s.came \in 0 .. MaxKeys
    BY DEF SockType
  <2> QED
    BY <2>1, TermConstants DEF Wire
<1>2. r = [s EXCEPT !.sent = m]
  BY <1>1
<1>3. r \in SockType /\ r.client = s.client /\ r.server = s.server /\ r.view = s.view /\ r.key = s.key /\ r.cut = s.cut
  BY <1>1, <1>2 DEF SockType
<1>4. r.sent = m /\ r.came = s.came /\ r.pend = s.pend /\ r.got = s.got
  BY <1>2 DEF SockType
<1>5. Wire(r)
  BY <1>1, <1>3, <1>4 DEF Wire
<1> QED
  BY <1>3, <1>5 DEF Eases

\* tmux takes the view with it, the daemon its handler.
LEMMA UnviewedIs ==
  ASSUME NEW s \in SockType, Wire(s), NEW r, r = [s EXCEPT !.view = 0]
  PROVE  r \in SockType /\ Wire(r) /\ Eases(s, r) /\ r.view = 0
<1>1. 0 \in 0 .. MaxGroups
  BY TermConstants
<1>2. r \in SockType /\ r.client = s.client /\ r.server = s.server /\ r.view = 0 /\ r.key = s.key /\ r.cut = s.cut
  BY <1>1 DEF SockType
<1>3. r.sent = s.sent /\ r.came = s.came /\ r.pend = s.pend /\ r.got = s.got
  BY DEF SockType
<1>4. s = NoSocket => r = s
  BY <1>2, <1>3, NoneYet DEF SockType
<1>5. Wire(r)
  BY <1>2, <1>3, <1>4 DEF Wire
<1> QED
  BY <1>2, <1>5 DEF Eases

\* A daemon that goes away leaves the views of its connections behind.
LEMMA OrphanIs ==
  ASSUME NEW s \in SockType, Wire(s), s.server \in {"resolve", "view", "select", "ready"},
         NEW r, r = [s EXCEPT !.server = "over"]
  PROVE  r \in SockType /\ Wire(r) /\ Eases(s, r) /\ r.view = s.view
<1>1. r \in SockType /\ r.client = s.client /\ r.server = "over" /\ r.view = s.view /\ r.key = s.key /\ r.cut = s.cut
  BY DEF SockType
<1>2. r.sent = s.sent /\ r.came = s.came /\ r.pend = s.pend /\ r.got = s.got
  BY DEF SockType
<1>3. s.client \notin {"none", "connecting"}
  BY ServedIs
<1>4. Wire(r)
  BY <1>1, <1>2, <1>3 DEF Wire
<1> QED
  BY <1>1, <1>4 DEF Eases

\* A step of the handler of one connection.
LEMMA ServeGood ==
  ASSUME Good(sess, sock, leaked), NEW k \in Sockets, NEW r \in SockType, Wire(r), Eases(sock[k], r),
         r.server = "over" => r.view = 0, sess' = sess, Serve(k, r)
  PROVE  Good(sess', sock', leaked)
<1>1. Good(sess, [sock EXCEPT ![k] = r], leaked)
  BY GoodServe
<1> QED
  BY <1>1 DEF Serve

\* The steps of the handlers, and what happens to the connections, keep the sessions good.
LEMMA ServedGood ==
  ASSUME Plain, Good(sess, sock, leaked), NEW k \in Sockets, Served(k)
  PROVE  Good(sess', sock', leaked)
<1> DEFINE s == sock[k]
<1>1. s \in SockType /\ Wire(s)
  BY DEF Good
<1>2. CASE Accepts(k)
  <2>1. s.client = "connecting"
    BY <1>2 DEF Accepts
  <2>2. PICK r : r = [s EXCEPT !.client = "open", !.server = "resolve"]
    OBVIOUS
  <2>3. r \in SockType /\ r.client = "open" /\ r.server = "resolve" /\ r.view = s.view /\ r.key = s.key /\ r.cut = s.cut
    BY <1>1, <2>2 DEF SockType
  <2>4. r.sent = s.sent /\ r.came = s.came /\ r.pend = s.pend /\ r.got = s.got
    BY <1>1, <2>2 DEF SockType
  <2>5. Wire(r)
    BY <1>1, <2>1, <2>3, <2>4 DEF Wire
  <2>6. sock' \in [Sockets -> SockType] /\ \A j \in Sockets : sock'[j] = IF j = k THEN r ELSE sock[j]
    BY <1>2, <2>2, <2>3 DEF Accepts, Serve, Good
  <2>7. PICK i \in TabSlots : i = s.key
    BY <1>1 DEF SockType
  <2>8. sess[i].cur = k
    BY <2>1, <2>7 DEF Good, Owned
  <2>9. \A j \in TabSlots : sess[j].cur = k => j = i
    BY <2>7, TermConstants DEF Good, Owned
  <2>10. PICK q : q = [sess[i] EXCEPT !.state = "open"]
    OBVIOUS
  <2>11. q \in SessType /\ q.state = "open" /\ q.cur = k /\ q.old = sess[i].old
    BY <2>8, <2>10 DEF Good, SessType
  <2>12. sess' \in [TabSlots -> SessType] /\ \A j \in TabSlots : sess'[j] = IF j = i THEN q ELSE sess[j]
    BY <1>2, <2>8, <2>9, <2>10, <2>11 DEF Accepts, Good
  <2>13. Owned(sess', sock')
    <3>1. \A j \in Sockets : sock'[j].client \in {"connecting", "open"} => sess'[sock'[j].key].cur = j
      <4>1. \A j \in Sockets : sock'[j].key = sock[j].key /\ sock[j].key \in TabSlots
        BY <2>3, <2>6 DEF Good, SockType
      <4>2. \A j \in Sockets : sock'[j].client \in {"connecting", "open"} => sock[j].client \in {"connecting", "open"}
        BY <2>1, <2>6
      <4>3. \A j \in TabSlots : sess'[j].cur = sess[j].cur
        BY <2>8, <2>11, <2>12
      <4> QED
        BY <4>1, <4>2, <4>3 DEF Good, Owned
    <3>2. \A j \in TabSlots \ {i} : sess[j].cur # k /\ sess[j].old # k
      BY <2>1, <2>9, TermConstants DEF Good, Owned
    <3>3. sess[i].old = 0
      BY <2>8, TermConstants DEF Good, Owned
    <3>4. \A j \in TabSlots : sess'[j].cur # 0 =>
            sock'[sess'[j].cur].key = j /\ sock'[sess'[j].cur].client \in {"connecting", "open", "ending"}
      <4>1. ASSUME NEW j \in TabSlots \ {i}
            PROVE  sess'[j] = sess[j] /\ (sess[j].cur # 0 => sock'[sess[j].cur] = sock[sess[j].cur])
        <5>1. sess[j].cur \in Sockets \cup {0}
          BY TermConstants DEF Good, SessType
        <5> QED
          BY <2>6, <2>12, <3>2, <5>1
      <4> QED
        BY <2>3, <2>6, <2>7, <2>11, <2>12, <4>1 DEF Good, Owned
    <3>5. \A j \in TabSlots : sess'[j].old # 0 =>
            sess'[j].cur = 0 /\ sock'[sess'[j].old].key = j /\ sock'[sess'[j].old].client = "ending"
      <4>1. ASSUME NEW j \in TabSlots \ {i}
            PROVE  sess'[j] = sess[j] /\ (sess[j].old # 0 => sock'[sess[j].old] = sock[sess[j].old])
        <5>1. sess[j].old \in Sockets \cup {0}
          BY TermConstants DEF Good, SessType
        <5> QED
          BY <2>6, <2>12, <3>2, <5>1
      <4> QED
        BY <2>11, <2>12, <3>3, <4>1 DEF Good, Owned
    <3>6. \A j \in TabSlots : sess'[j].state = "connecting" =>
            \/ sess'[j].cur # 0 /\ sock'[sess'[j].cur].client \in {"connecting", "ending"}
            \/ sess'[j].old # 0
      <4>1. ASSUME NEW j \in TabSlots \ {i}
            PROVE  sess'[j] = sess[j] /\ (sess[j].cur # 0 => sock'[sess[j].cur] = sock[sess[j].cur])
        <5>1. sess[j].cur \in Sockets \cup {0}
          BY TermConstants DEF Good, SessType
        <5> QED
          BY <2>6, <2>12, <3>2, <5>1
      <4> QED
        BY <2>11, <2>12, <4>1 DEF Good, Owned
    <3> QED
      BY <3>1, <3>4, <3>5, <3>6 DEF Owned
  <2>14. Reserved(sess', sock')
    <3>1. OldsOf(sess') = OldsOf(sess)
      BY <2>11, <2>12 DEF OldsOf
    <3>2. FreeOf(sock') = FreeOf(sock)
      BY <2>1, <2>3, <2>6, NoneYet DEF FreeOf
    <3> QED
      BY <3>1, <3>2 DEF Good, Reserved
  <2>15. Collected(sock', leaked)
    BY <2>3, <2>6 DEF Good, Collected
  <2> QED
    BY <2>5, <2>6, <2>12, <2>13, <2>14, <2>15 DEF Good
<1>3. CASE Resolves(k)
  <2>1. s.server = "resolve" /\ s.view = 0
    BY <1>1, <1>3 DEF Resolves, Here, Wire
  <2>2. CASE Refuse(k)
    BY <1>1, <1>3, <2>1, <2>2, RefusedIs, ServeGood DEF Refuse, Refused, Resolves
  <2>3. CASE Serve(k, [s EXCEPT !.server = IF s.cut THEN "over" ELSE "view"])
    <3>1. PICK p : p = IF s.cut THEN "over" ELSE "view"
      OBVIOUS
    <3>2. PICK r : r = Stepped(s, p, 0)
      OBVIOUS
    <3>3. r \in SockType /\ Wire(r) /\ Eases(s, r) /\ r.view = 0
      BY <1>1, <2>1, <3>1, <3>2, TermConstants, SteppedIs
    <3>4. [s EXCEPT !.server = p] = r
      BY <1>1, <2>1, <3>2 DEF SockType, Stepped
    <3> QED
      BY <1>3, <2>3, <3>1, <3>3, <3>4, ServeGood DEF Resolves
  <2> QED
    BY <1>3, <2>2, <2>3 DEF Resolves
<1>4. CASE MakesView(k)
  <2>1. s.server = "view"
    BY <1>4 DEF MakesView, Here
  <2>2. CASE Refuse(k)
    BY <1>1, <1>4, <2>1, <2>2, RefusedIs, ServeGood DEF Refuse, Refused, MakesView
  <2>3. ASSUME NEW g \in 1 .. MaxGroups, Serve(k, [s EXCEPT !.server = "select", !.view = g])
        PROVE  Good(sess', sock', leaked)
    <3>1. PICK r : r = Stepped(s, "select", g)
      OBVIOUS
    <3>2. g \in 0 .. MaxGroups
      BY TermConstants
    <3>3. r \in SockType /\ Wire(r) /\ Eases(s, r) /\ r.server = "select"
      BY <1>1, <2>1, <3>1, <3>2, SteppedIs
    <3> QED
      BY <1>4, <2>3, <3>1, <3>3, ServeGood DEF MakesView, Stepped
  <2> QED
    BY <1>4, <2>2, <2>3 DEF MakesView
<1>5. CASE AttachesView(k)
  <2>1. s.server = "select" /\ s.cut \in BOOLEAN
    BY <1>1, <1>5 DEF AttachesView, Here, SockType
  <2>2. CASE Refuse(k)
    BY <1>1, <1>5, <2>1, <2>2, RefusedIs, ServeGood DEF Refuse, Refused, AttachesView
  <2>3. CASE Serve(k, [s EXCEPT !.server = "over", !.view = 0])
    <3>1. PICK r : r = Stepped(s, "over", 0)
      OBVIOUS
    <3>2. r \in SockType /\ Wire(r) /\ Eases(s, r) /\ r.view = 0
      BY <1>1, <2>1, <3>1, TermConstants, SteppedIs
    <3> QED
      BY <1>5, <2>3, <3>1, <3>2, ServeGood DEF AttachesView, Stepped
  <2>4. CASE ~s.cut /\ Serve(k, [s EXCEPT !.server = "ready", !.got = s.pend, !.pend = <<>>])
    <3>1. PICK r : r = [s EXCEPT !.server = "ready", !.got = s.pend, !.pend = <<>>]
      OBVIOUS
    <3>2. r \in SockType /\ Wire(r) /\ Eases(s, r) /\ r.server = "ready"
      BY <1>1, <2>1, <2>4, <3>1, ReadyIs
    <3> QED
      BY <1>5, <2>4, <3>1, <3>2, ServeGood DEF AttachesView
  <2> QED
    BY <1>5, <2>2, <2>3, <2>4 DEF AttachesView
<1>6. CASE Arrives(k)
  <2>1. PICK r : /\ Serve(k, r)
                 /\ \/ s.server = "ready" /\ r = [s EXCEPT !.came = s.came + 1, !.got = Append(s.got, s.came + 1)]
                    \/ /\ s.server \in {"resolve", "view", "select"}
                       /\ r = [s EXCEPT !.came = s.came + 1, !.pend = Append(s.pend, s.came + 1)]
    BY <1>6 DEF Arrives, Here
  <2>2. s.came < s.sent
    BY <1>6 DEF Arrives
  <2>3. r \in SockType /\ Wire(r) /\ Eases(s, r) /\ r.server # "over"
    BY <1>1, <2>1, <2>2, CameIs
  <2> QED
    BY <1>6, <2>1, <2>3, ServeGood DEF Arrives
<1>7. CASE HearsClose(k)
  <2>1. PICK r : /\ Serve(k, r)
                 /\ \/ s.server = "ready" /\ r = [s EXCEPT !.cut = TRUE, !.server = "over", !.view = 0]
                    \/ s.server \in {"resolve", "view", "select"} /\ r = [s EXCEPT !.cut = TRUE]
    BY <1>7 DEF HearsClose, Here
  <2>2. r \in SockType /\ Wire(r) /\ Eases(s, r) /\ (r.server = "over" => r.view = 0)
    BY <1>1, <2>1, CutIs
  <2> QED
    BY <1>7, <2>1, <2>2, ServeGood DEF HearsClose
<1> QED
  BY <1>2, <1>3, <1>4, <1>5, <1>6, <1>7 DEF Served

\* The view of the tab comes and goes.
LEMMA MountsGood ==
  ASSUME Plain, Good(sess, sock, leaked), Mounts
  PROVE  Good(sess', sock', leaked)
<1>1. shown \in TabSlots /\ mounted \in TabSlots \cup {Nowhere} /\ Room
  BY DEF Mounts, Plain
<1>2. PICK ses : ses = IF mounted = Nowhere THEN sess ELSE [sess EXCEPT ![mounted] = NoSession]
  OBVIOUS
<1>3. PICK ss : ss = IF mounted = Nowhere THEN sock ELSE Ending(sock, sess[mounted].cur)
  OBVIOUS
<1>4. Good(ses, ss, leaked) /\ FreeOf(ss) = FreeOf(sock) /\ OldsOf(ses) \subseteq OldsOf(sess)
  BY <1>1, <1>2, <1>3, GoodDisposed
<1>5. CASE ses[shown] # NoSession
  BY <1>2, <1>3, <1>4, <1>5 DEF Mounts
<1>6. CASE ses[shown] = NoSession
  <2>1. PICK res : res = [ses EXCEPT ![shown].state = "connecting"]
    OBVIOUS
  <2>2. Opens(res, ss, shown)
    BY <1>2, <1>3, <1>6, <2>1 DEF Mounts
  <2>3. ses[shown].cur = 0 /\ ses[shown].old = 0
    BY <1>6, NoneYet
  <2>4. /\ res \in [TabSlots -> SessType] /\ \A j \in TabSlots \ {shown} : res[j] = ses[j]
    BY <1>1, <1>4, <2>1 DEF Good, SessType
  <2>5. OwnedBut(res, ss, shown)
    BY <1>1, <1>4, <2>3, <2>4, MayOpen
  <2>6. OldsOf(res) \ {shown} \subseteq OldsOf(sess)
    BY <1>4, <2>4 DEF OldsOf
  <2>7. Cardinality(OldsOf(res) \ {shown}) <= Cardinality(OldsOf(sess)) /\ Cardinality(OldsOf(res) \ {shown}) \in Nat
    BY <2>6, FewSockets, FS_Subset, FS_CardinalityType
  <2>8. Cardinality(OldsOf(res) \ {shown}) < Cardinality(FreeOf(ss))
    <3>1. Cardinality(FreeOf(sock)) > Cardinality(OldsOf(sess))
      BY <1>1 DEF Room, OldsOf, FreeOf
    <3> QED
      BY <1>4, <2>7, <3>1, FewSockets
  <2>9. Good(Opened(res, ss, shown), Dialled(ss, shown), leaked)
    BY <1>1, <1>4, <2>4, <2>5, <2>8, GoodOpens DEF Good
  <2> QED
    BY <2>2, <2>9 DEF Opens, Opened, Dialled
<1> QED
  BY <1>5, <1>6

\* The client that hears of the archived workspace closes what it has open there.
LEMMA ArchivedGood ==
  ASSUME Good(sess, sock, leaked), HearsArchived
  PROVE  Good(sess', sock', leaked)
<1>1. \A k \in Sockets : sock[k] \in SockType /\ Wire(sock[k])
  BY DEF Good
<1>2. ASSUME NEW k \in Sockets
      PROVE  /\ Ending(sock, k)[k] \in SockType /\ Wire(Ending(sock, k)[k]) /\ Eases(sock[k], Ending(sock, k)[k])
             /\ Ending(sock, k)[k].server = sock[k].server /\ Ending(sock, k)[k].view = sock[k].view
             /\ Ending(sock, k)[k].client \notin {"connecting", "open"}
  BY <1>2, EndingHere
<1>3. \A k \in Sockets : sock'[k] = IF \E i \in TabSlots : sess[i].cur = k THEN Ending(sock, k)[k] ELSE sock[k]
  BY DEF HearsArchived
<1>4. sock' \in [Sockets -> SockType] /\ \A k \in Sockets : Wire(sock'[k]) /\ Eases(sock[k], sock'[k])
  <2>1. \A k \in Sockets : sock'[k] \in SockType /\ Wire(sock'[k]) /\ Eases(sock[k], sock'[k])
    BY <1>1, <1>2, <1>3 DEF Eases
  <2>2. sock' = [k \in Sockets |-> sock'[k]]
    BY DEF HearsArchived
  <2> QED
    BY <2>1, <2>2
<1>5. Collected(sock', leaked)
  BY <1>2, <1>3 DEF Good, Collected
<1>6. Good(sess, sock', leaked)
  BY <1>4, <1>5, GoodEased
<1>7. sess' \in [TabSlots -> SessType] /\ \A i \in TabSlots : sess'[i] = NoSession
  BY NoneYet DEF HearsArchived
<1>8. \A k \in Sockets : sock'[k].client \notin {"connecting", "open"}
  <2> SUFFICES ASSUME NEW k \in Sockets, sock'[k].client \in {"connecting", "open"}
               PROVE  FALSE
    OBVIOUS
  <2>1. ~ \E i \in TabSlots : sess[i].cur = k
    BY <1>2, <1>3
  <2>2. sock'[k] = sock[k] /\ sock[k].key \in TabSlots
    BY <1>1, <1>3, <2>1 DEF SockType
  <2> QED
    BY <2>1, <2>2 DEF Good, Owned
<1>9. Owned(sess', sock')
  BY <1>7, <1>8, NoneYet DEF Owned
<1>10. Reserved(sess', sock')
  <2>1. OldsOf(sess') = {}
    BY <1>7, NoneYet DEF OldsOf
  <2>2. Cardinality(OldsOf(sess')) = 0
    BY <2>1, FS_EmptySet
  <2> QED
    BY <2>2, FewSockets DEF Reserved
<1> QED
  BY <1>6, <1>7, <1>9, <1>10 DEF Good

\* onclose: a reconnect that waited for it opens its connection.
LEMMA ClosedGood ==
  ASSUME Good(sess, sock, leaked), NEW k \in Sockets, SeesClose(k)
  PROVE  Good(sess', sock', leaked)
<1>1. sock[k] \in SockType /\ Wire(sock[k]) /\ sock[k].client = "ending"
  BY DEF Good, SeesClose
<1>2. PICK r : r = [sock[k] EXCEPT !.client = "closed"]
  OBVIOUS
<1>3. r \in SockType /\ r.client = "closed" /\ r.key = sock[k].key /\ r.server = sock[k].server /\ r.view = sock[k].view
  BY <1>1, <1>2 DEF SockType
<1>4. r.cut = sock[k].cut /\ r.sent = sock[k].sent /\ r.came = sock[k].came /\ r.pend = sock[k].pend /\ r.got = sock[k].got
  BY <1>1, <1>2 DEF SockType
<1>5. Wire(r)
  BY <1>1, <1>3, <1>4 DEF Wire
<1>6. PICK ss : ss = [sock EXCEPT ![k] = r]
  OBVIOUS
<1>7. /\ ss = [sock EXCEPT ![k].client = "closed"]
      /\ ss \in [Sockets -> SockType] /\ \A j \in Sockets : ss[j] = IF j = k THEN r ELSE sock[j]
  BY <1>2, <1>3, <1>6 DEF Good
<1>8. (\A j \in Sockets : Wire(ss[j])) /\ Collected(ss, leaked)
  BY <1>3, <1>5, <1>7 DEF Good, Collected
<1>9. FreeOf(ss) = FreeOf(sock)
  BY <1>1, <1>3, <1>7, NoneYet DEF FreeOf
<1>10. \A i \in TabSlots : /\ sess[i] \in SessType /\ sess[i].cur \in Sockets \cup {0} /\ sess[i].old \in Sockets \cup {0}
  BY TermConstants DEF Good, SessType
<1>11. \A j \in Sockets : /\ ss[j].key = sock[j].key /\ ss[j].key \in TabSlots
                          /\ ss[j].client \in {"connecting", "open"} => sock[j].client \in {"connecting", "open"} /\ j # k
  BY <1>3, <1>7 DEF Good, SockType
<1>12. k # 0
  BY TermConstants
<1>13. ASSUME NEW i \in TabSlots, sess[i].cur = k, sock' = ss,
              sess' = [sess EXCEPT ![i].cur = 0, ![i].state = IF @ \in {"open", "connecting"} THEN "dead" ELSE @]
       PROVE  Good(sess', sock', leaked)
  <2>1. PICK p : p = IF sess[i].state \in {"open", "connecting"} THEN "dead" ELSE sess[i].state
    OBVIOUS
  <2>2. p \in {"none", "connecting", "open", "exited", "dead"} /\ p # "connecting"
    BY <1>10, <2>1 DEF SessType
  <2>3. PICK q : q = [[sess[i] EXCEPT !.cur = 0] EXCEPT !.state = p]
    OBVIOUS
  <2>4. q \in SessType /\ q.cur = 0 /\ q.state = p /\ q.old = sess[i].old
    BY <1>10, <2>2, <2>3, TermConstants DEF SessType
  <2>5. sess' = [sess EXCEPT ![i] = q]
    BY <1>10, <1>13, <2>1, <2>3 DEF Good, SessType
  <2>6. sess' \in [TabSlots -> SessType] /\ \A j \in TabSlots : sess'[j] = IF j = i THEN q ELSE sess[j]
    BY <2>4, <2>5 DEF Good
  <2>7. sess[i].old = 0 /\ \A j \in TabSlots \ {i} : sess[j].cur # k /\ sess[j].old # k
    BY <1>12, <1>13 DEF Good, Owned
  <2>8. Owned(sess', ss)
    <3>1. \A j \in Sockets : ss[j].client \in {"connecting", "open"} => sess'[ss[j].key].cur = j
      BY <1>11, <1>13, <2>6 DEF Good, Owned
    <3>2. ASSUME NEW j \in TabSlots \ {i}
          PROVE  /\ sess'[j] = sess[j]
                 /\ sess[j].cur # 0 => ss[sess[j].cur] = sock[sess[j].cur]
                 /\ sess[j].old # 0 => ss[sess[j].old] = sock[sess[j].old]
      BY <1>7, <1>10, <2>6, <2>7
    <3>3. \A j \in TabSlots : sess'[j].cur # 0 =>
            ss[sess'[j].cur].key = j /\ ss[sess'[j].cur].client \in {"connecting", "open", "ending"}
      BY <2>4, <2>6, <3>2 DEF Good, Owned
    <3>4. \A j \in TabSlots : sess'[j].old # 0 =>
            sess'[j].cur = 0 /\ ss[sess'[j].old].key = j /\ ss[sess'[j].old].client = "ending"
      BY <2>4, <2>6, <2>7, <3>2 DEF Good, Owned
    <3>5. \A j \in TabSlots : sess'[j].state = "connecting" =>
            \/ sess'[j].cur # 0 /\ ss[sess'[j].cur].client \in {"connecting", "ending"}
            \/ sess'[j].old # 0
      BY <2>2, <2>4, <2>6, <3>2 DEF Good, Owned
    <3> QED
      BY <3>1, <3>3, <3>4, <3>5 DEF Owned
  <2>9. OldsOf(sess') = OldsOf(sess)
    BY <2>4, <2>6 DEF OldsOf
  <2> QED
    BY <1>7, <1>8, <1>9, <1>13, <2>6, <2>8, <2>9 DEF Good, Reserved
<1>14. ASSUME NEW i \in TabSlots, sess[i].old = k, Opens(sess, ss, i)
       PROVE  Good(sess', sock', leaked)
  <2>1. sess[i].cur = 0 /\ sock[k].key = i
    BY <1>12, <1>14 DEF Good, Owned
  <2>2. \A j \in TabSlots \ {i} : sess[j].cur # k /\ sess[j].old # k
    BY <1>12, <2>1 DEF Good, Owned
  <2>3. OwnedBut(sess, ss, i)
    <3>1. \A j \in Sockets : ss[j].client \in {"connecting", "open"} => ss[j].key # i /\ sess[ss[j].key].cur = j
      BY <1>11, <2>1, TermConstants DEF Good, Owned
    <3>2. ASSUME NEW j \in TabSlots \ {i}
          PROVE  /\ sess[j].cur # 0 => ss[sess[j].cur] = sock[sess[j].cur]
                 /\ sess[j].old # 0 => ss[sess[j].old] = sock[sess[j].old]
      BY <1>7, <1>10, <2>2
    <3> QED
      BY <3>1, <3>2 DEF Good, Owned, OwnedBut
  <2>4. i \in OldsOf(sess)
    BY <1>12, <1>14 DEF OldsOf
  <2>5. Cardinality(OldsOf(sess) \ {i}) = Cardinality(OldsOf(sess)) - 1
    BY <2>4, FewSockets, FS_RemoveElement
  <2>6. Cardinality(OldsOf(sess) \ {i}) < Cardinality(FreeOf(ss))
    BY <1>9, <2>5, FewSockets DEF Good, Reserved
  <2>7. Good(Opened(sess, ss, i), Dialled(ss, i), leaked)
    BY <1>7, <1>8, <2>3, <2>6, GoodOpens DEF Good
  <2> QED
    BY <1>14, <2>7 DEF Opens, Opened, Dialled
<1>15. ASSUME \A i \in TabSlots : sess[i].cur # k /\ sess[i].old # k, sock' = ss, sess' = sess
       PROVE  Good(sess', sock', leaked)
  <2>1. ASSUME NEW j \in TabSlots
        PROVE  /\ sess[j].cur # 0 => ss[sess[j].cur] = sock[sess[j].cur]
               /\ sess[j].old # 0 => ss[sess[j].old] = sock[sess[j].old]
    BY <1>7, <1>10, <1>15
  <2>2. \A j \in Sockets : ss[j].client \in {"connecting", "open"} => sess[ss[j].key].cur = j
    BY <1>11 DEF Good, Owned
  <2>3. Owned(sess, ss)
    BY <2>1, <2>2 DEF Good, Owned
  <2> QED
    BY <1>7, <1>8, <1>9, <1>15, <2>3 DEF Good, Reserved
<1> QED
  BY <1>7, <1>13, <1>14, <1>15 DEF SeesClose

\* tmux ends with all the views.
LEMMA TmuxDiesGood ==
  ASSUME Good(sess, sock, leaked), TmuxDies
  PROVE  Good(sess', sock', leaked)
<1> DEFINE ptys == {k \in Sockets : Here(k, "ready")}
<1>1. \A k \in Sockets : sock[k] \in SockType /\ Wire(sock[k])
  BY DEF Good
<1>2. ASSUME NEW k \in Sockets
      PROVE  sock'[k] \in SockType /\ Wire(sock'[k]) /\ Eases(sock[k], sock'[k]) /\ sock'[k].view = 0
  <2>1. PICK s : s = IF k \in ptys THEN Ending(sock, k)[k] ELSE sock[k]
    OBVIOUS
  <2>2. s \in SockType /\ Wire(s) /\ Eases(sock[k], s)
    BY <1>1, <2>1, EndingHere DEF Eases
  <2>3. PICK r : r = [s EXCEPT !.view = 0]
    OBVIOUS
  <2>4. r \in SockType /\ Wire(r) /\ Eases(s, r) /\ r.view = 0
    BY <2>2, <2>3, UnviewedIs
  <2>5. sock'[k] = r
    BY <2>1, <2>3 DEF TmuxDies
  <2> QED
    BY <2>2, <2>4, <2>5 DEF Eases
<1>3. sock' \in [Sockets -> SockType] /\ Collected(sock', leaked)
  <2>1. sock' = [k \in Sockets |-> sock'[k]]
    BY DEF TmuxDies
  <2> QED
    BY <1>2, <2>1 DEF Collected
<1>4. Good(sess, sock', leaked)
  BY <1>2, <1>3, GoodEased
<1>5. ASSUME NEW i \in TabSlots
      PROVE  /\ sess'[i] \in SessType /\ sess'[i].cur = sess[i].cur /\ sess'[i].old = sess[i].old
             /\ sess'[i].state = "connecting" => sess[i].state = "connecting"
  <2>1. sess'[i] = sess[i] \/ sess'[i] = [sess[i] EXCEPT !.state = "exited"]
    BY DEF TmuxDies
  <2> QED
    BY <2>1 DEF Good, SessType
<1>6. sess' \in [TabSlots -> SessType]
  <2>1. sess' = [i \in TabSlots |-> sess'[i]]
    BY DEF TmuxDies
  <2> QED
    BY <1>5, <2>1
<1>7. \A k \in Sockets : sock'[k].key \in TabSlots
  BY <1>2 DEF SockType
<1>8. Owned(sess', sock')
  BY <1>4, <1>5, <1>7 DEF Good, Owned
<1>9. OldsOf(sess') = OldsOf(sess)
  BY <1>5 DEF OldsOf
<1> QED
  BY <1>4, <1>6, <1>8, <1>9 DEF Good, Reserved

\* A restart of the daemon leaves behind only views that are counted as left behind.
LEMMA TermDaemonGood ==
  ASSUME Good(sess, sock, leaked), TermDaemonRestarts
  PROVE  Good(sess', sock', leaked')
<1> DEFINE ended == {k \in Sockets : sock[k].server \in {"resolve", "view", "select", "ready"}}
<1>1. \A k \in Sockets : sock[k] \in SockType /\ Wire(sock[k])
  BY DEF Good
<1>2. leaked' = leaked \cup {k \in ended : sock[k].view # 0}
  BY DEF TermDaemonRestarts
<1>3. ASSUME NEW k \in Sockets
      PROVE  /\ sock'[k] \in SockType /\ Wire(sock'[k]) /\ Eases(sock[k], sock'[k])
             /\ sock'[k].server = "over" => sock'[k].view = 0 \/ k \in leaked'
  <2>1. CASE k \in ended
    <3>1. PICK s : s = Ending(sock, k)[k]
      OBVIOUS
    <3>2. s \in SockType /\ Wire(s) /\ Eases(sock[k], s) /\ s.server = sock[k].server /\ s.view = sock[k].view
      BY <3>1, EndingHere
    <3>3. PICK r : r = [s EXCEPT !.server = "over"]
      OBVIOUS
    <3>4. r \in SockType /\ Wire(r) /\ Eases(s, r) /\ r.view = s.view
      BY <2>1, <3>2, <3>3, OrphanIs
    <3>5. sock'[k] = r
      BY <2>1, <3>1, <3>3 DEF TermDaemonRestarts
    <3> QED
      BY <1>2, <2>1, <3>2, <3>4, <3>5 DEF Eases
  <2>2. CASE k \notin ended
    <3>1. sock'[k] = sock[k]
      BY <2>2 DEF TermDaemonRestarts
    <3> QED
      BY <1>1, <1>2, <3>1 DEF Eases, Good, Collected
  <2> QED
    BY <2>1, <2>2
<1>4. sock' \in [Sockets -> SockType] /\ Collected(sock', leaked')
  <2>1. sock' = [k \in Sockets |-> sock'[k]]
    BY DEF TermDaemonRestarts
  <2> QED
    BY <1>3, <2>1 DEF Collected
<1>5. Good(sess, sock', leaked')
  BY <1>3, <1>4, GoodEased
<1> QED
  BY <1>5 DEF TermDaemonRestarts

\* The connections and the sessions are kept good.
LEMMA GoodStep ==
  ASSUME Plain, Good(sess, sock, leaked), [TerminalNext]_termVars
  PROVE  Good(sess', sock', leaked')
<1>1. CASE Mounts
  BY <1>1, MountsGood DEF Mounts
<1>2. CASE Unmounts \/ ResumeAsks \/ ResumeHeals \/ ReadsTabs \/ Archive \/ UNCHANGED termVars
  <2>1. sess' = sess /\ sock' = sock /\ leaked' = leaked
    BY <1>2 DEF Unmounts, ResumeAsks, ResumeHeals, ReadsTabs, Archive, termVars
  <2> QED
    BY <2>1
<1>3. CASE ResumeReconnects
  <2>1. recovery.key \in TabSlots
    BY DEF Plain
  <2> QED
    BY <1>3, <2>1, GoodReconnect DEF ResumeReconnects
<1>4. CASE HearsArchived
  BY <1>4, ArchivedGood DEF HearsArchived
<1>5. ASSUME NEW i \in TabSlots, Reconnects(i)
      PROVE  Good(sess', sock', leaked')
  BY <1>5, GoodReconnect DEF Reconnects
<1>6. ASSUME NEW k \in Sockets, Served(k)
      PROVE  Good(sess', sock', leaked')
  <2>1. leaked' = leaked
    BY <1>6 DEF Served, Accepts, Resolves, MakesView, AttachesView, Arrives, HearsClose
  <2> QED
    BY <1>6, <2>1, ServedGood
<1>7. ASSUME NEW k \in Sockets, SeesClose(k)
      PROVE  Good(sess', sock', leaked')
  BY <1>7, ClosedGood DEF SeesClose
<1>8. ASSUME NEW k \in Sockets, Types(k)
      PROVE  Good(sess', sock', leaked')
  <2>1. sock[k] \in SockType /\ Wire(sock[k]) /\ sock[k].client = "open" /\ sock[k].sent < MaxKeys
    BY <1>8 DEF Types, Good
  <2>2. PICK r : r = [sock[k] EXCEPT !.sent = sock[k].sent + 1]
    OBVIOUS
  <2>3. r \in SockType /\ Wire(r) /\ Eases(sock[k], r) /\ r.server = sock[k].server /\ r.view = sock[k].view
    BY <2>1, <2>2, TypedIs
  <2>4. r.server = "over" => r.view = 0 \/ k \in leaked
    BY <2>3 DEF Good, Collected
  <2>5. Good(sess, [sock EXCEPT ![k] = r], leaked)
    BY <2>3, <2>4, GoodServe
  <2>6. sock' = [sock EXCEPT ![k] = r] /\ sess' = sess /\ leaked' = leaked
    BY <1>8, <2>2 DEF Types
  <2> QED
    BY <2>5, <2>6
<1>9. ASSUME NEW k \in Sockets, Breaks(k)
      PROVE  Good(sess', sock', leaked')
  <2>1. Good(sess, Ending(sock, k), leaked)
    BY TermConstants, GoodEnding
  <2> QED
    BY <1>9, <2>1 DEF Breaks
<1>10. CASE TmuxDies
  BY <1>10, TmuxDiesGood DEF TmuxDies
<1>11. CASE TermDaemonRestarts
  BY <1>11, TermDaemonGood
<1> QED
  BY <1>1, <1>2, <1>3, <1>4, <1>5, <1>6, <1>7, <1>8, <1>9, <1>10, <1>11 DEF TerminalNext

\* And so are the types of the rest.
LEMMA PlainStep ==
  ASSUME Plain, Good(sess, sock, leaked), [TerminalNext]_termVars
  PROVE  Plain'
<1> USE DEF Plain
<1>1. Healed => group' \in 0 .. MaxGroups /\ groups' \in 1 .. MaxGroups /\ at' \in TabSlots /\ archived' \in BOOLEAN
  BY TermConstants DEF Healed, tmux
<1>2. Mishap => mishaps' \in 0 .. MaxMishaps
  BY TermConstants DEF Mishap
<1>3. CASE Mounts \/ Unmounts \/ HearsArchived
  BY <1>3 DEF Mounts, Unmounts, HearsArchived, tmux
<1>4. CASE ResumeAsks
  <2>1. mounted \in TabSlots
    BY <1>4 DEF ResumeAsks
  <2>2. recovery' \in [step : {"off", "ask", "refresh", "reconnect"}, key : TabSlots]
    BY <1>4, <2>1 DEF ResumeAsks
  <2> QED
    BY <1>4, <2>2 DEF ResumeAsks, tmux
<1>5. CASE ResumeHeals
  <2>1. PICK p \in {"off", "refresh"} : recovery' = [recovery EXCEPT !.step = p]
    BY <1>5 DEF ResumeHeals
  <2>2. recovery' \in [step : {"off", "ask", "refresh", "reconnect"}, key : TabSlots]
    BY <2>1
  <2> QED
    BY <1>1, <1>5, <2>2 DEF ResumeHeals
<1>6. CASE ReadsTabs
  <2>1. PICK p \in {"off", "ask", "refresh", "reconnect"} : recovery' = [recovery EXCEPT !.step = p]
    BY <1>6 DEF ReadsTabs
  <2>2. recovery' \in [step : {"off", "ask", "refresh", "reconnect"}, key : TabSlots]
    BY <2>1
  <2> QED
    BY <1>6, <2>2 DEF ReadsTabs, tmux
<1>7. CASE ResumeReconnects
  <2>1. recovery' \in [step : {"off", "ask", "refresh", "reconnect"}, key : TabSlots]
    BY <1>7 DEF ResumeReconnects
  <2> QED
    BY <1>7, <2>1 DEF ResumeReconnects, tmux
<1>8. ASSUME NEW i \in TabSlots, Reconnects(i)
      PROVE  Plain'
  BY <1>8 DEF Reconnects, tmux, view
<1>9. ASSUME NEW k \in Sockets, Served(k)
      PROVE  Plain'
  <2>1. CASE Accepts(k) \/ Arrives(k) \/ HearsClose(k)
    BY <2>1 DEF Accepts, Arrives, HearsClose, tmux, view
  <2>2. CASE Resolves(k)
    BY <1>1, <2>2 DEF Resolves, view
  <2>4. CASE MakesView(k)
    <3>1. mishaps' \in 0 .. MaxMishaps /\ groups' \in 1 .. MaxGroups
      BY <1>2, <2>4, TermConstants DEF MakesView
    <3> QED
      BY <2>4, <3>1 DEF MakesView, view
  <2>3. CASE AttachesView(k)
    <3>1. mishaps' \in 0 .. MaxMishaps
      BY <1>2, <2>3 DEF AttachesView
    <3> QED
      BY <2>3, <3>1 DEF AttachesView, tmux, view
  <2> QED
    BY <1>9, <2>1, <2>2, <2>3, <2>4 DEF Served
<1>10. ASSUME NEW k \in Sockets, SeesClose(k) \/ Types(k)
       PROVE  Plain'
  BY <1>10 DEF SeesClose, Types, tmux, view
<1>11. ASSUME NEW k \in Sockets, Breaks(k)
       PROVE  Plain'
  BY <1>2, <1>11 DEF Breaks, tmux, view
<1>12. CASE Archive
  BY <1>12, TermConstants DEF Archive, view
<1>13. CASE TmuxDies
  BY <1>2, <1>13, TermConstants DEF TmuxDies, view
<1>14. CASE TermDaemonRestarts
  BY <1>2, <1>14 DEF TermDaemonRestarts, tmux, view
<1>15. CASE UNCHANGED termVars
  BY <1>15 DEF termVars
<1> QED
  BY <1>3, <1>4, <1>5, <1>6, <1>7, <1>8, <1>9, <1>10, <1>11, <1>12, <1>13, <1>14, <1>15 DEF TerminalNext

\* The view of a tab that nobody has looked at.
LEMMA TerminalStarts ==
  ASSUME TerminalInit
  PROVE  TerminalInv
<1>1. Plain
  <2>1. 1 \in 0 .. MaxGroups /\ 1 \in 1 .. MaxGroups /\ 0 \in 0 .. MaxMishaps
    BY TermConstants
  <2>2. recovery \in [step : {"off", "ask", "refresh", "reconnect"}, key : TabSlots]
    BY TermConstants DEF TerminalInit
  <2> QED
    BY <2>1, <2>2, TermConstants DEF TerminalInit, Plain
<1>2. /\ sess \in [TabSlots -> SessType] /\ \A i \in TabSlots : sess[i] = NoSession
      /\ sock \in [Sockets -> SockType] /\ \A k \in Sockets : sock[k] = NoSocket
  BY NoneYet DEF TerminalInit
<1>3. Owned(sess, sock) /\ Collected(sock, leaked)
  BY <1>2, NoneYet DEF Owned, Collected
<1>4. Reserved(sess, sock)
  <2>1. OldsOf(sess) = {}
    BY <1>2, NoneYet DEF OldsOf
  <2> QED
    BY <2>1, FewSockets, FS_EmptySet DEF Reserved
<1> QED
  BY <1>1, <1>2, <1>3, <1>4, NoneYet DEF TerminalInv, Good

\* What the invariant says of the terminal.
LEMMA TerminalShows ==
  ASSUME TerminalInv
  PROVE  TerminalKeeps
<1> USE DEF TerminalInv
<1>1. TerminalTypeOK
  BY DEF TerminalTypeOK, Plain, Good, SessType, SockType
<1>2. OneSocket
  <2> SUFFICES ASSUME NEW i \in TabSlots, NEW O,
                      O = {k \in Sockets : sock[k].key = i /\ sock[k].client \in {"connecting", "open"}}
               PROVE  Cardinality(O) <= 1 /\ O \subseteq {sess[i].cur}
    BY DEF OneSocket
  <2>1. O \subseteq {sess[i].cur}
    BY DEF Good, Owned
  <2>2. IsFiniteSet({sess[i].cur}) /\ Cardinality({sess[i].cur}) = 1
    BY FS_Singleton
  <2> QED
    BY <2>1, <2>2, FS_Subset
<1>3. KeysInOrder
  <2> SUFFICES ASSUME NEW k \in Sockets, NEW q, q = sock[k].got \o sock[k].pend
               PROVE  q = [n \in 1 .. Len(q) |-> n]
    BY DEF KeysInOrder
  <2>1. /\ sock[k].got \in Seq(1 .. MaxKeys) /\ sock[k].pend \in Seq(1 .. MaxKeys) /\ Wire(sock[k])
        /\ sock[k].came \in Nat
    BY TermConstants DEF Good, SockType
  <2>2. q = sock[k].got \/ q = sock[k].pend
    BY <2>1, ConcatEmptySeq DEF Wire
  <2>3. Counted(q, sock[k].came)
    <3>1. CASE sock[k].got = <<>> /\ Counted(sock[k].pend, sock[k].came)
      BY <2>1, <3>1, ConcatEmptySeq
    <3>2. CASE sock[k].pend = <<>> /\ Counted(sock[k].got, sock[k].came)
      BY <2>1, <3>2, ConcatEmptySeq
    <3> QED
      BY <2>1, <3>1, <3>2 DEF Wire
  <2>4. Len(q) = sock[k].came
    BY <2>1, <2>2, <2>3 DEF Counted
  <2> QED
    BY <2>3, <2>4 DEF Counted
<1>4. ViewsCollected
  BY DEF ViewsCollected, Good, Collected, Wire
<1>5. ConnectingIsUnderWay
  BY DEF ConnectingIsUnderWay, Good, Owned
<1> QED
  BY <1>1, <1>2, <1>3, <1>4, <1>5 DEF TerminalKeeps

\* However reconnects, resumes, mounts, closes, failures of tmux and of the network, and restarts
\* of the daemon overlap: a tab has one open connection at most, its keys reach the PTY in order
\* and none is lost, a handler that is done leaves no view behind but over the end of the daemon,
\* and a terminal that says it connects has a connection that will open or close; for any number
\* of connections, keys and failures.
THEOREM TerminalIsKept == TerminalSpec => []TerminalKeeps
<1>1. TerminalInit => TerminalInv
  BY TerminalStarts
<1>2. TerminalInv /\ [TerminalNext]_termVars => TerminalInv'
  BY GoodStep, PlainStep DEF TerminalInv
<1>3. TerminalInv => TerminalKeeps
  BY TerminalShows
<1> QED
  BY <1>1, <1>2, <1>3, PTL DEF TerminalSpec

-----------------------------------------------------------------------------
(* What the clients build on the event stream.                               *)

\* An item was opened, or acknowledged, by one of the first v events.
OpenedBy(v) == {log[n].item : n \in Of(v, "awaiting")}
Acked(v) == {log[n].item : n \in Of(v, "acked")}

RequestType == [kind : {"boot", "sync", "tabs", "ack", "wait"}, item : Nat, at : Nat, done : BOOLEAN]

\* The types; and of a request under way, how old its answer may be.
StoresTyped ==
  /\ log \in Seq([kind : Kinds, item : Nat]) /\ \A n \in 1 .. Now : log[n].item <= Now
  /\ phase \in {"off", "boot", "online"}
  /\ told \in 0 .. Now /\ began \in 0 .. Now /\ lists \in 0 .. Now /\ seen \in 0 .. Now
  /\ items \subseteq OpenedBy(Now)
  /\ owed \in [inbox : Nat, lists : Nat]
  /\ IsABag(flights) /\ InFlight \subseteq RequestType
  /\ \A f \in InFlight : f.at <= Now

\* Acknowledgements are of items that were opened; and one that was answered is in the log.
AcksMeant ==
  \A f \in InFlight : f.kind = "ack" =>
    f.item \in OpenedBy(Now) /\ (f.done => f.item \in Acked(Now))

\* The snapshots of a window are no older than its session, and while it boots there is one.
Boots == {f \in InFlight : f.kind = "boot"}
BootsFit ==
  /\ phase = "off" => Boots = {}
  /\ phase = "boot" => \A f, g \in Boots : f = g /\ flights[f] = 1
  /\ \A f \in Boots : f.done => f.at >= began

\* An answer is to come that knows all that happened by v.
Comes(kind, v) == \E f \in InFlight : f.kind = kind /\ (~f.done \/ f.at >= v)

\* A wait that streams has an answer to come, or had one that is as new as what it was told.
WaitsRight ==
  /\ waiter \notin {"stream", "ended"} => seen = 0
  /\ waiter = "stream" => Comes("wait", seen) \/ \E v \in seen .. Now : ~Met(v)

\* The lists know what the window was told of, or an answer that knows it is to come.
ListsRight ==
  focus = "lists" => \A n \in 1 .. told :
    n > owed.lists /\ log[n].kind # "acked" => n <= lists \/ Comes("tabs", n)

\* No item is left that the window was told was acknowledged.
NoneStale == \A n \in 1 .. told : log[n].kind = "acked" => log[n].item \notin items
\* What was there when the session began, or what the window was told of, is there or comes.
NoneMissing ==
  phase = "online" => \A n \in 1 .. Now :
    /\ n <= told \/ n <= began
    /\ log[n].kind = "awaiting" /\ log[n].item \in OpenAt(Now) /\ Unarchived(log[n].item)
    => log[n].item \in items \/ Comes("sync", n)
InboxRight == focus = "inbox" /\ owed.inbox = 0 => NoneStale /\ NoneMissing

StoresInv == StoresTyped /\ AcksMeant /\ BootsFit /\ WaitsRight /\ ListsRight /\ InboxRight

-----------------------------------------------------------------------------
\* What an exchange of requests does to those under way: one that is answered is there once less.
Exchanged(B, F, R) == B (-) SetToBag(F) (+) SetToBag(R)
LEMMA ExchangeIs ==
  ASSUME NEW B, IsABag(B), NEW F, F \subseteq DOMAIN B, NEW R
  PROVE  /\ IsABag(Exchanged(B, F, R))
         /\ DOMAIN Exchanged(B, F, R) \subseteq DOMAIN B \cup R
         /\ R \subseteq DOMAIN Exchanged(B, F, R)
         /\ DOMAIN B \ F \subseteq DOMAIN Exchanged(B, F, R)
         /\ \A e \in F \ R : B[e] = 1 => e \notin DOMAIN Exchanged(B, F, R)
         /\ \A e \in R : e \notin DOMAIN B => Exchanged(B, F, R)[e] = 1
         /\ \A e \in DOMAIN Exchanged(B, F, R) \ R : B[e] = 1 => Exchanged(B, F, R)[e] = 1
<1>1. PICK C : C = SetToBag(F)
  OBVIOUS
<1>2. DOMAIN C = F /\ \A e \in F : C[e] = 1
  BY <1>1 DEF SetToBag
<1>3. PICK D : D = SetToBag(R)
  OBVIOUS
<1>4. DOMAIN D = R /\ \A e \in R : D[e] = 1
  BY <1>3 DEF SetToBag
<1>5. PICK E : E = [e \in DOMAIN B |-> IF e \in DOMAIN C THEN B[e] - C[e] ELSE B[e]]
  OBVIOUS
<1>6. PICK G : G = B (-) C
  OBVIOUS
<1>7. G = [e \in {d \in DOMAIN E : E[d] > 0} |-> E[e]]
  BY <1>5, <1>6 DEF (-)
<1>8. PICK H : H = G (+) D
  OBVIOUS
<1>9. H = [e \in DOMAIN G \cup DOMAIN D |->
             (IF e \in DOMAIN G THEN G[e] ELSE 0) + (IF e \in DOMAIN D THEN D[e] ELSE 0)]
  BY <1>8 DEF (+)
<1>10. \A e \in DOMAIN B : B[e] \in Nat /\ B[e] > 0
  BY DEF IsABag
<1>11. \A e \in DOMAIN B : E[e] = IF e \in F THEN B[e] - 1 ELSE B[e]
  BY <1>2, <1>5
<1>12. DOMAIN E = DOMAIN B /\ \A e \in DOMAIN B : E[e] \in Nat
  BY <1>5, <1>10, <1>11
<1>13. /\ DOMAIN G = {d \in DOMAIN B : E[d] > 0}
       /\ \A e \in DOMAIN G : G[e] = E[e] /\ G[e] \in Nat /\ G[e] > 0
  BY <1>7, <1>12
<1>14. DOMAIN B \ F \subseteq DOMAIN G
  BY <1>10, <1>11, <1>13
<1>15. \A e \in F : B[e] = 1 => e \notin DOMAIN G
  BY <1>11, <1>13
<1>16. DOMAIN H = DOMAIN G \cup R
  BY <1>4, <1>9
<1>17. \A e \in DOMAIN H : H[e] = (IF e \in DOMAIN G THEN G[e] ELSE 0) + (IF e \in R THEN 1 ELSE 0)
  BY <1>4, <1>9
<1>18. \A e \in DOMAIN H : H[e] \in Nat /\ H[e] > 0
  BY <1>13, <1>16, <1>17
<1>19. IsABag(H)
  <2>1. H = [e \in DOMAIN H |-> H[e]]
    BY <1>9
  <2> QED
    BY <1>18, <2>1 DEF IsABag
<1>20. \A e \in R : e \notin DOMAIN B => H[e] = 1
  BY <1>13, <1>16, <1>17
<1>21. \A e \in DOMAIN H \ R : B[e] = 1 => H[e] = 1
  BY <1>10, <1>11, <1>13, <1>16, <1>17
<1>22. H = Exchanged(B, F, R)
  BY <1>1, <1>3, <1>6, <1>8 DEF Exchanged
<1> QED
  BY <1>13, <1>14, <1>15, <1>16, <1>19, <1>20, <1>21, <1>22

\* The requests under way, after an exchange.
Moves(F, R) ==
  /\ IsABag(flights') /\ InFlight' \subseteq InFlight \cup R
  /\ R \subseteq InFlight' /\ InFlight \ F \subseteq InFlight'
  /\ \A e \in F \ R : flights[e] = 1 => e \notin InFlight'
  /\ \A e \in R : e \notin InFlight => flights'[e] = 1
  /\ \A e \in InFlight' \ R : flights[e] = 1 => flights'[e] = 1

LEMMA RequestsMove ==
  ASSUME StoresTyped, NEW F, F \subseteq InFlight, NEW R, Exchange(F, R)
  PROVE  Moves(F, R)
<1>1. InFlight = DOMAIN flights /\ InFlight' = DOMAIN flights'
  BY DEF InFlight, BagToSet
<1>2. PICK B : B = flights
  OBVIOUS
<1>3. PICK C : C = flights'
  OBVIOUS
<1>4. C = Exchanged(B, F, R)
  BY <1>2, <1>3 DEF Exchange, Exchanged
<1>5. IsABag(B) /\ F \subseteq DOMAIN B
  BY <1>1, <1>2 DEF StoresTyped
<1>6. /\ IsABag(Exchanged(B, F, R))
      /\ DOMAIN Exchanged(B, F, R) \subseteq DOMAIN B \cup R
      /\ R \subseteq DOMAIN Exchanged(B, F, R)
      /\ DOMAIN B \ F \subseteq DOMAIN Exchanged(B, F, R)
      /\ \A e \in F \ R : B[e] = 1 => e \notin DOMAIN Exchanged(B, F, R)
      /\ \A e \in R : e \notin DOMAIN B => Exchanged(B, F, R)[e] = 1
      /\ \A e \in DOMAIN Exchanged(B, F, R) \ R : B[e] = 1 => Exchanged(B, F, R)[e] = 1
  BY ONLY <1>5, ExchangeIs, Zenon
<1>7. /\ IsABag(C) /\ DOMAIN C \subseteq DOMAIN B \cup R
      /\ R \subseteq DOMAIN C /\ DOMAIN B \ F \subseteq DOMAIN C
      /\ \A e \in F \ R : B[e] = 1 => e \notin DOMAIN C
      /\ \A e \in R : e \notin DOMAIN B => C[e] = 1
      /\ \A e \in DOMAIN C \ R : B[e] = 1 => C[e] = 1
  BY ONLY <1>4, <1>6, Zenon
<1> QED
  BY ONLY <1>1, <1>2, <1>3, <1>7 DEF Moves

\* A set of numbers has a least one, and one of numbers up to n a greatest one.
LEMMA Least ==
  ASSUME NEW T, T \subseteq Nat, T # {}
  PROVE  \E x \in T : \A y \in T : x <= y
<1> DEFINE R == OpToRel(<, Nat)
<1>1. IsWellFoundedOn(R, Nat)
  BY NatLessThanWellFounded, Zenon
<1>2. \E x \in T : \A y \in T : <<y, x>> \notin R
  <2>1. T \subseteq Nat /\ T # {}
    OBVIOUS
  <2> HIDE DEF R
  <2> QED
    BY <1>1, <2>1, WFMin
<1>3. PICK x \in T : \A y \in T : <<y, x>> \notin R
  BY <1>2
<1>4. ASSUME NEW y \in T
      PROVE  x <= y
  <2>1. ~(y < x)
    <3> SUFFICES ASSUME y < x PROVE FALSE
      OBVIOUS
    <3>1. <<y, x>> \in R
      BY DEF OpToRel
    <3> QED
      BY <1>3, <3>1
  <2>2. x \in Nat /\ y \in Nat
    OBVIOUS
  <2> QED
    BY <2>1, <2>2
<1> QED
  BY <1>4

LEMMA MaxIsGreatest ==
  ASSUME NEW n \in Nat, NEW S, S \subseteq 0 .. n, S # {}
  PROVE  Max(S) \in S /\ \A y \in S : y <= Max(S)
<1>1. PICK T : T = {k \in 0 .. n : n - k \in S}
  OBVIOUS
<1>2. T \subseteq Nat
  BY <1>1
<1>3. \A y \in S : n - y \in T
  <2> SUFFICES ASSUME NEW y \in S PROVE n - y \in T
    OBVIOUS
  <2>1. y \in 0 .. n
    OBVIOUS
  <2>2. n - y \in 0 .. n /\ n - (n - y) = y
    BY <2>1
  <2> QED
    BY <1>1, <2>2
<1>4. T # {}
  BY <1>3
<1>5. PICK x \in T : \A y \in T : x <= y
  BY <1>2, <1>4, Least
<1>6. n - x \in S /\ x \in 0 .. n
  BY <1>1
<1>7. \A y \in S : n - x >= y
  <2> SUFFICES ASSUME NEW y \in S PROVE n - x >= y
    OBVIOUS
  <2>1. y \in 0 .. n /\ x <= n - y
    BY <1>3, <1>5
  <2> QED
    BY <1>6, <2>1
<1>8. Max(S) \in S /\ \A y \in S : Max(S) >= y
  BY <1>6, <1>7 DEF Max
<1>9. \A y \in S : y \in Int
  OBVIOUS
<1> QED
  BY <1>8, <1>9

-----------------------------------------------------------------------------
\* The log grows at its end.
Entry == [kind : Kinds, item : Nat]
Grows ==
  /\ log' \in Seq(Entry) /\ Len(log) <= Len(log')
  /\ \A n \in 1 .. Len(log') : log'[n].item <= Len(log')
  /\ \A n \in 1 .. Len(log) : log'[n] = log[n]

LEMMA EmitsGrow ==
  ASSUME StoresTyped, NEW events \in Seq(Entry), Emit(events),
         \A n \in 1 .. Len(events) : events[n].item <= Len(log) + Len(events)
  PROVE  /\ Grows /\ Now' = Now + Len(events)
         /\ \A n \in 1 .. Len(events) : log'[Now + n] = events[n]
<1>1. log \in Seq(Entry) /\ Len(log) \in Nat /\ Len(events) \in Nat
  BY DEF StoresTyped, Entry
<1>2. log' = log \o events
  BY DEF Emit
<1>3. /\ log' \in Seq(Entry) /\ Len(log') = Len(log) + Len(events)
      /\ \A n \in 1 .. Len(log) + Len(events) : log'[n] = IF n <= Len(log) THEN log[n] ELSE events[n - Len(log)]
  BY <1>1, <1>2, ConcatProperties
<1>4. \A n \in 1 .. Len(log) : log'[n] = log[n]
  BY <1>1, <1>3
<1>5. ASSUME NEW n \in 1 .. Len(events)
      PROVE  log'[Len(log) + n] = events[n]
  <2>1. Len(log) + n \in 1 .. Len(log) + Len(events) /\ ~(Len(log) + n <= Len(log)) /\ Len(log) + n - Len(log) = n
    BY <1>1
  <2> QED
    BY <1>3, <2>1
<1>6. ASSUME NEW n \in 1 .. Len(log')
      PROVE  log'[n].item <= Len(log')
  <2>1. CASE n <= Len(log)
    <3>1. n \in 1 .. Len(log)
      BY <1>1, <1>3, <2>1
    <3>2. log'[n] = log[n] /\ log[n].item <= Len(log)
      BY <1>4, <3>1 DEF StoresTyped, Now
    <3>3. log[n] \in Entry
      BY <1>1, <3>1, ElementOfSeq
    <3>4. log[n].item \in Nat
      BY <3>3 DEF Entry
    <3> QED
      BY <1>1, <1>3, <3>2, <3>4
  <2>2. CASE ~(n <= Len(log))
    <3>1. n - Len(log) \in 1 .. Len(events)
      BY <1>1, <1>3, <2>2
    <3>2. log'[n] = events[n - Len(log)]
      BY <1>1, <1>3, <2>2
    <3> QED
      BY <1>3, <3>1, <3>2
  <2> QED
    BY <2>1, <2>2
<1>7. Len(log) <= Len(log')
  BY <1>1, <1>3
<1> QED
  BY <1>3, <1>4, <1>5, <1>6, <1>7 DEF Grows, Now

\* What the first events of the log say does not change.
LEMMA PastStands ==
  ASSUME StoresTyped, Grows
  PROVE  /\ Now \in Nat /\ Now' \in Nat /\ Now <= Now'
         /\ \A v \in 0 .. Now : v \in 0 .. Now' /\ OpenAt(v)' = OpenAt(v) /\ Met(v)' = Met(v)
         /\ OpenedBy(Now) \subseteq OpenedBy(Now)' /\ Acked(Now) \subseteq Acked(Now)'
         /\ \A i : i \in OpenedBy(Now) /\ i \in OpenAt(Now)' => i \in OpenAt(Now)
         /\ \A i : Unarchived(i)' => Unarchived(i)
<1>1. /\ Now \in Nat /\ Now' \in Nat /\ Now <= Now' /\ \A n \in 1 .. Now : log'[n] = log[n]
      /\ 1 .. Now \subseteq 1 .. Now'
  <2>1. log \in Seq(Entry) /\ log' \in Seq(Entry)
    BY DEF StoresTyped, Grows, Entry
  <2>2. Len(log) \in Nat /\ Len(log') \in Nat
    BY <2>1
  <2>3. Len(log) <= Len(log') /\ \A n \in 1 .. Len(log) : log'[n] = log[n]
    BY DEF Grows
  <2> QED
    BY ONLY <2>2, <2>3 DEF Now
<1>2. ASSUME NEW v \in 0 .. Now, NEW kind
      PROVE  Of(v, kind)' = Of(v, kind)
  <2>1. \A n \in 1 .. v : log'[n] = log[n]
    BY <1>1
  <2> QED
    BY <2>1 DEF Of
<1>3. ASSUME NEW v \in 0 .. Now
      PROVE  OpenAt(v)' = OpenAt(v)
  <2>1. Of(v, "awaiting")' = Of(v, "awaiting") /\ Of(v, "acked")' = Of(v, "acked")
    BY <1>2
  <2>2. \A n \in 1 .. v : log'[n] = log[n]
    BY <1>1
  <2>3. \A n \in Of(v, "awaiting") \cup Of(v, "acked") : log'[n] = log[n]
    BY <2>2 DEF Of
  <2> QED
    BY <2>1, <2>3 DEF OpenAt
<1>4. ASSUME NEW v \in 0 .. Now
      PROVE  StatusAt(v)' = StatusAt(v)
  <2>1. PICK S : S = Of(v, "awaiting") \cup Of(v, "working")
    OBVIOUS
  <2>2. (Of(v, "awaiting") \cup Of(v, "working"))' = S
    BY <1>2, <2>1
  <2>3. CASE S = {}
    BY <2>1, <2>2, <2>3 DEF StatusAt
  <2>4. CASE S # {}
    <3>1. S \subseteq 1 .. v
      BY <2>1 DEF Of
    <3>2. v \in Nat /\ 1 .. v \subseteq 0 .. v /\ 1 .. v \subseteq 1 .. Now
      BY <1>1
    <3>3. Max(S) \in S
      BY <2>4, <3>1, <3>2, MaxIsGreatest
    <3>4. log'[Max(S)] = log[Max(S)]
      BY <1>1, <3>1, <3>2, <3>3
    <3> QED
      BY <2>1, <2>2, <2>4, <3>4 DEF StatusAt
  <2> QED
    BY <2>3, <2>4
<1>5. \A v \in 0 .. Now : v \in 0 .. Now' /\ OpenAt(v)' = OpenAt(v) /\ Met(v)' = Met(v)
  BY <1>1, <1>3, <1>4 DEF Met
<1>6. \A kind : Of(Now, kind) \subseteq Of(Now, kind)' /\ \A n \in Of(Now, kind) : log'[n] = log[n]
  BY <1>1 DEF Of
<1>7. OpenedBy(Now) \subseteq OpenedBy(Now)' /\ Acked(Now) \subseteq Acked(Now)'
  BY <1>6 DEF OpenedBy, Acked
<1>8. OpenAt(Now) = OpenedBy(Now) \ Acked(Now) /\ OpenAt(Now)' = OpenedBy(Now)' \ Acked(Now)'
  BY DEF OpenAt, OpenedBy, Acked
<1>9. \A i : Unarchived(i)' => Unarchived(i)
  BY <1>6 DEF Unarchived
<1> QED
  BY <1>1, <1>5, <1>7, <1>8, <1>9

LEMMA StandsStill ==
  ASSUME StoresTyped, UNCHANGED log
  PROVE  Grows /\ Now' = Now
<1>1. log \in Seq(Entry) /\ \A n \in 1 .. Len(log) : log[n].item <= Len(log)
  BY DEF StoresTyped, Entry, Now
<1>2. Len(log) \in Nat /\ log' = log
  BY <1>1
<1>3. Grows
  BY ONLY <1>1, <1>2 DEF Grows
<1> QED
  BY <1>2, <1>3 DEF Now

LEMMA FlightsStay ==
  ASSUME StoresTyped, UNCHANGED flights
  PROVE  Moves({}, {})
BY DEF StoresTyped, Moves, InFlight

\* Of what kind an entry is, and how far a number of the window may be.
LEMMA TypesMeant ==
  ASSUME StoresTyped
  PROVE  /\ Now \in Nat /\ told \in Nat /\ told <= Now /\ began \in Nat /\ began <= Now
         /\ lists \in Nat /\ lists <= Now /\ seen \in Nat /\ seen <= Now
         /\ \A n \in 1 .. Now : log[n] \in Entry /\ log[n].item \in Nat /\ log[n].item <= Now
         /\ \A f \in InFlight : f \in RequestType /\ f.at \in Nat /\ f.at <= Now
         /\ owed.inbox \in Nat /\ owed.lists \in Nat
         /\ \A i \in OpenedBy(Now) : i \in Nat /\ i <= Now
<1>1. /\ log \in Seq(Entry) /\ told \in 0 .. Now /\ began \in 0 .. Now /\ lists \in 0 .. Now
      /\ seen \in 0 .. Now /\ owed \in [inbox : Nat, lists : Nat]
      /\ \A n \in 1 .. Now : log[n].item <= Now
      /\ InFlight \subseteq RequestType /\ \A f \in InFlight : f.at <= Now
  BY DEF StoresTyped, Entry
<1>2. Now \in Nat
  BY <1>1 DEF Now
<1>3. ASSUME NEW n \in 1 .. Now
      PROVE  log[n] \in Entry /\ log[n].item \in Nat
  <2>1. log[n] \in Entry
    BY <1>1 DEF Now
  <2> QED
    BY <2>1 DEF Entry
<1>4. \A f \in InFlight : f \in RequestType /\ f.at \in Nat /\ f.at <= Now
  BY <1>1 DEF RequestType
<1>5. \A i \in OpenedBy(Now) : i \in Nat /\ i <= Now
  BY <1>1, <1>3 DEF OpenedBy, Of
<1> QED
  BY <1>1, <1>2, <1>3, <1>4, <1>5

LEMMA TypedKept ==
  ASSUME StoresTyped, Grows, NEW F, NEW R, Moves(F, R),
         R \subseteq RequestType, \A f \in R : f.at <= Now',
         phase' \in {"off", "boot", "online"},
         told' \in 0 .. Now', began' \in 0 .. Now', lists' \in 0 .. Now', seen' \in 0 .. Now',
         items' \subseteq OpenedBy(Now)', owed' \in [inbox : Nat, lists : Nat]
  PROVE  StoresTyped'
<1>1. log' \in Seq([kind : Kinds, item : Nat]) /\ \A n \in 1 .. Now' : log'[n].item <= Now'
  BY DEF Grows, Entry, Now
<1>2. Now \in Nat /\ Now' \in Nat /\ Now <= Now'
  BY PastStands
<1>3. IsABag(flights') /\ InFlight' \subseteq RequestType
  BY DEF Moves, StoresTyped
<1>4. \A f \in InFlight' : f.at <= Now'
  <2> SUFFICES ASSUME NEW f \in InFlight' PROVE f.at <= Now'
    OBVIOUS
  <2>1. CASE f \in R
    BY <2>1
  <2>2. CASE f \notin R
    <3>1. f \in InFlight
      BY <2>2 DEF Moves
    <3>2. f.at \in Nat /\ f.at <= Now
      BY <3>1, TypesMeant
    <3> QED
      BY <1>2, <3>2
  <2> QED
    BY <2>1, <2>2
<1>5. RequestType' = RequestType /\ Kinds' = Kinds
  BY DEF RequestType, Kinds
<1> QED
  BY <1>1, <1>3, <1>4, <1>5 DEF StoresTyped

\* A request of a kind is only exchanged for a newer one.
Renews(F, R, kind) ==
  \A f \in F : f.kind = kind => \E g \in R : g.kind = kind /\ (~g.done \/ (g.at \in Nat /\ g.at >= Now))

\* An answer that was to come still is, when a request is only exchanged for a newer one.
LEMMA ComesKept ==
  ASSUME StoresTyped, NEW F, NEW R, Moves(F, R), NEW kind, NEW v \in 0 .. Now, Comes(kind, v),
         Renews(F, R, kind)
  PROVE  Comes(kind, v)'
<1>1. PICK f \in InFlight : f.kind = kind /\ (~f.done \/ f.at >= v)
  BY DEF Comes
<1>2. CASE f \in F
  <2>1. PICK g \in R : g.kind = kind /\ (~g.done \/ (g.at \in Nat /\ g.at >= Now))
    BY <1>1, <1>2 DEF Renews
  <2>2. g \in InFlight'
    BY DEF Moves
  <2>3. g.at \in Nat /\ g.at >= Now => g.at >= v
    BY TypesMeant
  <2> QED
    BY <2>1, <2>2, <2>3 DEF Comes
<1>3. CASE f \notin F
  <2>1. f \in InFlight'
    BY <1>3 DEF Moves
  <2> QED
    BY <1>1, <2>1 DEF Comes
<1> QED
  BY <1>2, <1>3

LEMMA AcksKept ==
  ASSUME StoresTyped, AcksMeant, Grows, NEW F, NEW R, Moves(F, R),
         \A f \in R : f.kind = "ack" => f.item \in OpenedBy(Now)' /\ (f.done => f.item \in Acked(Now)')
  PROVE  AcksMeant'
<1>1. OpenedBy(Now) \subseteq OpenedBy(Now)' /\ Acked(Now) \subseteq Acked(Now)'
  BY PastStands
<1>2. InFlight' \subseteq InFlight \cup R
  BY DEF Moves
<1> QED
  BY <1>1, <1>2 DEF AcksMeant

LEMMA BootsKept ==
  ASSUME BootsFit, NEW F, NEW R, Moves(F, R), \A f \in R : f.kind # "boot",
         phase' = phase, began' = began
  PROVE  BootsFit'
<1>1. \A f \in InFlight' : f.kind = "boot" => f \in InFlight /\ f \notin R /\ (flights[f] = 1 => flights'[f] = 1)
  BY DEF Moves
<1>2. Boots' = {f \in InFlight' : f.kind = "boot"} /\ Boots = {f \in InFlight : f.kind = "boot"}
  BY DEF Boots
<1>3. Boots' \subseteq Boots /\ \A f \in Boots' : flights[f] = 1 => flights'[f] = 1
  BY <1>1, <1>2
<1> QED
  BY <1>3 DEF BootsFit

LEMMA WaitsKept ==
  ASSUME StoresTyped, WaitsRight, Grows, NEW F, NEW R, Moves(F, R), Renews(F, R, "wait"), UNCHANGED waiting
  PROVE  WaitsRight'
<1>1. waiter' = waiter /\ seen' = seen
  BY DEF waiting
<1>2. /\ Now \in Nat /\ Now' \in Nat /\ Now <= Now' /\ seen \in Nat /\ seen <= Now
      /\ \A v \in 0 .. Now : Met(v)' = Met(v)
  BY PastStands, TypesMeant
<1>3. Comes("wait", seen) => Comes("wait", seen)'
  <2>1. PICK v : v = seen
    OBVIOUS
  <2>2. v \in 0 .. Now
    BY <1>2, <2>1
  <2>3. Comes("wait", v) => Comes("wait", v)'
    BY <2>2, ComesKept
  <2> QED
    BY <1>1, <2>1, <2>3 DEF Comes
<1>5. ASSUME NEW v \in seen .. Now, ~Met(v)
      PROVE  v \in seen' .. Now' /\ ~Met(v)'
  BY <1>1, <1>2, <1>5
<1> QED
  BY <1>1, <1>3, <1>5 DEF WaitsRight

LEMMA ListsKept ==
  ASSUME StoresTyped, ListsRight, Grows, NEW F, NEW R, Moves(F, R), Renews(F, R, "tabs"),
         focus' = focus, told' = told, lists' = lists, owed'.lists = owed.lists
  PROVE  ListsRight'
<1> SUFFICES ASSUME focus = "lists", NEW n \in 1 .. told, n > owed.lists, log'[n].kind # "acked"
             PROVE  n <= lists \/ Comes("tabs", n)'
  BY DEF ListsRight, Comes
<1>1. n \in 1 .. Now /\ n \in 0 .. Now
  BY TypesMeant
<1>2. log'[n] = log[n]
  BY <1>1 DEF Grows, Now
<1>3. n <= lists \/ Comes("tabs", n)
  BY <1>2 DEF ListsRight
<1> QED
  BY <1>1, <1>3, ComesKept

LEMMA InboxKept ==
  ASSUME StoresTyped, InboxRight, Grows, NEW F, NEW R, Moves(F, R), Renews(F, R, "sync"),
         focus' = focus, phase' = phase, told' = told, began' = began, items' = items,
         owed'.inbox = owed.inbox
  PROVE  InboxRight'
<1> SUFFICES ASSUME focus = "inbox", owed.inbox = 0
             PROVE  NoneStale' /\ NoneMissing'
  BY DEF InboxRight
<1>1. NoneStale /\ NoneMissing
  BY DEF InboxRight
<1>2. Now \in Nat /\ told \in Nat /\ told <= Now /\ began \in Nat /\ began <= Now
  BY TypesMeant
<1>3. \A n \in 1 .. Now : log'[n] = log[n]
  BY DEF Grows, Now
<1>4. NoneStale'
  BY <1>1, <1>2, <1>3 DEF NoneStale
<1>5. NoneMissing'
  <2>1. ASSUME phase = "online", NEW n \in 1 .. Now', n <= told \/ n <= began,
               log'[n].kind = "awaiting", NEW i, i = log'[n].item,
               i \in OpenAt(Now)', Unarchived(i)'
        PROVE  log'[n].item \in items \/ Comes("sync", n)'
    <3>1. n \in 1 .. Now /\ n \in 0 .. Now
      BY <1>2, <2>1
    <3>2. log'[n] = log[n]
      BY <1>3, <3>1
    <3>3. i \in OpenedBy(Now) /\ i = log[n].item
      BY <2>1, <3>1, <3>2 DEF OpenedBy, Of
    <3>4. i \in OpenAt(Now) /\ Unarchived(i)
      BY <2>1, <3>3, PastStands
    <3>5. log[n].item \in items \/ Comes("sync", n)
      BY <1>1, <2>1, <3>1, <3>2, <3>3, <3>4 DEF NoneMissing
    <3> QED
      BY <3>1, <3>2, <3>5, ComesKept
  <2> QED
    BY <2>1 DEF NoneMissing, Unarchived, Comes
<1> QED
  BY <1>4, <1>5

-----------------------------------------------------------------------------
(* Of the steps.                                                             *)

\* Of a store that has to be read again as of now nothing is asked until it is.
LEMMA OwesNow ==
  ASSUME StoresTyped, UNCHANGED <<log, told>>
  PROVE  /\ owed'.inbox = Now => InboxRight'
         /\ owed'.lists = Now => ListsRight'
<1>1. Now' = Now /\ Now \in Nat /\ told' = told /\ told <= Now /\ told \in Nat
  BY TypesMeant, StandsStill
<1>2. ASSUME owed'.inbox = Now PROVE InboxRight'
  <2> SUFFICES ASSUME owed'.inbox = 0 PROVE NoneStale' /\ NoneMissing'
    BY DEF InboxRight
  <2>1. Now = 0
    BY <1>2
  <2>2. 1 .. told' = {} /\ 1 .. Now' = {}
    BY <1>1, <2>1
  <2> QED
    BY <2>2 DEF NoneStale, NoneMissing
<1>3. ASSUME owed'.lists = Now PROVE ListsRight'
  <2>1. \A n \in 1 .. told' : ~(n > owed'.lists)
    BY <1>1, <1>3
  <2> QED
    BY <2>1 DEF ListsRight
<1> QED
  BY <1>2, <1>3

\* What the server does by itself only adds to the log.
LEMMA LogStep ==
  ASSUME StoresInv, Grows, UNCHANGED <<window, flights, waiting>>
  PROVE  StoresInv'
<1>1. StoresTyped /\ AcksMeant /\ BootsFit /\ WaitsRight /\ ListsRight /\ InboxRight
  BY DEF StoresInv
<1>2. /\ focus' = focus /\ phase' = phase /\ told' = told /\ began' = began /\ items' = items
      /\ lists' = lists /\ owed' = owed /\ flights' = flights /\ waiter' = waiter /\ seen' = seen
  BY DEF window, waiting
<1>3. Moves({}, {}) /\ \A kind : Renews({}, {}, kind)
  BY <1>1, <1>2, FlightsStay DEF Renews
<1>4. Now \in Nat /\ Now' \in Nat /\ Now <= Now' /\ OpenedBy(Now) \subseteq OpenedBy(Now)'
  BY <1>1, PastStands
<1>5. StoresTyped'
  <2>1. told' \in 0 .. Now' /\ began' \in 0 .. Now' /\ lists' \in 0 .. Now' /\ seen' \in 0 .. Now'
    BY <1>1, <1>2, <1>4, TypesMeant
  <2>2. items' \subseteq OpenedBy(Now)' /\ owed' \in [inbox : Nat, lists : Nat] /\ phase' \in {"off", "boot", "online"}
    BY <1>1, <1>2, <1>4 DEF StoresTyped
  <2> QED
    BY <1>1, <1>3, <2>1, <2>2, TypedKept
<1>6. AcksMeant'
  BY <1>1, <1>3, AcksKept
<1>7. BootsFit'
  BY <1>1, <1>2, <1>3, BootsKept
<1>8. WaitsRight'
  BY <1>1, <1>2, <1>3, WaitsKept DEF waiting
<1>9. ListsRight'
  BY <1>1, <1>2, <1>3, ListsKept
<1>10. InboxRight'
  BY <1>1, <1>2, <1>3, InboxKept
<1> QED
  BY <1>5, <1>6, <1>7, <1>8, <1>9, <1>10 DEF StoresInv

LEMMA KindsDiffer == "working" \in Kinds /\ "awaiting" \in Kinds /\ "finished" \in Kinds
                     /\ "acked" \in Kinds /\ "archived" \in Kinds
BY DEF Kinds

\* An event about an item there is, or may be, adds to the log.
LEMMA OneEvent ==
  ASSUME StoresTyped, NEW kind \in Kinds, NEW i \in Nat, i <= Now + 1, Emit(<<Event(kind, i)>>)
  PROVE  Grows /\ Now' = Now + 1 /\ log'[Now + 1] = Event(kind, i)
<1>1. PICK events : events = <<Event(kind, i)>>
  OBVIOUS
<1>2. Event(kind, i) \in Entry /\ Event(kind, i).item = i
  BY DEF Event, Entry
<1>3. events \in Seq(Entry) /\ Len(events) = 1 /\ events[1] = Event(kind, i)
  BY <1>1, <1>2
<1>4. \A n \in 1 .. Len(events) : events[n].item <= Len(log) + Len(events)
  BY <1>2, <1>3 DEF Now
<1>5. Emit(events)
  BY <1>1
<1>6. Grows /\ Now' = Now + Len(events) /\ \A n \in 1 .. Len(events) : log'[Now + n] = events[n]
  BY <1>3, <1>4, <1>5, EmitsGrow
<1> QED
  BY <1>3, <1>6

LEMMA TurnStartsKeep ==
  ASSUME StoresInv, TurnStarts
  PROVE  StoresInv'
<1>1. StoresTyped /\ Now \in Nat
  BY TypesMeant DEF StoresInv
<1>2. Emit(<<Event("working", 0)>>) /\ UNCHANGED <<window, flights, waiting>>
  BY DEF TurnStarts
<1>3. Grows
  BY <1>1, <1>2, OneEvent, KindsDiffer
<1> QED
  BY <1>2, <1>3, LogStep

LEMMA ArchivesKeep ==
  ASSUME StoresInv, Archives
  PROVE  StoresInv'
<1>1. StoresTyped /\ Now \in Nat
  BY TypesMeant DEF StoresInv
<1>2. Emit(<<Event("archived", 0)>>) /\ UNCHANGED <<window, flights, waiting>>
  BY DEF Archives
<1>3. Grows
  BY <1>1, <1>2, OneEvent, KindsDiffer
<1> QED
  BY <1>2, <1>3, LogStep

LEMMA TurnFinishesKeep ==
  ASSUME StoresInv, TurnFinishes
  PROVE  StoresInv'
<1>1. StoresTyped /\ Now \in Nat
  BY TypesMeant DEF StoresInv
<1>2. UNCHANGED <<window, flights, waiting>>
  BY DEF TurnFinishes
<1>3. CASE Emit(<<Event("awaiting", Now + 1)>>)
  <2>1. Now + 1 \in Nat /\ Now + 1 <= Now + 1
    BY <1>1
  <2>2. PICK i : i = Now + 1
    OBVIOUS
  <2>3. Emit(<<Event("awaiting", i)>>)
    BY <1>3, <2>2
  <2>4. Grows
    BY <1>1, <2>1, <2>2, <2>3, OneEvent, KindsDiffer
  <2> QED
    BY <1>2, <2>4, LogStep
<1>4. CASE Emit(<<Event("awaiting", Now + 2), Event("finished", 0)>>)
  <2>1. PICK a, b : a = Event("awaiting", Now + 2) /\ b = Event("finished", 0)
    OBVIOUS
  <2>2. a \in Entry /\ b \in Entry /\ a.item = Now + 2 /\ b.item = 0
    BY <1>1, <2>1, KindsDiffer DEF Event, Entry
  <2>3. PICK events : events = <<a, b>>
    OBVIOUS
  <2>4. events \in Seq(Entry) /\ Len(events) = 2 /\ events[1] = a /\ events[2] = b
    BY <2>2, <2>3
  <2>5. \A n \in 1 .. Len(events) : events[n].item <= Len(log) + Len(events)
    BY <1>1, <2>2, <2>4 DEF Now
  <2>6. Emit(events)
    BY <1>4, <2>1, <2>3
  <2>7. Grows
    BY <1>1, <2>4, <2>5, <2>6, EmitsGrow
  <2> QED
    BY <1>2, <2>7, LogStep
<1> QED
  BY <1>3, <1>4 DEF TurnFinishes

\* After an acknowledgement the item is acknowledged, whether or not it was before.
LEMMA Acknowledged ==
  ASSUME StoresTyped, NEW i \in OpenedBy(Now), Acknowledge(i)
  PROVE  Grows /\ i \in Acked(Now)'
<1>1. i \in Nat /\ i <= Now + 1 /\ Now \in Nat
  BY TypesMeant
<1>2. CASE i \in OpenAt(Now)
  <2>1. Emit(<<Event("acked", i)>>)
    BY <1>2 DEF Acknowledge
  <2>2. Grows /\ Now' = Now + 1 /\ log'[Now + 1] = Event("acked", i)
    BY <1>1, <2>1, OneEvent, KindsDiffer
  <2>3. Now + 1 \in 1 .. Now' /\ log'[Now + 1].kind = "acked" /\ log'[Now + 1].item = i
    BY <1>1, <2>2 DEF Event
  <2>4. Now + 1 \in Of(Now, "acked")'
    BY <2>3 DEF Of
  <2> QED
    BY <2>2, <2>3, <2>4 DEF Acked
<1>3. CASE i \notin OpenAt(Now)
  <2>1. UNCHANGED log
    BY <1>3 DEF Acknowledge
  <2>2. i \in Acked(Now)
    BY <1>3 DEF OpenAt, OpenedBy, Acked
  <2>3. Grows
    BY <2>1, StandsStill
  <2> QED
    BY <2>2, <2>3, PastStands
<1> QED
  BY <1>2, <1>3

LEMMA OtherAcksKeep ==
  ASSUME StoresInv, OtherAcks
  PROVE  StoresInv'
<1>1. StoresTyped
  BY DEF StoresInv
<1>2. PICK i \in OpenAt(Now) : Acknowledge(i)
  BY DEF OtherAcks
<1>3. i \in OpenedBy(Now)
  BY <1>2 DEF OpenAt, OpenedBy
<1>4. Grows /\ UNCHANGED <<window, flights, waiting>>
  BY <1>1, <1>2, <1>3, Acknowledged DEF OtherAcks
<1> QED
  BY <1>4, LogStep

-----------------------------------------------------------------------------
(* Requests and their answers.                                               *)

LEMMA AskIs ==
  ASSUME NEW kind \in {"boot", "sync", "tabs", "ack", "wait"}, NEW i \in Nat
  PROVE  /\ Ask(kind, i) \in RequestType /\ ~Ask(kind, i).done /\ Ask(kind, i).at = 0
         /\ Ask(kind, i).kind = kind /\ Ask(kind, i).item = i
BY DEF Ask, RequestType

\* Some requests are answered and some are made, and the log stays.
LEMMA ExchangeStep ==
  ASSUME StoresInv, UNCHANGED log, NEW F, F \subseteq InFlight, NEW R, R \subseteq RequestType, Exchange(F, R),
         \A r \in R : ~r.done /\ r.at = 0 /\ (r.kind = "ack" => r.item \in OpenedBy(Now)),
         phase' \in {"off", "boot", "online"},
         told' \in 0 .. Now, began' \in 0 .. Now, lists' \in 0 .. Now, seen' \in 0 .. Now,
         items' \subseteq OpenedBy(Now), owed' \in [inbox : Nat, lists : Nat]
  PROVE  /\ Moves(F, R) /\ Grows /\ Now' = Now /\ StoresTyped' /\ AcksMeant'
         /\ began' = began /\ phase' \in {phase, "online"} /\ (\A r \in R : r.kind # "boot") => BootsFit'
<1>1. StoresTyped /\ AcksMeant /\ BootsFit
  BY DEF StoresInv
<1>2. Moves(F, R)
  BY <1>1, RequestsMove
<1>3. Grows /\ Now' = Now /\ Now \in Nat
  BY <1>1, StandsStill, TypesMeant
<1>4. OpenedBy(Now) \subseteq OpenedBy(Now)'
  BY <1>1, <1>3, PastStands
<1>5. StoresTyped'
  <2>1. \A r \in R : r.at <= Now'
    BY <1>3
  <2>2. items' \subseteq OpenedBy(Now)'
    BY <1>4
  <2> QED
    BY <1>1, <1>2, <1>3, <2>1, <2>2, TypedKept
<1>6. AcksMeant'
  BY <1>1, <1>2, <1>3, <1>4, AcksKept
<1>7. ASSUME began' = began, phase' \in {phase, "online"}, \A r \in R : r.kind # "boot"
      PROVE  BootsFit'
  <2>1. CASE phase' = phase
    BY <1>1, <1>2, <1>7, <2>1, BootsKept
  <2>2. CASE phase' = "online"
    <3>1. InFlight' \subseteq InFlight \cup R
      BY <1>2 DEF Moves
    <3>2. Boots' \subseteq Boots
      BY <1>7, <3>1 DEF Boots
    <3> QED
      BY <1>1, <1>7, <2>2, <3>2 DEF BootsFit
  <2> QED
    BY <1>7, <2>1, <2>2
<1> QED
  BY <1>2, <1>3, <1>5, <1>6, <1>7

\* The server answers.
LEMMA HandleKeeps ==
  ASSUME StoresInv, NEW f \in InFlight, Handle(f)
  PROVE  StoresInv'
<1>1. StoresTyped /\ AcksMeant /\ BootsFit /\ WaitsRight /\ ListsRight /\ InboxRight
  BY DEF StoresInv
<1>2. ~f.done /\ UNCHANGED <<window, waiting>>
  BY DEF Handle
<1>3. f.kind = "ack" => f.item \in OpenedBy(Now)
  BY <1>1 DEF AcksMeant
<1>4. f \in RequestType /\ Now \in Nat
  BY <1>1, TypesMeant
<1>5. PICK g : g = [f EXCEPT !.done = TRUE, !.at = Now]
  OBVIOUS
<1>6. g \in RequestType /\ g.done = TRUE /\ g.at = Now /\ g.kind = f.kind /\ g.item = f.item
  BY <1>4, <1>5 DEF RequestType
<1>7. Exchange({f}, {g})
  BY <1>5 DEF Handle
<1>8. Moves({f}, {g})
  BY <1>1, <1>7, RequestsMove
<1>9. Grows /\ (f.kind = "ack" => f.item \in OpenedBy(Now) /\ f.item \in Acked(Now)')
  <2>1. CASE f.kind = "ack"
    BY <1>1, <1>3, <2>1, Acknowledged DEF Handle
  <2>2. CASE f.kind # "ack"
    BY <1>1, <2>2, StandsStill DEF Handle
  <2> QED
    BY <2>1, <2>2
<1>10. /\ focus' = focus /\ phase' = phase /\ told' = told /\ began' = began /\ items' = items
       /\ lists' = lists /\ owed' = owed /\ waiter' = waiter /\ seen' = seen
  BY <1>2 DEF window, waiting
<1>11. Now' \in Nat /\ Now <= Now' /\ OpenedBy(Now) \subseteq OpenedBy(Now)'
  BY <1>1, <1>9, PastStands
<1>12. \A kind : Renews({f}, {g}, kind)
  BY <1>4, <1>6 DEF Renews
<1>13. StoresTyped'
  <2>1. told' \in 0 .. Now' /\ began' \in 0 .. Now' /\ lists' \in 0 .. Now' /\ seen' \in 0 .. Now'
    BY <1>1, <1>10, <1>11, TypesMeant
  <2>2. items' \subseteq OpenedBy(Now)' /\ owed' \in [inbox : Nat, lists : Nat] /\ phase' \in {"off", "boot", "online"}
    BY <1>1, <1>10, <1>11 DEF StoresTyped
  <2>3. {g} \subseteq RequestType /\ \A r \in {g} : r.at <= Now'
    BY <1>4, <1>6, <1>11
  <2> QED
    BY <1>1, <1>8, <1>9, <2>1, <2>2, <2>3, TypedKept
<1>14. AcksMeant'
  <2>1. \A r \in {g} : r.kind = "ack" => r.item \in OpenedBy(Now)' /\ (r.done => r.item \in Acked(Now)')
    BY <1>6, <1>9, <1>11
  <2> QED
    BY <1>1, <1>8, <1>9, <2>1, AcksKept
<1>15. BootsFit'
  <2>1. CASE f.kind # "boot"
    <3>1. \A r \in {g} : r.kind # "boot"
      BY <1>6, <2>1
    <3> QED
      BY <1>1, <1>8, <1>10, <3>1, BootsKept
  <2>2. CASE f.kind = "boot"
    <3>1. f \in Boots /\ phase # "off" /\ f # g
      BY <1>1, <1>2, <1>6, <2>2 DEF Boots, BootsFit
    <3>2. Boots' \subseteq Boots \cup {g}
      BY <1>8 DEF Boots, Moves
    <3>3. ASSUME phase = "boot"
          PROVE  Boots' = {g} /\ flights'[g] = 1
      <4>1. Boots = {f} /\ flights[f] = 1
        BY <1>1, <3>1, <3>3 DEF BootsFit
      <4>2. g \notin InFlight
        BY <1>6, <2>2, <3>1, <4>1 DEF Boots
      <4>3. f \notin InFlight' /\ flights'[g] = 1 /\ g \in InFlight'
        BY <1>8, <3>1, <4>1, <4>2 DEF Moves
      <4> QED
        BY <1>6, <2>2, <3>2, <4>1, <4>3 DEF Boots
    <3>4. \A r \in Boots' : r.done => r.at >= began'
      BY <1>1, <1>6, <1>10, <3>2, TypesMeant DEF BootsFit
    <3> QED
      BY <1>10, <3>1, <3>3, <3>4 DEF BootsFit
  <2> QED
    BY <2>1, <2>2
<1>16. WaitsRight'
  BY <1>1, <1>2, <1>8, <1>9, <1>12, WaitsKept
<1>17. ListsRight'
  BY <1>1, <1>8, <1>9, <1>10, <1>12, ListsKept
<1>18. InboxRight'
  BY <1>1, <1>8, <1>9, <1>10, <1>12, InboxKept
<1> QED
  BY <1>13, <1>14, <1>15, <1>16, <1>17, <1>18 DEF StoresInv

-----------------------------------------------------------------------------
(* What an answer does to the window, and to a waiter.                       *)

LEMMA NoneAsked ==
  /\ {} \subseteq RequestType
  /\ \A r \in {} : ~r.done /\ r.at = 0 /\ r.kind # "boot" /\ (r.kind = "ack" => r.item \in OpenedBy(Now))
OBVIOUS

LEMMA OwesType ==
  ASSUME StoresTyped, NEW store \in {"inbox", "lists"}, NEW v \in Nat, Owes(store, v)
  PROVE  /\ owed' \in [inbox : Nat, lists : Nat] /\ owed'[store] = v
         /\ store = "inbox" => owed'.lists = owed.lists
         /\ store = "lists" => owed'.inbox = owed.inbox
BY DEF StoresTyped, Owes

\* The snapshot replaces the inbox; what the window heard since is owed.
LEMMA LoadsSnapshotKeeps ==
  ASSUME StoresInv, NEW f \in InFlight, f.done, LoadsSnapshot(f), UNCHANGED <<log, focus, told, began>>
  PROVE  StoresInv'
<1>1. StoresTyped /\ AcksMeant /\ BootsFit /\ WaitsRight /\ ListsRight /\ InboxRight
  BY DEF StoresInv
<1>2. /\ f.kind = "boot" /\ phase' = "online" /\ lists' = lists /\ waiter' = waiter /\ seen' = seen
      /\ UNCHANGED waiting
  BY DEF LoadsSnapshot, waiting
<1>3. /\ Now \in Nat /\ told \in 0 .. Now /\ began \in 0 .. Now /\ lists \in 0 .. Now /\ seen \in 0 .. Now
      /\ f.at \in Nat /\ f.at <= Now /\ f.at >= began
  <2>1. f \in Boots
    BY <1>2 DEF Boots
  <2> QED
    BY <1>1, <2>1, TypesMeant DEF BootsFit
<1>4. CASE focus = "lists"
  <2>1. Exchange({f}, {Ask("tabs", 0)}) /\ items' = items /\ owed' = owed
    BY <1>4 DEF LoadsSnapshot
  <2>2. PICK g : g = Ask("tabs", 0)
    OBVIOUS
  <2>3. g \in RequestType /\ ~g.done /\ g.at = 0 /\ g.kind = "tabs"
    BY <2>2, AskIs
  <2>4. /\ {g} \subseteq RequestType
        /\ \A r \in {g} : ~r.done /\ r.at = 0 /\ r.kind # "boot" /\ (r.kind = "ack" => r.item \in OpenedBy(Now))
    BY <2>3
  <2>5. items' \subseteq OpenedBy(Now) /\ owed' \in [inbox : Nat, lists : Nat]
    BY <1>1, <2>1 DEF StoresTyped
  <2>6. Moves({f}, {g}) /\ Grows /\ StoresTyped' /\ AcksMeant' /\ BootsFit'
    BY <1>2, <1>3, <2>1, <2>2, <2>4, <2>5, ExchangeStep
  <2>7. Renews({f}, {g}, "wait") /\ Renews({f}, {g}, "tabs")
    BY <1>2 DEF Renews
  <2>8. WaitsRight' /\ ListsRight'
    BY <1>1, <1>2, <2>1, <2>6, <2>7, WaitsKept, ListsKept
  <2>9. InboxRight'
    BY <1>4 DEF InboxRight
  <2> QED
    BY <2>6, <2>8, <2>9 DEF StoresInv
<1>5. CASE focus # "lists"
  <2>1. /\ Exchange({f}, {}) /\ items' = OpenAt(f.at)
        /\ IF Overtaken(f.at, {"awaiting", "acked"}) THEN Owes("inbox", Now)
           ELSE Owes("inbox", IF f.at >= owed.inbox THEN 0 ELSE owed.inbox)
    BY <1>5 DEF LoadsSnapshot, Settles
  <2>2. PICK v \in Nat : Owes("inbox", v) /\ (Overtaken(f.at, {"awaiting", "acked"}) => v = Now)
    BY <1>1, <1>3, <2>1, TypesMeant
  <2>3. owed' \in [inbox : Nat, lists : Nat] /\ owed'.inbox = v /\ owed'.lists = owed.lists
    BY <1>1, <2>2, OwesType
  <2>4. items' \subseteq OpenedBy(Now)
    BY <1>3, <2>1 DEF OpenAt, OpenedBy, Of
  <2>5. Moves({f}, {}) /\ Grows /\ Now' = Now /\ StoresTyped' /\ AcksMeant' /\ BootsFit'
    BY <1>2, <1>3, <2>1, <2>3, <2>4, NoneAsked, ExchangeStep
  <2>6. Renews({f}, {}, "wait") /\ Renews({f}, {}, "tabs")
    BY <1>2 DEF Renews
  <2>7. WaitsRight' /\ ListsRight'
    BY <1>1, <1>2, <2>3, <2>5, <2>6, WaitsKept, ListsKept
  <2>8. CASE v = Now
    <3>1. InboxRight'
      BY <1>1, <2>3, <2>8, OwesNow
    <3> QED
      BY <2>5, <2>7, <3>1 DEF StoresInv
  <2>9. CASE ~Overtaken(f.at, {"awaiting", "acked"})
    <3>1. \A n \in 1 .. told : log[n].kind \in {"awaiting", "acked"} => n <= f.at
      BY <1>3, <2>9 DEF Overtaken
    <3>2. NoneStale'
      <4> SUFFICES ASSUME NEW n \in 1 .. told, log[n].kind = "acked" PROVE log[n].item \notin items'
        BY DEF NoneStale
      <4>1. n \in 1 .. f.at
        BY <1>3, <3>1
      <4> QED
        BY <2>1, <4>1 DEF OpenAt, Of
    <3>3. OpenAt(Now)' = OpenAt(Now)
      BY <2>5 DEF OpenAt, Of
    <3>4. NoneMissing'
      <4> SUFFICES ASSUME NEW n \in 1 .. Now, n <= told \/ n <= began, log[n].kind = "awaiting",
                          log[n].item \in OpenAt(Now)
                   PROVE  log[n].item \in items'
        BY <2>5, <3>3 DEF NoneMissing
      <4>1. n \in 1 .. f.at
        BY <1>3, <3>1
      <4>2. 1 .. f.at \subseteq 1 .. Now
        BY <1>3
      <4>3. log[n].item \in {log[m].item : m \in Of(f.at, "awaiting")}
        BY <4>1 DEF Of
      <4>4. log[n].item \notin {log[m].item : m \in Of(f.at, "acked")}
        BY <4>2 DEF OpenAt, Of
      <4> QED
        BY <2>1, <4>3, <4>4 DEF OpenAt
    <3> QED
      BY <2>5, <2>7, <3>2, <3>4 DEF StoresInv, InboxRight
  <2> QED
    BY <2>2, <2>8, <2>9
<1> QED
  BY <1>4, <1>5

\* One page of items is added to the inbox; what is not on it, or was acknowledged since, is owed.
LEMMA MergesItemsKeeps ==
  ASSUME StoresInv, NEW f \in InFlight, f.done, MergesItems(f), UNCHANGED <<log, focus, told, began>>
  PROVE  StoresInv'
<1>1. StoresTyped /\ AcksMeant /\ BootsFit /\ WaitsRight /\ ListsRight /\ InboxRight
  BY DEF StoresInv
<1>2. /\ f.kind = "sync" /\ phase' = phase /\ lists' = lists /\ waiter' = waiter /\ seen' = seen
      /\ UNCHANGED waiting /\ items' = items \cup Listed(f.at) /\ Exchange({f}, {})
  BY DEF MergesItems, waiting, Settles
<1>3. /\ Now \in Nat /\ told \in 0 .. Now /\ began \in 0 .. Now /\ lists \in 0 .. Now /\ seen \in 0 .. Now
      /\ f.at \in Nat /\ f.at <= Now /\ phase \in {"off", "boot", "online"}
  BY <1>1, TypesMeant DEF StoresTyped
<1>4. owed' \in [inbox : Nat, lists : Nat] /\ owed'.lists = owed.lists
      /\ \/ owed'.inbox = Now
         \/ owed'.inbox = owed.inbox /\ ~Overtaken(f.at, {"acked"}) /\ Listed(f.at) = OpenAt(f.at)
  <2>1. CASE Overtaken(f.at, {"acked"}) \/ Listed(f.at) # OpenAt(f.at)
    <3>1. Owes("inbox", Now)
      BY <2>1 DEF MergesItems
    <3> QED
      BY <1>1, <1>3, <3>1, OwesType
  <2>2. CASE ~(Overtaken(f.at, {"acked"}) \/ Listed(f.at) # OpenAt(f.at))
    <3>1. owed' = owed
      BY <2>2 DEF MergesItems
    <3> QED
      BY <1>1, <2>2, <3>1 DEF StoresTyped
  <2> QED
    BY <2>1, <2>2
<1>5. items' \subseteq OpenedBy(Now)
  <2>1. Listed(f.at) \subseteq OpenAt(f.at)
    BY DEF Listed
  <2>2. OpenAt(f.at) \subseteq OpenedBy(Now)
    BY <1>3 DEF OpenAt, OpenedBy, Of
  <2> QED
    BY <1>1, <1>2, <2>1, <2>2 DEF StoresTyped
<1>6. Moves({f}, {}) /\ Grows /\ Now' = Now /\ StoresTyped' /\ AcksMeant' /\ BootsFit'
  BY <1>2, <1>3, <1>4, <1>5, NoneAsked, ExchangeStep
<1>7. Renews({f}, {}, "wait") /\ Renews({f}, {}, "tabs")
  BY <1>2 DEF Renews
<1>8. WaitsRight' /\ ListsRight'
  BY <1>1, <1>2, <1>4, <1>6, <1>7, WaitsKept, ListsKept
<1>9. InboxRight'
  <2>1. CASE owed'.inbox = Now
    BY <1>1, <2>1, OwesNow
  <2>2. CASE owed'.inbox = owed.inbox /\ ~Overtaken(f.at, {"acked"}) /\ Listed(f.at) = OpenAt(f.at)
    <3> SUFFICES ASSUME focus = "inbox", owed.inbox = 0
                 PROVE  NoneStale' /\ NoneMissing'
      BY <2>2 DEF InboxRight
    <3>1. NoneStale /\ NoneMissing
      BY <1>1 DEF InboxRight
    <3>2. items' = items \cup OpenAt(f.at)
      BY <1>2, <2>2
    <3>3. NoneStale'
      <4> SUFFICES ASSUME NEW n \in 1 .. told, log[n].kind = "acked" PROVE log[n].item \notin items'
        BY DEF NoneStale
      <4>1. n \in 1 .. f.at
        BY <1>3, <2>2 DEF Overtaken
      <4>2. log[n].item \notin OpenAt(f.at)
        BY <4>1 DEF OpenAt, Of
      <4> QED
        BY <3>1, <3>2, <4>2 DEF NoneStale
    <3>4. OpenAt(Now)' = OpenAt(Now) /\ \A i : Unarchived(i)' = Unarchived(i)
      BY <1>6 DEF OpenAt, Unarchived, Of
    <3>5. NoneMissing'
      <4>1. ASSUME phase = "online", NEW n \in 1 .. Now, n <= told \/ n <= began, log[n].kind = "awaiting",
                   log[n].item \in OpenAt(Now), Unarchived(log[n].item)
            PROVE  log[n].item \in items' \/ Comes("sync", n)'
        <5>1. log[n].item \in items \/ Comes("sync", n)
          BY <3>1, <4>1 DEF NoneMissing
        <5>2. CASE log[n].item \in items
          BY <3>2, <5>2
        <5>3. ASSUME NEW h \in InFlight, h.kind = "sync", ~h.done \/ h.at >= n, h # f
              PROVE  Comes("sync", n)'
          <6>1. h \in InFlight'
            BY <1>6, <5>3 DEF Moves
          <6> QED
            BY <5>3, <6>1 DEF Comes
        <5>4. CASE f.at >= n
          <6>1. n \in 1 .. f.at /\ 1 .. f.at \subseteq 1 .. Now
            BY <1>3, <5>4
          <6>2. log[n].item \in {log[m].item : m \in Of(f.at, "awaiting")}
            BY <4>1, <6>1 DEF Of
          <6>3. log[n].item \notin {log[m].item : m \in Of(f.at, "acked")}
            BY <4>1, <6>1 DEF OpenAt, Of
          <6> QED
            BY <3>2, <6>2, <6>3 DEF OpenAt
        <5> QED
          BY <5>1, <5>2, <5>3, <5>4 DEF Comes
      <4>2. \A n \in 1 .. Now : Unarchived(log[n].item)' = Unarchived(log[n].item)
        BY <1>6 DEF Unarchived, Of
      <4> QED
        BY <1>2, <1>6, <3>4, <4>1, <4>2 DEF NoneMissing
    <3> QED
      BY <3>3, <3>5
  <2> QED
    BY <1>4, <2>1, <2>2
<1> QED
  BY <1>6, <1>8, <1>9 DEF StoresInv

\* The lists are as old as the last answer that came, and owed when it was not the newest.
LEMMA SetsListsKeeps ==
  ASSUME StoresInv, NEW f \in InFlight, f.done, SetsLists(f), UNCHANGED <<log, focus, told, began>>
  PROVE  StoresInv'
<1>1. StoresTyped /\ AcksMeant /\ BootsFit /\ WaitsRight /\ ListsRight /\ InboxRight
  BY DEF StoresInv
<1>2. /\ f.kind = "tabs" /\ phase' = phase /\ lists' = f.at /\ waiter' = waiter /\ seen' = seen
      /\ UNCHANGED waiting /\ items' = items /\ Exchange({f}, {})
  BY DEF SetsLists, waiting, Settles
<1>3. /\ Now \in Nat /\ told \in 0 .. Now /\ began \in 0 .. Now /\ lists \in 0 .. Now /\ seen \in 0 .. Now
      /\ f.at \in 0 .. Now /\ phase \in {"off", "boot", "online"} /\ items \subseteq OpenedBy(Now)
      /\ owed.lists \in Nat
  BY <1>1, TypesMeant DEF StoresTyped
<1>4. PICK v \in Nat : /\ Owes("lists", v)
                       /\ IF f.at < lists THEN v = Now ELSE v = IF f.at >= owed.lists THEN 0 ELSE owed.lists
  BY <1>3 DEF SetsLists
<1>5. owed' \in [inbox : Nat, lists : Nat] /\ owed'.lists = v /\ owed'.inbox = owed.inbox
  BY <1>1, <1>4, OwesType
<1>6. Moves({f}, {}) /\ Grows /\ Now' = Now /\ StoresTyped' /\ AcksMeant' /\ BootsFit'
  BY <1>2, <1>3, <1>5, NoneAsked, ExchangeStep
<1>7. Renews({f}, {}, "wait") /\ Renews({f}, {}, "sync")
  BY <1>2 DEF Renews
<1>8. WaitsRight' /\ InboxRight'
  BY <1>1, <1>2, <1>5, <1>6, <1>7, WaitsKept, InboxKept
<1>9. ListsRight'
  <2>1. CASE f.at < lists
    BY <1>1, <1>4, <1>5, <2>1, OwesNow
  <2>2. CASE ~(f.at < lists)
    <3>1. v = IF f.at >= owed.lists THEN 0 ELSE owed.lists
      BY <1>4, <2>2
    <3> SUFFICES ASSUME focus = "lists", NEW n \in 1 .. told, n > v, log[n].kind # "acked", ~(n <= f.at)
                 PROVE  Comes("tabs", n)'
      BY <1>2, <1>5 DEF ListsRight, Comes
    <3>2. n > owed.lists
      BY <1>3, <3>1
    <3>3. ~(n <= lists)
      BY <1>3, <2>2
    <3>4. PICK h \in InFlight : h.kind = "tabs" /\ (~h.done \/ h.at >= n)
      BY <1>1, <3>2, <3>3 DEF ListsRight, Comes
    <3>5. h # f
      BY <1>3, <3>4
    <3>6. h \in InFlight'
      BY <1>6, <3>5 DEF Moves
    <3> QED
      BY <3>4, <3>6 DEF Comes
  <2> QED
    BY <2>1, <2>2
<1> QED
  BY <1>6, <1>8, <1>9 DEF StoresInv

\* The item whose acknowledgement was answered is no longer open.
LEMMA RemovesAckedKeeps ==
  ASSUME StoresInv, NEW f \in InFlight, f.done, RemovesAcked(f), UNCHANGED <<log, focus, told, began>>
  PROVE  StoresInv'
<1>1. StoresTyped /\ AcksMeant /\ BootsFit /\ WaitsRight /\ ListsRight /\ InboxRight
  BY DEF StoresInv
<1>2. /\ f.kind = "ack" /\ phase' = phase /\ lists' = lists /\ waiter' = waiter /\ seen' = seen
      /\ UNCHANGED waiting /\ items' = items \ {f.item} /\ owed' = owed /\ Exchange({f}, {})
  BY DEF RemovesAcked, waiting, Settles
<1>3. /\ Now \in Nat /\ told \in 0 .. Now /\ began \in 0 .. Now /\ lists \in 0 .. Now /\ seen \in 0 .. Now
      /\ phase \in {"off", "boot", "online"} /\ items' \subseteq OpenedBy(Now)
      /\ owed' \in [inbox : Nat, lists : Nat]
  BY <1>1, <1>2, TypesMeant DEF StoresTyped
<1>4. f.item \in Acked(Now)
  BY <1>1, <1>2 DEF AcksMeant
<1>5. Moves({f}, {}) /\ Grows /\ Now' = Now /\ StoresTyped' /\ AcksMeant' /\ BootsFit'
  BY <1>2, <1>3, NoneAsked, ExchangeStep
<1>6. Renews({f}, {}, "wait") /\ Renews({f}, {}, "tabs") /\ Renews({f}, {}, "sync")
  BY <1>2 DEF Renews
<1>7. WaitsRight' /\ ListsRight'
  BY <1>1, <1>2, <1>5, <1>6, WaitsKept, ListsKept
<1>8. InboxRight'
  <2> SUFFICES ASSUME focus = "inbox", owed.inbox = 0 PROVE NoneStale' /\ NoneMissing'
    BY <1>2 DEF InboxRight
  <2>1. NoneStale /\ NoneMissing
    BY <1>1 DEF InboxRight
  <2>2. NoneStale'
    BY <1>2, <2>1 DEF NoneStale
  <2>3. OpenAt(Now)' = OpenAt(Now) /\ f.item \notin OpenAt(Now)
    BY <1>4, <1>5 DEF OpenAt, Of, Acked
  <2>4. \A n \in 1 .. Now : Unarchived(log[n].item)' = Unarchived(log[n].item)
    BY <1>5 DEF Unarchived, Of
  <2>5. \A n \in 1 .. Now : Comes("sync", n) => Comes("sync", n)'
    <3>1. 1 .. Now \subseteq 0 .. Now
      BY <1>3
    <3> QED
      BY <1>1, <1>5, <1>6, <3>1, ComesKept
  <2>6. NoneMissing'
    BY <1>2, <1>5, <2>1, <2>3, <2>4, <2>5 DEF NoneMissing
  <2> QED
    BY <2>2, <2>6
<1> QED
  BY <1>5, <1>7, <1>8 DEF StoresInv

\* The condition did not hold when the answer was made; so the wait streams on from there.
LEMMA ChecksKeeps ==
  ASSUME StoresInv, NEW f \in InFlight, f.done, Checks(f), UNCHANGED <<log, focus, told, began>>
  PROVE  StoresInv'
<1>1. StoresTyped /\ AcksMeant /\ BootsFit /\ WaitsRight /\ ListsRight /\ InboxRight
  BY DEF StoresInv
<1>2. /\ f.kind = "wait" /\ phase' = phase /\ lists' = lists /\ items' = items /\ owed' = owed
      /\ Exchange({f}, {})
      /\ waiter' = (CASE waiter = "ended" \/ Met(f.at) -> "ended" [] OTHER -> "stream")
      /\ seen' = IF waiter = "ask" THEN f.at ELSE seen
  BY DEF Checks, Settles
<1>3. /\ Now \in Nat /\ told \in 0 .. Now /\ began \in 0 .. Now /\ lists \in 0 .. Now /\ seen \in 0 .. Now
      /\ f.at \in 0 .. Now
      /\ phase \in {"off", "boot", "online"} /\ items \subseteq OpenedBy(Now)
      /\ owed \in [inbox : Nat, lists : Nat]
  BY <1>1, TypesMeant DEF StoresTyped
<1>4. seen' \in 0 .. Now
  BY <1>2, <1>3
<1>5. Moves({f}, {}) /\ Grows /\ Now' = Now /\ StoresTyped' /\ AcksMeant' /\ BootsFit'
  BY <1>2, <1>3, <1>4, NoneAsked, ExchangeStep
<1>6. Renews({f}, {}, "sync") /\ Renews({f}, {}, "tabs")
  BY <1>2 DEF Renews
<1>7. ListsRight' /\ InboxRight'
  BY <1>1, <1>2, <1>5, <1>6, ListsKept, InboxKept
<1>8. \A v \in 0 .. Now : Met(v)' = Met(v)
  BY <1>1, <1>5, PastStands
<1>9. CASE waiter = "ended" \/ Met(f.at)
  <2>1. waiter' = "ended"
    BY <1>2, <1>9
  <2> QED
    BY <1>5, <1>7, <2>1 DEF StoresInv, WaitsRight
<1>10. CASE ~(waiter = "ended" \/ Met(f.at))
  <2>1. waiter' = "stream" /\ ~Met(f.at)'
    BY <1>2, <1>3, <1>8, <1>10
  <2>2. CASE f.at >= seen'
    <3>1. f.at \in seen' .. Now'
      BY <1>3, <1>4, <1>5, <2>2
    <3> QED
      BY <1>5, <1>7, <2>1, <3>1 DEF StoresInv, WaitsRight
  <2>3. CASE ~(f.at >= seen')
    <3>1. seen' = seen /\ waiter = "stream"
      BY <1>1, <1>2, <1>3, <1>10, <2>3 DEF WaitsRight
    <3>2. CASE Comes("wait", seen)
      <4>1. PICK h \in InFlight : h.kind = "wait" /\ (~h.done \/ h.at >= seen)
        BY <3>2 DEF Comes
      <4>2. h # f
        BY <2>3, <3>1, <4>1
      <4>3. h \in InFlight'
        BY <1>5, <4>2 DEF Moves
      <4>4. Comes("wait", seen)'
        BY <3>1, <4>1, <4>3 DEF Comes
      <4> QED
        BY <1>5, <1>7, <2>1, <4>4 DEF StoresInv, WaitsRight
    <3>3. CASE \E v \in seen .. Now : ~Met(v)
      <4>1. PICK v \in seen .. Now : ~Met(v)
        BY <3>3
      <4>2. v \in seen' .. Now' /\ ~Met(v)'
        BY <1>3, <1>5, <1>8, <3>1, <4>1
      <4> QED
        BY <1>5, <1>7, <2>1, <4>2 DEF StoresInv, WaitsRight
    <3> QED
      BY <1>1, <3>1, <3>2, <3>3 DEF WaitsRight
  <2> QED
    BY <2>2, <2>3
<1> QED
  BY <1>9, <1>10

LEMMA AnswerKeeps ==
  ASSUME StoresInv, NEW f \in InFlight, Answer(f)
  PROVE  StoresInv'
<1>1. f.done /\ UNCHANGED <<log, focus, told, began>>
  BY DEF Answer
<1>2. LoadsSnapshot(f) \/ MergesItems(f) \/ SetsLists(f) \/ RemovesAcked(f) \/ Checks(f)
  BY DEF Answer
<1> QED
  BY <1>1, <1>2, LoadsSnapshotKeeps, MergesItemsKeeps, SetsListsKeeps, RemovesAckedKeeps, ChecksKeeps

\* A store whose answer was lost is owed one; a window that was to boot is off again.
LEMMA LostKeeps ==
  ASSUME StoresInv, NEW f \in InFlight, Lost(f)
  PROVE  StoresInv'
<1>1. StoresTyped /\ AcksMeant /\ BootsFit /\ WaitsRight /\ ListsRight /\ InboxRight
  BY DEF StoresInv
<1>2. /\ log' = log /\ focus' = focus /\ told' = told /\ began' = began /\ items' = items /\ lists' = lists
      /\ seen' = seen /\ Exchange({f}, {})
      /\ phase' = (IF f.kind = "boot" /\ phase = "boot" THEN "off" ELSE phase)
      /\ waiter' = (IF f.kind = "wait" THEN "ended" ELSE waiter)
  BY DEF Lost, Settles
<1>3. /\ Now \in Nat /\ told \in 0 .. Now /\ began \in 0 .. Now /\ lists \in 0 .. Now /\ seen \in 0 .. Now
      /\ phase' \in {"off", "boot", "online"} /\ items \subseteq OpenedBy(Now)
  BY <1>1, <1>2, TypesMeant DEF StoresTyped
<1>4. /\ owed' \in [inbox : Nat, lists : Nat]
      /\ owed'.inbox = Now \/ (owed'.inbox = owed.inbox /\ ~(focus = "inbox" /\ f.kind \in {"boot", "sync"}))
      /\ owed'.lists = Now \/ (owed'.lists = owed.lists /\ f.kind # "tabs")
  <2>1. CASE focus = "inbox" /\ f.kind \in {"boot", "sync"}
    <3>1. Owes("inbox", Now) /\ f.kind # "tabs"
      BY <2>1 DEF Lost
    <3> QED
      BY <1>1, <1>3, <3>1, OwesType
  <2>2. CASE f.kind = "tabs"
    <3>1. Owes("lists", Now)
      BY <2>2 DEF Lost
    <3> QED
      BY <1>1, <1>3, <2>2, <3>1, OwesType
  <2>3. CASE ~(focus = "inbox" /\ f.kind \in {"boot", "sync"}) /\ f.kind # "tabs"
    <3>1. owed' = owed
      BY <2>3 DEF Lost
    <3> QED
      BY <1>1, <2>3, <3>1 DEF StoresTyped
  <2> QED
    BY <2>1, <2>2, <2>3
<1>5. /\ Moves({f}, {}) /\ Grows /\ Now' = Now /\ StoresTyped' /\ AcksMeant'
      /\ phase' \in {phase, "online"} => BootsFit'
  BY <1>2, <1>3, <1>4, NoneAsked, ExchangeStep
<1>6. BootsFit'
  <2>1. CASE phase' = phase
    BY <1>5, <2>1
  <2>2. CASE phase' # phase
    <3>1. f.kind = "boot" /\ phase = "boot" /\ phase' = "off"
      BY <1>2, <2>2
    <3>2. f \in Boots
      BY <3>1 DEF Boots
    <3>3. Boots = {f} /\ flights[f] = 1
      BY <1>1, <3>1, <3>2 DEF BootsFit
    <3>4. InFlight' \subseteq InFlight /\ f \notin InFlight'
      BY <1>5, <3>3 DEF Moves
    <3>5. Boots' = {}
      BY <3>3, <3>4 DEF Boots
    <3> QED
      BY <3>1, <3>5 DEF BootsFit
  <2> QED
    BY <2>1, <2>2
<1>7. WaitsRight'
  <2>1. CASE f.kind = "wait"
    BY <1>2, <2>1 DEF WaitsRight
  <2>2. CASE f.kind # "wait"
    <3>1. Renews({f}, {}, "wait") /\ UNCHANGED waiting
      BY <1>2, <2>2 DEF Renews, waiting
    <3> QED
      BY <1>1, <1>5, <3>1, WaitsKept
  <2> QED
    BY <2>1, <2>2
<1>8. ListsRight'
  <2>1. CASE owed'.lists = Now
    BY <1>1, <1>2, <2>1, OwesNow
  <2>2. CASE owed'.lists = owed.lists /\ f.kind # "tabs"
    <3>1. Renews({f}, {}, "tabs")
      BY <2>2 DEF Renews
    <3> QED
      BY <1>1, <1>2, <1>5, <2>2, <3>1, ListsKept
  <2> QED
    BY <1>4, <2>1, <2>2
<1>9. InboxRight'
  <2>1. CASE owed'.inbox = Now
    BY <1>1, <1>2, <2>1, OwesNow
  <2>2. CASE focus # "inbox"
    BY <1>2, <2>2 DEF InboxRight
  <2>3. CASE owed'.inbox = owed.inbox /\ f.kind \notin {"boot", "sync"}
    <3>1. Renews({f}, {}, "sync") /\ phase' = phase
      BY <1>2, <2>3 DEF Renews
    <3> QED
      BY <1>1, <1>2, <1>5, <2>3, <3>1, InboxKept
  <2> QED
    BY <1>4, <2>1, <2>2, <2>3
<1> QED
  BY <1>5, <1>6, <1>7, <1>8, <1>9 DEF StoresInv

-----------------------------------------------------------------------------
(* What the window and the waiter do by themselves.                          *)

\* A window asks for the snapshot of its session; no other is under way.
LEMMA OpensWindowKeeps ==
  ASSUME StoresInv, OpensWindow
  PROVE  StoresInv'
<1>1. StoresTyped /\ AcksMeant /\ BootsFit /\ WaitsRight /\ ListsRight /\ InboxRight
  BY DEF StoresInv
<1>2. /\ phase = "off" /\ phase' = "boot" /\ Exchange({}, {Ask("boot", 0)})
      /\ began' = (IF focus = "inbox" THEN Now ELSE 0)
      /\ log' = log /\ focus' = focus /\ told' = told /\ items' = items /\ lists' = lists /\ owed' = owed
      /\ seen' = seen /\ UNCHANGED waiting
  BY DEF OpensWindow, Sends, waiting
<1>3. /\ Now \in Nat /\ told \in 0 .. Now /\ began' \in 0 .. Now /\ lists \in 0 .. Now /\ seen \in 0 .. Now
      /\ items \subseteq OpenedBy(Now) /\ owed \in [inbox : Nat, lists : Nat]
  BY <1>1, <1>2, TypesMeant DEF StoresTyped
<1>4. PICK g : g = Ask("boot", 0)
  OBVIOUS
<1>5. g \in RequestType /\ ~g.done /\ g.at = 0 /\ g.kind = "boot"
  BY <1>4, AskIs
<1>6. /\ {} \subseteq InFlight /\ {g} \subseteq RequestType
      /\ \A r \in {g} : ~r.done /\ r.at = 0 /\ (r.kind = "ack" => r.item \in OpenedBy(Now))
  BY <1>5
<1>7. Moves({}, {g}) /\ Grows /\ Now' = Now /\ StoresTyped' /\ AcksMeant'
  BY <1>2, <1>3, <1>4, <1>6, ExchangeStep
<1>8. BootsFit'
  <2>1. Boots = {}
    BY <1>1, <1>2 DEF BootsFit
  <2>2. Boots' = {g} /\ g \notin InFlight
    BY <1>5, <1>7, <2>1 DEF Boots, Moves
  <2>3. flights'[g] = 1
    BY <1>7, <2>2 DEF Moves
  <2> QED
    BY <1>2, <1>5, <2>2, <2>3 DEF BootsFit
<1>9. Renews({}, {g}, "wait") /\ Renews({}, {g}, "tabs")
  BY DEF Renews
<1>10. WaitsRight' /\ ListsRight'
  BY <1>1, <1>2, <1>7, <1>9, WaitsKept, ListsKept
<1>11. InboxRight'
  <2>1. NoneMissing'
    BY <1>2 DEF NoneMissing
  <2>2. NoneStale => NoneStale'
    BY <1>2 DEF NoneStale
  <2> QED
    BY <1>1, <1>2, <2>1, <2>2 DEF InboxRight
<1> QED
  BY <1>7, <1>8, <1>10, <1>11 DEF StoresInv

LEMMA DialsKeep ==
  ASSUME StoresInv, Dials
  PROVE  StoresInv'
<1>1. StoresTyped /\ AcksMeant /\ BootsFit /\ WaitsRight /\ ListsRight /\ InboxRight
  BY DEF StoresInv
<1>2. /\ phase = "online" /\ Exchange({}, {Ask("boot", 0)}) /\ phase' = phase /\ began' = began
      /\ log' = log /\ focus' = focus /\ told' = told /\ items' = items /\ lists' = lists /\ owed' = owed
      /\ seen' = seen /\ UNCHANGED waiting
  BY DEF Dials, Sends, window, waiting
<1>3. /\ Now \in Nat /\ told \in 0 .. Now /\ began \in 0 .. Now /\ lists \in 0 .. Now /\ seen \in 0 .. Now
      /\ items \subseteq OpenedBy(Now) /\ owed \in [inbox : Nat, lists : Nat]
  BY <1>1, TypesMeant DEF StoresTyped
<1>4. PICK g : g = Ask("boot", 0)
  OBVIOUS
<1>5. g \in RequestType /\ ~g.done /\ g.at = 0 /\ g.kind = "boot"
  BY <1>4, AskIs
<1>6. /\ {} \subseteq InFlight /\ {g} \subseteq RequestType
      /\ \A r \in {g} : ~r.done /\ r.at = 0 /\ (r.kind = "ack" => r.item \in OpenedBy(Now))
  BY <1>5
<1>7. Moves({}, {g}) /\ Grows /\ Now' = Now /\ StoresTyped' /\ AcksMeant'
  BY <1>2, <1>3, <1>4, <1>6, ExchangeStep
<1>8. BootsFit'
  <2>1. Boots' \subseteq Boots \cup {g}
    BY <1>7 DEF Boots, Moves
  <2> QED
    BY <1>1, <1>2, <1>5, <2>1 DEF BootsFit
<1>9. \A kind : Renews({}, {g}, kind)
  BY DEF Renews
<1>10. WaitsRight' /\ ListsRight' /\ InboxRight'
  BY <1>1, <1>2, <1>7, <1>9, WaitsKept, ListsKept, InboxKept
<1> QED
  BY <1>7, <1>8, <1>10 DEF StoresInv

\* The window is told of one event more: what it opened is asked for, what it closed is gone,
\* and what another workspace still had open is owed.
LEMMA HearsEventKeeps ==
  ASSUME StoresInv, HearsEvent
  PROVE  StoresInv'
<1>1. StoresTyped /\ AcksMeant /\ BootsFit /\ WaitsRight /\ ListsRight /\ InboxRight
  BY DEF StoresInv
<1>2. PICK t, e : t = told + 1 /\ e = log[told + 1]
  OBVIOUS
<1>3. /\ told < Now /\ told' = t /\ phase = "online" /\ phase' = phase /\ began' = began
      /\ log' = log /\ focus' = focus /\ lists' = lists /\ seen' = seen /\ UNCHANGED waiting
  BY <1>2 DEF HearsEvent, waiting
<1>4. e = log[t] /\ log[told'] = e
  BY <1>2, <1>3
<1>5. /\ e.kind = "acked" => items' = items \ {e.item}
      /\ e.kind = "archived" => items' = {}
      /\ e.kind \notin {"acked", "archived"} => items' = items
  BY <1>4 DEF HearsEvent
<1>6. IF e.kind = "archived" /\ Max(items \cup {0}) > t THEN Owes("inbox", Now) ELSE owed' = owed
  BY <1>3, <1>4 DEF HearsEvent
<1>7. PICK R : R = CASE focus = "lists" /\ e.kind # "acked" -> {Ask("tabs", 0)}
                [] focus = "inbox" /\ e.kind = "awaiting" /\ told' > began -> {Ask("sync", 0)}
                [] OTHER -> {}
  OBVIOUS
<1>8. Exchange({}, R)
  BY <1>4, <1>7 DEF HearsEvent, Sends
<1>9. /\ focus = "lists" /\ e.kind # "acked" => Ask("tabs", 0) \in R
      /\ focus = "inbox" /\ e.kind = "awaiting" /\ t > began => Ask("sync", 0) \in R
      /\ R \subseteq {Ask("tabs", 0), Ask("sync", 0)}
  BY <1>3, <1>7
<1>10. /\ Ask("tabs", 0) \in RequestType /\ ~Ask("tabs", 0).done
       /\ Ask("tabs", 0).at = 0 /\ Ask("tabs", 0).kind = "tabs"
       /\ Ask("sync", 0) \in RequestType /\ ~Ask("sync", 0).done
       /\ Ask("sync", 0).at = 0 /\ Ask("sync", 0).kind = "sync"
  BY AskIs
<1>11. /\ {} \subseteq InFlight /\ R \subseteq RequestType
       /\ \A r \in R : r.kind # "boot" /\ ~r.done /\ r.at = 0 /\ (r.kind = "ack" => r.item \in OpenedBy(Now))
  BY <1>9, <1>10
<1>12. /\ Now \in Nat /\ told \in 0 .. Now /\ began \in 0 .. Now /\ lists \in 0 .. Now /\ seen \in 0 .. Now
       /\ t \in 1 .. Now /\ items \subseteq OpenedBy(Now)
  BY <1>1, <1>2, <1>3, TypesMeant DEF StoresTyped
<1>13. items' \subseteq items
  BY <1>5
<1>14. /\ owed' \in [inbox : Nat, lists : Nat] /\ owed'.lists = owed.lists
       /\ \/ owed'.inbox = Now
          \/ owed'.inbox = owed.inbox /\ ~(e.kind = "archived" /\ Max(items \cup {0}) > t)
  <2>1. CASE e.kind = "archived" /\ Max(items \cup {0}) > t
    <3>1. Owes("inbox", Now)
      BY <1>6, <2>1
    <3> QED
      BY <1>1, <1>12, <3>1, OwesType
  <2>2. CASE ~(e.kind = "archived" /\ Max(items \cup {0}) > t)
    <3>1. owed' = owed
      BY <1>6, <2>2
    <3> QED
      BY <1>1, <2>2, <3>1 DEF StoresTyped
  <2> QED
    BY <2>1, <2>2
<1>15. Moves({}, R) /\ Grows /\ Now' = Now /\ StoresTyped' /\ AcksMeant' /\ BootsFit'
  <2>1. told' \in 0 .. Now /\ items' \subseteq OpenedBy(Now) /\ phase' \in {"off", "boot", "online"}
    BY <1>3, <1>12, <1>13
  <2> QED
    BY <1>3, <1>8, <1>11, <1>12, <1>14, <2>1, ExchangeStep
<1>16. \A kind : Renews({}, R, kind)
  BY DEF Renews
<1>17. WaitsRight'
  BY <1>1, <1>3, <1>15, <1>16, WaitsKept
<1>18. ASSUME NEW kind, NEW n \in 1 .. Now, Comes(kind, n)
       PROVE  Comes(kind, n)'
  <2>1. n \in 0 .. Now
    BY <1>12
  <2> QED
    BY <1>1, <1>15, <1>16, <1>18, <2>1, ComesKept
<1>19. ListsRight'
  <2> SUFFICES ASSUME focus = "lists", NEW n \in 1 .. t, n > owed.lists, log[n].kind # "acked"
               PROVE  n <= lists \/ Comes("tabs", n)'
    BY <1>3, <1>14 DEF ListsRight, Comes
  <2>1. CASE n = t
    <3>1. Ask("tabs", 0) \in InFlight'
      BY <1>4, <1>9, <1>15, <2>1 DEF Moves
    <3> QED
      BY <1>10, <3>1 DEF Comes
  <2>2. CASE n # t
    <3>1. n \in 1 .. told /\ n \in 1 .. Now
      BY <1>2, <1>12, <2>2
    <3>2. n <= lists \/ Comes("tabs", n)
      BY <1>1, <3>1 DEF ListsRight
    <3> QED
      BY <1>18, <3>1, <3>2
  <2> QED
    BY <2>1, <2>2
<1>20. InboxRight'
  <2>1. CASE owed'.inbox = Now
    <3>1. Now # 0
      BY <1>12
    <3> QED
      BY <2>1, <3>1 DEF InboxRight
  <2>2. CASE owed'.inbox = owed.inbox /\ ~(e.kind = "archived" /\ Max(items \cup {0}) > t)
    <3> SUFFICES ASSUME focus = "inbox", owed.inbox = 0 PROVE NoneStale' /\ NoneMissing'
      BY <1>3, <2>2 DEF InboxRight
    <3>1. NoneStale /\ NoneMissing
      BY <1>1 DEF InboxRight
    <3>2. NoneStale'
      <4> SUFFICES ASSUME NEW n \in 1 .. t, log[n].kind = "acked" PROVE log[n].item \notin items'
        BY <1>3 DEF NoneStale
      <4>1. CASE n = t
        BY <1>4, <1>5, <4>1
      <4>2. CASE n # t
        <5>1. n \in 1 .. told
          BY <1>2, <1>12, <4>2
        <5> QED
          BY <1>13, <3>1, <5>1 DEF NoneStale
      <4> QED
        BY <4>1, <4>2
    <3>3. OpenAt(Now)' = OpenAt(Now)
      BY <1>3, <1>15 DEF OpenAt, Of
    <3>4. \A n \in 1 .. Now : Unarchived(log[n].item)' = Unarchived(log[n].item)
      BY <1>3, <1>15 DEF Unarchived, Of
    <3>5. ASSUME NEW n \in 1 .. Now, n <= t \/ n <= began, log[n].kind = "awaiting",
                 log[n].item \in OpenAt(Now), Unarchived(log[n].item)
          PROVE  log[n].item \in items' \/ Comes("sync", n)'
      <4>1. CASE n <= told \/ n <= began
        <5>1. log[n].item \in items \/ Comes("sync", n)
          BY <1>3, <3>1, <3>5, <4>1 DEF NoneMissing
        <5>2. CASE log[n].item \in items
          <6>1. ASSUME e.kind = "acked" PROVE log[n].item # e.item
            <7>1. e.item \in {log[m].item : m \in Of(Now, "acked")}
              BY <1>4, <1>12, <6>1 DEF Of
            <7> QED
              BY <3>5, <7>1 DEF OpenAt
          <6>2. ASSUME e.kind = "archived" PROVE FALSE
            <7>1. t \in Of(Now, "archived")
              BY <1>4, <1>12, <6>2 DEF Of
            <7>2. t < log[n].item
              BY <3>5, <7>1 DEF Unarchived
            <7>3. PICK S : S = items \cup {0}
              OBVIOUS
            <7>4. S \subseteq 0 .. Now /\ S # {} /\ log[n].item \in S
              BY <1>1, <1>12, <5>2, <7>3, TypesMeant
            <7>5. Max(S) \in 0 .. Now /\ log[n].item <= Max(S)
              BY <1>12, <7>4, MaxIsGreatest
            <7>6. log[n].item \in Nat
              BY <1>1, TypesMeant
            <7>7. Max(S) > t
              BY <1>12, <7>2, <7>5, <7>6
            <7> QED
              BY <2>2, <6>2, <7>3, <7>7
          <6> QED
            BY <1>5, <5>2, <6>1, <6>2
        <5>3. CASE Comes("sync", n)
          BY <1>18, <5>3
        <5> QED
          BY <5>1, <5>2, <5>3
      <4>2. CASE ~(n <= told \/ n <= began)
        <5>1. n = t /\ t > began
          BY <1>2, <1>12, <3>5, <4>2
        <5>2. Ask("sync", 0) \in InFlight'
          BY <1>4, <1>9, <1>15, <3>5, <5>1 DEF Moves
        <5> QED
          BY <1>10, <5>2 DEF Comes
      <4> QED
        BY <4>1, <4>2
    <3>6. NoneMissing'
      BY <1>3, <1>15, <3>3, <3>4, <3>5 DEF NoneMissing
    <3> QED
      BY <3>2, <3>6
  <2> QED
    BY <1>14, <2>1, <2>2
<1> QED
  BY <1>15, <1>17, <1>19, <1>20 DEF StoresInv

LEMMA AcksVisibleKeep ==
  ASSUME StoresInv, AcksVisible
  PROVE  StoresInv'
<1>1. StoresTyped /\ AcksMeant /\ BootsFit /\ WaitsRight /\ ListsRight /\ InboxRight
  BY DEF StoresInv
<1>2. /\ phase' = phase /\ began' = began
      /\ log' = log /\ focus' = focus /\ told' = told /\ items' = items /\ lists' = lists /\ owed' = owed
      /\ seen' = seen /\ UNCHANGED waiting
  BY DEF AcksVisible, window, waiting
<1>3. /\ Now \in Nat /\ told \in 0 .. Now /\ began \in 0 .. Now /\ lists \in 0 .. Now /\ seen \in 0 .. Now
      /\ items \subseteq OpenedBy(Now) /\ owed \in [inbox : Nat, lists : Nat] /\ phase \in {"off", "boot", "online"}
  BY <1>1, TypesMeant DEF StoresTyped
<1>4. PICK i \in items : Exchange({}, {Ask("ack", i)})
  BY DEF AcksVisible, Sends
<1>5. PICK g : g = Ask("ack", i)
  OBVIOUS
<1>6. i \in OpenedBy(Now) /\ i \in Nat
  BY <1>1, <1>3, TypesMeant
<1>7. g \in RequestType /\ ~g.done /\ g.at = 0 /\ g.kind = "ack" /\ g.item = i
  BY <1>5, <1>6, AskIs
<1>8. /\ {} \subseteq InFlight /\ {g} \subseteq RequestType
      /\ \A r \in {g} : r.kind # "boot" /\ ~r.done /\ r.at = 0 /\ (r.kind = "ack" => r.item \in OpenedBy(Now))
  BY <1>6, <1>7
<1>9. Moves({}, {g}) /\ Grows /\ Now' = Now /\ StoresTyped' /\ AcksMeant' /\ BootsFit'
  BY <1>2, <1>3, <1>4, <1>5, <1>8, ExchangeStep
<1>10. \A kind : Renews({}, {g}, kind)
  BY DEF Renews
<1>11. WaitsRight' /\ ListsRight' /\ InboxRight'
  BY <1>1, <1>2, <1>9, <1>10, WaitsKept, ListsKept, InboxKept
<1> QED
  BY <1>9, <1>11 DEF StoresInv

\* A wait asks, once when it starts and once for each event it is told of.
LEMMA WaitAsks ==
  ASSUME StoresInv, UNCHANGED <<log, window>>, Exchange({}, {Ask("wait", 0)}), seen' \in 0 .. Now,
         waiter' \notin {"stream", "ended"} => seen' = 0
  PROVE  StoresInv'
<1>1. StoresTyped /\ AcksMeant /\ BootsFit /\ WaitsRight /\ ListsRight /\ InboxRight
  BY DEF StoresInv
<1>2. /\ phase' = phase /\ began' = began
      /\ log' = log /\ focus' = focus /\ told' = told /\ items' = items /\ lists' = lists /\ owed' = owed
  BY DEF window
<1>3. /\ Now \in Nat /\ told \in 0 .. Now /\ began \in 0 .. Now /\ lists \in 0 .. Now
      /\ items \subseteq OpenedBy(Now) /\ owed \in [inbox : Nat, lists : Nat] /\ phase \in {"off", "boot", "online"}
  BY <1>1, TypesMeant DEF StoresTyped
<1>4. PICK g : g = Ask("wait", 0)
  OBVIOUS
<1>5. g \in RequestType /\ ~g.done /\ g.at = 0 /\ g.kind = "wait"
  BY <1>4, AskIs
<1>6. /\ {} \subseteq InFlight /\ {g} \subseteq RequestType
      /\ \A r \in {g} : r.kind # "boot" /\ ~r.done /\ r.at = 0 /\ (r.kind = "ack" => r.item \in OpenedBy(Now))
  BY <1>5
<1>7. Moves({}, {g}) /\ Grows /\ Now' = Now /\ StoresTyped' /\ AcksMeant' /\ BootsFit'
  BY <1>2, <1>3, <1>4, <1>6, ExchangeStep
<1>8. \A kind : Renews({}, {g}, kind)
  BY DEF Renews
<1>9. ListsRight' /\ InboxRight'
  BY <1>1, <1>2, <1>7, <1>8, ListsKept, InboxKept
<1>10. g \in InFlight'
  BY <1>7 DEF Moves
<1>11. WaitsRight'
  BY <1>5, <1>10 DEF WaitsRight, Comes
<1> QED
  BY <1>7, <1>9, <1>11 DEF StoresInv

LEMMA WaitsKeep ==
  ASSUME StoresInv, WaitStarts \/ WaitHears \/ WaitStops
  PROVE  StoresInv'
<1>1. StoresTyped /\ WaitsRight
  BY DEF StoresInv
<1>2. Now \in Nat /\ seen \in Nat /\ seen <= Now
  BY <1>1, TypesMeant
<1>3. CASE WaitStarts
  <2>1. /\ UNCHANGED <<log, window>> /\ Exchange({}, {Ask("wait", 0)})
        /\ waiter = "off" /\ seen' = seen
    BY <1>3 DEF WaitStarts, Sends
  <2>2. seen' \in 0 .. Now /\ seen' = 0
    BY <1>1, <1>2, <2>1 DEF WaitsRight
  <2> QED
    BY <2>1, <2>2, WaitAsks
<1>4. CASE WaitHears
  <2>1. /\ UNCHANGED <<log, window>> /\ Exchange({}, {Ask("wait", 0)})
        /\ waiter' = "stream" /\ seen' = seen + 1 /\ seen < Now
    BY <1>4 DEF WaitHears, Sends
  <2>2. seen' \in 0 .. Now
    BY <1>2, <2>1
  <2> QED
    BY <2>1, <2>2, WaitAsks
<1>5. CASE WaitStops
  <2>1. waiter' = "ended" /\ UNCHANGED <<log, window, flights, seen>>
    BY <1>5 DEF WaitStops
  <2>2. StoresTyped' /\ AcksMeant' /\ BootsFit' /\ ListsRight' /\ InboxRight'
    <3>1. /\ phase' = phase /\ began' = began /\ seen' = seen /\ flights' = flights
          /\ log' = log /\ focus' = focus /\ told' = told /\ items' = items /\ lists' = lists /\ owed' = owed
      BY <2>1 DEF window
    <3> QED
      BY <3>1 DEF StoresInv, StoresTyped, AcksMeant, BootsFit, ListsRight, InboxRight, NoneStale, NoneMissing,
                  Boots, InFlight, Comes, OpenedBy, Acked, OpenAt, Unarchived, Of, Now, RequestType, Kinds
  <2>3. WaitsRight'
    BY <2>1 DEF WaitsRight
  <2> QED
    BY <2>2, <2>3 DEF StoresInv
<1> QED
  BY <1>3, <1>4, <1>5

-----------------------------------------------------------------------------
LEMMA StoresStart == StoresInit => StoresInv
<1> SUFFICES ASSUME StoresInit PROVE StoresInv
  OBVIOUS
<1>1. /\ log = <<>> /\ phase = "off" /\ told = 0 /\ began = 0 /\ items = {} /\ lists = 0
      /\ owed = [inbox |-> 0, lists |-> 0] /\ waiter = "off" /\ seen = 0 /\ flights = EmptyBag
  BY DEF StoresInit
<1>2. Now = 0 /\ log \in Seq([kind : Kinds, item : Nat])
  BY <1>1 DEF Now
<1>3. IsABag(flights) /\ InFlight = {}
  BY <1>1 DEF EmptyBag, SetToBag, IsABag, InFlight, BagToSet
<1>4. StoresTyped
  BY <1>1, <1>2, <1>3 DEF StoresTyped
<1> QED
  BY <1>1, <1>2, <1>3, <1>4 DEF StoresInv, AcksMeant, BootsFit, Boots, WaitsRight, ListsRight, InboxRight,
                                NoneStale, NoneMissing

LEMMA StoresKept == StoresInv /\ [StoresNext]_storesVars => StoresInv'
<1> SUFFICES ASSUME StoresInv, [StoresNext]_storesVars PROVE StoresInv'
  OBVIOUS
<1>1. CASE UNCHANGED storesVars
  <2>1. UNCHANGED <<log, window, flights, waiting>>
    BY <1>1 DEF storesVars
  <2>2. Grows
    BY <2>1, StandsStill DEF StoresInv
  <2> QED
    BY <2>1, <2>2, LogStep
<1>2. CASE TurnStarts \/ TurnFinishes \/ OtherAcks \/ Archives
  BY <1>2, TurnStartsKeep, TurnFinishesKeep, OtherAcksKeep, ArchivesKeep
<1>3. CASE Requests
  BY <1>3, HandleKeeps, AnswerKeeps DEF Requests
<1>4. CASE \E f \in InFlight : Lost(f)
  BY <1>4, LostKeeps
<1>5. CASE OpensWindow \/ Dials \/ HearsEvent \/ AcksVisible
  BY <1>5, OpensWindowKeeps, DialsKeep, HearsEventKeeps, AcksVisibleKeep
<1>6. CASE WaitStarts \/ WaitHears \/ WaitStops
  BY <1>6, WaitsKeep
<1> QED
  BY <1>1, <1>2, <1>3, <1>4, <1>5, <1>6 DEF StoresNext

LEMMA StoresAgree == StoresInv => StoresConverge
<1> SUFFICES ASSUME StoresInv PROVE StoresConverge
  OBVIOUS
<1>1. StoresTyped /\ WaitsRight /\ ListsRight /\ InboxRight
  BY DEF StoresInv
<1>2. Now \in Nat /\ told \in Nat /\ told <= Now
  BY <1>1, TypesMeant
<1>3. ASSUME Quiet, focus = "inbox", owed.inbox = 0
      PROVE  items \subseteq OpenAt(Now) /\ {i \in OpenAt(Now) : Unarchived(i)} \subseteq items
  <2>1. phase = "online" /\ told = Now /\ \A f \in InFlight : f.kind = "wait"
    BY <1>3 DEF Quiet
  <2>2. NoneStale /\ NoneMissing
    BY <1>1, <1>3 DEF InboxRight
  <2>3. items \subseteq OpenAt(Now)
    <3> SUFFICES ASSUME NEW i \in items, i \notin OpenAt(Now) PROVE FALSE
      OBVIOUS
    <3>1. i \in OpenedBy(Now)
      BY <1>1 DEF StoresTyped
    <3>2. PICK n \in Of(Now, "acked") : log[n].item = i
      BY <3>1 DEF OpenedBy, OpenAt
    <3>3. n \in 1 .. told /\ log[n].kind = "acked"
      BY <2>1 DEF Of
    <3> QED
      BY <2>2, <3>2, <3>3 DEF NoneStale
  <2>4. ASSUME NEW i \in OpenAt(Now), Unarchived(i)
        PROVE  i \in items
    <3>1. PICK n \in Of(Now, "awaiting") : log[n].item = i
      BY DEF OpenAt
    <3>2. n \in 1 .. Now /\ n <= told /\ log[n].kind = "awaiting"
      BY <1>2, <2>1 DEF Of
    <3>3. log[n].item \in items \/ Comes("sync", n)
      BY <2>1, <2>2, <2>4, <3>1, <3>2 DEF NoneMissing
    <3> QED
      BY <2>1, <3>1, <3>3 DEF Comes
  <2> QED
    BY <2>3, <2>4
<1>4. ASSUME Quiet, focus = "lists", owed.lists = 0, NEW n \in 1 .. Now, log[n].kind # "acked"
      PROVE  n <= lists
  <2>1. told = Now /\ \A f \in InFlight : f.kind = "wait"
    BY <1>4 DEF Quiet
  <2>2. n > owed.lists
    BY <1>4
  <2>3. n <= lists \/ Comes("tabs", n)
    BY <1>1, <1>4, <2>1, <2>2 DEF ListsRight
  <2> QED
    BY <2>1, <2>3 DEF Comes
<1>5. ASSUME waiter = "stream", seen = Now, InFlight = {}
      PROVE  ~Met(Now)
  <2>1. ~Comes("wait", seen)
    BY <1>5 DEF Comes
  <2>2. PICK v \in seen .. Now : ~Met(v)
    BY <1>1, <1>5, <2>1 DEF WaitsRight
  <2>3. v = Now
    BY <1>2, <1>5
  <2> QED
    BY <2>2, <2>3
<1> QED
  BY <1>3, <1>4, <1>5 DEF StoresConverge, WindowConverges, WaitSeesIt

\* Whatever order answers come in and whichever are lost: once a window was told of all there is and
\* nothing is under way, its inbox and its lists agree with the database, but for what it owes; and
\* coolie wait never sleeps on a condition that already holds.
THEOREM StoresAreTrue == StoresSpec => []StoresConverge
<1>1. StoresInit => StoresInv
  BY StoresStart
<1>2. StoresInv /\ [StoresNext]_storesVars => StoresInv'
  BY StoresKept
<1>3. StoresInv => StoresConverge
  BY StoresAgree
<1> QED
  BY <1>1, <1>2, <1>3, PTL DEF StoresSpec

=============================================================================
