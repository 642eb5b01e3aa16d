------------------------------ MODULE Engines ------------------------------
(***************************************************************************)
(* The engines a tab may run: the database brought up to date when a       *)
(* daemon starts (db/sqlite.ts, db/migrations.ts), the rows of the custom  *)
(* engines (engine/custom-store.ts) with the legacy Copilot row that makes *)
(* way for the built-in engine (engine/copilot-migration.ts), the registry *)
(* each daemon keeps in memory (engine/registry.ts, http/app.ts), the list *)
(* a client shows and the launch of a tab.  Two daemons may start at once; *)
(* how one of them wins the claim is in Daemon.                            *)
(***************************************************************************)
EXTENDS Naturals, Sequences, FiniteSets

CONSTANTS
  Starters,    \* processes of coolie-server
  EngineTabs,  \* engine tabs of old tasks
  Ids,         \* ids of custom engines, those of Spares among them
  Spares,      \* copilot-custom, copilot-custom-1, ...: the names the migration may give
  Bodies,      \* definitions of custom engines
  NoRun,       \* no definition
  MaxSaves     \* bound: saves, deletions, lists, crashes and launches

Copilot == "copilot"          \* the id of the built-in engine
BuiltIn == "built-in"         \* what the built-in engine runs
Preset == "preset"            \* the definition of the legacy preset: the built-in command

ASSUME EngineConstants ==
  /\ MaxSaves \in Nat /\ Spares \in Seq(Ids) /\ Copilot \notin Ids
  /\ {NoRun, BuiltIn} \cap (Bodies \cup {Preset}) = {}

VARIABLES
  applied,   \* schema_migrations
  rows,      \* custom_engines: [def, on] of each id, def = NoRun where there is no row
  uses,      \* tabs.engine_id
  inbox,     \* attention_items of each tab
  awaits,    \* the tabs that awaited input when the database was left
  up,        \* each daemon: "down", "migrating", "built" or "live"
  known,     \* the migrations a daemon found applied when it started
  registry,  \* what each id runs in a daemon, NoRun where it is not registered
  listing,   \* GET /config of a client: the rows it read before it probes, or <<>>
  listed,    \* what the client shows: the ids that are on, those that are off, and the rows it has
  meant,     \* history: what each tab runs by the user's will
  wrong,     \* history: the tabs launched with something else
  overtaken, \* history: daemons that built their registry before another one ended
  saves      \* counter of the bound

engineVars == <<applied, rows, uses, inbox, awaits, up, known, registry, listing, listed,
                meant, wrong, overtaken, saves>>

AllIds == Ids \cup {Copilot}
Row == [def : Bodies \cup {Preset, NoRun}, on : BOOLEAN]
NoRow == [def |-> NoRun, on |-> FALSE]

\* MIGRATIONS, by what they do to the data: those that make tables, the custom engines, the
\* backfill of the attention items, the legacy Copilot row.
Steps == <<"core", "engines", "attention", "copilot">>
Applied(n) == {Steps[i] : i \in 1 .. n}

\* Property: type correctness.
EnginesTypeOK ==
  /\ applied \subseteq Applied(Len(Steps))
  /\ rows \in [AllIds -> Row] /\ uses \in [EngineTabs -> AllIds]
  /\ inbox \in [EngineTabs -> 0 .. 1] /\ awaits \subseteq EngineTabs
  /\ up \in [Starters -> {"down", "migrating", "built", "live"}]
  /\ known \in [Starters -> SUBSET Applied(Len(Steps))]
  /\ registry \in [Starters -> [AllIds -> Bodies \cup {Preset, NoRun, BuiltIn}]]
  /\ listing = <<>> \/ listing \in [AllIds -> Row]
  /\ listed \in [on : SUBSET AllIds, off : SUBSET AllIds, as : [AllIds -> Row]]
  /\ meant \in [EngineTabs -> Bodies \cup {BuiltIn, Preset, NoRun}]
  /\ wrong \subseteq EngineTabs /\ overtaken \subseteq Starters /\ saves \in 0 .. MaxSaves

-----------------------------------------------------------------------------
(* The database an earlier version left: migrated as far as that version   *)
(* went, with custom engines if it knew them; the legacy version let a     *)
(* custom engine have the id of Copilot.                                   *)

Means(e, r) == IF r[e].def # NoRun THEN (IF r[e].def = Preset /\ e = Copilot THEN BuiltIn ELSE r[e].def)
               ELSE IF e = Copilot THEN BuiltIn ELSE NoRun

EnginesInit ==
  /\ \E n \in 0 .. Len(Steps) :
       /\ applied = Applied(n)
       /\ rows \in [AllIds -> {NoRow} \cup [def : Bodies \cup {Preset}, on : {TRUE}]]
       /\ "engines" \notin applied => \A e \in AllIds : rows[e] = NoRow
       /\ "copilot" \in applied => rows[Copilot] = NoRow
       /\ \E i \in DOMAIN Spares : rows[Spares[i]] = NoRow
  /\ uses \in [EngineTabs -> AllIds]
  /\ \A t \in EngineTabs : Means(uses[t], rows) # NoRun
  /\ awaits \in SUBSET EngineTabs
  /\ inbox = [t \in EngineTabs |-> IF "attention" \in applied /\ t \in awaits THEN 1 ELSE 0]
  /\ up = [d \in Starters |-> "down"] /\ known = [d \in Starters |-> {}]
  /\ registry = [d \in Starters |-> [e \in AllIds |-> NoRun]]
  /\ listing = <<>> /\ listed = [on |-> {}, off |-> {}, as |-> [e \in AllIds |-> NoRow]]
  /\ meant = [t \in EngineTabs |-> Means(uses[t], rows)]
  /\ wrong = {} /\ overtaken = {} /\ saves = 0

Saves == saves < MaxSaves /\ saves' = saves + 1

-----------------------------------------------------------------------------
(* Starting.                                                               *)

\* DbLive opens the database; runMigrations reads once what is applied.
Starts(d) ==
  /\ up[d] = "down" /\ Saves
  /\ up' = [up EXCEPT ![d] = "migrating"]
  /\ known' = [known EXCEPT ![d] = applied]
  /\ UNCHANGED <<applied, rows, uses, inbox, awaits, registry, listing, listed, meant, wrong, overtaken>>

\* pickRenameId.
FreeSpare == Spares[CHOOSE i \in DOMAIN Spares :
                      /\ rows[Spares[i]] = NoRow
                      /\ \A j \in 1 .. i - 1 : rows[Spares[j]] # NoRow]

\* A plausible slip: the row is renamed and the tabs that use it are not.
MakesWay_LeavesTabs ==
  /\ IF rows[Copilot].def \in {NoRun, Preset}
     THEN rows' = [rows EXCEPT ![Copilot] = NoRow]
     ELSE rows' = [rows EXCEPT ![FreeSpare] = rows[Copilot], ![Copilot] = NoRow]
  /\ UNCHANGED uses

\* migrateCopilotCustomRows: the preset goes, the built-in engine has its id; any other row of that
\* id gets a free one, and the tabs that use it follow.
MakesWay ==
  IF rows[Copilot].def \in {NoRun, Preset}
  THEN rows' = [rows EXCEPT ![Copilot] = NoRow] /\ UNCHANGED uses
  ELSE /\ rows' = [rows EXCEPT ![FreeSpare] = rows[Copilot], ![Copilot] = NoRow]
       /\ uses' = [t \in EngineTabs |-> IF uses[t] = Copilot THEN FreeSpare ELSE uses[t]]

\* m0009: an item for each tab that awaits input.
Backfills == inbox' = [t \in EngineTabs |-> IF t \in awaits THEN inbox[t] + 1 ELSE inbox[t]]

\* One migration with its record, in one transaction, unless this daemon saw it applied.
Migrates(d) ==
  /\ up[d] = "migrating"
  /\ \E i \in DOMAIN Steps :
       /\ Steps[i] \notin known[d] \cup applied
       /\ \A j \in 1 .. i - 1 : Steps[j] \in known[d]
       /\ applied' = applied \cup {Steps[i]}
       /\ known' = [known EXCEPT ![d] = @ \cup {Steps[i]}]
       /\ IF Steps[i] = "attention" THEN Backfills ELSE UNCHANGED inbox
       /\ IF Steps[i] = "copilot" THEN MakesWay ELSE UNCHANGED <<rows, uses>>
  /\ UNCHANGED <<awaits, up, registry, listing, listed, meant, wrong, overtaken, saves>>

\* Another daemon applied it meanwhile: the table exists, or the record does; the transaction is
\* rolled back and the process ends.
Collides(d) ==
  /\ up[d] = "migrating"
  /\ \E i \in DOMAIN Steps : /\ Steps[i] \in applied \ known[d]
                             /\ \A j \in 1 .. i - 1 : Steps[j] \in known[d]
  /\ up' = [up EXCEPT ![d] = "down"]
  /\ UNCHANGED <<applied, rows, uses, inbox, awaits, known, registry, listing, listed, meant, wrong, overtaken, saves>>

\* makeEngineRegistry: the built-in engines, then the rows that are enabled.
Registered(r) == [e \in AllIds |-> IF e = Copilot THEN BuiltIn
                                   ELSE IF r[e].on THEN r[e].def ELSE NoRun]

Builds(d) ==
  /\ up[d] = "migrating" /\ known[d] = Applied(Len(Steps))
  /\ up' = [up EXCEPT ![d] = "built"]
  /\ registry' = [registry EXCEPT ![d] = Registered(rows)]
  /\ overtaken' = IF \E e \in Starters \ {d} : up[e] = "live" THEN overtaken \cup {d} ELSE overtaken \ {d}
  /\ UNCHANGED <<applied, rows, uses, inbox, awaits, known, listing, listed, meant, wrong, saves>>

Lives(d) ==
  /\ up[d] = "built" /\ \A e \in Starters : up[e] # "live"
  /\ up' = [up EXCEPT ![d] = "live"]
  /\ overtaken' = overtaken \cup {e \in Starters \ {d} : up[e] = "built"}
  /\ UNCHANGED <<applied, rows, uses, inbox, awaits, known, registry, listing, listed, meant, wrong, saves>>

\* A daemon ends: the claim was lost, it was stopped, or it died.
Ends(d) ==
  /\ up[d] # "down" /\ Saves
  /\ up' = [up EXCEPT ![d] = "down"]
  /\ listing' = IF up[d] = "live" THEN <<>> ELSE listing
  /\ UNCHANGED <<applied, rows, uses, inbox, awaits, known, registry, listed, meant, wrong, overtaken>>

-----------------------------------------------------------------------------
(* Custom engines, their list and the launch of a tab.                     *)

Live(d) == up[d] = "live"

\* validateCustomEngine: of the ids a request names, a built-in one is refused.
Validates(e) == e # Copilot

\* CustomEngineStore put and remove.
Stores(e, row) == rows' = [rows EXCEPT ![e] = row]

\* The registry is a map in memory; the route changes it after the row, in one turn.
Registers(d, e, runs) == registry' = [registry EXCEPT ![d][e] = runs]

\* POST /engines/custom.
Puts(d, e, def, on) ==
  /\ Live(d) /\ Saves /\ Validates(e)
  /\ Stores(e, [def |-> def, on |-> on])
  /\ Registers(d, e, IF on THEN def ELSE NoRun)
  /\ meant' = [t \in EngineTabs |-> IF uses[t] = e THEN def ELSE meant[t]]
  /\ UNCHANGED <<applied, uses, inbox, awaits, up, known, listing, listed, wrong, overtaken>>

\* POST /engines/custom/presets/copilot: for a built-in id an answer and no row.
PutsPreset(d, e) == e # Copilot /\ Puts(d, e, Preset, TRUE)

\* DELETE /engines/custom/:id, whoever uses it.
Removes(d, e) ==
  /\ Live(d) /\ Saves /\ e \in Ids /\ rows[e] # NoRow
  /\ Stores(e, NoRow) /\ Registers(d, e, NoRun)
  /\ meant' = [t \in EngineTabs |-> IF uses[t] = e THEN NoRun ELSE meant[t]]
  /\ UNCHANGED <<applied, uses, inbox, awaits, up, known, listing, listed, wrong, overtaken>>

\* GET /config reads the rows, probes every engine, ...
ListStarts(d) ==
  /\ Live(d) /\ Saves /\ listing = <<>> /\ listing' = rows
  /\ UNCHANGED <<applied, rows, uses, inbox, awaits, up, known, registry, listed, meant, wrong, overtaken>>

\* ... and then lists the registry as it is by now, with the rows disabled as they were.
ListEnds(d) ==
  /\ Live(d) /\ listing # <<>>
  /\ listed' = [on |-> {e \in AllIds : registry[d][e] # NoRun},
                off |-> {e \in AllIds : listing[e] # NoRow /\ ~listing[e].on},
                as |-> listing]
  /\ listing' = <<>>
  /\ UNCHANGED <<applied, rows, uses, inbox, awaits, up, known, registry, meant, wrong, overtaken, saves>>

\* The engines page of the settings: a row is turned on or off with the definition it was listed
\* with, is deleted, or a definition is typed.
Toggles(d, e) ==
  /\ listed.as[e] # NoRow
  /\ \E on \in BOOLEAN : /\ e \in (IF on THEN listed.off ELSE listed.on)
                        /\ Puts(d, e, listed.as[e].def, on)

EnginesPage(d) ==
  \E e \in AllIds : \/ Toggles(d, e)
                    \/ listed.as[e] # NoRow /\ Removes(d, e)
                    \/ \E def \in Bodies : Puts(d, e, def, TRUE)

\* coolie engine put, delete and copilot.
CliEngines(d) ==
  \E e \in AllIds : \/ Removes(d, e) \/ PutsPreset(d, e)
                    \/ \E def \in Bodies, on \in BOOLEAN : Puts(d, e, def, on)

\* probeCopilot: a version is asked of a binary that was found, the login always.
Probed(binary, version, login) ==
  [binary |-> binary, version |-> binary /\ version, login |-> login]

\* copilotToEngineAvailability.
Ready(probe) == probe.binary /\ probe.version /\ probe.login

\* A tab is started or healed: getEngine, and for Copilot assertCopilotReadyToLaunch.
Launches(d, t) ==
  /\ Live(d) /\ Saves /\ registry[d][uses[t]] # NoRun
  /\ uses[t] = Copilot => \E b, v, l \in BOOLEAN : Ready(Probed(b, v, l))
  /\ wrong' = IF registry[d][uses[t]] = meant[t] \/ d \in overtaken THEN wrong ELSE wrong \cup {t}
  /\ UNCHANGED <<applied, rows, uses, inbox, awaits, up, known, registry, listing, listed, meant, overtaken>>

EnginesNext ==
  \E d \in Starters :
    \/ Starts(d) \/ Migrates(d) \/ Collides(d) \/ Builds(d) \/ Lives(d) \/ Ends(d)
    \/ ListStarts(d) \/ ListEnds(d) \/ EnginesPage(d) \/ CliEngines(d)
    \/ \E t \in EngineTabs : Launches(d, t)

EnginesSpec == EnginesInit /\ [][EnginesNext]_engineVars

-----------------------------------------------------------------------------
\* A daemon that lives has every migration, each applied once, and no row has a built-in id.
Migrated ==
  (\E d \in Starters : Live(d)) =>
    /\ applied = Applied(Len(Steps)) /\ rows[Copilot] = NoRow
    /\ \A t \in EngineTabs : inbox[t] = IF t \in awaits THEN 1 ELSE 0

\* The registry of the daemon that lives is what the next one would build.
RegistryIsStore == \A d \in Starters \ overtaken : Live(d) => registry[d] = Registered(rows)

\* Property: however daemons that start together, crashes between two migrations, saves, deletions
\* and restarts interleave, the database of a daemon that lives is migrated once and whole, its
\* registry agrees with the rows, and a tab runs the definition its user gave it, though the
\* migration renamed the engine.
EnginesHold == Migrated /\ RegistryIsStore /\ wrong = {}

\* Not run, it fails: a client shows an engine once.  It was turned on while GET /config probed.
ListedOnce == listed.on \cap listed.off = {}

\* Not run, it fails: a tab's engine is registered.  Nothing asks who uses an engine it deletes.
EnginesUsedStay == \A d \in Starters, t \in EngineTabs : Live(d) => registry[d][uses[t]] # NoRun
=============================================================================
