------------------------------ MODULE Bootstrap ------------------------------
(***************************************************************************)
(* The start of a server on PostgreSQL: MigrateAndSeed and migratePostGIS  *)
(* of repository/support_repository.go as cmd/server/main.go runs them.    *)
(* The start is a list of statements without a transaction around them:    *)
(* another server of the same database, one that is starting or one that   *)
(* already serves, may come in between any two, and the process may die    *)
(* there.  A statement that fails ends the process, and docker-compose.yml *)
(* starts it again.                                                        *)
(***************************************************************************)
EXTENDS Integers, Sequences, SequencesExt

CONSTANTS
  Servers,    \* processes that share the database
  Tables,     \* tables with a GeoJSON column and a spatial column, in order
  Editable,   \* those whose GeoJSON a handler updates (land_parcels)
  RowIds,     \* ids of their rows
  Seeds,      \* usernames of the demo accounts, in order
  Absent,     \* no such row
  MaxText,    \* bound: GeoJSON contents a row goes through
  MaxFaults   \* bound: crashes and failed statements

ASSUME ListsAssumption == /\ Tables \in Seq(ToSet(Tables)) /\ IsInjective(Tables)
                          /\ Seeds \in Seq(ToSet(Seeds)) /\ IsInjective(Seeds)
                          /\ Editable \subseteq ToSet(Tables)
ASSUME ServersAssumption == Servers # {}
ASSUME BoundsAssumption == MaxText \in Nat \ {0} /\ MaxFaults \in Nat

VARIABLES
  at,       \* the statement each server executes next; 0 when it is down
  schema,   \* tables exist, spatial columns and functions exist
  check,    \* the constraint user_role_allowed: "none", "legacy", "current"
  trigger,  \* tables whose sync trigger exists
  row,      \* the tables: text is the GeoJSON, geom what the spatial column holds
  lapsed,   \* rows edited without the trigger since they were last in step
  account,  \* the demo accounts: "seeded", or "changed" by an administrator
  faults

database == <<schema, check, trigger, row, lapsed, account>>
vars == <<at, schema, check, trigger, row, lapsed, account, faults>>

------------------------------------------------------------------------------
\* The statements in the order they are executed.  Statements that only say
\* IF NOT EXISTS or OR REPLACE are one ("spatial").
Each(op, list) == [i \in 1..Len(list) |-> [op |-> op, on |-> list[i]]]
Pairs(op1, op2, list) ==
  [i \in 1..(2 * Len(list)) |-> [op |-> IF i % 2 = 1 THEN op1 ELSE op2,
                                 on |-> list[(i + 1) \div 2]]]

\* Mutant: the rows are filled before the triggers are there.
StatementsBackfillFirst ==
  <<[op |-> "autoMigrate"], [op |-> "dropCheck"], [op |-> "addCheck"],
    [op |-> "spatial"]>>
    \o Each("backfill", Tables)
    \o Pairs("dropTrigger", "createTrigger", Tables)
    \o Pairs("find", "create", Seeds)

Statements ==
  <<[op |-> "autoMigrate"], [op |-> "dropCheck"], [op |-> "addCheck"],
    [op |-> "spatial"]>>
    \o Pairs("dropTrigger", "createTrigger", Tables)
    \o Each("backfill", Tables)
    \o Pairs("find", "create", Seeds)

Down(s)     == at[s] = 0
Serving(s)  == at[s] = Len(Statements) + 1
Starting(s) == ~ Down(s) /\ ~ Serving(s)

Null == 0
TableRow == [text : 1..MaxText, geom : 0..MaxText]
Keys == ToSet(Tables) \X RowIds

ASSUME AbsentAssumption == Absent \notin TableRow \cup {"seeded", "changed"}

TypeOK ==
  /\ at \in [Servers -> 0..(Len(Statements) + 1)]
  /\ schema \subseteq {"tables", "spatial"}
  /\ check \in {"none", "legacy", "current"}
  /\ trigger \subseteq ToSet(Tables)
  /\ row \in [Keys -> TableRow \cup {Absent}]
  /\ lapsed \subseteq Keys
  /\ account \in [ToSet(Seeds) -> {"seeded", "changed", Absent}]
  /\ faults \in 0..MaxFaults

------------------------------------------------------------------------------
\* A new database, or an installation of before the spatial columns.
Init ==
  /\ at = [s \in Servers |-> 0]
  /\ trigger = {} /\ lapsed = {} /\ faults = 0
  /\ \/ /\ schema = {} /\ check = "none"
        /\ row = [k \in Keys |-> Absent]
        /\ account = [a \in ToSet(Seeds) |-> Absent]
     \/ /\ schema = {"tables"} /\ check = "legacy"
        /\ row \in [Keys -> {Absent, [text |-> 1, geom |-> Null]}]
        /\ account \in [ToSet(Seeds) -> {Absent, "changed"}]

Launch(s) ==
  /\ Down(s)
  /\ at' = [at EXCEPT ![s] = 1]
  /\ UNCHANGED <<database, faults>>

\* Mutant: an error is logged and the start goes on.
ExitLogged(s) == at' = [at EXCEPT ![s] = IF Starting(s) THEN @ + 1 ELSE 0]

\* err == nil: the next statement; otherwise os.Exit(1).
Done(s) == at' = [at EXCEPT ![s] = @ + 1]
Exit(s) == at' = [at EXCEPT ![s] = 0]

At(s, op) == Starting(s) /\ Statements[at[s]].op = op
On(s) == Statements[at[s]].on

\* AutoMigrate of the library: it creates the tables and a constraint that has
\* no namesake.
AutoMigrate(s) ==
  /\ At(s, "autoMigrate")
  /\ schema' = schema \cup {"tables"}
  /\ check' = IF check = "none" THEN "current" ELSE check
  /\ Done(s)
  /\ UNCHANGED <<trigger, row, lapsed, account, faults>>

DropCheck(s) ==
  /\ At(s, "dropCheck")
  /\ check' = "none"
  /\ Done(s)
  /\ UNCHANGED <<schema, trigger, row, lapsed, account, faults>>

\* ADD CONSTRAINT fails when the other server has added it meanwhile.
AddCheck(s) ==
  /\ At(s, "addCheck")
  /\ IF check = "none" THEN check' = "current" /\ Done(s)
                       ELSE UNCHANGED check /\ Exit(s)
  /\ UNCHANGED <<schema, trigger, row, lapsed, account, faults>>

AddSpatial(s) ==
  /\ At(s, "spatial")
  /\ schema' = schema \cup {"spatial"}
  /\ Done(s)
  /\ UNCHANGED <<check, trigger, row, lapsed, account, faults>>

DropTrigger(s) ==
  /\ At(s, "dropTrigger")
  /\ trigger' = trigger \ {On(s)}
  /\ Done(s)
  /\ UNCHANGED <<schema, check, row, lapsed, account, faults>>

CreateTrigger(s) ==
  /\ At(s, "createTrigger")
  /\ IF On(s) \notin trigger THEN trigger' = trigger \cup {On(s)} /\ Done(s)
                             ELSE UNCHANGED trigger /\ Exit(s)
  /\ UNCHANGED <<schema, check, row, lapsed, account, faults>>

Unmaterialized(k) == row[k] # Absent /\ row[k].geom = Null

\* UPDATE ... WHERE boundary_geom IS NULL; the trigger is not for this column.
Backfill(s) ==
  /\ At(s, "backfill")
  /\ row' = [k \in Keys |-> IF k[1] = On(s) /\ Unmaterialized(k)
                            THEN [row[k] EXCEPT !.geom = row[k].text] ELSE row[k]]
  /\ Done(s)
  /\ UNCHANGED <<schema, check, trigger, lapsed, account, faults>>

\* Mutant: only active accounts are looked for.
FindSeedActive(s) ==
  /\ At(s, "find")
  /\ at' = [at EXCEPT ![s] = IF account[On(s)] = "seeded" THEN @ + 2 ELSE @ + 1]
  /\ UNCHANGED <<database, faults>>

\* First(&existing): an account that is there, active or not, is left alone.
FindSeed(s) ==
  /\ At(s, "find")
  /\ at' = [at EXCEPT ![s] = IF account[On(s)] # Absent THEN @ + 2 ELSE @ + 1]
  /\ UNCHANGED <<database, faults>>

\* Mutant: ON CONFLICT DO UPDATE.
CreateSeedUpserts(s) ==
  /\ At(s, "create")
  /\ account' = [account EXCEPT ![On(s)] = "seeded"]
  /\ Done(s)
  /\ UNCHANGED <<schema, check, trigger, row, lapsed, faults>>

\* Create: the unique index on username refuses a second one.
CreateSeed(s) ==
  /\ At(s, "create")
  /\ IF account[On(s)] = Absent
     THEN account' = [account EXCEPT ![On(s)] = "seeded"] /\ Done(s)
     ELSE UNCHANGED account /\ Exit(s)
  /\ UNCHANGED <<schema, check, trigger, row, lapsed, faults>>

\* The database refuses a statement for reasons of its own, or the process dies.
Fault(s) ==
  /\ ~ Down(s)
  /\ faults < MaxFaults
  /\ faults' = faults + 1
  /\ Exit(s)
  /\ UNCHANGED database

------------------------------------------------------------------------------
\* What the trigger function makes of a row about to be stored.
Synced(k, text, geom) ==
  [text |-> text, geom |-> IF k[1] \in trigger THEN text ELSE geom]

\* A handler of a server that serves inserts a row.
Insert(s, k) ==
  /\ Serving(s)
  /\ row[k] = Absent
  /\ row' = [row EXCEPT ![k] = Synced(k, 1, Null)]
  /\ UNCHANGED <<at, schema, check, trigger, lapsed, account, faults>>

\* UpdateParcel writes boundary_geojson.
Edit(s, k) ==
  /\ Serving(s)
  /\ k[1] \in Editable
  /\ row[k] # Absent /\ row[k].text < MaxText
  /\ row' = [row EXCEPT ![k] = Synced(k, @.text + 1, @.geom)]
  /\ lapsed' = IF k[1] \in trigger \/ row[k].geom = Null THEN lapsed \ {k}
               ELSE lapsed \cup {k}
  /\ UNCHANGED <<at, schema, check, trigger, account, faults>>

\* An administrator deactivates a demo account or changes its role or password.
ChangeAccount(a) ==
  /\ account[a] = "seeded"
  /\ account' = [account EXCEPT ![a] = "changed"]
  /\ UNCHANGED <<at, schema, check, trigger, row, lapsed, faults>>

StartUp(s) ==
  \/ Launch(s) \/ AutoMigrate(s) \/ DropCheck(s) \/ AddCheck(s) \/ AddSpatial(s)
  \/ DropTrigger(s) \/ CreateTrigger(s) \/ Backfill(s) \/ FindSeed(s) \/ CreateSeed(s)

Next ==
  \/ \E s \in Servers : StartUp(s)
  \/ \E s \in Servers : Fault(s)
  \/ \E s \in Servers, k \in Keys : Insert(s, k)
  \/ \E s \in Servers, k \in Keys : Edit(s, k)
  \/ \E a \in ToSet(Seeds) : ChangeAccount(a)

Spec == Init /\ [][Next]_vars

\* A start that has begun goes on: the library and the database answer.
Proceed(s) == StartUp(s) /\ Starting(s)
FairSpec == Spec /\ \A s \in Servers : WF_vars(Proceed(s))

------------------------------------------------------------------------------
AllServe == \A s \in Servers : Serving(s)

\* When every server serves, nothing is missing from the schema: a constraint or
\* trigger one of them dropped was put back, by it or by the one it raced, and a
\* server whose CREATE or ADD came second did not get so far.
SchemaComplete ==
  /\ TypeOK
  /\ AllServe => /\ schema = {"tables", "spatial"}
                 /\ check = "current"
                 /\ trigger = ToSet(Tables)

\* When every server serves, the spatial columns say what the GeoJSON says, also
\* for rows of an older installation and for rows stored while a trigger was
\* missing; except for a boundary edited in that gap, which no backfill repairs.
GeometryFollows ==
  AllServe => \A k \in Keys : row[k] # Absent =>
    \/ row[k].geom = row[k].text
    \/ k \in lapsed /\ row[k].geom # Null

\* However often and wherever a start is repeated, an account that exists keeps
\* what an administrator made of it: a deactivated demo account stays so.
StartsKeepAccounts ==
  [][\A a \in ToSet(Seeds) : account[a] = "changed" => account'[a] = "changed"]_vars

\* Whatever a crash or another server left half done, a server that is started
\* again whenever it is down (restart: unless-stopped) comes up and stays up once
\* the others have stopped starting.  Two that start at once may stop each other
\* for ever: AutoMigrate of one adds the constraint the other has just dropped.
ComesUp ==
  \A s \in Servers :
    (/\ WF_vars(Launch(s))
     /\ <>[](\A z \in Servers \ {s} : ~ Starting(z))) => <>[]Serving(s)
==============================================================================
