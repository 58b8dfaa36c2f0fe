----------------------- MODULE SqlMigrationStoreSchema -----------------------
(***************************************************************************)
(* Inspecting, installing and upgrading the tables of the SQL Migration    *)
(* Store (stores/sql/sql-migration-store-schema.ts), by processes that open *)
(* the same database at the same time and may die at any point.            *)
(*                                                                         *)
(* applied is the number of rows of the migration history table, if there  *)
(* is one.  shape counts the migrations whose tables, columns and indexes  *)
(* are all there.  The names of tables and columns are left out: a shape   *)
(* is complete up to some migration or it is not.                          *)
(***************************************************************************)
EXTENDS Naturals

CONSTANTS
    Opener,       \* processes that open the store
    Target        \* migrations this SDK knows (3 in the code)

ASSUME SchemaAssumption == Target \in Nat \ {0}

VARIABLES
    hasHistory,   \* the history table exists
    applied,      \* its rows
    shape,        \* migrations whose schema changes are in place
    ddlCommits,   \* the database commits each schema change (MySQL)
    opener        \* opener[p]: where process p is

schemaVars == <<hasHistory, applied, shape, ddlCommits, opener>>
databaseVars == <<hasHistory, applied, shape, ddlCommits>>

\* Databases a process may meet: empty, installed by this or another version
\* of the SDK, and tables without a history.
SchemaInit ==
    /\ \/ hasHistory = FALSE /\ applied = 0 /\ shape \in {0, 1}
       \/ hasHistory = TRUE /\ applied \in 1 .. Target + 1 /\ shape = applied
    /\ ddlCommits \in BOOLEAN
    /\ opener \in [Opener -> [pc : {"start"}, initialize : BOOLEAN,
                              plan : {"none"}]]

\* MUTANT of planSchema: the history alone decides.
PlanByHistory ==
    CASE ~hasHistory -> IF shape = 0 THEN "not-installed" ELSE "untracked"
      [] hasHistory /\ applied = 0 -> "partial"
      [] hasHistory /\ applied > Target -> "future"
      [] hasHistory /\ applied \in 1 .. Target - 1 -> "upgrade-required"
      [] OTHER -> "current"

\* Tables, columns or indexes of migration n are missing.
shapeIssues(n) == shape < n

(***************************************************************************)
(* planSqlMigrationStoreSchemaWithContext, without writing anything.  A    *)
(* history whose names differ ("divergent") does not occur here: every     *)
(* SDK version appends to the same list.                                   *)
(***************************************************************************)
planSchema ==
    CASE ~hasHistory -> IF shape = 0 THEN "not-installed" ELSE "untracked"
      [] hasHistory /\ applied = 0 -> "partial"
      [] hasHistory /\ applied > Target -> "future"
      [] hasHistory /\ applied \in 1 .. Target /\ shapeIssues(applied) -> "partial"
      [] hasHistory /\ applied \in 1 .. Target - 1 /\ ~shapeIssues(applied) ->
            "upgrade-required"
      [] OTHER -> "current"

\* What the plan's id is computed from.
PlanId == <<planSchema, applied>>

Go(p, pc) == opener' = [opener EXCEPT ![p].pc = pc]

\* prepareSqlMigrationStore: an empty database is installed unless the caller
\* said not to; every other schema must be current.
PrepareStore(p) ==
    /\ opener[p].pc = "start"
    /\ opener' = [opener EXCEPT ![p] = [opener[p] EXCEPT
            !.pc = CASE planSchema = "not-installed"
                         /\ opener[p].initialize -> "apply"
                     [] planSchema = "current" -> "opened"
                     [] OTHER -> "refused",
            !.plan = PlanId]]
    /\ UNCHANGED databaseVars

\* planSqlMigrationStoreSchema for an operator, who may apply it later.
PlanUpgrade(p) ==
    /\ opener[p].pc = "start"
    /\ planSchema = "upgrade-required"
    /\ opener' = [opener EXCEPT ![p].pc = "apply", ![p].plan = PlanId]
    /\ UNCHANGED databaseVars

\* applySchemaPlanWithContext: the schema is planned again and must not have
\* changed; only an empty or an older one is migrated.
ApplyPlan(p) ==
    /\ opener[p].pc = "apply"
    /\ Go(p, CASE opener[p].plan # PlanId -> "refused"
               [] opener[p].plan = PlanId
                    /\ planSchema \in {"not-installed", "upgrade-required"} ->
                    "migrate"
               [] OTHER -> "refused")
    /\ UNCHANGED databaseVars

\* External: the Migrator creates its history table first.
EnsureHistory(p) ==
    /\ opener[p].pc = "migrate"
    /\ hasHistory' = TRUE
    /\ Go(p, "run-migrations")
    /\ UNCHANGED <<applied, shape, ddlCommits>>

(***************************************************************************)
(* External: the Migrator runs the pending migrations in one transaction,  *)
(* which records them first.  A database that commits with every schema    *)
(* change shows the history before the changes.                            *)
(***************************************************************************)
RunMigrations(p) ==
    /\ opener[p].pc = "run-migrations"
    /\ IF applied >= Target
       THEN Go(p, "postflight") /\ UNCHANGED <<applied, shape>>
       ELSE /\ applied' = Target
            /\ IF ddlCommits
               THEN Go(p, "changes") /\ UNCHANGED shape
               ELSE Go(p, "postflight") /\ shape' = Target
    /\ UNCHANGED <<hasHistory, ddlCommits>>

\* One migration of makeMigrations on a database that commits each change.
CommitChange(p) ==
    /\ opener[p].pc = "changes"
    /\ shape' = IF shape < Target THEN shape + 1 ELSE shape
    /\ Go(p, IF shape + 1 >= Target THEN "postflight" ELSE "changes")
    /\ UNCHANGED <<hasHistory, applied, ddlCommits>>

\* The plan after the migration must be current.
Postflight(p) ==
    /\ opener[p].pc = "postflight"
    /\ Go(p, IF planSchema = "current" THEN "opened" ELSE "refused")
    /\ UNCHANGED databaseVars

\* The process dies, or its connection does.
OpenerDies(p) ==
    /\ opener[p].pc \notin {"opened", "refused", "dead"}
    /\ Go(p, "dead")
    /\ UNCHANGED databaseVars

SchemaNext ==
    \E p \in Opener :
        \/ PrepareStore(p) \/ PlanUpgrade(p) \/ ApplyPlan(p)
        \/ EnsureHistory(p) \/ RunMigrations(p) \/ CommitChange(p)
        \/ Postflight(p) \/ OpenerDies(p)

SchemaSpec == SchemaInit /\ [][SchemaNext]_schemaVars

\* A store that opened has every table, column and index of this SDK's
\* schema, whoever installed it and whoever died on the way: a history that
\* was committed before its changes does not pass for an installation.
OpenedStoreIsComplete ==
    \A p \in Opener : opener[p].pc = "opened" =>
        hasHistory /\ applied = Target /\ shape = Target
=============================================================================
