--------------------------- MODULE MCStoreBackends ---------------------------
(***************************************************************************)
(* TLC instance of the durable stores under concurrent callers.  A         *)
(* behaviour serves one backend and one family of operations: lifecycle    *)
(* writes, locks or items; or it opens SQL databases.                      *)
(***************************************************************************)
EXTENDS TLC, DurableStores, SqlMigrationStoreSchema

CONSTANTS r1, r2, Backends

VARIABLE family

MCScope == (r1 :> {1, 2}) @@ (r2 :> {1})

\* No process opens a database.
NoneOpens ==
    /\ hasHistory = FALSE /\ applied = 0 /\ shape = 0
    /\ ddlCommits = FALSE
    /\ opener = [p \in Opener |-> [pc |-> "dead"]]

MCInit ==
    /\ StoresInit
    /\ backend \in Backends
    /\ \/ /\ family \in Families
          /\ backend = "file" => family # "lifecycle"
          /\ NoneOpens
       \/ family = "schema" /\ backend = "sql" /\ SchemaInit

MCNext ==
    /\ \/ StoresNext({family}) /\ UNCHANGED schemaVars
       \/ family = "schema" /\ SchemaNext /\ UNCHANGED backendVars
    /\ UNCHANGED family

MCSpec == MCInit /\ [][MCNext]_<<backendVars, schemaVars, family>>
=============================================================================
