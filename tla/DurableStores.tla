---------------------------- MODULE DurableStores ----------------------------
(***************************************************************************)
(* The durable stores as one specification: a behaviour serves one backend *)
(* to any number of callers, who start operations of its three families    *)
(* (lifecycle writes, locks, items) and go on with those they are in, or   *)
(* lose them.                                                              *)
(***************************************************************************)
EXTENDS SqlMigrationStore, CommercetoolsMigrationStore,
        FilesSdkMigrationStore, FileStoreRecords

Backend == {"sql", "commercetools", "files", "file"}

Families == {"lifecycle", "locks", "items"}

-----------------------------------------------------------------------------
(* F: the families of which operations are started. *)

Sql(c, F) ==
    \/ /\ "lifecycle" \in F
       /\ \E op \in LifecycleOp, r \in Run : SqlLifecycle(c, op, r)
    \/ "locks" \in F /\ \E d \in Definition : SqlLock(c, d)
    \/ "items" \in F /\ SqlItem(c)

Commercetools(c, F) ==
    \/ /\ "lifecycle" \in F
       /\ \E op \in LifecycleOp, r \in Run : CtLifecycle(c, op, r)
       /\ UNCHANGED <<lockVars, itemVars>>
    \/ CtLifecycleStep(c)
    \/ "locks" \in F /\ \E d \in Definition : CtLock(c, d)
    \/ CtLockStep(c)
    \/ "items" \in F /\ CtItem(c)
    \/ CtItemStep(c)

FilesSdk(c, F) ==
    \/ /\ "lifecycle" \in F
       /\ \E op \in LifecycleOp, r \in Run : FsLifecycle(c, op, r)
    \/ FsLifecycleStep(c)
    \/ "locks" \in F /\ \E d \in Definition : FsLock(c, d)
    \/ "items" \in F /\ FsItem(c)
    \/ FsItemStep(c)

\* The lifecycle writes of the file store are those of FileMigrationStore.
File(c, F) ==
    \/ "locks" \in F /\ \E d \in Definition : FileLock(c, d)
    \/ FileLockStep(c)
    \/ "items" \in F /\ FileItem(c)
    \/ FileItemStep(c)

StoresInit == BackendInit /\ backend \in Backend

StoresNext(F) ==
    \E c \in Caller :
        \/ backend = "sql" /\ Sql(c, F) /\ UNCHANGED backend
        \/ backend = "commercetools" /\ Commercetools(c, F)
             /\ UNCHANGED backend
        \/ backend = "files" /\ FilesSdk(c, F) /\ UNCHANGED backend
        \/ backend = "file" /\ File(c, F) /\ UNCHANGED backend
        \/ LoseCall(c)

StoresSpec == StoresInit /\ [][StoresNext(Families)]_backendVars
=============================================================================
