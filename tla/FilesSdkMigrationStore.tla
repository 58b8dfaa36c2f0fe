------------------------ MODULE FilesSdkMigrationStore ------------------------
(***************************************************************************)
(* The Files SDK Migration Store (files-sdk/src/migration-store): one file *)
(* per record in an object store that offers neither transactions nor      *)
(* conditional writes.  Every operation that writes runs uninterruptibly   *)
(* under the mutex of the store's instance; its locks are advisory and the *)
(* store is documented for one writing instance, which is what is modelled: *)
(* callers are fibers of that instance.  An operation ends early when one  *)
(* of its uploads or deletes fails or the process dies.                    *)
(***************************************************************************)
EXTENDS StoreBackend

\* The mutex is free.
MutexFree == \A c \in Caller : call[c] = Idle

(***************************************************************************)
(* start: the predecessors of a new run are read, and the run is written   *)
(* first.  A write that the status algebra refuses rewrites the current    *)
(* state, and goes on to the pointers.                                     *)
(***************************************************************************)
FsStart(c, op, r) ==
    LET existing == runs[r]
        predecessors == IF Present(existing) THEN existing.predecessors
                        ELSE [d \in Scope[r] |-> latest[d].runId]
    IN /\ MutexFree
       /\ StartCall(c, [pc |-> "write-pointers", op |-> op, run |-> r,
                        todo |-> Scope[r]])
       /\ runs' = [runs EXCEPT ![r] = [runs[r] EXCEPT
                    !.status = Transition(@, op).status,
                    !.predecessors = predecessors,
                    !.version = 1,
                    !.created = IF @ > 0 THEN @ ELSE Created]]
       /\ UNCHANGED latest

\* One pointer after the other, where the run may replace the latest one.
FsWritePointer(c) ==
    LET k == call[c]
        d == Min(k.todo)
    IN /\ call[c].pc = "write-pointers"
       /\ latest' = IF canReplaceLatestMigrationDefinitionRun(
                            latest[d].runId, {runs[k.run].predecessors[d]},
                            k.run, NoRun)
                    THEN [latest EXCEPT ![d].runId = k.run]
                    ELSE latest
       /\ Continue(c, IF k.todo = {d} THEN Idle
                      ELSE [k EXCEPT !.todo = @ \ {d}])
       /\ UNCHANGED runs

\* update: one file.  The outcomes are kept beside the state.
FsUpdate(c, op, r) ==
    /\ MutexFree
    /\ SingleCall(c)
    /\ Present(runs[r])
    /\ runs' = IF Refused(runs[r].status, op) THEN runs
               ELSE [runs EXCEPT
                        ![r] = [Updated(runs[r], op, r) EXCEPT
                                  !.definitions =
                                    IF op \in {"completeRun", "failRun"}
                                    THEN Outcomes(op, r) ELSE @]]
    /\ UNCHANGED latest

FsLifecycle(c, op, r) ==
    /\ \/ op \in StartOp /\ FsStart(c, op, r)
       \/ op \in UpdateOp /\ FsUpdate(c, op, r)
    /\ UNCHANGED <<lockVars, itemVars>>

FsLifecycleStep(c) == FsWritePointer(c) /\ UNCHANGED <<lockVars, itemVars>>

-----------------------------------------------------------------------------
(* Locks *)

\* Read, write and read again under the mutex.
FsAcquire(c, d, r) ==
    /\ MutexFree
    /\ SingleCall(c)
    /\ IF Present(locks[d])
       THEN UNCHANGED <<locks, held>>
       ELSE /\ locks' = [locks EXCEPT ![d] = [ownerRunId |-> r,
                                              token |-> calls + 1,
                                              version |-> 1]]
            /\ held' = [held EXCEPT ![c][d] = calls + 1]
    /\ UNCHANGED broken

\* A missing lock is released; one that assertOwner refuses stays.
FsRelease(c, d) ==
    /\ MutexFree
    /\ SingleCall(c)
    /\ held[c][d] > 0
    /\ locks' = IF locks[d].token = held[c][d]
                THEN [locks EXCEPT ![d] = NoLock] ELSE locks
    /\ held' = [held EXCEPT ![c][d] = 0]
    /\ UNCHANGED broken

FsBreak(c, d) ==
    /\ MutexFree
    /\ SingleCall(c)
    /\ locks' = [locks EXCEPT ![d] = NoLock]
    /\ broken' = broken \union {locks[d].token}
    /\ UNCHANGED held

FsLock(c, d) ==
    /\ (\E r \in Run : FsAcquire(c, d, r)) \/ FsRelease(c, d) \/ FsBreak(c, d)
    /\ UNCHANGED <<runVars, itemVars>>

-----------------------------------------------------------------------------
(* Items, completion and cursor *)

\* upsertItemState.
FsUpsertItemState(c, i) ==
    /\ MutexFree
    /\ SingleCall(c)
    /\ items' = [items EXCEPT ![i] = UpsertedItem(items[i], calls + 1)]
    /\ UNCHANGED <<completion, cursor>>

\* recordSourcePassCompletion, setSourceCursor, deleteSourceCursor.
FsRecordCompletion(c) ==
    /\ MutexFree
    /\ SingleCall(c)
    /\ completion' = [covers |-> {i \in Item : Present(items[i])},
                      version |-> 1]
    /\ UNCHANGED <<items, cursor>>

FsSetSourceCursor(c) ==
    /\ MutexFree
    /\ SingleCall(c)
    /\ cursor' = [covers |-> {i \in Item : Present(items[i])}, version |-> 1]
    /\ UNCHANGED <<items, completion>>

FsDeleteSourceCursor(c) ==
    /\ MutexFree
    /\ SingleCall(c)
    /\ cursor' = NoObject
    /\ UNCHANGED <<items, completion>>

\* observeItemState: the read and the write are under the mutex.
FsObserveItemState(c, i, r) ==
    /\ MutexFree
    /\ SingleCall(c)
    /\ Present(items[i])
    /\ items' = [items EXCEPT ![i].inventory = r]
    /\ UNCHANGED <<completion, cursor>>

\* removeRolledBackItem: the item was found; completion, cursor and item are
\* deleted in this order.
FsRemove(c, i) ==
    /\ MutexFree
    /\ StartCall(c, IF Present(items[i])
                    THEN [pc |-> "remove-completion", item |-> i] ELSE Idle)
    /\ UNCHANGED itemVars

FsRemoveStep(c) ==
    \/ /\ call[c].pc = "remove-completion"
       /\ completion' = NoObject
       /\ Continue(c, [call[c] EXCEPT !.pc = "remove-cursor"])
       /\ UNCHANGED <<items, cursor>>
    \/ /\ call[c].pc = "remove-cursor"
       /\ cursor' = NoObject
       /\ Continue(c, [call[c] EXCEPT !.pc = "remove-item"])
       /\ UNCHANGED <<items, completion>>
    \/ /\ call[c].pc = "remove-item"
       /\ items' = [items EXCEPT ![call[c].item] = NoItem]
       /\ Return(c)
       /\ UNCHANGED <<completion, cursor>>

FsItem(c) ==
    /\ \/ \E i \in Item :
            \/ FsUpsertItemState(c, i)
            \/ FsRemove(c, i)
            \/ \E r \in Run : FsObserveItemState(c, i, r)
       \/ FsRecordCompletion(c)
       \/ FsSetSourceCursor(c)
       \/ FsDeleteSourceCursor(c)
    /\ UNCHANGED <<runVars, lockVars>>

FsItemStep(c) == FsRemoveStep(c) /\ UNCHANGED <<runVars, lockVars>>
=============================================================================
