-------------------------- MODULE SqlMigrationStore --------------------------
(***************************************************************************)
(* The SQL Migration Store (stores/sql/sql-migration-store.ts).  A         *)
(* lifecycle write is one transaction that first locks the run's row; the  *)
(* statements on cursors, completions, contracts and locks are atomic by   *)
(* themselves; observeItemState is two statements without a transaction.   *)
(* The latest run of a definition is a row of its own that getLatestRunState*)
(* joins with the run.                                                     *)
(***************************************************************************)
EXTENDS StoreBackend

(***************************************************************************)
(* beginRun and queueRun.  Every accepted start write replaces the run's   *)
(* definition rows and makes it the latest run of all of them.             *)
(***************************************************************************)
SqlWriteRunState(c, op, r) ==
    LET decision == Transition(runs[r].status, op)
    IN /\ SingleCall(c)
       /\ IF decision.accepted
          THEN /\ runs' = [runs EXCEPT ![r] = [runs[r] EXCEPT
                    !.status = decision.status,
                    !.definitions = [d \in Scope[r] |-> decision.status],
                    !.version = 1,
                    !.created = IF @ > 0 THEN @ ELSE Created]]
               /\ latest' = [d \in Definition |->
                    IF d \in Scope[r] THEN [latest[d] EXCEPT !.runId = r]
                    ELSE latest[d]]
          ELSE UNCHANGED runVars

\* MUTANT of SqlUpdateRunState: attaching a handle clears the definitions'
\* outcomes.
SqlUpdateWithOutcomes(c, op, r) ==
    /\ SingleCall(c)
    /\ Present(runs[r])
    /\ IF Refused(runs[r].status, op)
       THEN UNCHANGED runs
       ELSE runs' = [runs EXCEPT
                ![r] = [Updated(runs[r], op, r) EXCEPT
                            !.definitions = [d \in Scope[r] |->
                                IF d \in DOMAIN Outcomes(op, r)
                                THEN Outcomes(op, r)[d]
                                ELSE Requested(op)]]]
    /\ UNCHANGED latest

\* The other lifecycle writes; a run without a row is an error.  Only a write
\* that requests a status updates the definition rows.
SqlUpdateRunState(c, op, r) ==
    /\ SingleCall(c)
    /\ Present(runs[r])
    /\ IF Refused(runs[r].status, op)
       THEN UNCHANGED runs
       ELSE runs' = [runs EXCEPT
                ![r] = [Updated(runs[r], op, r) EXCEPT
                            !.definitions = [d \in Scope[r] |->
                                IF Requested(op) = "none" THEN @[d]
                                ELSE migrationDefinitionRunStatus(d,
                                        Transition(runs[r].status, op).status,
                                        Outcomes(op, r))]]]
    /\ UNCHANGED latest

SqlLifecycle(c, op, r) ==
    /\ \/ op \in StartOp /\ SqlWriteRunState(c, op, r)
       \/ op \in UpdateOp /\ SqlUpdateRunState(c, op, r)
    /\ UNCHANGED <<lockVars, itemVars>>

-----------------------------------------------------------------------------
(* Locks: a row per definition *)

\* INSERT that does nothing when the row exists: then the definition is
\* already locked.
SqlAcquire(c, d, r) ==
    /\ SingleCall(c)
    /\ IF Present(locks[d])
       THEN UNCHANGED <<locks, held>>
       ELSE /\ locks' = [locks EXCEPT ![d] = [ownerRunId |-> r,
                                              token |-> calls + 1,
                                              version |-> 1]]
            /\ held' = [held EXCEPT ![c][d] = calls + 1]
    /\ UNCHANGED broken

\* DELETE of the row with the owner and token; another owner's row stays and
\* is an error.
SqlRelease(c, d) ==
    /\ SingleCall(c)
    /\ held[c][d] > 0
    /\ locks' = IF locks[d].token = held[c][d]
                THEN [locks EXCEPT ![d] = NoLock] ELSE locks
    /\ held' = [held EXCEPT ![c][d] = 0]
    /\ UNCHANGED broken

SqlBreak(c, d) ==
    /\ SingleCall(c)
    /\ locks' = [locks EXCEPT ![d] = NoLock]
    /\ broken' = broken \union {locks[d].token}
    /\ UNCHANGED held

SqlLock(c, d) ==
    /\ (\E r \in Run : SqlAcquire(c, d, r)) \/ SqlRelease(c, d)
         \/ SqlBreak(c, d)
    /\ UNCHANGED <<runVars, itemVars>>

-----------------------------------------------------------------------------
(* Items, completion and cursor *)

SqlUpsertItemState(c, i) ==
    /\ SingleCall(c)
    /\ items' = [items EXCEPT ![i] = UpsertedItem(items[i], calls + 1)]
    /\ UNCHANGED <<completion, cursor>>

\* recordSourcePassCompletion, setSourceCursor and deleteSourceCursor.
SqlRecordCompletion(c) ==
    /\ SingleCall(c)
    /\ completion' = [covers |-> {i \in Item : Present(items[i])},
                      version |-> 1]
    /\ UNCHANGED <<items, cursor>>

SqlSetSourceCursor(c) ==
    /\ SingleCall(c)
    /\ cursor' = [covers |-> {i \in Item : Present(items[i])}, version |-> 1]
    /\ UNCHANGED <<items, completion>>

SqlDeleteSourceCursor(c) ==
    /\ SingleCall(c)
    /\ cursor' = NoObject
    /\ UNCHANGED <<items, completion>>

\* One transaction; an absent item leaves completion and cursor alone.
SqlRemoveRolledBackItem(c, i) ==
    /\ SingleCall(c)
    /\ IF Present(items[i])
       THEN /\ items' = [items EXCEPT ![i] = NoItem]
            /\ completion' = NoObject
            /\ cursor' = NoObject
       ELSE UNCHANGED itemVars

\* The first statement of observeItemState; nothing to write is a return.
SqlObserveRead(c, i, r) ==
    /\ StartCall(c, IF Present(items[i]) /\ items[i].inventory # r
                    THEN [pc |-> "observe", item |-> i, run |-> r,
                          state |-> items[i]]
                    ELSE Idle)
    /\ UNCHANGED itemVars

\* The second one writes the whole state back, without looking again.
SqlObserveWrite(c) ==
    /\ call[c].pc = "observe"
    /\ items' = [items EXCEPT ![call[c].item] =
                    [call[c].state EXCEPT !.inventory = call[c].run]]
    /\ Return(c)
    /\ UNCHANGED <<completion, cursor>>

SqlItem(c) ==
    /\ \/ \E i \in Item :
            \/ SqlUpsertItemState(c, i)
            \/ SqlRemoveRolledBackItem(c, i)
            \/ \E r \in Run : SqlObserveRead(c, i, r)
       \/ SqlObserveWrite(c)
       \/ SqlRecordCompletion(c)
       \/ SqlSetSourceCursor(c)
       \/ SqlDeleteSourceCursor(c)
    /\ UNCHANGED <<runVars, lockVars>>
=============================================================================
