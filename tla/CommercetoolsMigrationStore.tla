--------------------- MODULE CommercetoolsMigrationStore ---------------------
(***************************************************************************)
(* The Commercetools Migration Store (commercetools/src/migration-store):   *)
(* every record is a Custom Object with a version, there is no transaction *)
(* over two objects, and every request is a step.  A write may name the    *)
(* version it replaces (0: the object must not exist); another version is  *)
(* a conflict.  Run records and latest-run projections are retried after a *)
(* conflict, at most MaxTries times; a conflict elsewhere is an error.     *)
(***************************************************************************)
EXTENDS StoreBackend

\* External: Custom Objects of the Commercetools API.  A write increments the
\* version, a deleted object starts again at 1.
Written(record, old) == [record EXCEPT !.version = old.version + 1]

\* A versioned write or delete of an object applies to the version read.
SameVersion(record, seen) == record.version = seen.version

-----------------------------------------------------------------------------
(* Lifecycle writes *)

\* queueRun, beginRun and the updates: the first request reads the record.
CtLifecycle(c, op, r) ==
    /\ StartCall(c, [pc |-> "read-run", op |-> op, run |-> r,
                     tries |-> MaxTries])
    /\ UNCHANGED runVars

AtCt(c, pc) == call[c].pc = pc

\* writeOrTransitionLatestRunState up to the write: the predecessors of a run
\* are the latest runs of its definitions when its record is first written.
CtReadForStart(c) ==
    LET k == call[c]
        record == runs[k.run]
        decision == Transition(record.status, k.op)
    IN /\ AtCt(c, "read-run") /\ k.op \in StartOp
       /\ Continue(c,
            CASE Present(record) /\ ~decision.accepted -> Idle
              [] Present(record) /\ decision.accepted ->
                    [pc |-> "write-run", op |-> k.op, run |-> k.run,
                     tries |-> k.tries, seen |-> record,
                     state |-> [record EXCEPT !.status = decision.status],
                     todo |-> Scope[k.run]]
              [] OTHER ->
                    [pc |-> "read-predecessors", op |-> k.op, run |-> k.run,
                     tries |-> k.tries, seen |-> record,
                     state |-> [record EXCEPT !.status = decision.status],
                     todo |-> Scope[k.run]])
       /\ UNCHANGED runVars

\* One request per definition, in order.
CtReadPredecessor(c) ==
    LET k == call[c]
        d == Min(k.todo)
        predecessors == [e \in DOMAIN k.state.predecessors \union {d} |->
                            IF e = d THEN latest[d].runId
                            ELSE k.state.predecessors[e]]
    IN /\ AtCt(c, "read-predecessors")
       /\ Continue(c,
            [k EXCEPT !.state.predecessors = predecessors,
                      !.todo = IF k.todo = {d} THEN Scope[k.run]
                               ELSE @ \ {d},
                      !.pc = IF k.todo = {d} THEN "write-run" ELSE @])
       /\ UNCHANGED runVars

\* updateLatestRunState up to the projections: no record is an error.
CtReadForUpdate(c) ==
    LET k == call[c]
        record == runs[k.run]
    IN /\ AtCt(c, "read-run") /\ k.op \in UpdateOp
       /\ Continue(c,
            IF ~Present(record) \/ Refused(record.status, k.op) THEN Idle
            ELSE [pc |-> "read-latest", op |-> k.op, run |-> k.run,
                  tries |-> k.tries, seen |-> record,
                  state |-> Updated(record, k.op, k.run),
                  unread |-> Scope[k.run], todo |-> {}])
       /\ UNCHANGED runVars

\* validateRunStateRecords: the copy agrees with the record, or the record
\* is terminal and its copy was not brought up to date.
ProjectionAgrees(record, copy) ==
    \/ /\ record.status \in TerminalStatus
       /\ copy.status \in ActiveStatus
    \/ /\ record.status = copy.status
       /\ record.finished = copy.finished

\* The projections that still name the run are brought up to date; one that
\* does not agree ends the operation with an error.
CtReadLatest(c) ==
    LET k == call[c]
        d == Min(k.unread)
        mine == latest[d].runId = k.run
    IN /\ AtCt(c, "read-latest")
       /\ Continue(c,
            IF mine /\ ~ProjectionAgrees(k.seen, latest[d]) THEN Idle
            ELSE [k EXCEPT !.unread = @ \ {d},
                           !.todo = IF mine THEN @ \union {d} ELSE @,
                           !.pc = IF k.unread = {d} THEN "write-run" ELSE @])
       /\ UNCHANGED runVars

\* MUTANT of CtWriteRun: the record is written without its version.
CtWriteRunUnversioned(c) ==
    LET k == call[c]
    IN /\ AtCt(c, "write-run")
       /\ runs' = [runs EXCEPT ![k.run] =
                    [Written(k.state, runs[k.run]) EXCEPT
                        !.created = IF @ > 0 THEN @ ELSE Created]]
       /\ Continue(c, IF k.todo = {} THEN Idle
                      ELSE [pc |-> "read-projection", op |-> k.op,
                            run |-> k.run, state |-> k.state,
                            todo |-> k.todo, tries |-> MaxTries])
       /\ UNCHANGED latest

(***************************************************************************)
(* writeLatestRunState: the record first, under the version that was read; *)
(* a conflict starts over from the read.  The projections follow one by    *)
(* one.                                                                    *)
(***************************************************************************)
CtWriteRun(c) ==
    LET k == call[c]
        current == SameVersion(runs[k.run], k.seen)
    IN /\ AtCt(c, "write-run")
       /\ runs' = IF current
                  THEN [runs EXCEPT ![k.run] =
                            [Written(k.state, runs[k.run]) EXCEPT
                                !.created = IF @ > 0 THEN @ ELSE Created]]
                  ELSE runs
       /\ Continue(c,
            CASE current /\ k.todo = {} -> Idle
              [] current /\ k.todo # {} ->
                    [pc |-> "read-projection", op |-> k.op, run |-> k.run,
                     state |-> k.state, todo |-> k.todo, tries |-> MaxTries]
              [] ~current /\ k.tries = 1 -> Idle
              [] OTHER -> [pc |-> "read-run", op |-> k.op, run |-> k.run,
                           tries |-> k.tries - 1])
       /\ UNCHANGED latest

\* The next definition's projection, or the end of the operation.
CtNextProjection(k) ==
    IF k.todo = {Min(k.todo)} THEN Idle
    ELSE [pc |-> "read-projection", op |-> k.op, run |-> k.run,
          state |-> k.state, todo |-> k.todo \ {Min(k.todo)},
          tries |-> MaxTries]

\* writeLatestRunProjection: the run may replace what the projection names,
\* and does not take it back to an earlier status of its own.
CtMayProject(k, copy, d) ==
    LET predecessors == IF d \in DOMAIN k.state.predecessors
                        THEN {k.state.predecessors[d]} ELSE {}
        decision == resolveMigrationRunTransition(copy.status,
                                                  k.state.status, FALSE)
    IN /\ canReplaceLatestMigrationDefinitionRun(copy.runId, predecessors,
                                                 k.run, NoRun)
       /\ copy.runId = k.run =>
            decision.accepted /\ decision.status = k.state.status

CtReadProjection(c) ==
    LET k == call[c]
        copy == latest[Min(k.todo)]
    IN /\ AtCt(c, "read-projection")
       /\ Continue(c,
            IF CtMayProject(k, copy, Min(k.todo))
            THEN [pc |-> "write-projection", op |-> k.op, run |-> k.run,
                  state |-> k.state, todo |-> k.todo, tries |-> k.tries,
                  seen |-> copy]
            ELSE CtNextProjection(k))
       /\ UNCHANGED runVars

CtWriteProjection(c) ==
    LET k == call[c]
        d == Min(k.todo)
        current == SameVersion(latest[d], k.seen)
    IN /\ AtCt(c, "write-projection")
       /\ latest' = IF current
                    THEN [latest EXCEPT ![d] =
                            [runId |-> k.run, status |-> k.state.status,
                             finished |-> k.state.finished,
                             definitionStatus |-> migrationDefinitionRunStatus(
                                    d, k.state.status, Outcomes(k.op, k.run)),
                             version |-> @.version + 1]]
                    ELSE latest
       /\ Continue(c,
            CASE current -> CtNextProjection(k)
              [] ~current /\ k.tries = 1 -> Idle
              [] OTHER -> [pc |-> "read-projection", op |-> k.op,
                           run |-> k.run, state |-> k.state,
                           todo |-> k.todo, tries |-> k.tries - 1])
       /\ UNCHANGED runs

\* A run whose stop was acknowledged can be ended: the execution drains and
\* "persists terminal cancelled state" (docs/adr/0007).  No update of the run
\* gets past validateRunStateRecords while a projection that names the run
\* does not agree with its cancelling record.
StoppedRunCanEnd ==
    (\A c \in Caller : call[c] = Idle) =>
        \A d \in Definition :
            LET record == runs[latest[d].runId]
            IN latest[d].runId # NoRun /\ record.status = "cancelling" =>
                ProjectionAgrees(record, latest[d])

CtLifecycleStep(c) ==
    /\ \/ CtReadForStart(c) \/ CtReadPredecessor(c)
       \/ CtReadForUpdate(c) \/ CtReadLatest(c)
       \/ CtWriteRun(c) \/ CtReadProjection(c) \/ CtWriteProjection(c)
    /\ UNCHANGED <<lockVars, itemVars>>

-----------------------------------------------------------------------------
(* Locks *)

\* MUTANT of CtAcquire: the object is written whatever its version.
CtAcquireAnyVersion(c, d, r) ==
    /\ SingleCall(c)
    /\ locks' = [locks EXCEPT ![d] = [ownerRunId |-> r, token |-> calls + 1,
                                      version |-> @.version + 1]]
    /\ held' = [held EXCEPT ![c][d] = calls + 1]
    /\ UNCHANGED broken

\* One request that creates the object (version 0).
CtAcquire(c, d, r) ==
    /\ SingleCall(c)
    /\ IF Present(locks[d])
       THEN UNCHANGED <<locks, held>>
       ELSE /\ locks' = [locks EXCEPT ![d] = [ownerRunId |-> r,
                                              token |-> calls + 1,
                                              version |-> 1]]
            /\ held' = [held EXCEPT ![c][d] = calls + 1]
    /\ UNCHANGED broken

\* releaseDefinitionLock reads the object: gone is released, another token is
\* an error.
CtReleaseRead(c, d) ==
    /\ held[c][d] > 0
    /\ StartCall(c, IF locks[d].token = held[c][d]
                    THEN [pc |-> "delete-lock", definition |-> d,
                          seen |-> locks[d], break |-> FALSE]
                    ELSE Idle)
    /\ held' = IF locks[d].token = held[c][d] THEN held
               ELSE [held EXCEPT ![c][d] = 0]
    /\ UNCHANGED <<locks, broken>>

\* breakDefinitionLock reads it too, without a token to compare.
CtBreakRead(c, d) ==
    /\ StartCall(c, IF Present(locks[d])
                    THEN [pc |-> "delete-lock", definition |-> d,
                          seen |-> locks[d], break |-> TRUE]
                    ELSE Idle)
    /\ UNCHANGED lockVars

\* The delete names the version that was read; a conflict or a missing
\* object is an error.
CtDeleteLock(c) ==
    LET k == call[c]
        d == k.definition
        deleted == Present(locks[d]) /\ SameVersion(locks[d], k.seen)
    IN /\ AtCt(c, "delete-lock")
       /\ locks' = IF deleted THEN [locks EXCEPT ![d] = NoLock] ELSE locks
       /\ held' = IF k.break THEN held ELSE [held EXCEPT ![c][d] = 0]
       /\ broken' = IF k.break /\ deleted
                    THEN broken \union {locks[d].token} ELSE broken
       /\ Return(c)

CtLock(c, d) ==
    /\ \/ \E r \in Run : CtAcquire(c, d, r)
       \/ CtReleaseRead(c, d)
       \/ CtBreakRead(c, d)
    /\ UNCHANGED <<runVars, itemVars>>

CtLockStep(c) == CtDeleteLock(c) /\ UNCHANGED <<runVars, itemVars>>

-----------------------------------------------------------------------------
(* Items, completion and cursor *)

\* upsertItemState writes without a version.
CtUpsertItemState(c, i) ==
    /\ SingleCall(c)
    /\ items' = [items EXCEPT ![i] = UpsertedItem(items[i], calls + 1)]
    /\ UNCHANGED <<completion, cursor>>

\* recordSourcePassCompletion.
CtRecordCompletion(c) ==
    /\ SingleCall(c)
    /\ completion' = [covers |-> {i \in Item : Present(items[i])},
                      version |-> completion.version + 1]
    /\ UNCHANGED <<items, cursor>>

\* setSourceCursor.
CtSetSourceCursor(c) ==
    /\ SingleCall(c)
    /\ cursor' = [covers |-> {i \in Item : Present(items[i])},
                  version |-> cursor.version + 1]
    /\ UNCHANGED <<items, completion>>

\* MUTANT of CtRemoveRead: the item is removed first.
CtRemoveItemFirst(c, i) ==
    /\ StartCall(c, IF Present(items[i])
                    THEN [pc |-> "read-completion", item |-> i,
                          seen |-> items[i]]
                    ELSE Idle)
    /\ items' = [items EXCEPT ![i] = NoItem]
    /\ UNCHANGED <<completion, cursor>>

\* removeRolledBackItem: an absent item is a return.
CtRemoveRead(c, i) ==
    /\ StartCall(c, IF Present(items[i])
                    THEN [pc |-> "read-completion", item |-> i,
                          seen |-> items[i]]
                    ELSE Idle)
    /\ UNCHANGED itemVars

CtReadCompletion(c) ==
    /\ AtCt(c, "read-completion")
    /\ Continue(c, [call[c] EXCEPT
            !.pc = IF Present(completion) THEN "delete-completion"
                   ELSE "read-cursor"])
    /\ UNCHANGED itemVars

\* A completion that is gone already is no error.
CtDeleteCompletion(c) ==
    /\ AtCt(c, "delete-completion")
    /\ completion' = NoObject
    /\ Continue(c, [call[c] EXCEPT !.pc = "read-cursor"])
    /\ UNCHANGED <<items, cursor>>

\* deleteSourceCursor, as a part of the removal.
CtReadCursor(c) ==
    /\ AtCt(c, "read-cursor")
    /\ Continue(c, [call[c] EXCEPT
            !.pc = IF Present(cursor) THEN "delete-cursor" ELSE "delete-item"])
    /\ UNCHANGED itemVars

CtDeleteCursor(c) ==
    /\ AtCt(c, "delete-cursor")
    /\ cursor' = NoObject
    /\ Continue(c, [call[c] EXCEPT !.pc = "delete-item"])
    /\ UNCHANGED <<items, completion>>

\* The item goes last, under the version read first.
CtDeleteItem(c) ==
    /\ AtCt(c, "delete-item")
    /\ items' = IF SameVersion(items[call[c].item], call[c].seen)
                THEN [items EXCEPT ![call[c].item] = NoItem] ELSE items
    /\ Return(c)
    /\ UNCHANGED <<completion, cursor>>

\* observeItemState reads; a missing item or a known inventory is a return.
CtObserveRead(c, i, r) ==
    /\ StartCall(c, IF Present(items[i]) /\ items[i].inventory # r
                    THEN [pc |-> "observe", item |-> i, run |-> r,
                          seen |-> items[i]]
                    ELSE Idle)
    /\ UNCHANGED itemVars

\* What an observation stores: the state it read, in the object there is.
Observed(seen, r, object) ==
    [seen EXCEPT !.inventory = r, !.life = object.life]

\* MUTANT of CtObserveWrite: the state is written back without its version.
CtObserveWriteUnversioned(c) ==
    LET k == call[c]
    IN /\ AtCt(c, "observe")
       /\ items' = [items EXCEPT ![k.item] =
                    Written(Observed(k.seen, k.run, @), @)]
       /\ Return(c)
       /\ UNCHANGED <<completion, cursor>>

\* It writes the state back under the version it read, or fails.
CtObserveWrite(c) ==
    LET k == call[c]
    IN /\ AtCt(c, "observe")
       /\ items' = IF SameVersion(items[k.item], k.seen)
                   THEN [items EXCEPT ![k.item] =
                            Written(Observed(k.seen, k.run, @), @)]
                   ELSE items
       /\ Return(c)
       /\ UNCHANGED <<completion, cursor>>

\* The calls of the runner that holds the lock, and of one that lost it.
CtItem(c) ==
    /\ \/ \E i \in Item :
            \/ CtUpsertItemState(c, i)
            \/ \E r \in Run : CtObserveRead(c, i, r)
            \/ c = Holder /\ CtRemoveRead(c, i)
       \/ c = Holder /\ CtRecordCompletion(c)
       \/ c = Holder /\ CtSetSourceCursor(c)
    /\ UNCHANGED <<runVars, lockVars>>

CtItemStep(c) ==
    /\ \/ CtReadCompletion(c) \/ CtDeleteCompletion(c)
       \/ CtReadCursor(c) \/ CtDeleteCursor(c)
       \/ CtDeleteItem(c) \/ CtObserveWrite(c)
    /\ UNCHANGED <<runVars, lockVars>>
=============================================================================
