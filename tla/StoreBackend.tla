----------------------------- MODULE StoreBackend -----------------------------
(***************************************************************************)
(* What the durable Migration Stores (SQL, Commercetools, Files SDK, and   *)
(* the file store's records) share: the records they keep, the callers,    *)
(* and the obligations that learn/migration-stores.mdx puts on every       *)
(* backend.  Each backend's module translates its own operations over this *)
(* state; one behaviour uses one backend.                                  *)
(*                                                                         *)
(* A caller runs one operation at a time and an operation may take several *)
(* requests; between two of them any other caller may act, and the caller  *)
(* may disappear (a crash, or a request whose failure ends the operation). *)
(***************************************************************************)
EXTENDS Naturals, FiniteSets, FiniteSetsExt, MigrationRunTransitions

CONSTANTS
    Run,          \* Migration Run ids
    Definition,   \* Migration Definition ids (numbers: processing order)
    Scope,        \* Scope[r]: the definitions of run r
    Item,         \* encoded source identities of the one definition rolled back
    Caller,       \* concurrent callers of the store
    Holder,       \* the caller that works under the definition's lock
    NoRun,        \* null
    MaxCalls,     \* bound: operations started
    MaxLost,      \* bound: operations that end between two requests
    MaxTries      \* maximumLatestRunProjectionWriteAttempts (5 in the code)

ASSUME StoreBackendAssumption == NoRun \notin Run

VARIABLES
    backend,      \* which implementation serves this behaviour
    runs,         \* runs[r]: the Migration Run State record
    latest,       \* latest[d]: the latest-run projection of a definition
    locks,        \* locks[d]: the Migration Definition Lock
    held,         \* held[c][d]: the token a caller believes to hold, or 0
    items,        \* items[i]: the Migration Item State
    completion,   \* the definition completion: the items it covers, or none
    cursor,       \* the source cursor
    call,         \* call[c]: the operation a caller is in, and where
    calls, lost,  \* operations started, operations lost
    broken,       \* tokens of the locks an operator broke
    overlapped    \* runs of which two calls were under way at the same time

runVars == <<runs, latest>>
lockVars == <<locks, held, broken>>
itemVars == <<items, completion, cursor>>
backendVars == <<backend, runs, latest, locks, held, items, completion,
                 cursor, call, calls, lost, broken, overlapped>>

-----------------------------------------------------------------------------
(* Records.  version is a Custom Object's version (0: no object). *)

\* created: the position of the record among all records made (not stored).
\* definitions: the definition_status rows (SQL) or the outcomes (Files SDK).
NoRecord == [status |-> "none", finished |-> FALSE, execution |-> FALSE,
             predecessors |-> <<>>, definitions |-> <<>>, version |-> 0,
             created |-> 0]

NoLatest == [runId |-> NoRun, status |-> "none", finished |-> FALSE,
             definitionStatus |-> "none", version |-> 0]

NoLock == [ownerRunId |-> NoRun, token |-> 0, version |-> 0]

\* outcome: the number of the write that stored the item's outcome.
\* life: the write that created the object (not stored).
NoItem == [outcome |-> 0, inventory |-> NoRun, version |-> 0, life |-> 0]

\* upsertItemState: the caller's outcome replaces the item state.
UpsertedItem(item, outcome) ==
    [outcome |-> outcome, inventory |-> item.inventory,
     version |-> item.version + 1,
     life |-> IF item.life > 0 THEN item.life ELSE outcome]

NoObject == [covers |-> {}, version |-> 0]

Idle == [pc |-> "idle"]

\* What getLatestRunState answers: the SQL store joins the run's rows, the
\* Files SDK store follows its pointer to the run, Commercetools keeps a copy.
getLatestRunState(d) ==
    LET r == latest[d].runId
    IN CASE backend = "sql" ->
                [status |-> runs[r].status,
                 definitionStatus |-> runs[r].definitions[d]]
         [] backend = "files" ->
                [status |-> runs[r].status,
                 definitionStatus |-> migrationDefinitionRunStatus(
                                d, runs[r].status, runs[r].definitions)]
         [] backend = "commercetools" ->
                [status |-> latest[d].status,
                 definitionStatus |-> latest[d].definitionStatus]

Present(record) == record.version > 0

BackendInit ==
    /\ runs = [r \in Run |-> NoRecord]
    /\ latest = [d \in Definition |-> NoLatest]
    /\ locks = [d \in Definition |-> NoLock]
    /\ held = [c \in Caller |-> [d \in Definition |-> 0]]
    /\ items = [i \in Item |-> NoItem]
    /\ completion = NoObject
    /\ cursor = NoObject
    /\ call = [c \in Caller |-> Idle]
    /\ calls = 0
    /\ lost = 0
    /\ broken = {}
    /\ overlapped = {}

-----------------------------------------------------------------------------
(* The lifecycle operations, as the arguments they pass *)

StartOp == {"beginRun", "queueRun"}

UpdateOp == {"attachRunExecution", "markRunStartFailed", "markRunCancelled",
             "requestRunCancellation", "completeRun", "failRun"}

LifecycleOp == StartOp \union UpdateOp

Requested(op) ==
    CASE op = "beginRun" -> "running"
      [] op = "queueRun" -> "queued"
      [] op = "attachRunExecution" -> "none"
      [] op = "markRunStartFailed" -> "start-failed"
      [] op = "markRunCancelled" -> "cancelled"
      [] op = "requestRunCancellation" -> "cancelling"
      [] op = "completeRun" -> "succeeded"
      [] op = "failRun" -> "failed"

Transition(current, op) ==
    resolveMigrationRunTransition(current, Requested(op), op = "completeRun")

\* completeRun and failRun carry one outcome per definition; the others none.
\* A failed run failed in its first definition and skipped the others.
Outcomes(op, r) ==
    CASE op = "completeRun" -> [d \in Scope[r] |-> "succeeded"]
      [] op = "failRun" -> [d \in Scope[r] |-> IF d = Min(Scope[r])
                                               THEN "failed" ELSE "skipped"]
      [] OTHER -> [d \in {} |-> "skipped"]

\* The early return of requestRunCancellation, and a write that the status
\* algebra does not accept: the caller gets the current state back.
Refused(current, op) ==
    \/ /\ op = "requestRunCancellation"
       /\ ~isActiveMigrationRunStatus(current)
    \/ ~Transition(current, op).accepted

\* The record an accepted update writes.
Updated(record, op, r) ==
    LET status == Transition(record.status, op).status
    IN [record EXCEPT
            !.status = status,
            !.finished = @ \/ Requested(op) \in TerminalStatus,
            !.execution = @ \/ op = "attachRunExecution"]

Created == 1 + Cardinality({r \in Run : runs[r].created > 0})

InFlight(c) == IF "run" \in DOMAIN call[c] THEN {call[c].run} ELSE {}

\* An operation starts; fields says where it goes on.
StartCall(c, fields) ==
    /\ call[c] = Idle
    /\ calls < MaxCalls
    /\ call' = [call EXCEPT ![c] = fields]
    /\ calls' = calls + 1
    /\ overlapped' = IF "run" \in DOMAIN fields
                     THEN overlapped \union
                          ({fields.run} \intersect
                           UNION {InFlight(b) : b \in Caller})
                     ELSE overlapped
    /\ UNCHANGED lost

\* An operation of a single request or transaction.
SingleCall(c) == StartCall(c, Idle)

Continue(c, fields) ==
    /\ call' = [call EXCEPT ![c] = fields]
    /\ UNCHANGED <<calls, lost, overlapped>>

Return(c) == Continue(c, Idle)

\* The caller disappears, or the next request fails before the store applied
\* it: what was written stays.
LoseCall(c) ==
    /\ call[c] # Idle
    /\ lost < MaxLost
    /\ call' = [call EXCEPT ![c] = Idle]
    /\ lost' = lost + 1
    /\ UNCHANGED <<backend, runVars, lockVars, itemVars, calls, overlapped>>

-----------------------------------------------------------------------------
(* The obligations of every backend *)

\* A caller that goes on with an old run never brings a finished run back to
\* life or changes how it ended, whatever requests of other callers came in
\* between its own read and its write.
TerminalNeverRevived ==
    [][\A r \in Run : runs[r].status \in TerminalStatus =>
            runs'[r].status = runs[r].status]_backendVars

\* Removing a rolled-back item leaves no moment, also not after a crash or a
\* lost request, in which the definition counts as completed for an item
\* that is gone, or keeps the cursor that would skip it.
RemovedWorkNotComplete ==
    /\ \A i \in completion.covers : Present(items[i])
    /\ \A i \in cursor.covers : Present(items[i])

\* Observing an item for the source inventory keeps the outcome that another
\* caller stored between the read and the write of the observation (the SQL
\* and file stores do not: observeItemState writes back what it read).  Only
\* an observation that read an earlier object, which was removed and stored
\* again since, can take it for the one it read: versions start again at 1.
ObservationKeepsOutcome ==
    [][backend \notin {"sql", "file"} =>
        \A i \in Item :
            \/ ~Present(items[i]) \/ ~Present(items'[i])
            \/ items'[i].outcome >= items[i].outcome
            \/ \E c \in Caller :
                  /\ call[c].pc = "observe" /\ call[c].item = i
                  /\ call[c].seen.life # items[i].life]_backendVars

\* The lock a caller acquired is the one the store holds until the caller
\* releases it or an operator breaks it: another caller's release, also one
\* that read an earlier lock before it was broken, does not remove it.  Of
\* Custom Objects and of lock files this is only true while no lock is broken:
\* the version of an object starts again when it is created again, so that
\* the delete of a stale release matches the new lock, and a lock file is
\* removed by its path.
LockOutlivesOthers ==
    \A c \in Caller, d \in Definition :
        /\ held[c][d] > 0
        /\ held[c][d] \notin broken
        /\ backend \in {"commercetools", "file"} => broken = {}
        => locks[d].token = held[c][d]

\* The projection of a definition names a run that has a record.  Once the
\* calls of that run are over, one after the other and none of them lost, it
\* shows the record's status, and an outcome of its own only when the run
\* ended without being stopped.
LatestShowsRecord ==
    \A d \in Definition : latest[d].runId # NoRun =>
        LET record == runs[latest[d].runId]
            shown == getLatestRunState(d)
        IN /\ record.status # "none"
           /\ /\ lost = 0
              /\ latest[d].runId \notin overlapped
              /\ \A c \in Caller : call[c] = Idle
              => /\ shown.status = record.status
                 /\ shown.definitionStatus # record.status =>
                        record.status \in {"succeeded", "failed"}
=============================================================================
