-------------------------- MODULE FileMigrationStore --------------------------
(***************************************************************************)
(* The run lifecycle of the file store (stores/file/file-migration-        *)
(* store.ts).  What the in-memory store does in one step is here a         *)
(* sequence of file accesses: a call takes the projection locks of the     *)
(* run's definitions, reads the run record, writes it, then writes the     *)
(* latest-run projection of one definition after the other.  Clients are   *)
(* processes on one directory; they interleave, die and meet I/O errors    *)
(* between any two accesses.  A record file is replaced as a whole         *)
(* (written aside, then renamed).                                          *)
(***************************************************************************)
EXTENDS Naturals, FiniteSets, MigrationRunTransitions

CONSTANTS
    Run, Definition, Scope, NoRun,  \* as in MigrationStore
    Client,          \* the processes that share the directory
    NoClient,        \* "no client": the projection lock is free
    Outcomes,        \* Outcomes[r]: the outcome maps that workers report
    ReplayedStarts,  \* start writes may arrive after the run's terminal write
    MaxCalls,        \* bound: calls
    MaxCrashes,      \* bound: clients that die
    MaxFaults        \* bound: writes that fail, waits that time out

ASSUME FileMigrationStoreAssumption ==
    /\ Definition \subseteq Nat /\ IsFiniteSet(Definition)
    /\ Scope \in [Run -> (SUBSET Definition) \ {{}}]
    /\ NoRun \notin Run /\ NoClient \notin Client
    /\ \A r \in Run : Outcomes[r] \subseteq [Scope[r] -> OutcomeStatus]
    /\ ReplayedStarts \in BOOLEAN
    /\ {MaxCalls, MaxCrashes, MaxFaults} \subseteq Nat

VARIABLES
    runs,         \* runs[r]: runs/<run>.json
    latest,       \* latest[d]: definitions/<definition>/latest-run.json
    projectionLocks, \* projectionLocks[d]: the client that holds it
    at,           \* at[c]: where the client's call is
    job,          \* job[c]: the call
    draft,        \* draft[c]: the record the call is going to write
    todo,         \* todo[c]: projections the call has not dealt with yet
    budget,       \* what remains of the bounds
    intended,     \* history: the projections once every call is through
    torn,         \* history: projections a broken-off call of run r left
    created       \* history: created[r] is the rank of r's creation, 0 for none

fileVars == <<runs, latest>>
callVars == <<at, job, draft, todo>>
historyVars == <<intended, torn, created>>
vars == <<fileVars, projectionLocks, callVars, budget, historyVars>>

-----------------------------------------------------------------------------
(* Types *)

StartOp == {"queueRun", "beginRun"}
OutcomeOp == {"completeRun", "failRun"}
PlainOp == {"markRunCancelled", "markRunStartFailed", "requestRunCancellation",
            "attachRunExecution"}
Op == StartOp \union OutcomeOp \union PlainOp

NoOutcomes == [d \in {} |-> "skipped"]
NoPredecessors == [d \in {} |-> NoRun]

NoRecord == [status |-> "none", finished |-> FALSE, execution |-> FALSE,
             predecessors |-> NoPredecessors]
NoProjection == [runId |-> NoRun, status |-> "none",
                 definitionStatus |-> "none"]
NoJob == [op |-> "none", run |-> NoRun, outcomes |-> NoOutcomes]

Record(r) == [status : RunStatus, finished : BOOLEAN, execution : BOOLEAN,
              predecessors : [Scope[r] -> Run \union {NoRun}]]
Projection == [runId : Run, status : RunStatus,
               definitionStatus : DefinitionRunStatus]

TypeOK ==
    /\ DOMAIN runs = Run
    /\ \A r \in Run : runs[r] = NoRecord \/ runs[r] \in Record(r)
    /\ DOMAIN latest = Definition
    /\ \A d \in Definition : latest[d] = NoProjection \/ latest[d] \in Projection
    /\ projectionLocks \in [Definition -> Client \union {NoClient}]
    /\ at \in [Client -> {"idle", "locking", "writing", "projecting",
                          "unlocking", "crashed"}]
    /\ \A c \in Client : /\ job[c].op \in Op \union {"none"}
                         /\ todo[c] \subseteq Definition
    /\ torn \in [Run -> SUBSET Definition]
    /\ created \in [Run -> Nat]

Init ==
    /\ runs = [r \in Run |-> NoRecord]
    /\ latest = [d \in Definition |-> NoProjection]
    /\ projectionLocks = [d \in Definition |-> NoClient]
    /\ at = [c \in Client |-> "idle"]
    /\ job = [c \in Client |-> NoJob]
    /\ draft = [c \in Client |-> NoRecord]
    /\ todo = [c \in Client |-> {}]
    /\ budget = [calls |-> MaxCalls, crashes |-> MaxCrashes,
                 faults |-> MaxFaults]
    /\ intended = [d \in Definition |-> NoProjection]
    /\ torn = [r \in Run |-> {}]
    /\ created = [r \in Run |-> 0]

-----------------------------------------------------------------------------
(* Helpers *)

Use(kind) == budget[kind] > 0 /\ budget' = [budget EXCEPT ![kind] = @ - 1]

HeldBy(c) == {d \in Definition : projectionLocks[d] = c}

\* The locks are taken in the order of the sorted ids.
IsFirst(d, D) == d \in D /\ \A e \in D : d <= e
IsLast(d, D) == d \in D /\ \A e \in D : e <= d

requestedStatus(op) ==
    CASE op = "queueRun" -> "queued"
      [] op = "beginRun" -> "running"
      [] op = "completeRun" -> "succeeded"
      [] op = "failRun" -> "failed"
      [] op = "markRunCancelled" -> "cancelled"
      [] op = "markRunStartFailed" -> "start-failed"
      [] op = "requestRunCancellation" -> "cancelling"
      [] OTHER -> "none"

transitionOf(c) ==
    resolveMigrationRunTransition(runs[job[c].run].status,
                                  requestedStatus(job[c].op),
                                  job[c].op = "completeRun")

\* The latest runs of the definitions when a run is created.
projectionPredecessors(r) == [d \in Scope[r] |-> latest[d].runId]

\* transitionedRunState: a start write that is not accepted keeps the record,
\* which is written all the same.
transitionedRunState(c) ==
    LET current == runs[job[c].run]
    IN IF current = NoRecord
       THEN [status |-> requestedStatus(job[c].op), finished |-> FALSE,
             execution |-> FALSE,
             predecessors |-> projectionPredecessors(job[c].run)]
       ELSE IF transitionOf(c).accepted
       THEN [current EXCEPT !.status = transitionOf(c).status]
       ELSE current

\* The record of a write that is not a start.
updatedRunState(c) ==
    [runs[job[c].run] EXCEPT
        !.status = transitionOf(c).status,
        !.finished = @ \/ requestedStatus(job[c].op) \in TerminalStatus,
        !.execution = @ \/ job[c].op = "attachRunExecution"]

\* The update has something to write: not a stop of a run that is no longer
\* active, and not a rejected transition.
UpdateApplies(c) ==
    /\ job[c].op = "requestRunCancellation" =>
            isActiveMigrationRunStatus(runs[job[c].run].status)
    /\ transitionOf(c).accepted

Project(r, d, status, outcomes) ==
    [runId |-> r, status |-> status,
     definitionStatus |-> migrationDefinitionRunStatus(d, status, outcomes)]

\* The call leaves its critical section.
Leave(c) == at' = [at EXCEPT ![c] = "unlocking"]

-----------------------------------------------------------------------------
(* Calls *)

\* Calls that are under way, without those of dead clients.
InProgress(r, ops) ==
    \E c \in Client : /\ at[c] \notin {"idle", "crashed"}
                      /\ job[c].run = r /\ job[c].op \in ops

\* The worker of a run makes one call after the other, its starts first;
\* stops and everything else may come at any time.
InOrder(op, r) ==
    /\ op \in StartOp => /\ runs[r].status \notin {"succeeded", "failed"}
                         /\ ~InProgress(r, OutcomeOp)
    /\ op \in OutcomeOp => ~InProgress(r, StartOp)

Call(c, op, r, outcomes) ==
    /\ at[c] = "idle" /\ Use("calls")
    /\ ReplayedStarts \/ InOrder(op, r)
    /\ at' = [at EXCEPT ![c] = "locking"]
    /\ job' = [job EXCEPT ![c] = [op |-> op, run |-> r,
                                  outcomes |-> outcomes]]
    /\ UNCHANGED <<fileVars, projectionLocks, draft, todo, historyVars>>

\* MUTANT of acquireProjectionLock: the locks are taken in any order.
AcquireInAnyOrder(c) ==
    /\ at[c] = "locking"
    /\ \E d \in Scope[job[c].run] \ HeldBy(c) :
        /\ projectionLocks[d] = NoClient
        /\ projectionLocks' = [projectionLocks EXCEPT ![d] = c]
    /\ UNCHANGED <<fileVars, callVars, budget, historyVars>>

\* MUTANT of acquireProjectionLock: a lock that is taken is shared.
AcquireShared(c) ==
    /\ at[c] = "locking"
    /\ \E d \in Definition :
        /\ IsFirst(d, Scope[job[c].run] \ HeldBy(c))
        /\ projectionLocks' = [projectionLocks EXCEPT ![d] = c]
    /\ UNCHANGED <<fileVars, callVars, budget, historyVars>>

\* withProjectionLocks, one lock: it is retried until it is free.
acquireProjectionLock(c) ==
    /\ at[c] = "locking"
    /\ \E d \in Definition :
        /\ IsFirst(d, Scope[job[c].run] \ HeldBy(c))
        /\ projectionLocks[d] = NoClient
        /\ projectionLocks' = [projectionLocks EXCEPT ![d] = c]
    /\ UNCHANGED <<fileVars, callVars, budget, historyVars>>

\* The retries are used up: the call fails.
LockTimesOut(c) ==
    /\ at[c] = "locking"
    /\ \E d \in Definition :
        /\ IsFirst(d, Scope[job[c].run] \ HeldBy(c))
        /\ projectionLocks[d] # NoClient
    /\ Use("faults")
    /\ Leave(c)
    /\ UNCHANGED <<fileVars, projectionLocks, job, draft, todo, historyVars>>

\* The current record is read and the call decided: it fails when there is
\* nothing to update, and returns when the update does not apply.
ReadRecord(c) ==
    /\ at[c] = "locking" /\ Scope[job[c].run] \subseteq HeldBy(c)
    /\ \/ /\ job[c].op \in StartOp
          /\ draft' = [draft EXCEPT ![c] = transitionedRunState(c)]
          /\ at' = [at EXCEPT ![c] = "writing"]
       \/ /\ job[c].op \notin StartOp
          /\ runs[job[c].run] # NoRecord /\ UpdateApplies(c)
          /\ draft' = [draft EXCEPT ![c] = updatedRunState(c)]
          /\ at' = [at EXCEPT ![c] = "writing"]
       \/ /\ job[c].op \notin StartOp
          /\ runs[job[c].run] = NoRecord \/ ~UpdateApplies(c)
          /\ Leave(c)
          /\ UNCHANGED draft
    /\ UNCHANGED <<fileVars, projectionLocks, job, todo, budget, historyVars>>

\* History: what the projections are going to be, as the in-memory store
\* would write them together with the record.
Intend(c) ==
    LET r == job[c].run
        creates == runs[r] = NoRecord
        applies == job[c].op \in StartOp => creates \/ transitionOf(c).accepted
    IN intended' = [d \in Definition |->
            IF d \in Scope[r] /\ applies /\ (creates \/ intended[d].runId = r)
            THEN Project(r, d, draft[c].status, job[c].outcomes)
            ELSE intended[d]]

\* writeRunRecord: the authoritative record is written first.
writeRunRecord(c) ==
    /\ at[c] = "writing"
    /\ runs' = [runs EXCEPT ![job[c].run] = draft[c]]
    /\ created' = IF runs[job[c].run] = NoRecord
                  THEN [created EXCEPT ![job[c].run] =
                            1 + Cardinality({r \in Run : created[r] # 0})]
                  ELSE created
    /\ Intend(c)
    /\ at' = [at EXCEPT ![c] = "projecting"]
    /\ todo' = [todo EXCEPT ![c] = Scope[job[c].run]]
    /\ UNCHANGED <<latest, projectionLocks, job, draft, budget, torn>>

\* MUTANT of MayProject: a projection is only written where it names the run.
MayProjectOwn(c, d) ==
    latest[d].runId \in {NoRun, job[c].run}

\* A start write may take the projection from the run's predecessor; every
\* other write only refreshes the run's own.
MayProject(c, d) ==
    IF job[c].op \in StartOp
    THEN canReplaceLatestMigrationDefinitionRun(
            latest[d].runId, {draft[c].predecessors[d]}, job[c].run, NoRun)
    ELSE latest[d].runId = job[c].run

\* One iteration of the loop of writeRunState, or of
\* updateCurrentLatestRunProjections.
writeProjection(c, d) ==
    /\ at[c] = "projecting" /\ d \in todo[c]
    /\ IF MayProject(c, d)
       THEN /\ latest' = [latest EXCEPT ![d] =
                    Project(job[c].run, d, draft[c].status, job[c].outcomes)]
            /\ torn' = [torn EXCEPT ![job[c].run] = @ \ {d}]
       ELSE UNCHANGED <<latest, torn>>
    /\ todo' = [todo EXCEPT ![c] = @ \ {d}]
    /\ IF todo[c] = {d} THEN Leave(c) ELSE UNCHANGED at
    /\ UNCHANGED <<runs, projectionLocks, job, draft, budget, intended,
                   created>>

\* A write fails, or the caller is interrupted: the call breaks off.
WriteFails(c) ==
    /\ at[c] \in {"writing", "projecting"}
    /\ Use("faults")
    /\ torn' = [torn EXCEPT ![job[c].run] = @ \union todo[c]]
    /\ todo' = [todo EXCEPT ![c] = {}]
    /\ Leave(c)
    /\ UNCHANGED <<fileVars, projectionLocks, job, draft, intended, created>>

releaseProjectionLock(c) ==
    /\ at[c] = "unlocking"
    /\ \E d \in Definition :
        /\ IsLast(d, HeldBy(c))
        /\ projectionLocks' = [projectionLocks EXCEPT ![d] = NoClient]
    /\ UNCHANGED <<fileVars, callVars, budget, historyVars>>

Return(c) ==
    /\ at[c] = "unlocking" /\ HeldBy(c) = {}
    /\ at' = [at EXCEPT ![c] = "idle"]
    /\ job' = [job EXCEPT ![c] = NoJob]
    /\ draft' = [draft EXCEPT ![c] = NoRecord]
    /\ UNCHANGED <<fileVars, projectionLocks, todo, budget, historyVars>>

-----------------------------------------------------------------------------
(* Crashes *)

Crash(c) ==
    /\ at[c] \notin {"idle", "crashed"} /\ Use("crashes")
    /\ at' = [at EXCEPT ![c] = "crashed"]
    /\ torn' = IF todo[c] = {} THEN torn
               ELSE [torn EXCEPT ![job[c].run] = @ \union todo[c]]
    /\ todo' = [todo EXCEPT ![c] = {}]
    /\ job' = [job EXCEPT ![c] = NoJob]
    /\ draft' = [draft EXCEPT ![c] = NoRecord]
    /\ UNCHANGED <<fileVars, projectionLocks, intended, created>>

\* External (proper-lockfile): a lock whose holder is dead goes stale, since
\* nobody updates it any more.
LockGoesStale(d) ==
    /\ projectionLocks[d] \in Client
    /\ at[projectionLocks[d]] = "crashed"
    /\ projectionLocks' = [projectionLocks EXCEPT ![d] = NoClient]
    /\ UNCHANGED <<fileVars, callVars, budget, historyVars>>

Restart(c) ==
    /\ at[c] = "crashed" /\ HeldBy(c) = {}
    /\ at' = [at EXCEPT ![c] = "idle"]
    /\ UNCHANGED <<fileVars, projectionLocks, job, draft, todo, budget,
                   historyVars>>

-----------------------------------------------------------------------------

ClientStep(c) ==
    \/ acquireProjectionLock(c)
    \/ ReadRecord(c)
    \/ writeRunRecord(c)
    \/ \E d \in Definition : writeProjection(c, d)
    \/ releaseProjectionLock(c)
    \/ Return(c)

Next ==
    \/ \E c \in Client :
        \/ \E r \in Run :
            \/ \E op \in StartOp \union PlainOp : Call(c, op, r, NoOutcomes)
            \/ \E op \in OutcomeOp, outcomes \in Outcomes[r] :
                Call(c, op, r, outcomes)
        \/ ClientStep(c)
        \/ LockTimesOut(c)
        \/ WriteFails(c)
        \/ Crash(c)
        \/ Restart(c)
    \/ \E d \in Definition : LockGoesStale(d)

Spec == Init /\ [][Next]_vars

-----------------------------------------------------------------------------
(* Correctness properties *)

Store == INSTANCE MigrationStore WITH
    runs <- [r \in Run |-> [status |-> runs[r].status,
                            finished |-> runs[r].finished,
                            execution |-> runs[r].execution]],
    latest <- intended,
    locks <- [d \in Definition |-> [ownerRunId |-> NoRun, token |-> 0]],
    nextLock <- 1,
    MaxToken <- 0

\* Refinement: whatever the interleaving of calls, crashes and failed writes,
\* the records change as if every call were one atomic operation of the
\* in-memory store, at the moment writeRunRecord replaces the run's file.
ImplementsStore == Store!StoreSpec

\* The projections are those of the atomic store, unless a call is just
\* writing them, or a call of the projection's run broke off after its record
\* was written and has not been repeated since.  Retrying the transition
\* repairs the projection; nothing else can leave it behind the record.
LatestFollowsRecord ==
    \A d \in Definition : latest[d] # intended[d] =>
        \/ \E c \in Client : d \in todo[c]
        \/ d \in torn[intended[d].runId]

\* CONTEXT.md: terminal run states absorb late and replayed lifecycle writes,
\* and each definition of a failed run records its own outcome.  A replayed
\* start write therefore leaves the outcomes of the definitions alone.
OutcomesSurviveReplays ==
    [][\A d \in Definition, c \in Client :
            /\ job[c].op \in StartOp
            /\ latest[d].runId = job[c].run
            /\ latest[d].status \in TerminalStatus
            /\ latest[d].definitionStatus # latest[d].status
            => ~(writeProjection(c, d) /\ latest'[d] # latest[d])]_vars

\* Client c waits for a lock that client e holds.
WaitsFor(c, e) ==
    /\ at[c] = "locking"
    /\ \E d \in Definition : /\ IsFirst(d, Scope[job[c].run] \ HeldBy(c))
                             /\ projectionLocks[d] = e

\* Calls never wait for each other in a circle, although each takes the locks
\* of several definitions one by one: no wait ends only by timing out.
NoCircularWait ==
    \A W \in (SUBSET Client) \ {{}} :
        \E c \in W : \A e \in W : ~WaitsFor(c, e)
=============================================================================
