---------------------------- MODULE MigrationStore ----------------------------
(***************************************************************************)
(* The Migration Store's run lifecycle and definition locks, as the        *)
(* in-memory store implements them: every operation is one atomic step.    *)
(* The same operations are the steps of the components that extend this    *)
(* module (InlineRun); here they are called by arbitrary clients, in any   *)
(* order and as often as they like, which is what a store has to           *)
(* withstand: late, replayed and concurrent calls for the same run.        *)
(***************************************************************************)
EXTENDS Naturals, MigrationRunTransitions

CONSTANTS
    Run,          \* Migration Run ids
    Definition,   \* Migration Definition ids, ordered the way locks are sorted
    Scope,        \* Scope[r]: the definitions of run r (its definitionIds)
    NoRun,        \* "no run": the projection or lock does not exist
    MaxToken      \* bound: lock tokens the store issues

ASSUME MigrationStoreAssumption ==
    /\ Definition \subseteq Nat
    /\ Scope \in [Run -> (SUBSET Definition) \ {{}}]
    /\ NoRun \notin Run
    /\ MaxToken \in Nat

VARIABLES
    runs,         \* runs[r]: the authoritative Migration Run State
    latest,       \* latest[d]: the definition's latest-run projection
    locks,        \* locks[d]: the Migration Definition Lock
    nextLock      \* number of the next lock token

lifecycleVars == <<runs, latest>>
lockVars == <<locks, nextLock>>
storeVars == <<runs, latest, locks, nextLock>>

-----------------------------------------------------------------------------
(* Types *)

\* finished: finishedAt is set.  execution: an execution handle is attached.
RunRecord == [status    : RunStatus \union {"none"},
              finished  : BOOLEAN,
              execution : BOOLEAN]

Projection == [runId            : Run \union {NoRun},
               status           : RunStatus \union {"none"},
               definitionStatus : DefinitionRunStatus \union {"none"}]

Lock == [ownerRunId : Run \union {NoRun}, token : Nat]

NoRecord == [status |-> "none", finished |-> FALSE, execution |-> FALSE]
NoProjection == [runId |-> NoRun, status |-> "none",
                 definitionStatus |-> "none"]
NoLock == [ownerRunId |-> NoRun, token |-> 0]

StoreTypeOK ==
    /\ runs \in [Run -> RunRecord]
    /\ latest \in [Definition -> Projection]
    /\ locks \in [Definition -> Lock]
    /\ nextLock \in Nat

StoreInit ==
    /\ runs = [r \in Run |-> NoRecord]
    /\ latest = [d \in Definition |-> NoProjection]
    /\ locks = [d \in Definition |-> NoLock]
    /\ nextLock = 1

-----------------------------------------------------------------------------
(* Lifecycle writes: steps of <<runs, latest>> *)

\* getRunState: null when the run has no record.
getRunState(r) == runs[r].status

\* No definition outcomes: attach, start failure, stop and cancellation.
NoOutcomes == [d \in {} |-> "skipped"]

Project(r, d, status, outcomes) ==
    [runId |-> r, status |-> status,
     definitionStatus |-> migrationDefinitionRunStatus(d, status, outcomes)]

(***************************************************************************)
(* beginRun and queueRun.  The first write of a run makes it the latest    *)
(* run of each of its definitions; a later one only refreshes projections  *)
(* that still name it.  A write that is not accepted changes nothing.      *)
(***************************************************************************)
writeRunState(r, requested) ==
    LET decision == resolveMigrationRunTransition(runs[r].status, requested,
                                                  FALSE)
    IN IF decision.accepted
       THEN /\ runs' = [runs EXCEPT ![r].status = decision.status]
            /\ latest' = [d \in Definition |->
                            IF d \in Scope[r] /\ (\/ runs[r].status = "none"
                                                  \/ latest[d].runId = r)
                            THEN Project(r, d, decision.status, NoOutcomes)
                            ELSE latest[d]]
       ELSE UNCHANGED lifecycleVars

beginRun(r) == writeRunState(r, "running")

queueRun(r) == writeRunState(r, "queued")

\* Projections are refreshed only where they still name the run.
updateCurrentLatestRunStates(r, status, outcomes) ==
    latest' = [d \in Definition |->
                IF d \in Scope[r] /\ latest[d].runId = r
                THEN Project(r, d, status, outcomes)
                ELSE latest[d]]

(***************************************************************************)
(* The writes that need an existing run record (the caller's guard):       *)
(* terminal ones also set finishedAt.                                      *)
(***************************************************************************)
updateRunState(r, requested, cancelIfRequested, outcomes) ==
    LET decision == resolveMigrationRunTransition(runs[r].status, requested,
                                                  cancelIfRequested)
    IN IF decision.accepted
       THEN /\ runs' = [runs EXCEPT ![r].status = decision.status,
                                    ![r].finished = @ \/ requested \in
                                                        TerminalStatus]
            /\ updateCurrentLatestRunStates(r, decision.status, outcomes)
       ELSE UNCHANGED lifecycleVars

RunExists(r) == runs[r].status # "none"

markRunStartFailed(r) ==
    /\ RunExists(r)
    /\ updateRunState(r, "start-failed", FALSE, NoOutcomes)

completeRun(r, outcomes) ==
    /\ RunExists(r)
    /\ validateMigrationDefinitionRunOutcomes(Scope[r], outcomes)
    /\ updateRunState(r, "succeeded", TRUE, outcomes)

failRun(r, outcomes) ==
    /\ RunExists(r)
    /\ validateMigrationDefinitionRunOutcomes(Scope[r], outcomes)
    /\ updateRunState(r, "failed", FALSE, outcomes)

markRunCancelled(r) ==
    /\ RunExists(r)
    /\ updateRunState(r, "cancelled", FALSE, NoOutcomes)

\* A stop of a run that is no longer active changes nothing.
requestRunCancellation(r) ==
    /\ RunExists(r)
    /\ IF isActiveMigrationRunStatus(runs[r].status)
       THEN /\ runs' = [runs EXCEPT ![r].status = "cancelling"]
            /\ updateCurrentLatestRunStates(r, "cancelling", NoOutcomes)
       ELSE UNCHANGED lifecycleVars

\* A terminal run rejects the handle; an active one keeps its status.
attachRunExecution(r) ==
    /\ RunExists(r)
    /\ LET decision == resolveMigrationRunTransition(runs[r].status, "none",
                                                     FALSE)
       IN IF decision.accepted
          THEN /\ runs' = [runs EXCEPT ![r].execution = TRUE]
               /\ updateCurrentLatestRunStates(r, runs[r].status, NoOutcomes)
          ELSE UNCHANGED lifecycleVars

-----------------------------------------------------------------------------
(* Definition locks: steps of <<locks, nextLock>> *)

\* MUTANT of CanAcquire: a lock that is taken is overwritten.
CanAcquireAnyLock(d) == TRUE

\* acquireDefinitionLock fails when the definition is locked.
CanAcquire(d) == locks[d] = NoLock

acquireDefinitionLock(d, r) ==
    /\ CanAcquire(d)
    /\ nextLock <= MaxToken
    /\ locks' = [locks EXCEPT ![d] = [ownerRunId |-> r, token |-> nextLock]]
    /\ nextLock' = nextLock + 1

\* MUTANT of releaseDefinitionLock: the token is not compared.
ReleaseWithoutTokenCheck(d, token) ==
    /\ locks' = [locks EXCEPT ![d] = NoLock]
    /\ UNCHANGED nextLock

\* A lock that is gone is released; one with another token is an error and
\* stays.
releaseDefinitionLock(d, token) ==
    /\ locks' = IF locks[d].token = token
                THEN [locks EXCEPT ![d] = NoLock]
                ELSE locks
    /\ UNCHANGED nextLock

\* releaseDefinitionLock fails: the lock is owned under another token.
ReleaseRefused(d, token) == locks[d] # NoLock /\ locks[d].token # token

\* assertDefinitionLocks, for the locks of a run under the given tokens.
assertDefinitionLocks(r, D, token) ==
    \A d \in D : locks[d] = [ownerRunId |-> r, token |-> token[d]]

\* An operator's forced unlock: no token, no owner check.
breakDefinitionLock(d) ==
    /\ locks' = [locks EXCEPT ![d] = NoLock]
    /\ UNCHANGED nextLock

-----------------------------------------------------------------------------
(* The store under arbitrary clients *)

BeginRun(r) == beginRun(r) /\ UNCHANGED lockVars
QueueRun(r) == queueRun(r) /\ UNCHANGED lockVars
AttachRunExecution(r) == attachRunExecution(r) /\ UNCHANGED lockVars
MarkRunStartFailed(r) == markRunStartFailed(r) /\ UNCHANGED lockVars
MarkRunCancelled(r) == markRunCancelled(r) /\ UNCHANGED lockVars
RequestRunCancellation(r) == requestRunCancellation(r) /\ UNCHANGED lockVars
CompleteRun(r, outcomes) == completeRun(r, outcomes) /\ UNCHANGED lockVars
FailRun(r, outcomes) == failRun(r, outcomes) /\ UNCHANGED lockVars
AcquireDefinitionLock(d, r) ==
    acquireDefinitionLock(d, r) /\ UNCHANGED lifecycleVars
ReleaseDefinitionLock(d, token) ==
    releaseDefinitionLock(d, token) /\ UNCHANGED lifecycleVars
BreakDefinitionLock(d) == breakDefinitionLock(d) /\ UNCHANGED lifecycleVars

StoreNext ==
    \/ \E r \in Run :
        \/ BeginRun(r)
        \/ QueueRun(r)
        \/ AttachRunExecution(r)
        \/ MarkRunStartFailed(r)
        \/ MarkRunCancelled(r)
        \/ RequestRunCancellation(r)
        \/ \E outcomes \in [Scope[r] -> OutcomeStatus] :
            CompleteRun(r, outcomes) \/ FailRun(r, outcomes)
    \/ \E d \in Definition :
        \/ \E r \in Run : AcquireDefinitionLock(d, r)
        \/ \E token \in 1 .. MaxToken : ReleaseDefinitionLock(d, token)
        \/ BreakDefinitionLock(d)

StoreSpec == StoreInit /\ [][StoreNext]_storeVars

-----------------------------------------------------------------------------
(* Correctness properties *)

\* A definition's projection shows the status of the run it names, whatever
\* order the writes of the old and the new run of the definition arrive in
\* (getLatestRunState agrees with getRunState).
LatestMatchesRecord ==
    \A d \in Definition :
        latest[d].runId # NoRun =>
            /\ d \in Scope[latest[d].runId]
            /\ latest[d].status = runs[latest[d].runId].status

\* Two live locks never carry the same token, also after locks were broken
\* and taken again: a token identifies one acquisition, so a stale holder
\* cannot release its successor's lock.
TokensIdentifyAcquisitions ==
    \A d \in Definition :
        /\ locks[d].token < nextLock
        /\ \A e \in Definition :
            locks[d].token = locks[e].token => d = e \/ locks[d] = NoLock

\* Terminal run states absorb late and replayed lifecycle writes
\* (resolveMigrationRunTransition): the status of a finished run is final.
TerminalAbsorbing ==
    [][\A r \in Run : runs[r].status \in TerminalStatus =>
            /\ runs'[r].status = runs[r].status
            /\ runs'[r].execution = runs[r].execution]_storeVars

\* An acknowledged stop is not overwritten by a stale completion or start: a
\* cancelling run leaves that status only for a terminal one that is not
\* success.
AcknowledgedStopWins ==
    [][\A r \in Run : runs[r].status = "cancelling" =>
            runs'[r].status \in {"cancelling", "cancelled", "failed",
                                 "start-failed"}]_storeVars

\* The latest run of a definition is only ever replaced by a run in the step
\* that creates its record: a late write of an old run never takes the
\* projection back from a newer one.
LatestNeverGoesBack ==
    [][\A d \in Definition :
            latest'[d].runId # latest[d].runId =>
                /\ latest'[d].runId \in Run
                /\ runs[latest'[d].runId].status = "none"]_storeVars
=============================================================================
