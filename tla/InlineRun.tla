------------------------------- MODULE InlineRun -------------------------------
(***************************************************************************)
(* Inline execution of Migration Runs (services/migration-run-executor.ts):*)
(* superviseInlinePlan locks the definitions of a plan, queues the run and *)
(* forks a worker; the worker (executeMigrationRun with the body of        *)
(* executePreparedRunDefinitions or executePreparedRollbackDefinitions)    *)
(* begins the run, works through its definitions, writes the terminal      *)
(* state and releases the locks.  Several runs share one store with each   *)
(* other, with an operator who stops runs and clears locks, and with store *)
(* calls that fail before or after they took effect.                       *)
(***************************************************************************)
EXTENDS MigrationStore, Sequences, FiniteSets

CONSTANTS
    Plan,         \* Plan[r]: the definitions of run r in execution order
    Orphans,      \* the runs planned with rollbackOrphans
    Budgets       \* bound: how many starts, failing store calls, crashes,
                  \* unlocks, interrupted starts and stops (durable ones and
                  \* those of handles) a behaviour may have

BudgetKind ==
    {"starts", "faults", "crashes", "unlocks", "interrupts", "stops"}

ASSUME InlineRunAssumption ==
    /\ \A r \in Run : /\ Plan[r] \in Seq(Scope[r])
                      /\ \A d \in Scope[r] : \E i \in 1 .. Len(Plan[r]) :
                            Plan[r][i] = d
                      /\ \A i, j \in 1 .. Len(Plan[r]) :
                            Plan[r][i] = Plan[r][j] => i = j
    /\ Orphans \subseteq Run
    /\ 0 \notin Definition
    /\ Budgets \subseteq [BudgetKind -> Nat]

VARIABLES
    pc,           \* pc[r]: where the run's starter or worker is
    op,           \* op[r]: the lifecycle transition it is persisting
    lease,        \* lease[r][d]: token of the lock it holds, 0 for none
    handle,       \* handle[r]: status in the caller's run handle
    cache,        \* cache[r]: the durable canSchedule answer, kept for 1s
    pos,          \* pos[r]: step of the plan
    active,       \* active[r]: the plan step's definition is active
    summaries,    \* summaries[r][d]: status the body returns
    completed,    \* completed[r][d]: status kept for failRun
    erred,        \* erred[r]: the start or the execution failed
    stopping,     \* stopping[r]: stopRun has found the run active
    seen,         \* seen[d]: the lock an operator wants to clear
    budget,       \* what remains of the member of Budgets
    mishap,       \* history: what went wrong for run r
    evicted       \* history: definitions an operator unlocked under run r

workerVars == <<pc, op, lease, handle, cache, pos, active, summaries,
                completed, erred>>
operatorVars == <<stopping, seen>>
historyVars == <<budget, mishap, evicted>>
vars == <<storeVars, workerVars, operatorVars, historyVars>>

-----------------------------------------------------------------------------
(* Types *)

Starting == {"acquiring", "preflight", "startFailing", "markingStartFailed"}
Executing == {"boundary", "working", "final", "failing"}
Persisting == {"transition", "confirm", "repair"}
Pc == Starting \union Executing \union Persisting
        \union {"idle", "releasing", "done", "crashed"}

Op == {"none", "queueRun", "beginRun", "completeRun", "failRun",
       "markRunCancelled"}
TerminalOp == {"completeRun", "failRun", "markRunCancelled"}

Mishap == {"lost", "unacknowledged", "read", "acquire", "release",
           "interrupted", "again"}

Steps(r) == IF r \in Orphans THEN 2 * Len(Plan[r]) ELSE Len(Plan[r])

TypeOK ==
    /\ StoreTypeOK
    /\ pc \in [Run -> Pc]
    /\ op \in [Run -> Op]
    /\ lease \in [Run -> [Definition -> Nat]]
    /\ handle \in [Run -> {"none", "running", "cancelling", "succeeded",
                           "failed", "cancelled"}]
    /\ cache \in [Run -> {"unset", "yes", "no"}]
    /\ pos \in [Run -> Nat]
    /\ active \in [Run -> BOOLEAN]
    /\ summaries \in [Run -> [Definition -> {"none", "succeeded", "failed"}]]
    /\ completed \in [Run -> [Definition -> {"none", "succeeded", "failed"}]]
    /\ erred \in [Run -> BOOLEAN]
    /\ stopping \in [Run -> BOOLEAN]
    /\ seen \in [Definition -> Lock]
    /\ budget \in [BudgetKind -> Nat]
    /\ mishap \in [Run -> SUBSET Mishap]
    /\ evicted \in [Run -> SUBSET Definition]

Init ==
    /\ StoreInit
    /\ pc = [r \in Run |-> "idle"]
    /\ op = [r \in Run |-> "none"]
    /\ lease = [r \in Run |-> [d \in Definition |-> 0]]
    /\ handle = [r \in Run |-> "none"]
    /\ cache = [r \in Run |-> "unset"]
    /\ pos = [r \in Run |-> 1]
    /\ active = [r \in Run |-> FALSE]
    /\ summaries = [r \in Run |-> [d \in Definition |-> "none"]]
    /\ completed = [r \in Run |-> [d \in Definition |-> "none"]]
    /\ erred = [r \in Run |-> FALSE]
    /\ stopping = [r \in Run |-> FALSE]
    /\ seen = [d \in Definition |-> NoLock]
    /\ budget \in Budgets
    /\ mishap = [r \in Run |-> {}]
    /\ evicted = [r \in Run |-> {}]

-----------------------------------------------------------------------------
(* Helpers *)

GoTo(r, label) == pc' = [pc EXCEPT ![r] = label]

\* The caller sees an error; the locks are released next.
Abort(r) == GoTo(r, "releasing") /\ erred' = [erred EXCEPT ![r] = TRUE]

\* A store call of run r fails, in the way `kind` says.
Fault(r, kind) ==
    /\ budget.faults > 0
    /\ budget' = [budget EXCEPT !.faults = @ - 1]
    /\ mishap' = [mishap EXCEPT ![r] =
                    @ \union {kind} \union IF @ = {} THEN {} ELSE {"again"}]
    /\ UNCHANGED evicted

Held(r) == {d \in Definition : lease[r][d] # 0}

\* lockDefinitionIds: locks are taken in the order of the sorted ids.
IsFirst(d, D) == d \in D /\ \A e \in D : d <= e
IsLast(d, D) == d \in D /\ \A e \in D : e <= d

\* The definition the current step of the plan works on: the plan forwards,
\* then backwards for the orphans of a rollbackOrphans run.
StepDefinition(r) ==
    LET n == Len(Plan[r])
    IN Plan[r][IF pos[r] <= n THEN pos[r] ELSE 2 * n + 1 - pos[r]]

Reported(f) == {d \in Definition : f[d] # "none"}

\* The body's loops are over: every step is done, or the orphans are left
\* alone because the scan of some definition did not succeed.
NoStepLeft(r) ==
    \/ pos[r] > Steps(r)
    \/ /\ pos[r] = Len(Plan[r]) + 1
       /\ \E d \in Scope[r] : summaries[r][d] # "succeeded"

\* The outcomes failRun records when the body fails.
definitionOutcomesAfterFailure(r) ==
    [d \in Scope[r] |->
        IF active[r] /\ d = StepDefinition(r) THEN "failed"
        ELSE IF completed[r][d] # "none" THEN completed[r][d]
        ELSE "skipped"]

\* The outcomes the body returns when it ends.
definitionOutcomes(r) == [d \in Reported(summaries[r]) |-> summaries[r][d]]

runStatusForDefinitions(r) ==
    IF \E d \in Definition : summaries[r][d] = "failed"
    THEN "failed" ELSE "succeeded"

-----------------------------------------------------------------------------
(* Starting: superviseInlinePlan until the worker is forked *)

StartPlan(r) ==
    /\ pc[r] = "idle"
    /\ budget.starts > 0
    /\ budget' = [budget EXCEPT !.starts = @ - 1]
    /\ GoTo(r, "acquiring")
    /\ UNCHANGED <<storeVars, op, lease, handle, cache, pos, active, summaries,
                   completed, erred, operatorVars, mishap, evicted>>

\* One iteration of acquireDefinitionLocks: a lock that is taken fails the
\* start, and the locks acquired so far are released.
AcquireLock(r) ==
    /\ pc[r] = "acquiring"
    /\ \E d \in Definition :
        /\ IsFirst(d, Scope[r] \ Held(r))
        /\ \/ /\ acquireDefinitionLock(d, r)
              /\ lease' = [lease EXCEPT ![r][d] = nextLock]
              /\ UNCHANGED <<pc, erred, historyVars>>
           \/ /\ ~CanAcquire(d)
              /\ Abort(r)
              /\ UNCHANGED <<lockVars, lease, historyVars>>
           \/ /\ CanAcquire(d)
              /\ Fault(r, "acquire")
              /\ acquireDefinitionLock(d, r) \/ UNCHANGED lockVars
              /\ Abort(r)
              /\ UNCHANGED lease
    /\ UNCHANGED <<lifecycleVars, op, handle, cache, pos, active, summaries,
                   completed, operatorVars>>

LocksAcquired(r) ==
    /\ pc[r] = "acquiring"
    /\ Scope[r] \subseteq Held(r)
    /\ GoTo(r, "preflight")
    /\ UNCHANGED <<storeVars, op, lease, handle, cache, pos, active,
                   summaries, completed, erred, operatorVars, historyVars>>

\* The dependency preflight passes or rejects the plan.
Preflight(r) ==
    /\ pc[r] = "preflight"
    /\ \/ /\ GoTo(r, "transition")
          /\ op' = [op EXCEPT ![r] = "queueRun"]
       \/ GoTo(r, "startFailing") /\ UNCHANGED op
    /\ UNCHANGED <<storeVars, lease, handle, cache, pos, active, summaries,
                   completed, erred, operatorVars, historyVars>>

\* The start failed: a run that was queued all the same is to be marked.
StartFailing(r) ==
    /\ pc[r] = "startFailing"
    /\ \/ /\ getRunState(r) = "queued"
          /\ GoTo(r, "markingStartFailed")
          /\ UNCHANGED <<erred, historyVars>>
       \/ /\ getRunState(r) # "queued"
          /\ Abort(r)
          /\ UNCHANGED historyVars
       \/ Fault(r, "read") /\ Abort(r)
    /\ UNCHANGED <<storeVars, op, lease, handle, cache, pos, active,
                   summaries, completed, operatorVars>>

\* The write of pc[r] is lost, or takes effect without an acknowledgement.
Lost(r) == Fault(r, "lost") /\ UNCHANGED lifecycleVars

MarkStartFailed(r) ==
    /\ pc[r] = "markingStartFailed"
    /\ \/ markRunStartFailed(r) /\ UNCHANGED historyVars
       \/ Lost(r)
       \/ Fault(r, "unacknowledged") /\ markRunStartFailed(r)
    /\ Abort(r)
    /\ UNCHANGED <<lockVars, op, lease, handle, cache, pos, active,
                   summaries, completed, operatorVars>>

\* The caller gives up while superviseInlinePlan is interruptible: nothing is
\* marked, the locks are released.
InterruptStart(r) ==
    /\ \/ pc[r] \in {"acquiring", "preflight"}
       \/ pc[r] \in Persisting /\ op[r] = "queueRun"
    /\ budget.interrupts > 0
    /\ budget' = [budget EXCEPT !.interrupts = @ - 1]
    /\ mishap' = [mishap EXCEPT ![r] = @ \union {"interrupted"}]
    /\ IF pc[r] = "transition"
       THEN queueRun(r) \/ UNCHANGED lifecycleVars
       ELSE UNCHANGED lifecycleVars
    /\ Abort(r)
    /\ UNCHANGED <<lockVars, op, lease, handle, cache, pos, active,
                   summaries, completed, operatorVars, evicted>>

-----------------------------------------------------------------------------
(* retryCommittedRunTransition: write; on an error read the run and, when  *)
(* the write has taken effect after all, repeat it to repair projections.  *)

LifecycleWrite(r) ==
    \/ op[r] = "queueRun" /\ queueRun(r)
    \/ op[r] = "beginRun" /\ beginRun(r)
    \/ op[r] = "completeRun" /\ completeRun(r, definitionOutcomes(r))
    \/ op[r] = "failRun" /\ failRun(r, definitionOutcomes(r))
    \/ op[r] = "markRunCancelled" /\ markRunCancelled(r)

\* The statuses that show the transition has been committed.
isCommitted(r) ==
    \/ op[r] = "queueRun" /\ getRunState(r) = "queued"
    \/ op[r] = "beginRun" /\ getRunState(r) \in {"running", "cancelling"}
    \/ op[r] = "completeRun" /\ getRunState(r) \in {"succeeded", "cancelled"}
    \/ op[r] = "failRun" /\ getRunState(r) = "failed"
    \/ op[r] = "markRunCancelled" /\ getRunState(r) = "cancelled"

\* What follows a transition: the worker is forked with a running handle, the
\* body starts, or the locks are released.
TransitionSucceeded(r) ==
    /\ \/ /\ op[r] = "queueRun"
          /\ GoTo(r, "transition")
          /\ op' = [op EXCEPT ![r] = "beginRun"]
          /\ handle' = [handle EXCEPT ![r] = "running"]
       \/ /\ op[r] = "beginRun"
          /\ GoTo(r, "boundary")
          /\ UNCHANGED <<op, handle>>
       \/ /\ op[r] \in TerminalOp
          /\ GoTo(r, "releasing")
          /\ UNCHANGED <<op, handle>>
    /\ UNCHANGED erred

\* A failed queueRun fails the start, a failed beginRun fails the run, and a
\* failed terminal write is reported after the locks are released.
TransitionFailed(r) ==
    \/ op[r] = "queueRun" /\ GoTo(r, "startFailing") /\ UNCHANGED erred
    \/ op[r] = "beginRun" /\ GoTo(r, "failing") /\ UNCHANGED erred
    \/ op[r] \in TerminalOp /\ Abort(r)

transitionFrame == <<lockVars, lease, cache, pos, active, summaries,
                     completed, operatorVars>>

Transition(r) ==
    /\ pc[r] = "transition"
    /\ \/ /\ LifecycleWrite(r)
          /\ TransitionSucceeded(r)
          /\ UNCHANGED historyVars
       \/ /\ \/ Lost(r)
             \/ Fault(r, "unacknowledged") /\ LifecycleWrite(r)
          /\ GoTo(r, "confirm")
          /\ UNCHANGED <<op, handle, erred>>
    /\ UNCHANGED transitionFrame

\* MUTANT of Confirm: every failed transition counts as not committed.
ConfirmNothing(r) ==
    /\ pc[r] = "confirm"
    /\ TransitionFailed(r)
    /\ UNCHANGED <<lifecycleVars, op, handle, historyVars, transitionFrame>>

Confirm(r) ==
    /\ pc[r] = "confirm"
    /\ \/ /\ isCommitted(r)
          /\ GoTo(r, "repair")
          /\ UNCHANGED <<erred, historyVars>>
       \/ /\ ~isCommitted(r)
          /\ TransitionFailed(r)
          /\ UNCHANGED historyVars
       \/ Fault(r, "read") /\ TransitionFailed(r)
    /\ UNCHANGED <<lifecycleVars, op, handle, transitionFrame>>

Repair(r) ==
    /\ pc[r] = "repair"
    /\ \/ /\ LifecycleWrite(r)
          /\ TransitionSucceeded(r)
          /\ UNCHANGED historyVars
       \/ /\ \/ Lost(r)
             \/ Fault(r, "unacknowledged") /\ LifecycleWrite(r)
          /\ TransitionFailed(r)
          /\ UNCHANGED <<op, handle>>
    /\ UNCHANGED transitionFrame

-----------------------------------------------------------------------------
(* The worker's body *)

durableCanSchedule(r) ==
    \/ cache[r] = "yes"
    \/ cache[r] = "unset" /\ getRunState(r) \in {"queued", "running"}

\* MUTANT of canSchedule: only the caller's own handle is consulted.
CanScheduleHandleOnly(r) == handle[r] = "running"

\* canScheduleRunWork under withDurableRunScheduling.
canSchedule(r) == handle[r] = "running" /\ durableCanSchedule(r)

\* Evaluating it reads and keeps the durable answer.
KeepAnswer(r) ==
    cache' = IF handle[r] = "running"
             THEN [cache EXCEPT ![r] = IF durableCanSchedule(r)
                                       THEN "yes" ELSE "no"]
             ELSE cache

CacheExpires(r) ==
    /\ pc[r] \in Executing
    /\ cache[r] # "unset"
    /\ cache' = [cache EXCEPT ![r] = "unset"]
    /\ UNCHANGED <<storeVars, pc, op, lease, handle, pos, active, summaries,
                   completed, erred, operatorVars, historyVars>>

\* The read behind canSchedule fails, and with it the body.
ScheduleReadFails(r) ==
    /\ pc[r] \in {"boundary", "final"}
    /\ handle[r] = "running" /\ cache[r] = "unset"
    /\ pc[r] = "boundary" => ~NoStepLeft(r)
    /\ Fault(r, "read")
    /\ GoTo(r, "failing")
    /\ UNCHANGED <<storeVars, op, lease, handle, cache, pos, active,
                   summaries, completed, erred, operatorVars>>

\* A scheduling boundary: before a definition, or between two units of work
\* of the active one.
Boundary(r) ==
    /\ pc[r] = "boundary"
    /\ IF NoStepLeft(r)
       THEN GoTo(r, "final") /\ UNCHANGED <<active, cache>>
       ELSE /\ KeepAnswer(r)
            /\ IF canSchedule(r)
               THEN GoTo(r, "working") /\ active' = [active EXCEPT ![r] = TRUE]
               ELSE GoTo(r, "final") /\ UNCHANGED active
    /\ UNCHANGED <<storeVars, op, lease, handle, pos, summaries, completed,
                   erred, operatorVars, historyVars>>

\* A unit of work is done and the definition has more.
WorkContinues(r) ==
    /\ pc[r] = "working"
    /\ GoTo(r, "boundary")
    /\ UNCHANGED <<storeVars, op, lease, handle, cache, pos, active,
                   summaries, completed, erred, operatorVars, historyVars>>

\* The definition is finished.  The scan of a rollbackOrphans run is not its
\* outcome yet.
FinishDefinition(r, status) ==
    /\ pc[r] = "working"
    /\ GoTo(r, "boundary")
    /\ pos' = [pos EXCEPT ![r] = @ + 1]
    /\ active' = [active EXCEPT ![r] = FALSE]
    /\ summaries' = [summaries EXCEPT ![r][StepDefinition(r)] = status]
    /\ completed' = IF r \in Orphans /\ pos[r] <= Len(Plan[r])
                    THEN completed
                    ELSE [completed EXCEPT ![r][StepDefinition(r)] = status]
    /\ UNCHANGED <<storeVars, op, lease, handle, cache, erred, operatorVars,
                   historyVars>>

\* A typed error or a defect in the body.
WorkFails(r) ==
    /\ pc[r] = "working"
    /\ GoTo(r, "failing")
    /\ UNCHANGED <<storeVars, op, lease, handle, cache, pos, active,
                   summaries, completed, erred, operatorVars, historyVars>>

\* The body's result: cancelled when work may no longer be scheduled.
Final(r) ==
    /\ pc[r] = "final"
    /\ KeepAnswer(r)
    /\ op' = [op EXCEPT ![r] =
                IF ~canSchedule(r) THEN "markRunCancelled"
                ELSE IF runStatusForDefinitions(r) = "failed"
                THEN "failRun" ELSE "completeRun"]
    /\ GoTo(r, "transition")
    /\ UNCHANGED <<storeVars, lease, handle, pos, active, summaries,
                   completed, erred, operatorVars, historyVars>>

\* failRunAndRethrow, or the failRun of onExit after a defect: one attempt.
Failing(r) ==
    /\ pc[r] = "failing"
    /\ \/ /\ failRun(r, definitionOutcomesAfterFailure(r))
          /\ UNCHANGED historyVars
       \/ Lost(r)
       \/ /\ Fault(r, "unacknowledged")
          /\ failRun(r, definitionOutcomesAfterFailure(r))
    /\ Abort(r)
    /\ UNCHANGED <<lockVars, op, lease, handle, cache, pos, active,
                   summaries, completed, operatorVars>>

-----------------------------------------------------------------------------
(* Releasing, and the end of the run *)

\* One iteration of releaseDefinitionLocks, in reverse order; an error does
\* not keep the other locks from being released.
ReleaseLock(r) ==
    /\ pc[r] = "releasing"
    /\ \E d \in Held(r) :
        /\ IsLast(d, Held(r))
        /\ lease' = [lease EXCEPT ![r][d] = 0]
        /\ \/ /\ releaseDefinitionLock(d, lease[r][d])
              /\ erred' = [erred EXCEPT ![r] =
                            @ \/ ReleaseRefused(d, lease[r][d])]
              /\ UNCHANGED historyVars
           \/ /\ Fault(r, "release")
              /\ releaseDefinitionLock(d, lease[r][d]) \/ UNCHANGED lockVars
              /\ erred' = [erred EXCEPT ![r] = TRUE]
    /\ UNCHANGED <<lifecycleVars, pc, op, handle, cache, pos, active,
                   summaries, completed, operatorVars>>

\* The status of the summary the execution returns.
ExecutionStatus(r) ==
    CASE op[r] = "markRunCancelled" -> "cancelled"
      [] op[r] = "failRun" -> "failed"
      [] OTHER -> IF getRunState(r) = "cancelled"
                  THEN "cancelled" ELSE "succeeded"

\* complete or fail of the handle, once every lock has been dealt with.
Finish(r) ==
    /\ pc[r] = "releasing"
    /\ Held(r) = {}
    /\ GoTo(r, "done")
    /\ handle' = IF handle[r] = "none" THEN handle
                 ELSE [handle EXCEPT ![r] = IF erred[r] THEN "failed"
                                            ELSE ExecutionStatus(r)]
    /\ UNCHANGED <<storeVars, op, lease, cache, pos, active, summaries,
                   completed, erred, operatorVars, historyVars>>

\* The process dies: what is in the store stays as it is.
Crash(r) ==
    /\ pc[r] \notin {"idle", "done", "crashed"}
    /\ budget.crashes > 0
    /\ budget' = [budget EXCEPT !.crashes = @ - 1]
    /\ GoTo(r, "crashed")
    /\ UNCHANGED <<storeVars, op, lease, handle, cache, pos, active,
                   summaries, completed, erred, operatorVars, mishap, evicted>>

-----------------------------------------------------------------------------
(* The caller's handle, and the operator (server/registry-runtime.ts) *)

UseStop ==
    /\ budget.stops > 0
    /\ budget' = [budget EXCEPT !.stops = @ - 1]
    /\ UNCHANGED <<mishap, evicted>>

CancelHandle(r) ==
    /\ handle[r] = "running" /\ pc[r] # "crashed"
    /\ handle' = [handle EXCEPT ![r] = "cancelling"]
    /\ UseStop
    /\ UNCHANGED <<storeVars, pc, op, lease, cache, pos, active, summaries,
                   completed, erred, operatorVars>>

\* activeRuns lists a run when it owns a lock and its record is active.
IsListedActive(r) ==
    /\ isActiveMigrationRunStatus(getRunState(r))
    /\ \E d \in Definition : locks[d].ownerRunId = r

\* stopRun, first half: the run is among the active ones.
StopRunFindsActive(r) ==
    /\ ~stopping[r]
    /\ IsListedActive(r)
    /\ stopping' = [stopping EXCEPT ![r] = TRUE]
    /\ UseStop
    /\ UNCHANGED <<storeVars, workerVars, seen>>

\* MUTANT of StopRunRequests: the status found by the first half is trusted.
StopRunWritesStatus(r) ==
    /\ stopping[r]
    /\ runs' = [runs EXCEPT ![r].status = "cancelling"]
    /\ updateCurrentLatestRunStates(r, "cancelling", NoOutcomes)
    /\ stopping' = [stopping EXCEPT ![r] = FALSE]
    /\ UNCHANGED <<lockVars, workerVars, seen, historyVars>>

\* stopRun, second half: the durable request; by now the run may be over.
StopRunRequests(r) ==
    /\ stopping[r]
    /\ requestRunCancellation(r)
    /\ stopping' = [stopping EXCEPT ![r] = FALSE]
    /\ UNCHANGED <<lockVars, workerVars, seen, historyVars>>

\* An operator sees a lock and decides to clear it ...
SeeLock(d) ==
    /\ seen[d] = NoLock /\ locks[d] # NoLock /\ budget.unlocks > 0
    /\ seen' = [seen EXCEPT ![d] = locks[d]]
    /\ budget' = [budget EXCEPT !.unlocks = @ - 1]
    /\ UNCHANGED <<storeVars, workerVars, stopping, mishap, evicted>>

\* ... and breakLock releases exactly that lock, if it is still there.
breakLock(d) ==
    /\ seen[d] # NoLock
    /\ releaseDefinitionLock(d, seen[d].token)
    /\ seen' = [seen EXCEPT ![d] = NoLock]
    /\ evicted' = IF locks'[d] # locks[d]
                  THEN [evicted EXCEPT ![locks[d].ownerRunId] =
                            @ \union {d}]
                  ELSE evicted
    /\ UNCHANGED <<lifecycleVars, workerVars, stopping, budget, mishap>>

-----------------------------------------------------------------------------

WorkerStep(r) ==
    \/ AcquireLock(r)
    \/ LocksAcquired(r)
    \/ Preflight(r)
    \/ StartFailing(r)
    \/ MarkStartFailed(r)
    \/ Transition(r)
    \/ Confirm(r)
    \/ Repair(r)
    \/ Boundary(r)
    \/ WorkContinues(r)
    \/ \E status \in {"succeeded", "failed"} : FinishDefinition(r, status)
    \/ WorkFails(r)
    \/ Final(r)
    \/ Failing(r)
    \/ ReleaseLock(r)
    \/ Finish(r)

Next ==
    \/ \E r \in Run :
        \/ StartPlan(r)
        \/ WorkerStep(r)
        \/ InterruptStart(r)
        \/ ScheduleReadFails(r)
        \/ CacheExpires(r)
        \/ Crash(r)
        \/ CancelHandle(r)
        \/ StopRunFindsActive(r)
        \/ StopRunRequests(r)
    \/ \E d \in Definition : SeeLock(d) \/ breakLock(d)

Spec == Init /\ [][Next]_vars

(***************************************************************************)
(* The worker fiber is scheduled, the calls it makes return, and cached    *)
(* answers expire.  Starting a run, stopping it and clearing locks is up   *)
(* to callers.                                                             *)
(***************************************************************************)
FairSpec == Spec /\ \A r \in Run : /\ WF_vars(WorkerStep(r))
                                   /\ WF_vars(CacheExpires(r))
                                   /\ WF_vars(StopRunRequests(r))

-----------------------------------------------------------------------------
(* Correctness properties *)

\* Refinement: whatever starters, workers, operators, faults and crashes do to
\* the store is a sequence of whole MigrationStore operations, so that all
\* that holds of the store under arbitrary clients holds here.
ImplementsStore == StoreSpec

\* The phases in which run r relies on its locks.
Owning(r) ==
    pc[r] \in Executing \union Persisting
                \union {"preflight", "startFailing", "markingStartFailed"}

\* From the preflight to the last lifecycle write a run holds the lock of
\* every definition of its plan, under the token it was given: neither other
\* starts, stops, faults, nor an operator's stale unlock take it away.
WorkUnderLock ==
    \A r \in Run : Owning(r) =>
        \A d \in Scope[r] \ evicted[r] :
            locks[d] = [ownerRunId |-> r, token |-> lease[r][d]]

\* Two runs never work on the same definition at the same time, unless an
\* operator cleared the lock of one of them.
OneWorkerPerDefinition ==
    \A r, s \in Run :
        /\ r # s /\ pc[r] = "working" /\ pc[s] = "working"
        /\ StepDefinition(r) = StepDefinition(s)
        => StepDefinition(r) \in evicted[r] \union evicted[s]

\* A lock disappears only when its owner releases it or an operator clears
\* the very acquisition they saw: a run that lost its lock, or an operator
\* with an old view, never removes the lock of the successor.
LocksRemovedByRight ==
    [][\A d \in Definition :
        locks[d] # NoLock /\ locks'[d] # locks[d] =>
            \/ pc[locks[d].ownerRunId] = "releasing"
            \/ seen[d] = locks[d]]_vars

\* At most one store call of run r failed, and it was a lifecycle write that
\* took effect without being acknowledged: what retryCommittedRunTransition
\* is there for.
AtMostOneUnacknowledged(r) == mishap[r] \subseteq {"unacknowledged"}

\* What the handle reports to its caller is what the store recorded, also
\* when one write went unacknowledged; with worse mishaps a failure may be
\* reported because persisting or releasing failed.
HandleAgreesWithRecord ==
    \A r \in Run : pc[r] = "done" /\ handle[r] # "none" =>
        \/ handle[r] = getRunState(r)
        \/ /\ handle[r] = "failed"
           /\ ~AtMostOneUnacknowledged(r) \/ evicted[r] # {}

\* CONTEXT.md: a cancelling run remains active and keeps its locks until its
\* terminal state is persisted.  Stated for runs whose writes all take
\* effect, acknowledged or not, and whose locks nobody clears.
CancellingKeepsLocks ==
    \A r \in Run :
        /\ getRunState(r) = "cancelling"
        /\ mishap[r] \subseteq {"unacknowledged", "again"}
        /\ evicted[r] = {}
        => \A d \in Scope[r] : locks[d].ownerRunId = r

\* The worker of run r met no mishap: the calls it made were answered, its
\* process lives and nobody cleared its locks.
Untroubled(r) == mishap[r] = {} /\ pc[r] # "crashed" /\ evicted[r] = {}

\* A stop takes effect: a cancelling run reaches a terminal status and its
\* locks are released, however much work is left and whatever other runs,
\* their crashes and the operator do.  A cancelled handle takes effect
\* likewise, also when store calls fail.
StopTakesEffect ==
    \A r \in Run :
        /\ getRunState(r) = "cancelling" ~>
              \/ /\ getRunState(r) \in TerminalStatus
                 /\ \A d \in Definition : locks[d].ownerRunId # r
              \/ ~Untroubled(r)
        /\ handle[r] = "cancelling" ~> pc[r] \in {"done", "crashed"}
=============================================================================
