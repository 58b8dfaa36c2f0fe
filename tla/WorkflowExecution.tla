-------------------------- MODULE WorkflowExecution --------------------------
(***************************************************************************)
(* Migration Runs executed by a workflow provider (packages/workflow-sdk). *)
(* startDurablePlan locks the definitions, queues the run, hands the lock  *)
(* tokens over in an envelope and returns; from then on the provider runs  *)
(* runMigrationExecutionWorkflow, whose steps call the step executor of    *)
(* services/migration-run-executor.ts.  The provider keeps the result of a *)
(* step only after the step has written to the store, so that a worker     *)
(* that dies loses the result and not the writes: lifecycle steps are then *)
(* executed again from the start, cursor steps fail the run.               *)
(***************************************************************************)
EXTENDS MigrationStore, Sequences, FiniteSets

CONSTANTS
    Plan,         \* Plan[r]: executionDefinitionIds of run r
    Kinds,        \* the kinds of request the runs may be: see kind
    Windows,      \* bound: source cursor windows of a definition, and
                  \*   pages of its orphans
    MaxRetries,   \* bound: retries the provider gives a lifecycle step
    MaxEvents     \* bound: failing calls, processes that die, locks an
                  \*   operator clears and durable stops, together

ASSUME WorkflowAssumption ==
    /\ \A r \in Run : /\ Plan[r] \in Seq(Scope[r])
                      /\ Scope[r] = {Plan[r][i] : i \in 1 .. Len(Plan[r])}
                      /\ \A i, j \in 1 .. Len(Plan[r]) :
                            Plan[r][i] = Plan[r][j] => i = j
    /\ Kinds \subseteq [Run -> {"run", "rescan", "orphans", "rollback"}]
    /\ Windows \in Nat \ {0}
    /\ MaxRetries \in Nat /\ MaxEvents \in Nat

VARIABLES
    kind,         \* kind[r]: a plain run, one that rescans or rolls orphans
                  \*   back, or a rollback
    starter,      \* starter[r]: where startDurablePlan is
    held,         \* held[r]: locks startDurablePlan would have to release
    lease,        \* lease[r][d]: lock token in the envelope, 0 for none
    wf,           \* wf[r]: status of the provider's run
    step,         \* step[r]: the step the workflow waits for
    at,           \* at[r]: where the worker is in that step
    retries,      \* retries[r]: executions of the step that were lost
    flow,         \* flow[r]: the workflow function's own variables
    result,       \* result[r]: what the step is about to answer
    window,       \* window[r]: the window the step has read, 0 for none
    todo,         \* todo[r]: definitions a loop of the step has yet to visit
    observed,     \* observed[r]: what waitForExecution returned
    cursor,       \* cursor[d]: the stored Source Cursor
    scanned,      \* history: scanned[r][d], windows run r has settled
    budget,       \* what remains of MaxEvents
    mishap        \* history: what went wrong for run r

starterVars == <<kind, starter, held, lease>>
stepVars == <<wf, step, at, retries, flow, result, window, todo,
              observed>>
sourceVars == <<cursor, scanned>>
vars == <<storeVars, starterVars, stepVars, sourceVars, budget, mishap>>

-----------------------------------------------------------------------------
(* Types *)

\* MUTANT of Retryable: cursor steps are retried as well.
RetryableCursorSteps == {"begin", "window", "orphans", "complete", "cancel",
                         "fail", "rollback"}

\* disableWorkflowStepRetries excepts the cursor steps.
Retryable == {"begin", "complete", "cancel", "fail", "rollback"}
CursorStep == {"window", "orphans"}
Finalization == {"complete", "cancel", "fail"}

\* counted: windows the workflow's own counts include.  index runs forwards
\* over the plan, and backwards while orphans are rolled back; page is how
\* far the orphans of the definition were listed.
Flow == [index : Nat, active : BOOLEAN, page : Nat, counted : [Definition -> Nat],
         summaries : [Definition -> {"none", "succeeded", "failed"}],
         completed : SUBSET Definition]

TypeOK ==
    /\ StoreTypeOK
    /\ kind \in Kinds
    /\ starter \in [Run -> {"idle", "acquire", "preflight", "queue", "start",
                            "attach", "markFailed", "release", "returned",
                            "rejected", "crashed"}]
    /\ held \in [Run -> SUBSET Definition]
    /\ lease \in [Run -> [Definition -> Nat]]
    /\ wf \in [Run -> {"none", "running", "completed", "failed"}]
    /\ step \in [Run -> Retryable \union CursorStep \union {"none"}]
    /\ at \in [Run -> {"none", "assert", "begin", "cursors", "gate", "work",
                       "commit", "finish", "forget", "finalize", "release",
                       "answer"}]
    /\ retries \in [Run -> 0 .. MaxRetries]
    /\ flow \in [Run -> Flow]
    /\ result \in [Run -> {"none", "ok", "error", "cancelled", "continue",
                           "succeeded", "failed"}]
    /\ window \in [Run -> 0 .. Windows]
    /\ todo \in [Run -> SUBSET Definition]
    /\ observed \in [Run -> {"none", "succeeded", "failed", "unreadable"}]
    /\ cursor \in [Definition -> 0 .. Windows - 1]
    /\ scanned \in [Run -> [Definition -> SUBSET (1 .. Windows)]]
    /\ budget \in 0 .. MaxEvents
    /\ mishap \in [Run -> SUBSET {"fault", "starterCrash", "stepLost",
                                "evicted", "startLost"}]

\* A cursor an earlier run left behind may lie anywhere.
Init ==
    /\ StoreInit
    /\ kind \in Kinds
    /\ held = [r \in Run |-> {}]
    /\ starter = [r \in Run |-> "idle"]
    /\ lease = [r \in Run |-> [d \in Definition |-> 0]]
    /\ wf = [r \in Run |-> "none"]
    /\ step = [r \in Run |-> "none"]
    /\ at = [r \in Run |-> "none"]
    /\ retries = [r \in Run |-> 0]
    /\ flow = [r \in Run |-> [index |-> 1, active |-> FALSE, page |-> 0,
                              counted |-> [d \in Definition |-> 0],
                              summaries |-> [d \in Definition |-> "none"],
                              completed |-> {}]]
    /\ result = [r \in Run |-> "none"]
    /\ window = [r \in Run |-> 0]
    /\ todo = [r \in Run |-> {}]
    /\ observed = [r \in Run |-> "none"]
    /\ cursor \in [Definition -> 0 .. Windows - 1]
    /\ scanned = [r \in Run |-> [d \in Definition |-> {}]]
    /\ budget = MaxEvents
    /\ mishap = [r \in Run |-> {}]

-----------------------------------------------------------------------------
(* Helpers *)

Spend == budget > 0 /\ budget' = budget - 1

Note(r, what) == mishap' = [mishap EXCEPT ![r] = @ \union {what}]

Fault(r) == Spend /\ Note(r, "fault")
NoFault == UNCHANGED <<budget, mishap>>

StartAt(r, label) == starter' = [starter EXCEPT ![r] = label]

StepAt(r, label) == at' = [at EXCEPT ![r] = label]

schedulable(r) == getRunState(r) \in {"queued", "running"}

\* The definition the workflow is at.
Current(r) == LET n == Len(Plan[r])
              IN Plan[r][IF flow[r].index <= n THEN flow[r].index
                         ELSE 2 * n + 1 - flow[r].index]

-----------------------------------------------------------------------------
(* startDurablePlan *)

StartPlan(r) ==
    /\ starter[r] = "idle"
    /\ StartAt(r, "acquire")
    /\ UNCHANGED <<storeVars, kind, held, lease, stepVars, sourceVars, budget,
                   mishap>>

\* acquireLocks, one definition at a time: a definition that is locked
\* releases the locks acquired so far and rejects the start.
AcquireLock(r) ==
    /\ starter[r] = "acquire"
    /\ \E d \in Scope[r] \ held[r] :
        /\ \A e \in Scope[r] \ held[r] : d <= e
        /\ IF CanAcquire(d)
           THEN /\ acquireDefinitionLock(d, r)
                /\ lease' = [lease EXCEPT ![r][d] = nextLock]
                /\ held' = [held EXCEPT ![r] = @ \union {d}]
                /\ StartAt(r, IF held'[r] = Scope[r] THEN "preflight"
                              ELSE "acquire")
           ELSE /\ StartAt(r, "release")
                /\ UNCHANGED <<lockVars, lease, held>>
    /\ UNCHANGED <<lifecycleVars, kind, stepVars, sourceVars, budget, mishap>>

\* The rollbackOrphans preflight and the envelope: either may reject.
Preflight(r) ==
    /\ starter[r] = "preflight"
    /\ \/ StartAt(r, "queue") /\ NoFault
       \/ StartAt(r, "release") /\ Fault(r)
    /\ UNCHANGED <<storeVars, kind, held, lease, stepVars, sourceVars>>

\* An error of queueRun is not confirmed: the locks are released whether or
\* not the run was queued.
Queue(r) ==
    /\ starter[r] = "queue"
    /\ \/ queueRun(r) /\ StartAt(r, "start") /\ NoFault
       \/ /\ Fault(r)
          /\ queueRun(r) \/ UNCHANGED lifecycleVars
          /\ StartAt(r, "release")
    /\ UNCHANGED <<lockVars, kind, held, lease, stepVars, sourceVars>>

firstStep(r) == IF kind[r] = "rollback" THEN "rollback" ELSE "begin"

\* External: the provider accepts the run and schedules its first step.
ProviderAccepts(r) ==
    /\ wf' = [wf EXCEPT ![r] = "running"]
    /\ step' = [step EXCEPT ![r] = firstStep(r)]
    /\ at' = [at EXCEPT ![r] = "assert"]
    /\ UNCHANGED <<retries, flow, result, window, todo, observed>>

\* startWorkflow: an error says nothing about whether the provider accepted.
StartWorkflow(r) ==
    /\ starter[r] = "start"
    /\ \/ ProviderAccepts(r) /\ StartAt(r, "attach") /\ NoFault
       \/ Fault(r) /\ StartAt(r, "markFailed") /\ UNCHANGED stepVars
       \/ /\ Spend
          /\ Note(r, "startLost")
          /\ ProviderAccepts(r)
          /\ StartAt(r, "markFailed")
    /\ UNCHANGED <<storeVars, kind, held, lease, sourceVars>>

MarkStartFailed(r) ==
    /\ starter[r] = "markFailed"
    /\ \/ markRunStartFailed(r) /\ NoFault
       \/ Fault(r) /\ (markRunStartFailed(r) \/ UNCHANGED lifecycleVars)
    /\ StartAt(r, "release")
    /\ UNCHANGED <<lockVars, kind, held, lease, stepVars, sourceVars>>

\* releaseLocks, in reverse order; a refused release is reported and the
\* others are tried all the same.  The envelope keeps its tokens.
ReleaseAfterRejection(r) ==
    /\ starter[r] = "release"
    /\ IF held[r] = {}
       THEN StartAt(r, "rejected") /\ UNCHANGED <<lockVars, held>>
       ELSE \E d \in held[r] :
                /\ \A e \in held[r] : e <= d
                /\ releaseDefinitionLock(d, lease[r][d])
                /\ held' = [held EXCEPT ![r] = @ \ {d}]
                /\ UNCHANGED starter
    /\ UNCHANGED <<lifecycleVars, kind, lease, stepVars, sourceVars, budget,
                   mishap>>

\* The workflow owns the locks from here on, also when attaching fails.
AttachExecution(r) ==
    /\ starter[r] = "attach"
    /\ \/ attachRunExecution(r) /\ StartAt(r, "returned") /\ NoFault
       \/ /\ Fault(r)
          /\ attachRunExecution(r) \/ UNCHANGED lifecycleVars
          /\ StartAt(r, "rejected")
    /\ held' = [held EXCEPT ![r] = {}]
    /\ UNCHANGED <<lockVars, kind, lease, stepVars, sourceVars>>

StarterCrash(r) ==
    /\ starter[r] \notin {"idle", "returned", "rejected", "crashed"}
    /\ Spend
    /\ Note(r, "starterCrash")
    /\ StartAt(r, "crashed")
    /\ held' = [held EXCEPT ![r] = {}]
    /\ UNCHANGED <<storeVars, kind, lease, stepVars, sourceVars>>

-----------------------------------------------------------------------------
(* The workflow function: what it does with a step's answer *)

\* The workflow schedules the next step, with fresh retries.
Schedule(r, next, newFlow) ==
    /\ step' = [step EXCEPT ![r] = next]
    /\ at' = [at EXCEPT ![r] = "assert"]
    /\ retries' = [retries EXCEPT ![r] = 0]
    /\ flow' = [flow EXCEPT ![r] = newFlow]
    /\ result' = [result EXCEPT ![r] = "none"]
    /\ window' = [window EXCEPT ![r] = 0]
    /\ UNCHANGED wf

End(r, status) ==
    /\ wf' = [wf EXCEPT ![r] = status]
    /\ step' = [step EXCEPT ![r] = "none"]
    /\ at' = [at EXCEPT ![r] = "none"]
    /\ result' = [result EXCEPT ![r] = "none"]
    /\ UNCHANGED <<retries, flow, window>>

allSucceeded(f, r) == \A d \in Scope[r] : f.summaries[d] = "succeeded"

\* After a definition: the next one, then the orphans of every definition if
\* all scans succeeded, then complete.
AfterDefinition(r, f) ==
    IF f.index <= Len(Plan[r])
    THEN Schedule(r, "window", [f EXCEPT !.active = TRUE])
    ELSE IF /\ kind[r] = "orphans"
            /\ f.index <= 2 * Len(Plan[r])
            /\ f.index > Len(Plan[r]) + 1 \/ allSucceeded(f, r)
         THEN Schedule(r, "orphans", [f EXCEPT !.active = TRUE])
         ELSE Schedule(r, "complete", f)

\* A definition's window or page loop ends with a summary.
Summarised(f, d, status, completed) ==
    [f EXCEPT !.summaries[d] = status, !.active = FALSE, !.index = @ + 1,
              !.completed = completed]

\* MUTANT of AfterWindow: a stop ends the window and not the run.
AfterWindowStopIgnored(r) ==
    LET d == Current(r)
        f == flow[r]
    IN CASE result[r] \in {"continue", "cancelled"} -> Schedule(r, "window", f)
         [] OTHER -> AfterDefinition(r,
                Summarised(f, d, result[r], f.completed \union {d}))

\* A cursor window's answer.  Orphan runs complete a definition only when
\* its orphans are gone.
AfterWindow(r) ==
    LET d == Current(r)
        f == flow[r]
    IN CASE result[r] = "cancelled" -> Schedule(r, "cancel", f)
         [] result[r] = "continue" -> Schedule(r, "window", f)
         [] OTHER -> AfterDefinition(r, Summarised(f, d, result[r],
                IF kind[r] = "orphans" THEN f.completed
                ELSE f.completed \union {d}))

\* A page's answer: a failed rollback makes the definition's summary failed.
AfterOrphans(r) ==
    LET d == Current(r)
        f == flow[r]
    IN CASE result[r] = "cancelled" -> Schedule(r, "cancel", f)
         [] result[r] = "continue" ->
                Schedule(r, "orphans", [f EXCEPT !.page = @ + 1])
         [] OTHER -> AfterDefinition(r,
                [Summarised(f, d, result[r], f.completed \union {d})
                    EXCEPT !.page = 0])

\* MUTANT of caught: the windows are executed outside of the try.
CaughtOnlyBegin == {"begin", "cancel"}

\* The catch of runMigrationExecutionWorkflow: complete and fail are outside
\* of it.
caught == {"begin", "window", "orphans", "cancel"}

\* External: the step function threw or its worker was lost.  The provider
\* executes a retryable step again, from the start.
StepFails(r) ==
    IF step[r] \in Retryable /\ retries[r] < MaxRetries
    THEN /\ retries' = [retries EXCEPT ![r] = @ + 1]
         /\ StepAt(r, "assert")
         /\ result' = [result EXCEPT ![r] = "none"]
         /\ UNCHANGED <<wf, step, flow, window>>
    ELSE IF step[r] \in caught THEN Schedule(r, "fail", flow[r])
         ELSE End(r, "failed")

\* The answer reaches the provider: the workflow continues.
StepAnswers(r) ==
    /\ at[r] = "answer"
    /\ IF result[r] = "error" THEN StepFails(r)
       ELSE CASE step[r] = "begin" -> AfterDefinition(r, flow[r])
              [] step[r] = "window" -> AfterWindow(r)
              [] step[r] = "orphans" -> AfterOrphans(r)
              [] step[r] = "fail" -> End(r, "failed")
              [] OTHER -> End(r, "completed")
    /\ UNCHANGED <<storeVars, starterVars, todo, observed, sourceVars, budget,
                   mishap>>

\* A store call, a source or a contract check fails before it took effect.
StepThrows(r) ==
    /\ at[r] \in {"assert", "begin", "cursors", "gate", "work", "commit",
                  "finish", "forget"}
    /\ step[r] = "rollback" => at[r] = "assert"
    /\ Fault(r)
    /\ StepFails(r)
    /\ UNCHANGED <<storeVars, starterVars, todo, observed, sourceVars>>

\* Once its lease is asserted, a rollback that fails releases its locks, and
\* marks its run failed if it had begun.
RollbackThrows(r) ==
    /\ step[r] = "rollback" /\ at[r] \in {"begin", "work"}
    /\ Fault(r)
    /\ StepAt(r, IF at[r] = "begin" THEN "release" ELSE "finalize")
    /\ todo' = [todo EXCEPT ![r] = Scope[r]]
    /\ result' = [result EXCEPT ![r] = "error"]
    /\ UNCHANGED <<storeVars, starterVars, wf, step, retries, flow, window,
                   observed, sourceVars>>

\* The worker dies, or its answer is lost after everything is written.
WorkerCrash(r) ==
    /\ at[r] # "none"
    /\ Spend
    /\ Note(r, "stepLost")
    /\ StepFails(r)
    /\ UNCHANGED <<storeVars, starterVars, todo, observed, sourceVars>>

-----------------------------------------------------------------------------
(* The steps *)

stepFrame == <<starterVars, wf, step, retries, observed>>

Answer(r, value) ==
    /\ StepAt(r, "answer")
    /\ result' = [result EXCEPT ![r] = value]

\* What the step asks of the step executor once its job is resolved.
executorCall(r) ==
    CASE step[r] \in {"begin", "rollback"} -> "begin"
      [] step[r] \in CursorStep -> "gate"
      [] OTHER -> "finalize"

\* MUTANT of AssertLease: the tokens are not compared.
AssertLeaseIgnoresLocks(r) ==
    /\ at[r] = "assert"
    /\ StepAt(r, executorCall(r))
    /\ UNCHANGED <<storeVars, stepFrame, flow, window, result, todo, sourceVars,
                   budget, mishap>>

\* assertCurrentMigrationRunExecutionLease, the first thing each step does.
AssertLease(r) ==
    /\ at[r] = "assert"
    /\ IF assertDefinitionLocks(r, Scope[r], lease[r])
       THEN /\ StepAt(r, executorCall(r))
            /\ UNCHANGED <<wf, step, retries, flow, result, window>>
       ELSE StepFails(r)
    /\ UNCHANGED <<storeVars, starterVars, todo, observed, sourceVars, budget,
                   mishap>>

\* beginRun of the begin and rollback steps.  Only a run that did begin
\* resets its cursors.
BeginStep(r) ==
    /\ at[r] = "begin"
    /\ beginRun(r)
    /\ LET resets == /\ runs'[r].status = "running"
                     /\ kind[r] \in {"rescan", "orphans"}
       IN /\ todo' = [todo EXCEPT ![r] = IF resets THEN Scope[r] ELSE {}]
          /\ CASE step[r] = "rollback" -> StepAt(r, "work") /\ UNCHANGED result
               [] step[r] = "begin" /\ resets -> StepAt(r, "cursors") /\ UNCHANGED result
               [] OTHER -> Answer(r, "ok")
    /\ UNCHANGED <<lockVars, stepFrame, flow, window, sourceVars, budget, mishap>>

\* deleteSourceCursor for one definition after the other.
ResetCursor(r) ==
    /\ at[r] = "cursors"
    /\ \E d \in todo[r] :
        /\ \A e \in todo[r] : d <= e
        /\ cursor' = [cursor EXCEPT ![d] = 0]
        /\ todo' = [todo EXCEPT ![r] = @ \ {d}]
        /\ IF todo'[r] = {} THEN Answer(r, "ok") ELSE UNCHANGED <<at, result>>
    /\ UNCHANGED <<storeVars, stepFrame, flow, window, scanned, budget, mishap>>

\* canScheduleRunWork before a window or page.
Gate(r) ==
    /\ at[r] = "gate"
    /\ IF schedulable(r) THEN StepAt(r, "work") /\ UNCHANGED result
       ELSE Answer(r, "cancelled")
    /\ UNCHANGED <<storeVars, stepFrame, flow, window, todo, sourceVars, budget,
                   mishap>>

\* The items of the window after the cursor are settled, unless the run is
\* stopped meanwhile.  The last window has no next cursor to commit.
ProcessWindow(r) ==
    /\ step[r] = "window" /\ at[r] = "work"
    /\ LET d == Current(r)
           w == cursor[d] + 1
       IN \/ /\ scanned' = [scanned EXCEPT ![r][d] = @ \union {w}]
             /\ flow' = [flow EXCEPT ![r].counted[d] = @ + 1]
             /\ window' = [window EXCEPT ![r] = w]
             /\ StepAt(r, IF w < Windows THEN "commit" ELSE "finish")
             /\ UNCHANGED result
          \/ /\ ~schedulable(r)
             /\ Answer(r, "cancelled")
             /\ UNCHANGED <<scanned, flow, window>>
    /\ UNCHANGED <<storeVars, stepFrame, todo, cursor, budget, mishap>>

\* setSourceCursor with the next cursor the source returned.
CommitCursor(r) ==
    /\ at[r] = "commit"
    /\ cursor' = [cursor EXCEPT ![Current(r)] = window[r]]
    /\ Answer(r, "continue")
    /\ UNCHANGED <<storeVars, stepFrame, flow, window, todo, scanned, budget, mishap>>

\* A page of orphans is rolled back; the stop is looked at for every item.
RollbackOrphansPage(r) ==
    /\ step[r] = "orphans" /\ at[r] = "work"
    /\ \/ flow[r].page + 1 < Windows /\ Answer(r, "continue")
       \/ StepAt(r, "finish") /\ UNCHANGED result
       \/ Answer(r, "failed")
       \/ ~schedulable(r) /\ Answer(r, "cancelled")
    /\ UNCHANGED <<storeVars, stepFrame, flow, window, todo, sourceVars, budget,
                   mishap>>

\* finalizeCompletedSourceDiscovery: completion, then the cursor.
RecordCompletion(r) ==
    /\ at[r] = "finish"
    /\ StepAt(r, "forget")
    /\ UNCHANGED <<storeVars, stepFrame, flow, window, result, todo, sourceVars,
                   budget, mishap>>

\* A definition with a failed item is summarised as failed.
ForgetCursor(r) ==
    /\ at[r] = "forget"
    /\ cursor' = [cursor EXCEPT ![Current(r)] = 0]
    /\ \/ Answer(r, "succeeded")
       \/ step[r] = "window" /\ Answer(r, "failed")
    /\ UNCHANGED <<storeVars, stepFrame, flow, window, todo, scanned, budget, mishap>>

\* The definitions of a rollback, in one step.
RollbackWork(r) ==
    /\ step[r] = "rollback" /\ at[r] = "work"
    /\ StepAt(r, "finalize")
    /\ \E s \in IF schedulable(r) THEN {"succeeded", "failed"}
                ELSE {"cancelled"} :
        result' = [result EXCEPT ![r] = s]
    /\ UNCHANGED <<storeVars, stepFrame, flow, window, todo, sourceVars, budget,
                   mishap>>

\* What the finalization asks for: runStatusForDefinitions.
requestedStatus(r) ==
    CASE step[r] = "rollback" -> IF result[r] = "error" THEN "failed"
                                 ELSE result[r]
      [] step[r] = "cancel" -> "cancelled"
      [] step[r] = "fail" -> "failed"
      [] OTHER -> IF allSucceeded(flow[r], r) THEN "succeeded" ELSE "failed"

\* definitionOutcomes of the fail step: the active definition failed, the
\* others keep their summary or were skipped.
outcomesOf(r) ==
    [d \in Scope[r] |->
        IF step[r] = "fail" /\ flow[r].active /\ d = Current(r) THEN "failed"
        ELSE IF step[r] = "fail" /\ d \notin flow[r].completed THEN "skipped"
        ELSE IF step[r] = "rollback" THEN requestedStatus(r)
        ELSE flow[r].summaries[d]]

finalTransition(r) ==
    CASE requestedStatus(r) = "succeeded" -> completeRun(r, outcomesOf(r))
      [] requestedStatus(r) = "failed" -> failRun(r, outcomesOf(r))
      [] OTHER -> markRunCancelled(r)

\* assertMigrationRunFinalStatus: a completed run may have been cancelled.
finalStatusExpected(r) ==
    \/ runs'[r].status = requestedStatus(r)
    \/ requestedStatus(r) = "succeeded" /\ runs'[r].status = "cancelled"

\* finalizeMigrationRunExecutionState: the transition, whose error is kept
\* until the locks are released.
Finalize(r) ==
    /\ at[r] = "finalize"
    /\ \/ /\ finalTransition(r) /\ NoFault
          /\ result' = [result EXCEPT ![r] = IF /\ finalStatusExpected(r)
                                                /\ @ # "error"
                                             THEN "ok" ELSE "error"]
       \/ /\ Fault(r)
          /\ finalTransition(r) \/ UNCHANGED lifecycleVars
          /\ result' = [result EXCEPT ![r] = "error"]
    /\ todo' = [todo EXCEPT ![r] = Scope[r]]
    /\ StepAt(r, "release")
    /\ UNCHANGED <<lockVars, stepFrame, flow, window, sourceVars>>

\* releaseDefinitionLocks, in reverse order, whatever the transition did.
ReleaseLock(r) ==
    /\ at[r] = "release"
    /\ IF todo[r] = {} THEN StepAt(r, "answer") /\ UNCHANGED <<lockVars, todo>>
       ELSE \E d \in todo[r] :
                /\ \A e \in todo[r] : e <= d
                /\ releaseDefinitionLock(d, lease[r][d])
                /\ todo' = [todo EXCEPT ![r] = @ \ {d}]
                /\ UNCHANGED at
    /\ UNCHANGED <<lifecycleVars, stepFrame, flow, window, result, sourceVars, budget,
                   mishap>>

-----------------------------------------------------------------------------
(* Observers and operators *)

\* waitForExecution polls the provider until its run is over.
ObserveTerminal(r) ==
    /\ starter[r] = "returned" /\ observed[r] = "none"
    /\ \/ /\ wf[r] = "completed" /\ NoFault
          /\ observed' = [observed EXCEPT ![r] = "succeeded"]
       \/ /\ wf[r] = "failed" /\ NoFault
          /\ observed' = [observed EXCEPT ![r] = "failed"]
       \/ /\ Fault(r)
          /\ observed' = [observed EXCEPT ![r] = "unreadable"]
    /\ UNCHANGED <<storeVars, starterVars, wf, step, at, retries, flow, result,
                   window, todo, sourceVars>>

\* Durable stop.
RequestStop(r) ==
    /\ runs[r].status \in {"queued", "running"}
    /\ Spend
    /\ requestRunCancellation(r)
    /\ UNCHANGED <<lockVars, starterVars, stepVars, sourceVars, mishap>>

\* An operator clears a lock that looks abandoned.
Unlock(d) ==
    /\ locks[d] # NoLock
    /\ Spend
    /\ breakDefinitionLock(d)
    /\ Note(locks[d].ownerRunId, "evicted")
    /\ UNCHANGED <<lifecycleVars, starterVars, stepVars, sourceVars>>

-----------------------------------------------------------------------------
(* Specification *)

Start(r) ==
    \/ StartPlan(r) \/ AcquireLock(r) \/ Preflight(r) \/ Queue(r)
    \/ StartWorkflow(r) \/ MarkStartFailed(r) \/ ReleaseAfterRejection(r)
    \/ AttachExecution(r)

Work(r) ==
    \/ AssertLease(r) \/ BeginStep(r) \/ ResetCursor(r) \/ Gate(r)
    \/ ProcessWindow(r) \/ CommitCursor(r) \/ RollbackOrphansPage(r)
    \/ RecordCompletion(r) \/ ForgetCursor(r) \/ RollbackWork(r)
    \/ Finalize(r) \/ ReleaseLock(r) \/ StepAnswers(r)

Next ==
    \/ \E r \in Run :
        \/ Start(r) \/ StarterCrash(r)
        \/ Work(r) \/ StepThrows(r) \/ RollbackThrows(r) \/ WorkerCrash(r)
        \/ ObserveTerminal(r)
        \/ RequestStop(r)
    \/ \E d \in Definition : Unlock(d)

Spec == Init /\ [][Next]_vars

\* A worker that lives takes its next step, and the provider always finds a
\* worker for a step.
FairSpec == Spec /\ \A r \in Run : WF_vars(Work(r))

-----------------------------------------------------------------------------
(* Correctness properties *)

\* No operator cleared a lock and no starter was told that a start failed
\* which the provider had accepted: what either does to its own run it may
\* do to every run that comes after it.
Undisturbed ==
    \A r \in Run : mishap[r] \intersect {"evicted", "startLost"} = {}

\* The lock tokens travel to the workers in the envelope: whoever processes
\* items, commits a cursor or writes the terminal state of a run is the only
\* one to do so for its definitions, unless an operator cleared a lock or the
\* starter was told that the start failed.
WorkUnderLock ==
    \A r \in Run :
        /\ at[r] \in {"gate", "work", "commit", "finish", "forget", "finalize"}
        /\ Undisturbed
        => assertDefinitionLocks(r, Scope[r], lease[r])

\* The summary of a workflow counts every window its run has settled exactly
\* once, and a run that rescans has settled all of them: the result of a
\* step may be lost, what it counted and committed may not.
SummaryCountsEveryWindow ==
    \A r \in Run :
        /\ wf[r] = "completed" /\ kind[r] # "rollback"
        /\ runs[r].status = "succeeded"
        /\ Undisturbed
        => \A d \in Scope[r] :
            /\ flow[r].counted[d] = Cardinality(scanned[r][d])
            /\ kind[r] \in {"rescan", "orphans"} =>
                    scanned[r][d] = 1 .. Windows

\* A workflow that ended has released the locks its envelope carried, also
\* when store calls failed, as long as they fail fewer times than the
\* provider retries.
EndedWorkflowFreesLocks ==
    \A r \in Run :
        /\ wf[r] \in {"completed", "failed"}
        /\ mishap[r] \subseteq {"fault"} /\ Undisturbed
        /\ MaxEvents - budget <= MaxRetries
        => \A d \in Definition : locks[d].ownerRunId # r

\* Every workflow that was started ends, whatever is stopped, lost or
\* cleared meanwhile: the loops over windows and pages terminate and so do
\* the retries.
WorkflowEnds ==
    \A r \in Run : wf[r] = "running" ~> wf[r] \in {"completed", "failed"}
=============================================================================
