------------------------- MODULE MigrationStoreProofs -------------------------
(***************************************************************************)
(* Proofs about MigrationStore, for any runs, definitions and scopes.      *)
(***************************************************************************)
EXTENDS MigrationStore, TLAPS

\* What the status algebra decides is a status, it never invents "none", and
\* a refused write keeps the status.
LEMMA ResolveType ==
    ASSUME NEW current \in RunStatus \union {"none"},
           NEW requested \in RunStatus \union {"none"},
           NEW cancel \in BOOLEAN
    PROVE  LET decision == resolveMigrationRunTransition(current, requested,
                                                         cancel)
           IN /\ decision.accepted \in BOOLEAN
              /\ decision.status \in RunStatus \union {"none"}
              /\ current # "none" => decision.status # "none"
BY DEF resolveMigrationRunTransition, Decision, OrCurrent, RunStatus,
       ActiveStatus, TerminalStatus

\* A terminal status is absorbing.
LEMMA ResolveTerminal ==
    ASSUME NEW current \in TerminalStatus,
           NEW requested \in RunStatus \union {"none"},
           NEW cancel \in BOOLEAN
    PROVE  resolveMigrationRunTransition(current, requested, cancel).status
                = current
BY DEF resolveMigrationRunTransition, Decision, TerminalStatus

\* A terminal status refuses a write that requests no status.
LEMMA ResolveTerminalAttach ==
    ASSUME NEW current \in TerminalStatus
    PROVE  ~resolveMigrationRunTransition(current, "none", FALSE).accepted
BY DEF resolveMigrationRunTransition, Decision, TerminalStatus

\* A stop is not overwritten by a start, nor by a completion that lets
\* cancellation win.
LEMMA ResolveCancelling ==
    ASSUME NEW requested \in RunStatus \union {"none"},
           NEW cancel \in BOOLEAN,
           requested = "succeeded" => cancel
    PROVE  resolveMigrationRunTransition("cancelling", requested, cancel).status
                \in {"cancelling", "cancelled", "failed", "start-failed"}
BY DEF resolveMigrationRunTransition, Decision, RunStatus, ActiveStatus,
       TerminalStatus

-----------------------------------------------------------------------------
(* What the lifecycle writes do, whatever the write *)

\* The effect common to all lifecycle writes of a run: either nothing, or the
\* run gets a status and every projection that names the run gets it too.
WritesStatus(r, status) ==
    /\ status \in RunStatus
    /\ runs' \in [Run -> RunRecord]
    /\ latest' \in [Definition -> Projection]
    /\ runs'[r].status = status
    /\ \A s \in Run \ {r} : runs'[s] = runs[s]
    /\ \A d \in Definition :
        \/ /\ d \in Scope[r]
           /\ latest'[d].runId = r
           /\ latest'[d].status = status
        \/ /\ ~(d \in Scope[r] /\ latest[d].runId = r)
           /\ latest'[d] = latest[d]
    /\ runs[r].status # "none" => \A d \in Definition :
        latest'[d].runId = latest[d].runId
    /\ runs[r].status \in TerminalStatus =>
        /\ status = runs[r].status
        /\ runs'[r].execution = runs[r].execution
    /\ runs[r].status = "cancelling" =>
        status \in {"cancelling", "cancelled", "failed", "start-failed"}

\* A projection built for a run has the right type, run and status.
LEMMA ProjectType ==
    ASSUME NEW r \in Run, NEW d \in Definition, NEW status \in RunStatus,
           NEW D, NEW outcomes \in [D -> OutcomeStatus]
    PROVE  /\ Project(r, d, status, outcomes) \in Projection
           /\ Project(r, d, status, outcomes).runId = r
           /\ Project(r, d, status, outcomes).status = status
BY DEF Project, Projection, migrationDefinitionRunStatus, RunStatus,
       ActiveStatus, TerminalStatus, DefinitionRunStatus, OutcomeStatus

\* The empty outcome map of writes without outcomes is well typed.
LEMMA NoOutcomesType == NoOutcomes \in [{} -> OutcomeStatus]
BY DEF NoOutcomes

\* The same for a projection built without outcomes.
LEMMA ProjectNoOutcomes ==
    ASSUME NEW r \in Run, NEW d \in Definition, NEW status \in RunStatus
    PROVE  /\ Project(r, d, status, NoOutcomes) \in Projection
           /\ Project(r, d, status, NoOutcomes).runId = r
           /\ Project(r, d, status, NoOutcomes).status = status
BY DEF Project, Projection, migrationDefinitionRunStatus, NoOutcomes, RunStatus,
       ActiveStatus, TerminalStatus, DefinitionRunStatus, OutcomeStatus

\* beginRun and queueRun write a status, or nothing.
LEMMA WriteRunStateEffect ==
    ASSUME StoreTypeOK, NEW r \in Run, NEW requested \in {"queued", "running"},
           writeRunState(r, requested)
    PROVE  UNCHANGED lifecycleVars \/ \E status \in RunStatus : WritesStatus(r, status)
<1> DEFINE decision == resolveMigrationRunTransition(runs[r].status, requested,
                                                     FALSE)
<1>1. runs[r] \in RunRecord /\ runs[r].status \in RunStatus \union {"none"}
  BY DEF StoreTypeOK, RunRecord
<1>2. requested \in RunStatus \union {"none"}
  BY DEF RunStatus, ActiveStatus
<1>3. decision.status \in RunStatus
  BY <1>1, <1>2 DEF resolveMigrationRunTransition, Decision, OrCurrent,
     RunStatus, ActiveStatus, TerminalStatus
<1>4. runs[r].status \in TerminalStatus => decision.status = runs[r].status
  BY <1>1, <1>2, ResolveTerminal
<1>5. runs[r].status = "cancelling" =>
        decision.status \in {"cancelling", "cancelled", "failed", "start-failed"}
  BY <1>2, ResolveCancelling
<1> HIDE DEF decision
<1>6. CASE decision.accepted
  <2>1. /\ runs' = [runs EXCEPT ![r].status = decision.status]
        /\ latest' = [d \in Definition |->
                        IF d \in Scope[r] /\ (\/ runs[r].status = "none"
                                              \/ latest[d].runId = r)
                        THEN Project(r, d, decision.status, NoOutcomes)
                        ELSE latest[d]]
    BY <1>6 DEF writeRunState, decision
  <2>2. \A d \in Definition :
            /\ Project(r, d, decision.status, NoOutcomes) \in Projection
            /\ Project(r, d, decision.status, NoOutcomes).runId = r
            /\ Project(r, d, decision.status, NoOutcomes).status = decision.status
    BY <1>3, ProjectNoOutcomes
  <2>3. /\ runs' \in [Run -> RunRecord]
        /\ runs'[r].status = decision.status
        /\ runs'[r].execution = runs[r].execution
        /\ \A s \in Run \ {r} : runs'[s] = runs[s]
    BY <1>1, <1>3, <2>1 DEF StoreTypeOK, RunRecord
  <2>4. latest' \in [Definition -> Projection]
    BY <2>1, <2>2 DEF StoreTypeOK
  <2>5. WritesStatus(r, decision.status)
    BY <1>3, <1>4, <1>5, <2>1, <2>2, <2>3, <2>4 DEF WritesStatus
  <2> QED BY <1>3, <2>5
<1>7. CASE ~decision.accepted
  BY <1>7 DEF writeRunState, decision
<1> QED BY <1>6, <1>7

\* So do the terminal writes.
LEMMA UpdateRunStateEffect ==
    ASSUME StoreTypeOK, NEW r \in Run, RunExists(r),
           NEW requested \in {"start-failed", "succeeded", "failed", "cancelled"},
           NEW cancel \in BOOLEAN, requested = "succeeded" => cancel,
           NEW D, NEW outcomes \in [D -> OutcomeStatus],
           updateRunState(r, requested, cancel, outcomes)
    PROVE  UNCHANGED lifecycleVars \/ \E status \in RunStatus : WritesStatus(r, status)
<1> DEFINE decision == resolveMigrationRunTransition(runs[r].status, requested,
                                                     cancel)
<1>1. runs[r] \in RunRecord /\ runs[r].status \in RunStatus
  BY DEF StoreTypeOK, RunRecord, RunExists
<1>2. requested \in RunStatus \union {"none"}
  BY DEF RunStatus, TerminalStatus
<1>3. decision.status \in RunStatus
  BY <1>1, <1>2 DEF resolveMigrationRunTransition, Decision, OrCurrent,
     RunStatus, ActiveStatus, TerminalStatus
<1>4. runs[r].status \in TerminalStatus => decision.status = runs[r].status
  BY <1>1, <1>2, ResolveTerminal
<1>5. runs[r].status = "cancelling" =>
        decision.status \in {"cancelling", "cancelled", "failed", "start-failed"}
  BY <1>2, ResolveCancelling
<1> HIDE DEF decision
<1>6. CASE decision.accepted
  <2>1. /\ runs' = [runs EXCEPT ![r].status = decision.status,
                                ![r].finished = @ \/ requested \in TerminalStatus]
        /\ latest' = [d \in Definition |->
                        IF d \in Scope[r] /\ latest[d].runId = r
                        THEN Project(r, d, decision.status, outcomes)
                        ELSE latest[d]]
    BY <1>6 DEF updateRunState, updateCurrentLatestRunStates, decision
  <2>2. \A d \in Definition :
            /\ Project(r, d, decision.status, outcomes) \in Projection
            /\ Project(r, d, decision.status, outcomes).runId = r
            /\ Project(r, d, decision.status, outcomes).status = decision.status
    BY <1>3, ProjectType
  <2>3. /\ runs' \in [Run -> RunRecord]
        /\ runs'[r].status = decision.status
        /\ runs'[r].execution = runs[r].execution
        /\ \A s \in Run \ {r} : runs'[s] = runs[s]
    BY <1>1, <1>3, <2>1 DEF StoreTypeOK, RunRecord
  <2>4. latest' \in [Definition -> Projection]
    BY <2>1, <2>2 DEF StoreTypeOK
  <2>5. WritesStatus(r, decision.status)
    BY <1>3, <1>4, <1>5, <2>1, <2>2, <2>3, <2>4 DEF WritesStatus
  <2> QED BY <1>3, <2>5
<1>7. CASE ~decision.accepted
  BY <1>7 DEF updateRunState, decision
<1> QED BY <1>6, <1>7

\* So does a stop.
LEMMA RequestRunCancellationEffect ==
    ASSUME StoreTypeOK, NEW r \in Run, requestRunCancellation(r)
    PROVE  UNCHANGED lifecycleVars \/ \E status \in RunStatus : WritesStatus(r, status)
<1>1. runs[r] \in RunRecord /\ "cancelling" \in RunStatus
  BY DEF StoreTypeOK, RunStatus, ActiveStatus
<1>2. CASE runs[r].status \in ActiveStatus
  <2>1. /\ runs' = [runs EXCEPT ![r].status = "cancelling"]
        /\ latest' = [d \in Definition |->
                        IF d \in Scope[r] /\ latest[d].runId = r
                        THEN Project(r, d, "cancelling", NoOutcomes)
                        ELSE latest[d]]
    BY <1>2 DEF requestRunCancellation, isActiveMigrationRunStatus,
                updateCurrentLatestRunStates
  <2>2. \A d \in Definition :
            /\ Project(r, d, "cancelling", NoOutcomes) \in Projection
            /\ Project(r, d, "cancelling", NoOutcomes).runId = r
            /\ Project(r, d, "cancelling", NoOutcomes).status = "cancelling"
    BY <1>1, ProjectNoOutcomes
  <2>3. /\ runs' \in [Run -> RunRecord]
        /\ runs'[r].status = "cancelling"
        /\ \A s \in Run \ {r} : runs'[s] = runs[s]
    BY <1>1, <2>1 DEF StoreTypeOK, RunRecord
  <2>4. latest' \in [Definition -> Projection]
    BY <2>1, <2>2 DEF StoreTypeOK
  <2>5. runs[r].status \notin TerminalStatus
    BY <1>2 DEF ActiveStatus, TerminalStatus
  <2>6. WritesStatus(r, "cancelling")
    BY <1>1, <2>1, <2>2, <2>3, <2>4, <2>5 DEF WritesStatus
  <2> QED BY <1>1, <2>6
<1>3. CASE runs[r].status \notin ActiveStatus
  BY <1>3 DEF requestRunCancellation, isActiveMigrationRunStatus
<1> QED BY <1>2, <1>3

\* So does attaching an execution, which keeps the status.
LEMMA AttachRunExecutionEffect ==
    ASSUME StoreTypeOK, NEW r \in Run, attachRunExecution(r)
    PROVE  UNCHANGED lifecycleVars \/ \E status \in RunStatus : WritesStatus(r, status)
<1> DEFINE decision == resolveMigrationRunTransition(runs[r].status, "none",
                                                     FALSE)
<1>1. runs[r] \in RunRecord /\ runs[r].status \in RunStatus
  BY DEF StoreTypeOK, RunRecord, attachRunExecution, RunExists
<1>2. CASE decision.accepted
  <2>1. /\ runs' = [runs EXCEPT ![r].execution = TRUE]
        /\ latest' = [d \in Definition |->
                        IF d \in Scope[r] /\ latest[d].runId = r
                        THEN Project(r, d, runs[r].status, NoOutcomes)
                        ELSE latest[d]]
    BY <1>2 DEF attachRunExecution, updateCurrentLatestRunStates
  <2>2. \A d \in Definition :
            /\ Project(r, d, runs[r].status, NoOutcomes) \in Projection
            /\ Project(r, d, runs[r].status, NoOutcomes).runId = r
            /\ Project(r, d, runs[r].status, NoOutcomes).status = runs[r].status
    BY <1>1, ProjectNoOutcomes
  <2>3. /\ runs' \in [Run -> RunRecord]
        /\ runs'[r].status = runs[r].status
        /\ \A s \in Run \ {r} : runs'[s] = runs[s]
    BY <1>1, <2>1 DEF StoreTypeOK, RunRecord
  <2>4. latest' \in [Definition -> Projection]
    BY <2>1, <2>2 DEF StoreTypeOK
  <2>5. runs[r].status \notin TerminalStatus
    BY <1>2, ResolveTerminalAttach
  <2>6. WritesStatus(r, runs[r].status)
    BY <1>1, <2>1, <2>2, <2>3, <2>4, <2>5 DEF WritesStatus
  <2> QED BY <1>1, <2>6
<1>3. CASE ~decision.accepted
  BY <1>3 DEF attachRunExecution
<1> QED BY <1>2, <1>3

\* The accepted status of a write becomes the record's.
LEMMA StatusWritten ==
    ASSUME StoreTypeOK, NEW r \in Run,
           NEW requested, NEW cancel \in BOOLEAN, NEW outcomes,
           \/ writeRunState(r, requested) /\ ~cancel
           \/ updateRunState(r, requested, cancel, outcomes)
    PROVE  LET decision == resolveMigrationRunTransition(getRunState(r),
                                                         requested, cancel)
           IN /\ \A s \in Run \ {r} : runs'[s] = runs[s]
              /\ getRunState(r)' = IF decision.accepted THEN decision.status
                                   ELSE getRunState(r)
<1> DEFINE decision == resolveMigrationRunTransition(runs[r].status,
                                                     requested, cancel)
<1>1. runs \in [Run -> RunRecord] /\ runs[r] \in RunRecord
  BY DEF StoreTypeOK
<1>2. CASE decision.accepted
  <2>1. \/ runs' = [runs EXCEPT ![r].status = decision.status]
        \/ runs' = [runs EXCEPT ![r].status = decision.status,
                                ![r].finished = @ \/ requested \in
                                                        TerminalStatus]
    BY <1>2 DEF writeRunState, updateRunState
  <2> HIDE DEF decision
  <2>2. \A s \in Run \ {r} : runs'[s] = runs[s]
    BY <1>1, <2>1
  <2>3. runs'[r].status = decision.status
    BY <1>1, <2>1 DEF RunRecord
  <2> QED BY <1>2, <2>2, <2>3 DEF getRunState, decision
<1>3. CASE ~decision.accepted
  <2>1. runs' = runs
    BY <1>3 DEF writeRunState, updateRunState, lifecycleVars
  <2> QED BY <1>3, <2>1 DEF getRunState
<1> QED BY <1>2, <1>3

\* What the locks' part of the store does in a step.
LockStep ==
    \/ \E d \in Definition, r \in Run : acquireDefinitionLock(d, r)
    \/ \E d \in Definition, token \in Nat : releaseDefinitionLock(d, token)
    \/ \E d \in Definition : breakDefinitionLock(d)

\* Every step of the store is a lifecycle write of one run or a lock step.
LEMMA StoreStep ==
    ASSUME StoreTypeOK, StoreNext
    PROVE  \/ UNCHANGED storeVars
           \/ /\ \E r \in Run, status \in RunStatus : WritesStatus(r, status)
              /\ UNCHANGED lockVars
           \/ LockStep /\ UNCHANGED lifecycleVars
<1> DEFINE Goal == \/ UNCHANGED storeVars
                   \/ /\ \E r \in Run, status \in RunStatus :
                            WritesStatus(r, status)
                      /\ UNCHANGED lockVars
                   \/ LockStep /\ UNCHANGED lifecycleVars
<1>0. SUFFICES Goal
  OBVIOUS
<1>a. ASSUME UNCHANGED lockVars, NEW r \in Run,
             UNCHANGED lifecycleVars
                \/ \E status \in RunStatus : WritesStatus(r, status)
      PROVE  Goal
  BY <1>a DEF storeVars, lockVars, lifecycleVars
<1> HIDE DEF Goal
<1>1. ASSUME NEW r \in Run, BeginRun(r) PROVE Goal
  BY <1>1, <1>a, WriteRunStateEffect DEF BeginRun, beginRun
<1>2. ASSUME NEW r \in Run, QueueRun(r) PROVE Goal
  BY <1>2, <1>a, WriteRunStateEffect DEF QueueRun, queueRun
<1>3. ASSUME NEW r \in Run, AttachRunExecution(r) PROVE Goal
  BY <1>3, <1>a, AttachRunExecutionEffect DEF AttachRunExecution
<1>4. ASSUME NEW r \in Run, MarkRunStartFailed(r) PROVE Goal
  BY <1>4, <1>a, UpdateRunStateEffect, NoOutcomesType
     DEF MarkRunStartFailed, markRunStartFailed
<1>5. ASSUME NEW r \in Run, MarkRunCancelled(r) PROVE Goal
  BY <1>5, <1>a, UpdateRunStateEffect, NoOutcomesType
     DEF MarkRunCancelled, markRunCancelled
<1>6. ASSUME NEW r \in Run, RequestRunCancellation(r) PROVE Goal
  BY <1>6, <1>a, RequestRunCancellationEffect DEF RequestRunCancellation
<1>7. ASSUME NEW r \in Run, NEW outcomes \in [Scope[r] -> OutcomeStatus],
             CompleteRun(r, outcomes)
      PROVE  Goal
  BY <1>7, <1>a, UpdateRunStateEffect DEF CompleteRun, completeRun
<1>8. ASSUME NEW r \in Run, NEW outcomes \in [Scope[r] -> OutcomeStatus],
             FailRun(r, outcomes)
      PROVE  Goal
  BY <1>8, <1>a, UpdateRunStateEffect DEF FailRun, failRun
<1>9. ASSUME NEW d \in Definition, NEW r \in Run, AcquireDefinitionLock(d, r)
      PROVE  Goal
  BY <1>9 DEF AcquireDefinitionLock, LockStep, Goal
<1>10. ASSUME NEW d \in Definition, NEW token \in 1 .. MaxToken,
              ReleaseDefinitionLock(d, token)
       PROVE  Goal
  <2>1. token \in Nat
    BY MigrationStoreAssumption
  <2> QED BY <1>10, <2>1 DEF ReleaseDefinitionLock, LockStep, Goal
<1>11. ASSUME NEW d \in Definition, BreakDefinitionLock(d) PROVE Goal
  BY <1>11 DEF BreakDefinitionLock, LockStep, Goal
<1> QED
  BY <1>1, <1>2, <1>3, <1>4, <1>5, <1>6, <1>7, <1>8, <1>9, <1>10, <1>11
  DEF StoreNext

-----------------------------------------------------------------------------
(* Type correctness and agreement of records and projections *)

\* Lock operations keep the types of locks and tokens.
LEMMA LockStepTypes ==
    ASSUME StoreTypeOK, LockStep
    PROVE  locks' \in [Definition -> Lock] /\ nextLock' \in Nat
<1>1. NoLock \in Lock
  BY DEF NoLock, Lock
<1>2. ASSUME NEW d \in Definition, NEW r \in Run, acquireDefinitionLock(d, r)
      PROVE  locks' \in [Definition -> Lock] /\ nextLock' \in Nat
  BY <1>2 DEF acquireDefinitionLock, StoreTypeOK, Lock
<1>3. ASSUME NEW d \in Definition, NEW token \in Nat,
             releaseDefinitionLock(d, token)
      PROVE  locks' \in [Definition -> Lock] /\ nextLock' \in Nat
  BY <1>1, <1>3 DEF releaseDefinitionLock, StoreTypeOK
<1>4. ASSUME NEW d \in Definition, breakDefinitionLock(d)
      PROVE  locks' \in [Definition -> Lock] /\ nextLock' \in Nat
  BY <1>1, <1>4 DEF breakDefinitionLock, StoreTypeOK
<1> QED BY <1>2, <1>3, <1>4 DEF LockStep

\* The store keeps its types: a lifecycle write never stores an undefined
\* status, whatever the clients do.
THEOREM StoreTypeCorrect == StoreSpec => []StoreTypeOK
<1>1. StoreInit => StoreTypeOK
  BY DEF StoreInit, StoreTypeOK, NoRecord, RunRecord, NoProjection, Projection,
         NoLock, Lock
<1>2. StoreTypeOK /\ [StoreNext]_storeVars => StoreTypeOK'
  <2> SUFFICES ASSUME StoreTypeOK, [StoreNext]_storeVars PROVE StoreTypeOK'
    OBVIOUS
  <2>1. CASE UNCHANGED storeVars
    BY <2>1 DEF StoreTypeOK, storeVars
  <2>2. ASSUME NEW r \in Run, NEW status \in RunStatus, WritesStatus(r, status),
               UNCHANGED lockVars
        PROVE  StoreTypeOK'
    BY <2>2 DEF WritesStatus, StoreTypeOK, lockVars
  <2>3. CASE LockStep /\ UNCHANGED lifecycleVars
    BY <2>3, LockStepTypes DEF StoreTypeOK, lifecycleVars
  <2> QED BY <2>1, <2>2, <2>3, StoreStep
<1> QED BY <1>1, <1>2, PTL DEF StoreSpec

\* A projection shows the status of the run it names, for any interleaving of
\* the writes of any number of runs (LatestMatchesRecord is inductive once the
\* types are known).
THEOREM StoreLatestMatchesRecord == StoreSpec => []LatestMatchesRecord
<1>1. StoreInit => LatestMatchesRecord
  BY DEF StoreInit, LatestMatchesRecord, NoProjection
<1>2. StoreTypeOK /\ LatestMatchesRecord /\ [StoreNext]_storeVars
        => LatestMatchesRecord'
  <2> SUFFICES ASSUME StoreTypeOK, LatestMatchesRecord, [StoreNext]_storeVars
               PROVE  LatestMatchesRecord'
    OBVIOUS
  <2>1. CASE UNCHANGED lifecycleVars
    BY <2>1 DEF LatestMatchesRecord, lifecycleVars
  <2>2. ASSUME NEW r \in Run, NEW status \in RunStatus, WritesStatus(r, status)
        PROVE  LatestMatchesRecord'
    <3> SUFFICES ASSUME NEW d \in Definition, latest'[d].runId # NoRun
                 PROVE  /\ d \in Scope[latest'[d].runId]
                        /\ latest'[d].status = runs'[latest'[d].runId].status
      BY DEF LatestMatchesRecord
    <3>1. CASE d \in Scope[r] /\ latest'[d].runId = r /\ latest'[d].status = status
      BY <2>2, <3>1 DEF WritesStatus
    <3>2. CASE ~(d \in Scope[r] /\ latest[d].runId = r) /\ latest'[d] = latest[d]
      <4>1. latest[d].runId \in Run
        BY <3>2 DEF StoreTypeOK, Projection
      <4>2. latest[d].runId # r
        BY <3>2, <4>1 DEF LatestMatchesRecord
      <4>3. runs'[latest[d].runId] = runs[latest[d].runId]
        BY <2>2, <4>1, <4>2 DEF WritesStatus
      <4> QED BY <3>2, <4>3 DEF LatestMatchesRecord
    <3> QED BY <2>2, <3>1, <3>2 DEF WritesStatus
  <2> QED BY <2>1, <2>2, StoreStep DEF storeVars, lifecycleVars
<1> QED BY <1>1, <1>2, StoreTypeCorrect, PTL DEF StoreSpec

-----------------------------------------------------------------------------
(* Action properties *)

\* Terminal run states absorb every later lifecycle write, of any client and
\* in any order.
THEOREM StoreTerminalAbsorbing == StoreSpec => TerminalAbsorbing
<1>1. StoreTypeOK /\ [StoreNext]_storeVars =>
        [\A r \in Run : runs[r].status \in TerminalStatus =>
            /\ runs'[r].status = runs[r].status
            /\ runs'[r].execution = runs[r].execution]_storeVars
  <2> SUFFICES ASSUME StoreTypeOK, StoreNext, NEW s \in Run,
                      runs[s].status \in TerminalStatus
               PROVE  /\ runs'[s].status = runs[s].status
                      /\ runs'[s].execution = runs[s].execution
    BY DEF storeVars
  <2>1. CASE UNCHANGED lifecycleVars
    BY <2>1 DEF lifecycleVars
  <2>2. ASSUME NEW r \in Run, NEW status \in RunStatus, WritesStatus(r, status)
        PROVE  /\ runs'[s].status = runs[s].status
               /\ runs'[s].execution = runs[s].execution
    <3>1. CASE s = r
      BY <2>2, <3>1 DEF WritesStatus
    <3>2. CASE s # r
      BY <2>2, <3>2 DEF WritesStatus
    <3> QED BY <3>1, <3>2
  <2> QED BY <2>1, <2>2, StoreStep DEF storeVars, lifecycleVars
<1> QED BY <1>1, StoreTypeCorrect, PTL DEF StoreSpec, TerminalAbsorbing

\* An acknowledged stop is never overwritten by a start or a completion.
THEOREM StoreAcknowledgedStopWins == StoreSpec => AcknowledgedStopWins
<1>1. StoreTypeOK /\ [StoreNext]_storeVars =>
        [\A r \in Run : runs[r].status = "cancelling" =>
            runs'[r].status \in {"cancelling", "cancelled", "failed",
                                 "start-failed"}]_storeVars
  <2> SUFFICES ASSUME StoreTypeOK, StoreNext, NEW s \in Run,
                      runs[s].status = "cancelling"
               PROVE  runs'[s].status \in {"cancelling", "cancelled", "failed",
                                           "start-failed"}
    BY DEF storeVars
  <2>1. CASE UNCHANGED lifecycleVars
    BY <2>1 DEF lifecycleVars
  <2>2. ASSUME NEW r \in Run, NEW status \in RunStatus, WritesStatus(r, status)
        PROVE  runs'[s].status \in {"cancelling", "cancelled", "failed",
                                    "start-failed"}
    <3>1. CASE s = r
      BY <2>2, <3>1 DEF WritesStatus
    <3>2. CASE s # r
      BY <2>2, <3>2 DEF WritesStatus
    <3> QED BY <3>1, <3>2
  <2> QED BY <2>1, <2>2, StoreStep DEF storeVars, lifecycleVars
<1> QED BY <1>1, StoreTypeCorrect, PTL DEF StoreSpec, AcknowledgedStopWins

\* Only the write that creates a run makes it the latest of a definition.
THEOREM StoreLatestNeverGoesBack == StoreSpec => LatestNeverGoesBack
<1>1. StoreTypeOK /\ [StoreNext]_storeVars =>
        [\A d \in Definition :
            latest'[d].runId # latest[d].runId =>
                /\ latest'[d].runId \in Run
                /\ runs[latest'[d].runId].status = "none"]_storeVars
  <2> SUFFICES ASSUME StoreTypeOK, StoreNext, NEW d \in Definition,
                      latest'[d].runId # latest[d].runId
               PROVE  /\ latest'[d].runId \in Run
                      /\ runs[latest'[d].runId].status = "none"
    BY DEF storeVars
  <2>1. CASE UNCHANGED lifecycleVars
    BY <2>1 DEF lifecycleVars
  <2>2. ASSUME NEW r \in Run, NEW status \in RunStatus, WritesStatus(r, status)
        PROVE  /\ latest'[d].runId \in Run
               /\ runs[latest'[d].runId].status = "none"
    BY <2>2 DEF WritesStatus
  <2> QED BY <2>1, <2>2, StoreStep DEF storeVars, lifecycleVars
<1> QED BY <1>1, StoreTypeCorrect, PTL DEF StoreSpec, LatestNeverGoesBack

-----------------------------------------------------------------------------
(* Lock tokens *)

\* Tokens are positive while a lock is held, so that the released lock is not
\* mistaken for a held one: what TokensIdentifyAcquisitions needs to be
\* inductive.
TokenInv ==
    /\ nextLock > 0
    /\ \A d \in Definition : locks[d] # NoLock => locks[d].token > 0
    /\ TokensIdentifyAcquisitions

\* A token identifies one acquisition, however locks are taken, released and
\* broken.
THEOREM StoreTokens == StoreSpec => []TokensIdentifyAcquisitions
<1>1. StoreInit => TokenInv
  BY DEF StoreInit, TokenInv, TokensIdentifyAcquisitions, NoLock
<1>2. StoreTypeOK /\ TokenInv /\ [StoreNext]_storeVars => TokenInv'
  <2> SUFFICES ASSUME StoreTypeOK, TokenInv, [StoreNext]_storeVars
               PROVE  TokenInv'
    OBVIOUS
  <2>1. CASE UNCHANGED lockVars
    BY <2>1 DEF TokenInv, TokensIdentifyAcquisitions, lockVars
  <2>2. ASSUME NEW d \in Definition, NEW r \in Run, acquireDefinitionLock(d, r)
        PROVE  TokenInv'
    BY <2>2 DEF acquireDefinitionLock, TokenInv, TokensIdentifyAcquisitions,
                StoreTypeOK, Lock, NoLock
  <2>3. ASSUME NEW d \in Definition, locks' = [locks EXCEPT ![d] = NoLock],
               UNCHANGED nextLock
        PROVE  TokenInv'
    BY <2>3 DEF TokenInv, TokensIdentifyAcquisitions, StoreTypeOK, Lock, NoLock
  <2>4. ASSUME NEW d \in Definition, NEW token \in Nat,
               releaseDefinitionLock(d, token)
        PROVE  TokenInv'
    BY <2>1, <2>3, <2>4 DEF releaseDefinitionLock, lockVars
  <2>5. ASSUME NEW d \in Definition, breakDefinitionLock(d)
        PROVE  TokenInv'
    BY <2>3, <2>5 DEF breakDefinitionLock
  <2>6. LockStep => TokenInv'
    BY <2>2, <2>4, <2>5 DEF LockStep
  <2> QED BY <2>1, <2>6, StoreStep DEF storeVars, lockVars
<1>3. TokenInv => TokensIdentifyAcquisitions
  BY DEF TokenInv
<1> QED BY <1>1, <1>2, <1>3, StoreTypeCorrect, PTL DEF StoreSpec
=============================================================================
