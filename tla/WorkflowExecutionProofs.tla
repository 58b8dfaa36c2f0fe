------------------------ MODULE WorkflowExecutionProofs ------------------------
(***************************************************************************)
(* Proofs about WorkflowExecution, for any runs, plans and bounds: steps   *)
(* work under the locks of their envelope; starters, steps and operators   *)
(* only ever perform operations the store allows for; a workflow that      *)
(* ended holds no lock; and its summary counts what its run has settled.   *)
(***************************************************************************)
EXTENDS WorkflowExecution, MigrationStoreProofs, FiniteSetTheorems, TLAPS

-----------------------------------------------------------------------------
(* Locks and tokens *)

\* Where a worker is once its lease was asserted and before it gives it up.
Asserted == {"begin", "cursors", "gate", "work", "commit", "finish", "forget",
             "finalize"}

\* Where a starter is before the provider can have accepted the run.
BeforeStart == {"idle", "acquire", "preflight", "queue", "start"}

At == Asserted \union {"none", "assert", "release", "answer"}
Starter == BeforeStart \union {"attach", "markFailed", "release", "returned",
                               "rejected", "crashed"}
Mishap == {"fault", "starterCrash", "stepLost", "evicted", "startLost"}

LeaseTypes ==
    /\ locks \in [Definition -> Lock]
    /\ nextLock \in Nat \ {0}
    /\ lease \in [Run -> [Definition -> Nat]]
    /\ starter \in [Run -> Starter]
    /\ at \in [Run -> At]
    /\ mishap \in [Run -> SUBSET Mishap]

\* Tokens in use are older than the next one.
TokensAreOld ==
    \A d \in Definition : /\ locks[d].token < nextLock
                          /\ \A r \in Run : lease[r][d] < nextLock

\* Who knows the token of a lock owns it.
TokensNameOwners ==
    \A d \in Definition :
        /\ locks[d] # NoLock => locks[d].ownerRunId \in Run /\ locks[d].token # 0
        /\ \A r \in Run : lease[r][d] # 0 /\ locks[d].token = lease[r][d] =>
                locks[d].ownerRunId = r

\* What a step asserted still holds.
AssertedHolds ==
    Undisturbed => \A r \in Run : at[r] \in Asserted =>
                                    assertDefinitionLocks(r, Scope[r], lease[r])

\* A starter gives up the locks of a run that has a worker only when it was
\* told that the start failed.
StarterAndWorker ==
    \A r \in Run :
        /\ starter[r] \in BeforeStart => at[r] = "none"
        /\ starter[r] \in {"markFailed", "release"} =>
                at[r] = "none" \/ "startLost" \in mishap[r]

LeaseInv == /\ LeaseTypes /\ TokensAreOld /\ TokensNameOwners
            /\ AssertedHolds /\ StarterAndWorker

\* Nothing takes a mishap back.
MishapGrows == /\ mishap' \in [Run -> SUBSET Mishap]
               /\ \A r \in Run : mishap[r] \subseteq mishap'[r]

LEMMA ScopeIsDefined == \A r \in Run : Scope[r] \subseteq Definition
BY MigrationStoreAssumption

LEMMA InitLeaseInv == Init => LeaseInv
<1> SUFFICES ASSUME Init PROVE LeaseInv
  OBVIOUS
<1>1. LeaseTypes
  BY DEF Init, StoreInit, LeaseTypes, NoLock, Lock, Starter, BeforeStart, At,
         Mishap
<1>2. TokensAreOld /\ TokensNameOwners
  BY DEF Init, StoreInit, TokensAreOld, TokensNameOwners, NoLock
<1>3. AssertedHolds /\ StarterAndWorker
  BY DEF Init, AssertedHolds, StarterAndWorker, Asserted
<1> QED BY <1>1, <1>2, <1>3 DEF LeaseInv

\* Run r moves its worker, and to where it relies on locks only from there.
LEMMA WorkerMoves ==
    ASSUME LeaseInv, NEW r \in Run, NEW label \in At,
           UNCHANGED <<lockVars, lease, starter>>, MishapGrows,
           at' = [at EXCEPT ![r] = label],
           at[r] # "none",
           label \in Asserted =>
               \/ at[r] \in Asserted
               \/ assertDefinitionLocks(r, Scope[r], lease[r])
    PROVE  LeaseInv'
<1> USE DEF LeaseInv, lockVars
<1>1. LeaseTypes'
  BY DEF LeaseTypes, MishapGrows
<1>2. TokensAreOld' /\ TokensNameOwners'
  BY DEF TokensAreOld, TokensNameOwners
<1>3. AssertedHolds'
  <2> SUFFICES ASSUME Undisturbed', NEW s \in Run, at'[s] \in Asserted
               PROVE  assertDefinitionLocks(s, Scope[s], lease[s])'
    BY DEF AssertedHolds
  <2>1. Undisturbed
    BY DEF Undisturbed, MishapGrows
  <2>2. \/ at[s] \in Asserted
        \/ s = r /\ assertDefinitionLocks(r, Scope[r], lease[r])
    BY DEF LeaseTypes
  <2> QED BY <2>1, <2>2 DEF AssertedHolds, assertDefinitionLocks
<1>4. StarterAndWorker'
  BY DEF StarterAndWorker, LeaseTypes, MishapGrows
<1> QED BY <1>1, <1>2, <1>3, <1>4

\* Run r moves its starter.
LEMMA StarterMoves ==
    ASSUME LeaseInv, NEW r \in Run, NEW label \in Starter,
           UNCHANGED <<lockVars, lease, at>>, MishapGrows,
           starter' = [starter EXCEPT ![r] = label],
           label \in BeforeStart => at[r] = "none",
           label \in {"markFailed", "release"} =>
               at[r] = "none" \/ "startLost" \in mishap'[r]
    PROVE  LeaseInv'
<1> USE DEF LeaseInv, lockVars
<1>1. LeaseTypes'
  BY DEF LeaseTypes, MishapGrows
<1>2. TokensAreOld' /\ TokensNameOwners'
  BY DEF TokensAreOld, TokensNameOwners
<1>3. AssertedHolds'
  BY DEF AssertedHolds, assertDefinitionLocks, Undisturbed, MishapGrows
<1>4. StarterAndWorker'
  BY DEF StarterAndWorker, LeaseTypes, MishapGrows
<1> QED BY <1>1, <1>2, <1>3, <1>4

\* Nothing of it moves.
LEMMA NothingMoves ==
    ASSUME LeaseInv, UNCHANGED <<lockVars, lease, at, starter>>, MishapGrows
    PROVE  LeaseInv'
<1> USE DEF LeaseInv, lockVars
<1>1. LeaseTypes' /\ TokensAreOld' /\ TokensNameOwners'
  BY DEF LeaseTypes, TokensAreOld, TokensNameOwners, MishapGrows
<1>2. AssertedHolds' /\ StarterAndWorker'
  BY DEF AssertedHolds, assertDefinitionLocks, Undisturbed, MishapGrows,
         StarterAndWorker
<1> QED BY <1>1, <1>2

\* A lock goes away: one whose token the run knows, when its worker does not
\* rely on it any more, or any lock once runs are disturbed.
LEMMA LockGoes ==
    ASSUME LeaseInv, NEW d \in Definition,
           locks' = locks \/ locks' = [locks EXCEPT ![d] = NoLock],
           UNCHANGED <<nextLock, lease, at, starter>>, MishapGrows,
           \/ ~Undisturbed'
           \/ \E r \in Run : /\ locks[d].token = lease[r][d]
                             /\ at[r] \notin Asserted
           \/ locks' = locks
    PROVE  LeaseInv'
<1> USE DEF LeaseInv
<1>1. LeaseTypes'
  BY DEF LeaseTypes, MishapGrows, NoLock, Lock
<1>2. TokensAreOld' /\ TokensNameOwners'
  BY DEF TokensAreOld, TokensNameOwners, LeaseTypes, NoLock
<1>3. AssertedHolds'
  <2> SUFFICES ASSUME Undisturbed', NEW s \in Run, at[s] \in Asserted,
                      NEW e \in Scope[s]
               PROVE  locks'[e] = [ownerRunId |-> s, token |-> lease[s][e]]
    BY DEF AssertedHolds, assertDefinitionLocks
  <2>1. Undisturbed /\ e \in Definition
    BY ScopeIsDefined DEF Undisturbed, MishapGrows
  <2>2. locks[e] = [ownerRunId |-> s, token |-> lease[s][e]]
    BY <2>1 DEF AssertedHolds, assertDefinitionLocks
  <2>3. locks[e] # NoLock
    BY <2>2, MigrationStoreAssumption DEF NoLock
  <2>4. CASE locks' = locks
    BY <2>2, <2>4
  <2>5. CASE e # d
    BY <2>1, <2>2, <2>5 DEF LeaseTypes
  <2>6. CASE e = d /\ locks' # locks
    <3>1. PICK r \in Run : locks[d].token = lease[r][d] /\ at[r] \notin Asserted
      BY <2>6
    <3>2. locks[d].ownerRunId = r
      BY <2>3, <2>6, <3>1 DEF TokensNameOwners
    <3> QED BY <2>2, <2>6, <3>1, <3>2
  <2> QED BY <2>4, <2>5, <2>6
<1>4. StarterAndWorker'
  BY DEF StarterAndWorker, MishapGrows
<1> QED BY <1>1, <1>2, <1>3, <1>4

\* A failed step starts over, or the workflow moves on or ends.
LEMMA StepFailsMoves ==
    ASSUME NEW r \in Run, StepFails(r)
    PROVE  \E label \in {"assert", "none"} : at' = [at EXCEPT ![r] = label]
BY DEF StepFails, StepAt, Schedule, End

LEMMA StepAnswersMoves ==
    ASSUME NEW r \in Run, StepAnswers(r)
    PROVE  \E label \in {"assert", "none"} : at' = [at EXCEPT ![r] = label]
<1>1. CASE result[r] = "error"
  <2>1. StepFails(r)
    BY <1>1 DEF StepAnswers
  <2> QED BY <2>1, StepFailsMoves
<1>2. ASSUME NEW f, AfterDefinition(r, f)
      PROVE  at' = [at EXCEPT ![r] = "assert"]
  BY <1>2 DEF AfterDefinition, Schedule
<1>3. CASE result[r] # "error" /\ step[r] = "begin"
  BY <1>2, <1>3 DEF StepAnswers
<1>4. CASE result[r] # "error" /\ step[r] = "window"
  <2>1. AfterWindow(r)
    BY <1>4 DEF StepAnswers
  <2>2. (\E next, f : Schedule(r, next, f)) \/ \E f : AfterDefinition(r, f)
    BY <2>1 DEF AfterWindow
  <2> QED BY <2>2, <1>2 DEF Schedule
<1>5. CASE result[r] # "error" /\ step[r] = "orphans"
  <2>1. AfterOrphans(r)
    BY <1>5 DEF StepAnswers
  <2>2. (\E next, f : Schedule(r, next, f)) \/ \E f : AfterDefinition(r, f)
    BY <2>1 DEF AfterOrphans
  <2> QED BY <2>2, <1>2 DEF Schedule
<1>6. CASE result[r] # "error" /\ step[r] \notin {"begin", "window", "orphans"}
  <2>1. \E status \in {"failed", "completed"} : End(r, status)
    BY <1>6 DEF StepAnswers
  <2> QED BY <2>1 DEF End
<1> QED BY <1>1, <1>3, <1>4, <1>5, <1>6

LEMMA NoteGrows ==
    ASSUME LeaseTypes, NEW r, NEW what \in Mishap, Note(r, what)
    PROVE  MishapGrows
BY DEF LeaseTypes, Note, MishapGrows

-----------------------------------------------------------------------------
(* The steps *)

LEMMA AcquireLockStep ==
    ASSUME LeaseInv, NEW r \in Run, AcquireLock(r)
    PROVE  LeaseInv'
<1> USE DEF LeaseInv
<1>1. PICK d \in Scope[r] \ held[r] :
        IF CanAcquire(d)
        THEN /\ acquireDefinitionLock(d, r)
             /\ lease' = [lease EXCEPT ![r][d] = nextLock]
             /\ StartAt(r, IF held'[r] = Scope[r] THEN "preflight" ELSE "acquire")
        ELSE StartAt(r, "release") /\ UNCHANGED <<lockVars, lease>>
  BY DEF AcquireLock
<1>2. /\ starter[r] = "acquire" /\ at[r] = "none" /\ d \in Definition
      /\ UNCHANGED <<at, mishap>> /\ MishapGrows
  BY ScopeIsDefined DEF AcquireLock, StarterAndWorker, BeforeStart, LeaseTypes,
                        MishapGrows, stepVars
<1>3. CASE ~CanAcquire(d)
  BY <1>1, <1>2, <1>3, StarterMoves DEF StartAt, Starter, BeforeStart
<1>4. CASE CanAcquire(d)
  <2>1. /\ locks[d] = NoLock
        /\ locks' = [locks EXCEPT ![d] = [ownerRunId |-> r, token |-> nextLock]]
        /\ nextLock' = nextLock + 1
        /\ lease' = [lease EXCEPT ![r][d] = nextLock]
    BY <1>1, <1>4 DEF acquireDefinitionLock, CanAcquire
  <2>2. PICK label \in {"preflight", "acquire"} :
          starter' = [starter EXCEPT ![r] = label]
    BY <1>1, <1>4 DEF StartAt
  <2>3. LeaseTypes'
    BY <1>2, <2>1, <2>2 DEF LeaseTypes, Lock, Starter, BeforeStart
  <2>4. TokensAreOld'
    <3>1. nextLock \in Nat /\ nextLock' \in Nat /\ nextLock < nextLock'
      BY <2>1 DEF LeaseTypes
    <3>2. ASSUME NEW e \in Definition PROVE locks'[e].token < nextLock'
      <4>1. locks[e].token \in Nat /\ locks[e].token < nextLock
        BY DEF LeaseTypes, Lock, TokensAreOld
      <4>2. locks'[e] = locks[e] \/ locks'[e].token = nextLock
        BY <2>1 DEF LeaseTypes
      <4> QED BY <3>1, <4>1, <4>2
    <3>3. ASSUME NEW e \in Definition, NEW s \in Run
          PROVE  lease'[s][e] < nextLock'
      <4>1. lease[s][e] \in Nat /\ lease[s][e] < nextLock
        BY DEF LeaseTypes, TokensAreOld
      <4>2. lease'[s][e] = lease[s][e] \/ lease'[s][e] = nextLock
        BY <1>2, <2>1 DEF LeaseTypes
      <4> QED BY <3>1, <4>1, <4>2
    <3> QED BY <3>2, <3>3 DEF TokensAreOld
  <2>5. TokensNameOwners'
    <3> SUFFICES ASSUME NEW e \in Definition
                 PROVE  /\ locks'[e] # NoLock =>
                              /\ locks'[e].ownerRunId \in Run
                              /\ locks'[e].token # 0
                        /\ \A s \in Run :
                              lease'[s][e] # 0 /\ locks'[e].token = lease'[s][e]
                                 => locks'[e].ownerRunId = s
      BY DEF TokensNameOwners
    <3>1. CASE e = d
      <4>1. locks'[d] = [ownerRunId |-> r, token |-> nextLock] /\ nextLock # 0
        BY <1>2, <2>1 DEF LeaseTypes
      <4>2. \A s \in Run \ {r} : lease'[s][d] = lease[s][d]
        BY <2>1 DEF LeaseTypes
      <4>3. \A s \in Run \ {r} : lease'[s][d] # nextLock
        BY <1>2, <4>2 DEF TokensAreOld, LeaseTypes
      <4> QED BY <3>1, <4>1, <4>3
    <3>2. CASE e # d
      BY <1>2, <2>1, <3>2 DEF LeaseTypes, TokensNameOwners
    <3> QED BY <3>1, <3>2
  <2>6. AssertedHolds'
    <3> SUFFICES ASSUME Undisturbed', NEW s \in Run, at[s] \in Asserted,
                        NEW e \in Scope[s]
                 PROVE  locks'[e] = [ownerRunId |-> s, token |-> lease'[s][e]]
      BY <1>2 DEF AssertedHolds, assertDefinitionLocks
    <3>1. s # r /\ e \in Definition /\ Undisturbed
      BY <1>2, ScopeIsDefined DEF Asserted, Undisturbed
    <3>2. locks[e] = [ownerRunId |-> s, token |-> lease[s][e]]
      BY <3>1 DEF AssertedHolds, assertDefinitionLocks
    <3>3. e # d
      BY <2>1, <3>2, MigrationStoreAssumption DEF NoLock
    <3> QED BY <2>1, <3>1, <3>2, <3>3 DEF LeaseTypes
  <2>7. StarterAndWorker'
    BY <1>2, <2>2 DEF StarterAndWorker, LeaseTypes
  <2> QED BY <2>3, <2>4, <2>5, <2>6, <2>7
<1> QED BY <1>3, <1>4

\* releaseLocks of a start that was rejected.
LEMMA ReleaseAfterRejectionStep ==
    ASSUME LeaseInv, NEW r \in Run, ReleaseAfterRejection(r)
    PROVE  LeaseInv'
<1> USE DEF LeaseInv
<1>1. /\ starter[r] = "release" /\ UNCHANGED <<lease, at, mishap>> /\ MishapGrows
  BY DEF ReleaseAfterRejection, LeaseTypes, MishapGrows, stepVars
<1>2. CASE held[r] = {}
  BY <1>1, <1>2, StarterMoves
     DEF ReleaseAfterRejection, StartAt, Starter, BeforeStart
<1>3. CASE held[r] # {}
  <2>1. PICK d \in held[r] : releaseDefinitionLock(d, lease[r][d])
    BY <1>3 DEF ReleaseAfterRejection
  <2>2. UNCHANGED starter
    BY <1>3 DEF ReleaseAfterRejection
  <2>3. CASE d \in Definition
    <3>1. at[r] \notin Asserted \/ ~Undisturbed'
      BY <1>1 DEF StarterAndWorker, Asserted, Undisturbed
    <3> QED BY <1>1, <2>1, <2>2, <2>3, <3>1, LockGoes
            DEF releaseDefinitionLock
  <2>4. CASE d \notin Definition
    <3>1. locks' = locks /\ nextLock' = nextLock
      BY <2>1, <2>4 DEF releaseDefinitionLock, LeaseTypes
    <3> QED BY <1>1, <2>2, <3>1, NothingMoves DEF lockVars
  <2> QED BY <2>3, <2>4
<1> QED BY <1>2, <1>3

\* releaseDefinitionLocks of a finalization.
LEMMA ReleaseLockStep ==
    ASSUME LeaseInv, NEW r \in Run, ReleaseLock(r)
    PROVE  LeaseInv'
<1> USE DEF LeaseInv
<1>1. /\ at[r] = "release" /\ UNCHANGED <<lease, starter, mishap>> /\ MishapGrows
  BY DEF ReleaseLock, LeaseTypes, MishapGrows, stepFrame, starterVars
<1>2. CASE todo[r] = {}
  BY <1>1, <1>2, WorkerMoves DEF ReleaseLock, StepAt, At, Asserted
<1>3. CASE todo[r] # {}
  <2>1. PICK d \in todo[r] : releaseDefinitionLock(d, lease[r][d])
    BY <1>3 DEF ReleaseLock
  <2>2. UNCHANGED at
    BY <1>3 DEF ReleaseLock
  <2>3. CASE d \in Definition
    BY <1>1, <2>1, <2>2, <2>3, LockGoes DEF releaseDefinitionLock, Asserted
  <2>4. CASE d \notin Definition
    <3>1. locks' = locks /\ nextLock' = nextLock
      BY <2>1, <2>4 DEF releaseDefinitionLock, LeaseTypes
    <3> QED BY <1>1, <2>2, <3>1, NothingMoves DEF lockVars
  <2> QED BY <2>3, <2>4
<1> QED BY <1>2, <1>3

\* An operator clears a lock: from here on, runs are disturbed.
LEMMA UnlockStep ==
    ASSUME LeaseInv, NEW d \in Definition, Unlock(d)
    PROVE  LeaseInv'
<1> USE DEF LeaseInv
<1>1. /\ locks[d] # NoLock /\ locks' = [locks EXCEPT ![d] = NoLock]
      /\ UNCHANGED <<nextLock, lease, at, starter>>
      /\ Note(locks[d].ownerRunId, "evicted")
  BY DEF Unlock, breakDefinitionLock, starterVars, stepVars
<1>2. MishapGrows
  BY <1>1, NoteGrows DEF Mishap
<1>3. locks[d].ownerRunId \in Run
  BY <1>1 DEF TokensNameOwners
<1>4. ~Undisturbed'
  BY <1>1, <1>3 DEF Note, Undisturbed, LeaseTypes
<1> QED BY <1>1, <1>2, <1>4, LockGoes

\* The other steps of a starter.
LEMMA StarterStep ==
    ASSUME LeaseInv, NEW r \in Run,
           \/ StartPlan(r) \/ Preflight(r) \/ Queue(r) \/ MarkStartFailed(r)
           \/ AttachExecution(r) \/ StarterCrash(r)
    PROVE  LeaseInv'
<1> USE DEF LeaseInv
<1>1. UNCHANGED <<lockVars, lease, at>>
  BY DEF StartPlan, Preflight, Queue, MarkStartFailed, AttachExecution,
         StarterCrash, stepVars, storeVars, lockVars
<1>2. MishapGrows
  <2>1. UNCHANGED mishap \/ Note(r, "fault") \/ Note(r, "starterCrash")
    BY DEF StartPlan, Preflight, Queue, MarkStartFailed, AttachExecution,
           StarterCrash, NoFault, Fault
  <2> QED BY <2>1, NoteGrows DEF MishapGrows, LeaseTypes, Mishap
<1>3. CASE StartPlan(r) \/ Preflight(r) \/ Queue(r)
  <2>1. PICK label \in {"acquire", "queue", "release", "start"} :
            starter' = [starter EXCEPT ![r] = label]
    BY <1>3 DEF StartPlan, Preflight, Queue, StartAt
  <2>2. starter[r] \in BeforeStart
    BY <1>3 DEF StartPlan, Preflight, Queue, BeforeStart
  <2>3. at[r] = "none"
    BY <2>2 DEF StarterAndWorker
  <2>4. label \in Starter
    BY DEF Starter, BeforeStart
  <2> QED BY <1>1, <1>2, <2>1, <2>3, <2>4, StarterMoves
<1>4. CASE MarkStartFailed(r)
  <2>1. starter[r] = "markFailed" /\ starter' = [starter EXCEPT ![r] = "release"]
    BY <1>4 DEF MarkStartFailed, StartAt
  <2>2. at[r] = "none" \/ "startLost" \in mishap'[r]
    BY <1>2, <2>1 DEF StarterAndWorker, MishapGrows
  <2> QED BY <1>1, <1>2, <2>1, <2>2, StarterMoves DEF Starter, BeforeStart
<1>5. CASE AttachExecution(r) \/ StarterCrash(r)
  <2>1. PICK label \in {"returned", "rejected", "crashed"} :
            starter' = [starter EXCEPT ![r] = label]
    BY <1>5 DEF AttachExecution, StarterCrash, StartAt
  <2> QED BY <1>1, <1>2, <2>1, StarterMoves DEF Starter, BeforeStart
<1> QED BY <1>3, <1>4, <1>5

\* The provider may have accepted the run.
LEMMA StartWorkflowStep ==
    ASSUME LeaseInv, NEW r \in Run, StartWorkflow(r)
    PROVE  LeaseInv'
<1> USE DEF LeaseInv
<1>1. /\ starter[r] = "start" /\ at[r] = "none"
      /\ UNCHANGED <<lockVars, lease>>
  BY DEF StartWorkflow, storeVars, lockVars, StarterAndWorker, BeforeStart
<1>2. CASE Fault(r) /\ StartAt(r, "markFailed") /\ UNCHANGED stepVars
  <2>1. MishapGrows
    BY <1>2, NoteGrows DEF Fault, Mishap
  <2> QED BY <1>1, <1>2, <2>1, StarterMoves
          DEF StartAt, stepVars, Starter, BeforeStart
<1>3. ASSUME NEW label \in {"attach", "markFailed"},
             ProviderAccepts(r), StartAt(r, label), MishapGrows,
             label = "markFailed" => "startLost" \in mishap'[r]
      PROVE  LeaseInv'
  <2>1. /\ at' = [at EXCEPT ![r] = "assert"]
        /\ starter' = [starter EXCEPT ![r] = label]
    BY <1>3 DEF ProviderAccepts, StartAt
  <2>2. LeaseTypes'
    BY <1>1, <1>3, <2>1
       DEF LeaseTypes, lockVars, MishapGrows, At, Starter, BeforeStart
  <2>3. TokensAreOld' /\ TokensNameOwners'
    BY <1>1 DEF TokensAreOld, TokensNameOwners, lockVars
  <2>4. AssertedHolds'
    <3> SUFFICES ASSUME Undisturbed', NEW s \in Run, at'[s] \in Asserted
                 PROVE  assertDefinitionLocks(s, Scope[s], lease[s])'
      BY DEF AssertedHolds
    <3>1. Undisturbed /\ at[s] \in Asserted
      BY <1>3, <2>1 DEF Undisturbed, MishapGrows, LeaseTypes, Asserted
    <3> QED BY <1>1, <3>1 DEF AssertedHolds, assertDefinitionLocks, lockVars
  <2>5. StarterAndWorker'
    BY <1>3, <2>1 DEF StarterAndWorker, LeaseTypes, MishapGrows, BeforeStart
  <2> QED BY <2>2, <2>3, <2>4, <2>5
<1>4. CASE ProviderAccepts(r) /\ StartAt(r, "attach") /\ NoFault
  <2>1. MishapGrows
    BY <1>4 DEF NoFault, MishapGrows, LeaseTypes
  <2> QED BY <1>3, <1>4, <2>1
<1>5. CASE Note(r, "startLost") /\ ProviderAccepts(r) /\ StartAt(r, "markFailed")
  <2>1. MishapGrows /\ "startLost" \in mishap'[r]
    BY <1>5, NoteGrows DEF Mishap, Note, LeaseTypes
  <2> QED BY <1>3, <1>5, <2>1
<1> QED BY <1>2, <1>4, <1>5 DEF StartWorkflow

\* The other steps of a worker.
LEMMA WorkerStep ==
    ASSUME LeaseInv, NEW r \in Run,
           \/ AssertLease(r) \/ BeginStep(r) \/ ResetCursor(r) \/ Gate(r)
           \/ ProcessWindow(r) \/ CommitCursor(r) \/ RollbackOrphansPage(r)
           \/ RecordCompletion(r) \/ ForgetCursor(r) \/ RollbackWork(r)
           \/ Finalize(r) \/ StepAnswers(r) \/ StepThrows(r)
           \/ RollbackThrows(r) \/ WorkerCrash(r)
    PROVE  LeaseInv'
<1> USE DEF LeaseInv
<1>1. UNCHANGED <<lockVars, lease, starter>>
  BY DEF AssertLease, BeginStep, ResetCursor, Gate, ProcessWindow, CommitCursor,
         RollbackOrphansPage, RecordCompletion, ForgetCursor, RollbackWork,
         Finalize, StepAnswers, StepThrows, RollbackThrows, WorkerCrash,
         storeVars, lockVars, stepFrame, starterVars
<1>2. MishapGrows
  <2>1. UNCHANGED mishap \/ Note(r, "fault") \/ Note(r, "stepLost")
    BY DEF AssertLease, BeginStep, ResetCursor, Gate, ProcessWindow,
           CommitCursor, RollbackOrphansPage, RecordCompletion, ForgetCursor,
           RollbackWork, Finalize, StepAnswers, StepThrows, RollbackThrows,
           WorkerCrash, NoFault, Fault
  <2> QED BY <2>1, NoteGrows DEF MishapGrows, LeaseTypes, Mishap
<1>3. ASSUME NEW label \in {"assert", "none"}, at' = [at EXCEPT ![r] = label],
             at[r] # "none"
      PROVE  LeaseInv'
  BY <1>1, <1>2, <1>3, WorkerMoves DEF At, Asserted
<1>4. CASE StepThrows(r) \/ WorkerCrash(r)
  BY <1>3, <1>4, StepFailsMoves DEF StepThrows, WorkerCrash
<1>5. CASE StepAnswers(r)
  BY <1>3, <1>5, StepAnswersMoves DEF StepAnswers
<1>6. CASE AssertLease(r)
  <2>1. CASE assertDefinitionLocks(r, Scope[r], lease[r])
    <3>1. at[r] = "assert" /\ at' = [at EXCEPT ![r] = executorCall(r)]
      BY <1>6, <2>1 DEF AssertLease, StepAt
    <3>2. executorCall(r) \in At
      BY DEF executorCall, At, Asserted
    <3> QED BY <1>1, <1>2, <2>1, <3>1, <3>2, WorkerMoves
  <2>2. CASE ~assertDefinitionLocks(r, Scope[r], lease[r])
    BY <1>3, <1>6, <2>2, StepFailsMoves DEF AssertLease
  <2> QED BY <2>1, <2>2
\* Every other step starts where the lease was asserted.
<1>7. ASSUME at[r] \in Asserted, NEW label \in At,
             at' = [at EXCEPT ![r] = label]
      PROVE  LeaseInv'
  BY <1>1, <1>2, <1>7, WorkerMoves DEF Asserted
<1>8. CASE \/ BeginStep(r) \/ Gate(r) \/ ProcessWindow(r) \/ CommitCursor(r)
           \/ RollbackOrphansPage(r) \/ RecordCompletion(r) \/ ForgetCursor(r)
           \/ RollbackWork(r) \/ Finalize(r) \/ RollbackThrows(r)
  <2>1. at[r] \in Asserted
    BY <1>8 DEF BeginStep, Gate, ProcessWindow, CommitCursor,
       RollbackOrphansPage, RecordCompletion, ForgetCursor, RollbackWork,
       Finalize, RollbackThrows, Asserted
  <2>2. \E label \in {"work", "cursors", "answer", "commit", "finish", "forget",
                      "finalize", "release"} : at' = [at EXCEPT ![r] = label]
    BY <1>8 DEF BeginStep, Gate, ProcessWindow, CommitCursor,
       RollbackOrphansPage, RecordCompletion, ForgetCursor, RollbackWork,
       Finalize, RollbackThrows, Answer, StepAt
  <2> QED BY <1>7, <2>1, <2>2 DEF At, Asserted
<1>9. CASE ResetCursor(r)
  <2>1. at[r] \in Asserted
    BY <1>9 DEF ResetCursor, Asserted
  <2>2. at' = [at EXCEPT ![r] = "answer"] \/ at' = at
    BY <1>9 DEF ResetCursor, Answer, StepAt
  <2> QED BY <1>1, <1>2, <1>7, <2>1, <2>2, NothingMoves DEF At
<1> QED BY <1>4, <1>5, <1>6, <1>8, <1>9

LEMMA NextLeaseInv == LeaseInv /\ [Next]_vars => LeaseInv'
<1> SUFFICES ASSUME LeaseInv, [Next]_vars PROVE LeaseInv'
  OBVIOUS
<1>1. ASSUME NEW r \in Run, Start(r) \/ StarterCrash(r) PROVE LeaseInv'
  BY <1>1, AcquireLockStep, ReleaseAfterRejectionStep, StarterStep,
     StartWorkflowStep DEF Start
<1>2. ASSUME NEW r \in Run,
             Work(r) \/ StepThrows(r) \/ RollbackThrows(r) \/ WorkerCrash(r)
      PROVE  LeaseInv'
  BY <1>2, ReleaseLockStep, WorkerStep DEF Work
<1>3. ASSUME NEW r \in Run, ObserveTerminal(r) \/ RequestStop(r)
      PROVE  LeaseInv'
  <2>1. UNCHANGED <<lockVars, lease, at, starter>>
    BY <1>3 DEF ObserveTerminal, RequestStop, storeVars, lockVars, starterVars,
       stepVars
  <2>2. UNCHANGED mishap \/ Note(r, "fault")
    BY <1>3 DEF ObserveTerminal, RequestStop, NoFault, Fault
  <2>3. MishapGrows
    BY <2>2, NoteGrows DEF LeaseInv, MishapGrows, LeaseTypes, Mishap
  <2> QED BY <2>1, <2>3, NothingMoves
<1>4. ASSUME NEW d \in Definition, Unlock(d) PROVE LeaseInv'
  BY <1>4, UnlockStep
<1>5. CASE UNCHANGED vars
  <2>1. UNCHANGED <<lockVars, lease, at, starter, mishap>>
    BY <1>5 DEF vars, storeVars, lockVars, starterVars, stepVars
  <2> QED BY <2>1, NothingMoves DEF LeaseInv, MishapGrows, LeaseTypes
<1> QED BY <1>1, <1>2, <1>3, <1>4, <1>5 DEF Next

\* For any number of runs, mishaps and retries: a step that processes items,
\* commits a cursor or writes a terminal state does so under every lock of
\* its envelope, unless an operator cleared a lock or a starter was told of a
\* failure that was none (assertCurrentMigrationRunExecutionLease).
THEOREM WorkflowWorksUnderLock == Spec => []WorkUnderLock
<1>1. LeaseInv => WorkUnderLock
  BY DEF LeaseInv, AssertedHolds, WorkUnderLock, Asserted
<1> QED BY <1>1, InitLeaseInv, NextLeaseInv, PTL DEF Spec

-----------------------------------------------------------------------------
(* Refinement: every step is a step of the store, or leaves it alone *)

Finalizing == {"complete", "cancel", "fail", "rollback"}

Results == {"none", "ok", "error", "cancelled", "continue", "succeeded",
            "failed"}

FlowTypes ==
    /\ nextLock \in Nat /\ nextLock <= MaxToken + 1
    /\ step \in [Run -> Retryable \union CursorStep \union {"none"}]
    /\ at \in [Run -> At]
    /\ flow \in [Run -> Flow]
    /\ result \in [Run -> Results]
    /\ todo \in [Run -> SUBSET Definition]

\* Which steps pass which places.
PlaceFits(r) ==
    /\ at[r] # "none" => step[r] # "none"
    /\ at[r] = "begin" => step[r] \in {"begin", "rollback"}
    /\ at[r] = "cursors" => step[r] = "begin"
    /\ at[r] = "gate" => step[r] \in CursorStep
    /\ at[r] = "work" => step[r] \in CursorStep \union {"rollback"}
    /\ at[r] \in {"commit", "finish", "forget"} => step[r] \in CursorStep
    /\ at[r] \in {"finalize", "release"} => step[r] \in Finalizing
    /\ at[r] = "answer" /\ step[r] \in CursorStep =>
            result[r] \in {"cancelled", "continue", "succeeded", "failed"}

StepAndPlace == \A r \in Run : PlaceFits(r)

\* A definition the workflow has left behind has a summary: when the flow f
\* of run r is at a definition, when it is past the last one, and in any case
\* for the definitions it counts as completed.
FlowSummarises(r, f) ==
    /\ f.index \in Nat \ {0}
    /\ \A d \in Definition : d \in f.completed => f.summaries[d] # "none"
    /\ \A i \in 1 .. Len(Plan[r]) :
            i < f.index => f.summaries[Plan[r][i]] # "none"

StepAndFlow ==
    \A r \in Run :
        /\ FlowSummarises(r, flow[r])
        /\ step[r] \in CursorStep => flow[r].index <= 2 * Len(Plan[r])
        /\ step[r] = "complete" =>
                \A d \in Scope[r] : flow[r].summaries[d] # "none"

CallInv == FlowTypes /\ StepAndPlace /\ StepAndFlow

LEMMA InitCallInv == Init => CallInv
<1> SUFFICES ASSUME Init PROVE CallInv
  OBVIOUS
<1>1. FlowTypes
  <2>1. flow \in [Run -> Flow]
    BY DEF Init, Flow
  <2>2. nextLock \in Nat /\ nextLock <= MaxToken + 1
    BY MigrationStoreAssumption DEF Init, StoreInit
  <2> QED BY <2>1, <2>2 DEF Init, FlowTypes, At, Asserted, Results
<1>2. StepAndPlace
  BY DEF Init, StepAndPlace, PlaceFits
<1>3. StepAndFlow
  <2> SUFFICES ASSUME NEW r \in Run
               PROVE  FlowSummarises(r, flow[r]) /\ step[r] = "none"
    BY DEF StepAndFlow, CursorStep
  <2>1. Len(Plan[r]) \in Nat
    BY WorkflowAssumption
  <2> QED BY <2>1 DEF Init, FlowSummarises
<1> QED BY <1>1, <1>2, <1>3 DEF CallInv

\* The plan names the scope.
LEMMA PlanNamesScope ==
    ASSUME NEW r \in Run
    PROVE  /\ Len(Plan[r]) \in Nat
           /\ \A i \in 1 .. Len(Plan[r]) : Plan[r][i] \in Scope[r]
           /\ \A d \in Scope[r] : \E i \in 1 .. Len(Plan[r]) : Plan[r][i] = d
           /\ Scope[r] \subseteq Definition
BY WorkflowAssumption, ScopeIsDefined

LEMMA CurrentInScope ==
    ASSUME CallInv, NEW r \in Run, step[r] \in CursorStep
    PROVE  /\ Current(r) \in Scope[r]
           /\ flow[r].index <= Len(Plan[r]) => Current(r) = Plan[r][flow[r].index]
<1> DEFINE n == Len(Plan[r])
<1>1. flow[r].index \in Nat \ {0} /\ flow[r].index <= 2 * n /\ n \in Nat
  BY PlanNamesScope DEF CallInv, StepAndFlow, FlowSummarises
<1>2. (IF flow[r].index <= n THEN flow[r].index ELSE 2 * n + 1 - flow[r].index)
          \in 1 .. n
  BY <1>1
<1> QED BY <1>2, PlanNamesScope DEF Current

\* Past the last definition, all are summarised.
LEMMA AllSummarised ==
    ASSUME NEW r \in Run, NEW f \in Flow, FlowSummarises(r, f),
           f.index > Len(Plan[r])
    PROVE  \A d \in Scope[r] : f.summaries[d] # "none"
<1> SUFFICES ASSUME NEW d \in Scope[r] PROVE f.summaries[d] # "none"
  OBVIOUS
<1>1. PICK i \in 1 .. Len(Plan[r]) : Plan[r][i] = d
  BY PlanNamesScope
<1>2. i < f.index
  BY PlanNamesScope DEF Flow
<1> QED BY <1>1, <1>2 DEF FlowSummarises

-----------------------------------------------------------------------------
(* What steps do to it *)

\* The workflow schedules a step.
LEMMA Schedules ==
    ASSUME CallInv, NEW r \in Run, NEW next \in Retryable \union CursorStep,
           NEW f \in Flow, FlowSummarises(r, f),
           next \in CursorStep => f.index <= 2 * Len(Plan[r]),
           next = "complete" => \A d \in Scope[r] : f.summaries[d] # "none",
           step' = [step EXCEPT ![r] = next],
           at' = [at EXCEPT ![r] = "assert"],
           flow' = [flow EXCEPT ![r] = f],
           result' = [result EXCEPT ![r] = "none"],
           UNCHANGED <<nextLock, todo>>
    PROVE  CallInv'
<1> USE DEF CallInv
<1>1. FlowTypes'
  BY DEF FlowTypes, At, Results
<1>2. StepAndPlace'
  BY DEF StepAndPlace, PlaceFits, FlowTypes, Retryable, CursorStep
<1>3. StepAndFlow'
  BY DEF StepAndFlow, FlowTypes
<1> QED BY <1>1, <1>2, <1>3

\* The workflow ends.
LEMMA Ends ==
    ASSUME CallInv, NEW r \in Run, NEW status, End(r, status),
           UNCHANGED <<nextLock, todo>>
    PROVE  CallInv'
<1> USE DEF CallInv, End
<1>1. FlowTypes'
  BY DEF FlowTypes, At, Results
<1>2. StepAndPlace'
  BY DEF StepAndPlace, PlaceFits, FlowTypes
<1>3. StepAndFlow'
  BY DEF StepAndFlow, FlowTypes, CursorStep
<1> QED BY <1>1, <1>2, <1>3

\* Within a step.
LEMMA StepGoesOn ==
    ASSUME CallInv, NEW r \in Run, UNCHANGED <<step, flow>>, FlowTypes',
           \A s \in Run \ {r} : at'[s] = at[s] /\ result'[s] = result[s],
           PlaceFits(r)'
    PROVE  CallInv'
<1> USE DEF CallInv
<1>1. StepAndPlace'
  BY DEF StepAndPlace, PlaceFits
<1>2. StepAndFlow'
  BY DEF StepAndFlow
<1> QED BY <1>1, <1>2

\* Steps that leave all of it alone.
LEMMA CallUntouched ==
    ASSUME CallInv, UNCHANGED <<nextLock, step, at, flow, result, todo>>
    PROVE  CallInv'
BY DEF CallInv, FlowTypes, StepAndPlace, PlaceFits, StepAndFlow

LEMMA StepFailsCall ==
    ASSUME CallInv, NEW r \in Run, StepFails(r), at[r] # "none",
           UNCHANGED <<nextLock, todo>>
    PROVE  CallInv'
<1>1. CASE step[r] \in Retryable /\ retries[r] < MaxRetries
  <2>1. /\ at' = [at EXCEPT ![r] = "assert"] /\ UNCHANGED <<step, flow>>
        /\ result' = [result EXCEPT ![r] = "none"]
    BY <1>1 DEF StepFails, StepAt
  <2>2. FlowTypes' /\ PlaceFits(r)'
    BY <2>1 DEF CallInv, FlowTypes, At, Results, StepAndPlace, PlaceFits
  <2>3. \A s \in Run \ {r} : at'[s] = at[s] /\ result'[s] = result[s]
    BY <2>1 DEF CallInv, FlowTypes
  <2> QED BY <2>1, <2>2, <2>3, StepGoesOn
<1>2. CASE ~(step[r] \in Retryable /\ retries[r] < MaxRetries)
  <2>1. CASE step[r] \in caught
    <3>1. Schedule(r, "fail", flow[r])
      BY <1>2, <2>1 DEF StepFails
    <3>2. flow[r] \in Flow /\ FlowSummarises(r, flow[r])
      BY DEF CallInv, FlowTypes, StepAndFlow
    <3> QED BY <3>1, <3>2, Schedules DEF Schedule, Retryable, CursorStep
  <2>2. CASE step[r] \notin caught
    BY <1>2, <2>2, Ends DEF StepFails
  <2> QED BY <2>1, <2>2
<1> QED BY <1>1, <1>2

LEMMA AfterDefinitionCall ==
    ASSUME CallInv, NEW r \in Run, NEW f \in Flow, FlowSummarises(r, f),
           AfterDefinition(r, f), UNCHANGED <<nextLock, todo>>
    PROVE  CallInv'
<1> DEFINE g == [f EXCEPT !.active = TRUE]
<1>1. g \in Flow /\ g.index = f.index /\ FlowSummarises(r, g)
  BY DEF Flow, FlowSummarises
<1>2. Len(Plan[r]) \in Nat /\ f.index \in Nat
  BY PlanNamesScope DEF Flow
<1> HIDE DEF g
<1>3. CASE f.index <= Len(Plan[r])
  <2>1. Schedule(r, "window", g)
    BY <1>3 DEF AfterDefinition, g
  <2>2. g.index <= 2 * Len(Plan[r])
    BY <1>1, <1>2, <1>3
  <2> QED BY <1>1, <2>1, <2>2, Schedules DEF Schedule, CursorStep
<1>4. CASE f.index > Len(Plan[r])
  <2>1. \/ Schedule(r, "orphans", g) /\ f.index <= 2 * Len(Plan[r])
        \/ Schedule(r, "complete", f)
    BY <1>2, <1>4 DEF AfterDefinition, g
  <2>2. \A d \in Scope[r] : f.summaries[d] # "none"
    BY <1>4, AllSummarised
  <2>3. CASE Schedule(r, "orphans", g) /\ f.index <= 2 * Len(Plan[r])
    BY <1>1, <2>3, Schedules DEF Schedule, CursorStep
  <2>4. CASE Schedule(r, "complete", f)
    BY <2>2, <2>4, Schedules DEF Schedule, CursorStep, Retryable
  <2> QED BY <2>1, <2>3, <2>4
<1> QED BY <1>2, <1>3, <1>4

\* A definition ends with a summary.
LEMMA DefinitionSummarised ==
    ASSUME CallInv, NEW r \in Run, step[r] \in CursorStep,
           NEW status \in {"succeeded", "failed"}, NEW f \in Flow,
           f.index = flow[r].index + 1,
           \A x \in Definition : f.summaries[x] =
               IF x = Current(r) THEN status ELSE flow[r].summaries[x],
           f.completed \subseteq flow[r].completed \union {Current(r)}
    PROVE  FlowSummarises(r, f)
<1>1. /\ flow[r] \in Flow /\ FlowSummarises(r, flow[r])
      /\ Current(r) \in Definition
      /\ flow[r].summaries \in [Definition -> {"none", "succeeded", "failed"}]
  BY CurrentInScope, PlanNamesScope DEF CallInv, FlowTypes, StepAndFlow, Flow
<1>2. \A d \in Definition : d = Current(r) \/ flow[r].summaries[d] # "none" =>
            f.summaries[d] # "none"
  BY <1>1
<1>3. f.index \in Nat \ {0}
  BY <1>1 DEF FlowSummarises
<1>4. \A d \in Definition : d \in f.completed => f.summaries[d] # "none"
  BY <1>1, <1>2 DEF FlowSummarises
<1>5. ASSUME NEW i \in 1 .. Len(Plan[r]), i < f.index
      PROVE  f.summaries[Plan[r][i]] # "none"
  <2>1. Plan[r][i] \in Definition
    BY PlanNamesScope
  <2>2. i < flow[r].index \/ i = flow[r].index
    BY <1>1, <1>5, PlanNamesScope DEF FlowSummarises
  <2>3. CASE i < flow[r].index
    BY <1>1, <1>2, <2>1, <2>3 DEF FlowSummarises
  <2>4. CASE i = flow[r].index
    <3>1. flow[r].index <= Len(Plan[r])
      BY <2>4, PlanNamesScope
    <3>2. Current(r) = Plan[r][i]
      BY <2>4, <3>1, CurrentInScope
    <3> QED BY <1>2, <2>1, <3>2
  <2> QED BY <2>2, <2>3, <2>4
<1> QED BY <1>3, <1>4, <1>5 DEF FlowSummarises

\* The flow after a definition, which the workflow builds field by field.
LEMMA FlowAfterDefinition ==
    ASSUME NEW f \in Flow, NEW d \in Definition,
           NEW status \in {"succeeded", "failed"}, NEW c \in SUBSET Definition
    PROVE  /\ Summarised(f, d, status, c) \in Flow
           /\ Summarised(f, d, status, c).index = f.index + 1
           /\ Summarised(f, d, status, c).completed = c
           /\ \A x \in Definition : Summarised(f, d, status, c).summaries[x] =
                    IF x = d THEN status ELSE f.summaries[x]
<1> DEFINE f1 == [f EXCEPT !.summaries[d] = status]
           f2 == [f1 EXCEPT !.active = FALSE]
           f3 == [f2 EXCEPT !.index = @ + 1]
           g == [f3 EXCEPT !.completed = c]
<1>1. /\ f1 \in Flow /\ f1.index = f.index
      /\ \A x \in Definition :
            f1.summaries[x] = IF x = d THEN status ELSE f.summaries[x]
  BY DEF Flow
<1> HIDE DEF f1
<1>2. f2 \in Flow /\ f2.index = f.index /\ f2.summaries = f1.summaries
  BY <1>1 DEF Flow
<1> HIDE DEF f2
<1>3. f3 \in Flow /\ f3.index = f.index + 1 /\ f3.summaries = f1.summaries
  BY <1>1, <1>2 DEF Flow
<1> HIDE DEF f3
<1>4. /\ g \in Flow /\ g.index = f.index + 1 /\ g.completed = c
      /\ g.summaries = f1.summaries
  BY <1>3 DEF Flow
<1> HIDE DEF g
<1>5. Summarised(f, d, status, c) = g
  BY DEF f1, f2, f3, g, Summarised
<1> QED BY <1>1, <1>4, <1>5

LEMMA NextPage ==
    ASSUME NEW f \in Flow, NEW page \in Nat
    PROVE  LET g == [f EXCEPT !.page = page]
           IN /\ g \in Flow /\ g.index = f.index /\ g.completed = f.completed
              /\ g.summaries = f.summaries
BY DEF Flow

LEMMA AfterWindowCall ==
    ASSUME CallInv, NEW r \in Run, step[r] = "window", at[r] = "answer",
           AfterWindow(r), UNCHANGED <<nextLock, todo>>
    PROVE  CallInv'
<1> DEFINE c == IF kind[r] = "orphans" THEN flow[r].completed
                ELSE flow[r].completed \union {Current(r)}
           f == Summarised(flow[r], Current(r), result[r], c)
<1>1. /\ step[r] \in CursorStep /\ flow[r] \in Flow
      /\ FlowSummarises(r, flow[r]) /\ flow[r].index <= 2 * Len(Plan[r])
      /\ result[r] \in {"cancelled", "continue", "succeeded", "failed"}
      /\ Current(r) \in Definition
  BY CurrentInScope, PlanNamesScope
     DEF CursorStep, CallInv, FlowTypes, StepAndPlace, PlaceFits, StepAndFlow
<1>2. CASE result[r] = "cancelled"
  BY <1>1, <1>2, Schedules DEF AfterWindow, Schedule, Retryable, CursorStep
<1>3. CASE result[r] = "continue"
  BY <1>1, <1>3, Schedules DEF AfterWindow, Schedule, Retryable, CursorStep
<1>4. CASE result[r] \in {"succeeded", "failed"}
  <2>1. AfterDefinition(r, f)
    BY <1>4 DEF AfterWindow
  <2>2. /\ f \in Flow /\ f.index = flow[r].index + 1
        /\ \A x \in Definition : f.summaries[x] =
              IF x = Current(r) THEN result[r] ELSE flow[r].summaries[x]
        /\ f.completed \subseteq flow[r].completed \union {Current(r)}
    <3>1. c \in SUBSET Definition /\ c \subseteq flow[r].completed \union {Current(r)}
      BY <1>1 DEF Flow
    <3> HIDE DEF c
    <3> QED BY <1>1, <1>4, <3>1, FlowAfterDefinition
  <2> HIDE DEF f
  <2>3. FlowSummarises(r, f)
    BY <1>1, <1>4, <2>2, DefinitionSummarised
  <2> QED BY <2>1, <2>2, <2>3, AfterDefinitionCall
<1> QED BY <1>1, <1>2, <1>3, <1>4

LEMMA AfterOrphansCall ==
    ASSUME CallInv, NEW r \in Run, step[r] = "orphans", at[r] = "answer",
           AfterOrphans(r), UNCHANGED <<nextLock, todo>>
    PROVE  CallInv'
<1> DEFINE c == flow[r].completed \union {Current(r)}
           f == [Summarised(flow[r], Current(r), result[r], c) EXCEPT !.page = 0]
           g == [flow[r] EXCEPT !.page = @ + 1]
<1>1. /\ step[r] \in CursorStep /\ flow[r] \in Flow
      /\ FlowSummarises(r, flow[r]) /\ flow[r].index <= 2 * Len(Plan[r])
      /\ result[r] \in {"cancelled", "continue", "succeeded", "failed"}
      /\ Current(r) \in Definition
  BY CurrentInScope, PlanNamesScope
     DEF CursorStep, CallInv, FlowTypes, StepAndPlace, PlaceFits, StepAndFlow
<1>2. CASE result[r] = "cancelled"
  BY <1>1, <1>2, Schedules DEF AfterOrphans, Schedule, Retryable, CursorStep
<1>3. CASE result[r] = "continue"
  <2>1. Schedule(r, "orphans", g)
    BY <1>3 DEF AfterOrphans
  <2>2. g \in Flow /\ g.index = flow[r].index /\ FlowSummarises(r, g)
    BY <1>1 DEF Flow, FlowSummarises
  <2> HIDE DEF g
  <2> QED BY <1>1, <2>1, <2>2, Schedules DEF Schedule, CursorStep
<1>4. CASE result[r] \in {"succeeded", "failed"}
  <2>1. AfterDefinition(r, f)
    BY <1>4 DEF AfterOrphans
  <2>2. /\ f \in Flow /\ f.index = flow[r].index + 1
        /\ \A x \in Definition : f.summaries[x] =
              IF x = Current(r) THEN result[r] ELSE flow[r].summaries[x]
        /\ f.completed \subseteq flow[r].completed \union {Current(r)}
    <3> DEFINE e == Summarised(flow[r], Current(r), result[r], c)
    <3>1. c \in SUBSET Definition
      BY <1>1 DEF Flow
    <3> HIDE DEF c
    <3>2. /\ e \in Flow /\ e.index = flow[r].index + 1 /\ e.completed = c
          /\ \A x \in Definition : e.summaries[x] =
                IF x = Current(r) THEN result[r] ELSE flow[r].summaries[x]
      BY <1>1, <1>4, <3>1, FlowAfterDefinition
    <3> HIDE DEF e
    <3>3. /\ f \in Flow /\ f.index = e.index /\ f.completed = e.completed
          /\ f.summaries = e.summaries
      BY <3>2, NextPage DEF e
    <3> QED BY <3>2, <3>3 DEF c
  <2> HIDE DEF f
  <2>3. FlowSummarises(r, f)
    BY <1>1, <1>4, <2>2, DefinitionSummarised
  <2> QED BY <2>1, <2>2, <2>3, AfterDefinitionCall
<1> QED BY <1>1, <1>2, <1>3, <1>4

LEMMA StepAnswersCall ==
    ASSUME CallInv, NEW r \in Run, StepAnswers(r)
    PROVE  CallInv'
<1>1. at[r] = "answer" /\ UNCHANGED <<nextLock, todo>>
  BY DEF StepAnswers, storeVars
<1>2. flow[r] \in Flow /\ FlowSummarises(r, flow[r])
  BY DEF CallInv, FlowTypes, StepAndFlow
<1>3. CASE result[r] = "error"
  <2>1. StepFails(r)
    BY <1>3 DEF StepAnswers
  <2> QED BY <1>1, <2>1, StepFailsCall
<1>4. CASE result[r] # "error" /\ step[r] = "begin"
  <2>1. AfterDefinition(r, flow[r])
    BY <1>4 DEF StepAnswers
  <2> QED BY <1>1, <1>2, <2>1, AfterDefinitionCall
<1>5. CASE result[r] # "error" /\ step[r] = "window"
  <2>1. AfterWindow(r)
    BY <1>5 DEF StepAnswers
  <2> QED BY <1>1, <1>5, <2>1, AfterWindowCall
<1>6. CASE result[r] # "error" /\ step[r] = "orphans"
  <2>1. AfterOrphans(r)
    BY <1>6 DEF StepAnswers
  <2> QED BY <1>1, <1>6, <2>1, AfterOrphansCall
<1>7. CASE result[r] # "error" /\ step[r] \notin {"begin", "window", "orphans"}
  <2>1. \E status : End(r, status)
    BY <1>7 DEF StepAnswers
  <2> QED BY <1>1, <2>1, Ends
<1> QED BY <1>3, <1>4, <1>5, <1>6, <1>7

\* The steps that do not end a step function.
LEMMA StepBodyCall ==
    ASSUME CallInv, NEW r \in Run,
           \/ AssertLease(r) /\ ~StepFails(r)
           \/ BeginStep(r) \/ ResetCursor(r) \/ Gate(r)
           \/ CommitCursor(r) \/ RollbackOrphansPage(r)
           \/ RecordCompletion(r) \/ ForgetCursor(r) \/ RollbackWork(r)
           \/ Finalize(r) \/ ReleaseLock(r) \/ RollbackThrows(r)
    PROVE  CallInv'
<1>1. UNCHANGED <<step, flow>>
  BY DEF AssertLease, BeginStep, ResetCursor, Gate, CommitCursor,
         RollbackOrphansPage, RecordCompletion, ForgetCursor, RollbackWork,
         Finalize, ReleaseLock, RollbackThrows, stepFrame
<1>2. UNCHANGED nextLock
  BY DEF AssertLease, BeginStep, ResetCursor, Gate, CommitCursor,
         RollbackOrphansPage, RecordCompletion, ForgetCursor, RollbackWork,
         Finalize, ReleaseLock, releaseDefinitionLock, RollbackThrows,
         storeVars, lockVars
<1>3. ASSUME at' \in [Run -> At], result' \in [Run -> Results],
             todo' \in [Run -> SUBSET Definition],
             \A s \in Run \ {r} : at'[s] = at[s] /\ result'[s] = result[s],
             PlaceFits(r)'
      PROVE  CallInv'
  BY <1>1, <1>2, <1>3, StepGoesOn DEF CallInv, FlowTypes
<1>4. /\ PlaceFits(r) /\ at \in [Run -> At] /\ result \in [Run -> Results]
      /\ todo \in [Run -> SUBSET Definition] /\ Scope[r] \subseteq Definition
  BY ScopeIsDefined DEF CallInv, StepAndPlace, FlowTypes
<1>5. CASE AssertLease(r) /\ ~StepFails(r)
  <2>1. /\ at[r] = "assert" /\ at' = [at EXCEPT ![r] = executorCall(r)]
        /\ UNCHANGED <<result, todo>>
    BY <1>5 DEF AssertLease, StepAt
  <2>2. executorCall(r) \in {"begin", "gate", "finalize"}
    BY DEF executorCall
  <2>3. /\ executorCall(r) = "begin" => step[r] \in {"begin", "rollback"}
        /\ executorCall(r) = "gate" => step[r] \in CursorStep
        /\ executorCall(r) = "finalize" =>
              step[r] \notin {"begin", "rollback"} \union CursorStep
    BY DEF executorCall
  <2>4. step[r] \in Retryable \union CursorStep
    BY <1>4, <2>1 DEF CallInv, FlowTypes, PlaceFits
  <2>5. executorCall(r) = "finalize" => step[r] \in Finalizing
    BY <2>3, <2>4 DEF Retryable, CursorStep, Finalizing
  <2>6. step[r] # "none"
    BY <1>4, <2>1 DEF PlaceFits
  <2>9. /\ at' \in [Run -> At] /\ result' \in [Run -> Results]
        /\ \A s \in Run \ {r} : at'[s] = at[s] /\ result'[s] = result[s]
        /\ todo' \in [Run -> SUBSET Definition]
    BY <1>4, <2>1, <2>2, <2>3, <2>5, <2>6 DEF At, Asserted, Results
  <2>10. PlaceFits(r)'
    BY <1>1, <1>4, <2>1, <2>2, <2>3, <2>5, <2>6 DEF PlaceFits, CursorStep, Finalizing
  <2> QED BY <1>3, <2>9, <2>10
<1>6. CASE BeginStep(r)
  <2>1. at[r] = "begin" /\ todo' \in [Run -> SUBSET Definition]
    BY <1>4, <1>6 DEF BeginStep
  <2>2. step[r] \in {"begin", "rollback"}
    BY <1>4, <2>1 DEF PlaceFits
  <2>3. \/ /\ step[r] = "rollback" /\ at' = [at EXCEPT ![r] = "work"]
           /\ UNCHANGED result
        \/ /\ step[r] = "begin" /\ at' = [at EXCEPT ![r] = "cursors"]
           /\ UNCHANGED result
        \/ /\ step[r] = "begin" /\ at' = [at EXCEPT ![r] = "answer"]
           /\ result' = [result EXCEPT ![r] = "ok"]
    BY <1>6, <2>2 DEF BeginStep, StepAt, Answer
  <2>9. /\ at' \in [Run -> At] /\ result' \in [Run -> Results]
        /\ \A s \in Run \ {r} : at'[s] = at[s] /\ result'[s] = result[s]
        /\ todo' \in [Run -> SUBSET Definition]
    BY <1>4, <2>1, <2>3 DEF At, Asserted, Results
  <2>10. PlaceFits(r)'
    BY <1>1, <1>4, <2>1, <2>3 DEF PlaceFits, CursorStep, Finalizing
  <2> QED BY <1>3, <2>9, <2>10
<1>7. CASE ResetCursor(r)
  <2>1. /\ at[r] = "cursors" /\ step[r] = "begin"
        /\ todo' \in [Run -> SUBSET Definition]
    BY <1>4, <1>7 DEF ResetCursor, PlaceFits
  <2>2. \/ at' = [at EXCEPT ![r] = "answer"] /\ result' = [result EXCEPT ![r] = "ok"]
        \/ UNCHANGED <<at, result>>
    BY <1>7 DEF ResetCursor, Answer, StepAt
  <2>3. CASE UNCHANGED <<at, result>>
    <3>1. FlowTypes' /\ PlaceFits(r)'
      BY <1>1, <1>2, <1>4, <2>1, <2>3 DEF CallInv, FlowTypes, PlaceFits
    <3> QED BY <1>1, <2>3, <3>1, StepGoesOn
  <2>9. /\ at' \in [Run -> At] /\ result' \in [Run -> Results]
        /\ \A s \in Run \ {r} : at'[s] = at[s] /\ result'[s] = result[s]
        /\ todo' \in [Run -> SUBSET Definition]
    BY <1>4, <2>1, <2>2, <2>3 DEF At, Asserted, Results
  <2>10. PlaceFits(r)'
    BY <1>1, <1>4, <2>1, <2>2, <2>3 DEF PlaceFits, CursorStep, Finalizing
  <2> QED BY <1>3, <2>9, <2>10
<1>8. CASE Gate(r)
  <2>1. at[r] = "gate" /\ step[r] \in CursorStep /\ UNCHANGED todo
    BY <1>4, <1>8 DEF Gate, PlaceFits
  <2>2. \/ at' = [at EXCEPT ![r] = "work"] /\ UNCHANGED result
        \/ /\ at' = [at EXCEPT ![r] = "answer"]
           /\ result' = [result EXCEPT ![r] = "cancelled"]
    BY <1>8 DEF Gate, StepAt, Answer
  <2>9. /\ at' \in [Run -> At] /\ result' \in [Run -> Results]
        /\ \A s \in Run \ {r} : at'[s] = at[s] /\ result'[s] = result[s]
        /\ todo' \in [Run -> SUBSET Definition]
    BY <1>4, <2>1, <2>2 DEF At, Asserted, Results
  <2>10. PlaceFits(r)'
    BY <1>1, <1>4, <2>1, <2>2 DEF PlaceFits, CursorStep, Finalizing
  <2> QED BY <1>3, <2>9, <2>10
<1>9. CASE CommitCursor(r)
  <2>1. /\ at[r] = "commit" /\ step[r] \in CursorStep /\ UNCHANGED todo
        /\ at' = [at EXCEPT ![r] = "answer"]
        /\ result' = [result EXCEPT ![r] = "continue"]
    BY <1>4, <1>9 DEF CommitCursor, PlaceFits, Answer, StepAt
  <2>9. /\ at' \in [Run -> At] /\ result' \in [Run -> Results]
        /\ \A s \in Run \ {r} : at'[s] = at[s] /\ result'[s] = result[s]
        /\ todo' \in [Run -> SUBSET Definition]
    BY <1>4, <2>1 DEF At, Asserted, Results
  <2>10. PlaceFits(r)'
    BY <1>1, <1>4, <2>1 DEF PlaceFits, CursorStep, Finalizing
  <2> QED BY <1>3, <2>9, <2>10
<1>10. CASE RollbackOrphansPage(r)
  <2>1. step[r] = "orphans" /\ UNCHANGED todo
    BY <1>10 DEF RollbackOrphansPage
  <2>2. \/ at' = [at EXCEPT ![r] = "finish"] /\ UNCHANGED result
        \/ /\ at' = [at EXCEPT ![r] = "answer"]
           /\ \E value \in {"continue", "failed", "cancelled"} :
                result' = [result EXCEPT ![r] = value]
    BY <1>10 DEF RollbackOrphansPage, StepAt, Answer
  <2>9. /\ at' \in [Run -> At] /\ result' \in [Run -> Results]
        /\ \A s \in Run \ {r} : at'[s] = at[s] /\ result'[s] = result[s]
        /\ todo' \in [Run -> SUBSET Definition]
    BY <1>4, <2>1, <2>2 DEF At, Asserted, Results
  <2>10. PlaceFits(r)'
    BY <1>1, <1>4, <2>1, <2>2 DEF PlaceFits, CursorStep, Finalizing
  <2> QED BY <1>3, <2>9, <2>10
<1>11. CASE RecordCompletion(r)
  <2>1. /\ at[r] = "finish" /\ step[r] \in CursorStep /\ UNCHANGED <<todo, result>>
        /\ at' = [at EXCEPT ![r] = "forget"]
    BY <1>4, <1>11 DEF RecordCompletion, PlaceFits, StepAt
  <2>9. /\ at' \in [Run -> At] /\ result' \in [Run -> Results]
        /\ \A s \in Run \ {r} : at'[s] = at[s] /\ result'[s] = result[s]
        /\ todo' \in [Run -> SUBSET Definition]
    BY <1>4, <2>1 DEF At, Asserted, Results
  <2>10. PlaceFits(r)'
    BY <1>1, <1>4, <2>1 DEF PlaceFits, CursorStep, Finalizing
  <2> QED BY <1>3, <2>9, <2>10
<1>12. CASE ForgetCursor(r)
  <2>1. /\ at[r] = "forget" /\ step[r] \in CursorStep /\ UNCHANGED todo
        /\ at' = [at EXCEPT ![r] = "answer"]
    BY <1>4, <1>12 DEF ForgetCursor, PlaceFits, Answer, StepAt
  <2>2. PICK value \in {"succeeded", "failed"} :
          result' = [result EXCEPT ![r] = value]
    BY <1>12 DEF ForgetCursor, Answer
  <2>3. value \in Results /\ "answer" \in At
    BY DEF Results, At
  <2>9. /\ at' \in [Run -> At] /\ result' \in [Run -> Results]
        /\ \A s \in Run \ {r} : at'[s] = at[s] /\ result'[s] = result[s]
        /\ todo' \in [Run -> SUBSET Definition]
    BY <1>4, <2>1, <2>2, <2>3 DEF At, Asserted, Results
  <2>10. PlaceFits(r)'
    BY <1>1, <1>4, <2>1, <2>2, <2>3 DEF PlaceFits, CursorStep, Finalizing
  <2> QED BY <1>3, <2>9, <2>10
<1>13. CASE RollbackWork(r)
  <2>1. /\ step[r] = "rollback" /\ UNCHANGED todo
        /\ at' = [at EXCEPT ![r] = "finalize"]
    BY <1>13 DEF RollbackWork, StepAt
  <2>2. PICK value \in {"succeeded", "failed", "cancelled"} :
          result' = [result EXCEPT ![r] = value]
    BY <1>13 DEF RollbackWork
  <2>3. value \in Results /\ "finalize" \in At /\ step[r] \in Finalizing
    BY <2>1 DEF Results, At, Asserted, Finalizing
  <2>9. /\ at' \in [Run -> At] /\ result' \in [Run -> Results]
        /\ \A s \in Run \ {r} : at'[s] = at[s] /\ result'[s] = result[s]
        /\ todo' \in [Run -> SUBSET Definition]
    BY <1>4, <2>1, <2>2, <2>3 DEF At, Asserted, Results
  <2>10. PlaceFits(r)'
    BY <1>1, <1>4, <2>1, <2>2, <2>3 DEF PlaceFits, CursorStep, Finalizing
  <2> QED BY <1>3, <2>9, <2>10
<1>14. CASE Finalize(r)
  <2>1. /\ at[r] = "finalize" /\ step[r] \in Finalizing
        /\ at' = [at EXCEPT ![r] = "release"]
        /\ todo' \in [Run -> SUBSET Definition]
    BY <1>4, <1>14 DEF Finalize, PlaceFits, StepAt
  <2>2. PICK value \in {"ok", "error"} : result' = [result EXCEPT ![r] = value]
    BY <1>14 DEF Finalize
  <2>3. value \in Results /\ "release" \in At
    BY DEF Results, At
  <2>9. /\ at' \in [Run -> At] /\ result' \in [Run -> Results]
        /\ \A s \in Run \ {r} : at'[s] = at[s] /\ result'[s] = result[s]
        /\ todo' \in [Run -> SUBSET Definition]
    BY <1>4, <2>1, <2>2, <2>3 DEF At, Asserted, Results
  <2>10. PlaceFits(r)'
    BY <1>1, <1>4, <2>1, <2>2, <2>3 DEF PlaceFits, CursorStep, Finalizing
  <2> QED BY <1>3, <2>9, <2>10
<1>15. CASE ReleaseLock(r)
  <2>1. /\ at[r] = "release" /\ step[r] \in Finalizing /\ UNCHANGED result
        /\ todo' \in [Run -> SUBSET Definition]
        /\ at' = at \/ at' = [at EXCEPT ![r] = "answer"]
    BY <1>4, <1>15 DEF ReleaseLock, PlaceFits, StepAt
  <2>2. CASE at' = at
    <3>1. FlowTypes' /\ PlaceFits(r)'
      BY <1>1, <1>2, <1>4, <2>1, <2>2 DEF CallInv, FlowTypes, PlaceFits
    <3> QED BY <1>1, <2>1, <2>2, <3>1, StepGoesOn
  <2>3. CASE at' = [at EXCEPT ![r] = "answer"]
    <3>1. step[r] \notin CursorStep /\ step[r] # "none"
      BY <2>1 DEF CursorStep, Finalizing
    <3>2. /\ at' \in [Run -> At] /\ result' \in [Run -> Results]
          /\ \A s \in Run \ {r} : at'[s] = at[s] /\ result'[s] = result[s]
      BY <1>4, <2>1, <2>3 DEF At
    <3>3. PlaceFits(r)'
      BY <1>1, <1>4, <2>1, <2>3, <3>1 DEF PlaceFits
    <3> QED BY <1>3, <2>1, <3>2, <3>3
  <2> QED BY <2>1, <2>2, <2>3
<1>16. CASE RollbackThrows(r)
  <2>1. /\ step[r] = "rollback" /\ todo' \in [Run -> SUBSET Definition]
        /\ result' = [result EXCEPT ![r] = "error"]
        /\ \E label \in {"release", "finalize"} : at' = [at EXCEPT ![r] = label]
    BY <1>4, <1>16 DEF RollbackThrows, StepAt
  <2>9. /\ at' \in [Run -> At] /\ result' \in [Run -> Results]
        /\ \A s \in Run \ {r} : at'[s] = at[s] /\ result'[s] = result[s]
        /\ todo' \in [Run -> SUBSET Definition]
    BY <1>4, <2>1 DEF At, Asserted, Results
  <2>10. PlaceFits(r)'
    BY <1>1, <1>4, <2>1 DEF PlaceFits, CursorStep, Finalizing
  <2> QED BY <1>3, <2>9, <2>10
<1> QED BY <1>5, <1>6, <1>7, <1>8, <1>9, <1>10, <1>11, <1>12, <1>13, <1>14,
           <1>15, <1>16

LEMMA ProcessWindowCall ==
    ASSUME CallInv, NEW r \in Run, ProcessWindow(r)
    PROVE  CallInv'
<1>1. /\ step[r] = "window" /\ at[r] = "work"
      /\ UNCHANGED <<nextLock, step, todo>>
  BY DEF ProcessWindow, storeVars, stepFrame
<1>2. /\ at \in [Run -> At] /\ result \in [Run -> Results]
      /\ todo \in [Run -> SUBSET Definition] /\ flow \in [Run -> Flow]
      /\ flow[r] \in Flow /\ FlowSummarises(r, flow[r])
      /\ Current(r) \in Definition
  BY <1>1, CurrentInScope, PlanNamesScope
     DEF CallInv, FlowTypes, StepAndFlow, CursorStep
<1>3. CASE Answer(r, "cancelled") /\ UNCHANGED flow
  <2>1. /\ at' = [at EXCEPT ![r] = "answer"]
        /\ result' = [result EXCEPT ![r] = "cancelled"]
    BY <1>3 DEF Answer, StepAt
  <2>2. FlowTypes'
    BY <1>1, <1>2, <1>3, <2>1 DEF CallInv, FlowTypes, At, Results
  <2>3. PlaceFits(r)'
    BY <1>1, <1>2, <2>1 DEF PlaceFits
  <2>4. \A s \in Run \ {r} : at'[s] = at[s] /\ result'[s] = result[s]
    BY <1>2, <2>1
  <2> QED BY <1>1, <1>3, <2>2, <2>3, <2>4, StepGoesOn
<1>4. ASSUME NEW label \in {"commit", "finish"},
             at' = [at EXCEPT ![r] = label], UNCHANGED result,
             flow' = [flow EXCEPT ![r].counted[Current(r)] = @ + 1]
      PROVE  CallInv'
  <2> DEFINE c == flow[r].counted
             g == [flow[r] EXCEPT !.counted =
                        [c EXCEPT ![Current(r)] = c[Current(r)] + 1]]
  <2>1. flow' = [flow EXCEPT ![r] = g]
    BY <1>2, <1>4
  <2>2. c \in [Definition -> Nat]
    BY <1>2 DEF Flow
  <2>3. [c EXCEPT ![Current(r)] = c[Current(r)] + 1] \in [Definition -> Nat]
    BY <1>2, <2>2
  <2>4. /\ g \in Flow /\ g.index = flow[r].index
        /\ g.summaries = flow[r].summaries /\ g.completed = flow[r].completed
    BY <1>2, <2>3 DEF Flow
  <2> HIDE DEF g
  <2>5. FlowTypes'
    BY <1>1, <1>2, <1>4, <2>1, <2>4 DEF CallInv, FlowTypes, At, Asserted
  <2>6. StepAndPlace'
    <3> SUFFICES ASSUME NEW s \in Run PROVE PlaceFits(s)'
      BY DEF StepAndPlace
    <3>1. PlaceFits(s)
      BY DEF CallInv, StepAndPlace
    <3>2. CASE s = r
      BY <1>1, <1>2, <1>4, <3>2 DEF PlaceFits, CursorStep
    <3>3. CASE s # r
      BY <1>1, <1>2, <1>4, <3>1, <3>3 DEF PlaceFits
    <3> QED BY <3>2, <3>3
  <2>7. \A s \in Run : /\ flow'[s].index = flow[s].index
                       /\ flow'[s].summaries = flow[s].summaries
                       /\ flow'[s].completed = flow[s].completed
    BY <1>2, <2>1, <2>4
  <2>8. StepAndFlow'
    BY <1>1, <2>7 DEF CallInv, StepAndFlow, FlowSummarises
  <2> QED BY <2>5, <2>6, <2>8 DEF CallInv
<1> QED BY <1>3, <1>4 DEF ProcessWindow, StepAt

\* The starter's steps.
LEMMA StartCall ==
    ASSUME CallInv, NEW r \in Run, Start(r) \/ StarterCrash(r)
    PROVE  CallInv'
<1>1. CASE AcquireLock(r)
  <2>1. UNCHANGED <<step, at, flow, result, todo>>
    BY <1>1 DEF AcquireLock, stepVars
  <2>2. PICK d \in Scope[r] : acquireDefinitionLock(d, r) \/ UNCHANGED lockVars
    BY <1>1 DEF AcquireLock
  <2>3. \/ UNCHANGED nextLock
        \/ nextLock <= MaxToken /\ nextLock' = nextLock + 1
    BY <2>2 DEF acquireDefinitionLock, lockVars
  <2>4. FlowTypes'
    <3>1. CASE UNCHANGED nextLock
      BY <2>1, <3>1 DEF CallInv, FlowTypes
    <3>2. CASE nextLock <= MaxToken /\ nextLock' = nextLock + 1
      <4>1. nextLock \in Nat
        BY DEF CallInv, FlowTypes
      <4>2. nextLock' \in Nat /\ nextLock' <= MaxToken + 1
        BY <3>2, <4>1, MigrationStoreAssumption
      <4> QED BY <2>1, <4>2 DEF CallInv, FlowTypes
    <3> QED BY <2>3, <3>1, <3>2
  <2>5. PlaceFits(r)'
    BY <2>1 DEF CallInv, StepAndPlace, PlaceFits
  <2> QED BY <2>1, <2>4, <2>5, StepGoesOn
<1>2. CASE StartWorkflow(r) /\ ProviderAccepts(r)
  <2>1. /\ step' = [step EXCEPT ![r] = firstStep(r)]
        /\ at' = [at EXCEPT ![r] = "assert"]
        /\ UNCHANGED <<nextLock, flow, result, todo>>
    BY <1>2 DEF StartWorkflow, ProviderAccepts, storeVars
  <2>2. firstStep(r) \in {"begin", "rollback"}
    BY DEF firstStep
  <2>3. FlowTypes'
    BY <2>1, <2>2 DEF CallInv, FlowTypes, At, Retryable
  <2>4. StepAndPlace'
    <3> SUFFICES ASSUME NEW s \in Run PROVE PlaceFits(s)'
      BY DEF StepAndPlace
    <3>1. PlaceFits(s)
      BY DEF CallInv, StepAndPlace
    <3>2. CASE s = r
      BY <2>1, <2>2, <3>2 DEF CallInv, FlowTypes, PlaceFits
    <3>3. CASE s # r
      BY <2>1, <3>1, <3>3 DEF CallInv, FlowTypes, PlaceFits
    <3> QED BY <3>2, <3>3
  <2>5. StepAndFlow'
    BY <2>1, <2>2 DEF CallInv, FlowTypes, StepAndFlow, FlowSummarises, CursorStep
  <2> QED BY <2>3, <2>4, <2>5 DEF CallInv
<1>3. CASE StartWorkflow(r) /\ ~ProviderAccepts(r)
  BY <1>3, CallUntouched DEF StartWorkflow, storeVars, stepVars
<1>4. CASE \/ StartPlan(r) \/ Preflight(r) \/ Queue(r) \/ MarkStartFailed(r)
           \/ ReleaseAfterRejection(r) \/ AttachExecution(r) \/ StarterCrash(r)
  <2>1. UNCHANGED <<step, at, flow, result, todo>>
    BY <1>4 DEF StartPlan, Preflight, Queue, MarkStartFailed,
       ReleaseAfterRejection, AttachExecution, StarterCrash, stepVars
  <2>2. UNCHANGED nextLock
    BY <1>4 DEF StartPlan, Preflight, Queue, MarkStartFailed,
       ReleaseAfterRejection, releaseDefinitionLock, AttachExecution,
       StarterCrash, storeVars, lockVars
  <2> QED BY <2>1, <2>2, CallUntouched
<1> QED BY <1>1, <1>2, <1>3, <1>4 DEF Start

LEMMA NextCallInv == CallInv /\ [Next]_vars => CallInv'
<1> SUFFICES ASSUME CallInv, [Next]_vars PROVE CallInv'
  OBVIOUS
<1>1. ASSUME NEW r \in Run, Start(r) \/ StarterCrash(r) PROVE CallInv'
  BY <1>1, StartCall
<1>2. ASSUME NEW r \in Run, Work(r) PROVE CallInv'
  <2>1. CASE AssertLease(r) /\ StepFails(r)
    <3>1. at[r] = "assert" /\ UNCHANGED <<nextLock, todo>>
      BY <2>1 DEF AssertLease, storeVars
    <3> QED BY <2>1, <3>1, StepFailsCall
  <2> QED BY <1>2, <2>1, ProcessWindowCall, StepBodyCall, StepAnswersCall
          DEF Work
<1>3. ASSUME NEW r \in Run, StepThrows(r) \/ WorkerCrash(r) PROVE CallInv'
  <2>1. at[r] # "none" /\ StepFails(r) /\ UNCHANGED <<nextLock, todo>>
    BY <1>3 DEF StepThrows, WorkerCrash, storeVars
  <2> QED BY <2>1, StepFailsCall
<1>4. ASSUME NEW r \in Run, RollbackThrows(r) PROVE CallInv'
  BY <1>4, StepBodyCall
<1>5. CASE \/ \E r \in Run : ObserveTerminal(r) \/ RequestStop(r)
           \/ \E d \in Definition : Unlock(d)
           \/ UNCHANGED vars
  <2>1. UNCHANGED <<nextLock, step, at, flow, result, todo>>
    BY <1>5 DEF ObserveTerminal, RequestStop, Unlock, breakDefinitionLock,
       storeVars, lockVars, stepVars, vars
  <2> QED BY <2>1, CallUntouched
<1> QED BY <1>1, <1>2, <1>3, <1>4, <1>5 DEF Next

-----------------------------------------------------------------------------
(* Every store call is one the store allows for *)

\* The outcomes a final transition reports: one per definition of the run.
LEMMA OutcomesInRange ==
    ASSUME CallInv, NEW r \in Run, at[r] = "finalize",
           requestedStatus(r) \in {"succeeded", "failed"}
    PROVE  outcomesOf(r) \in [Scope[r] -> OutcomeStatus]
<1> SUFFICES ASSUME NEW d \in Scope[r] PROVE outcomesOf(r)[d] \in OutcomeStatus
  BY DEF outcomesOf
<1>1. /\ flow[r] \in Flow /\ FlowSummarises(r, flow[r])
      /\ step[r] \in Finalizing /\ d \in Definition
      /\ flow[r].summaries[d] \in {"none", "succeeded", "failed"}
  BY ScopeIsDefined
     DEF CallInv, FlowTypes, StepAndFlow, StepAndPlace, PlaceFits, Flow
<1>2. CASE step[r] = "rollback"
  BY <1>2 DEF outcomesOf, OutcomeStatus
<1>3. CASE step[r] = "cancel"
  BY <1>3 DEF requestedStatus
<1>4. CASE step[r] = "complete"
  <2>1. flow[r].summaries[d] # "none"
    BY <1>4 DEF CallInv, StepAndFlow
  <2> QED BY <1>1, <1>4, <2>1 DEF outcomesOf, OutcomeStatus
<1>5. CASE step[r] = "fail"
  <2>1. d \in flow[r].completed => flow[r].summaries[d] # "none"
    BY <1>1 DEF FlowSummarises
  <2> QED BY <1>1, <1>5, <2>1 DEF outcomesOf, OutcomeStatus
<1> QED BY <1>1, <1>2, <1>3, <1>4, <1>5 DEF Finalizing

\* A release under a token of an envelope.
LEMMA ReleaseIsStoreStep ==
    ASSUME LeaseInv, CallInv, NEW r \in Run, NEW d,
           releaseDefinitionLock(d, lease[r][d]), UNCHANGED lifecycleVars
    PROVE  [StoreNext]_storeVars
<1> USE DEF storeVars, lifecycleVars
<1>1. CASE d \notin Definition
  BY <1>1 DEF releaseDefinitionLock, LeaseInv, LeaseTypes
<1>2. CASE d \in Definition /\ locks[d].token # lease[r][d]
  BY <1>2 DEF releaseDefinitionLock
<1>3. CASE d \in Definition /\ locks[d].token = lease[r][d] /\ lease[r][d] = 0
  <2>1. locks[d] = NoLock
    BY <1>3 DEF LeaseInv, TokensNameOwners
  <2>2. locks' = locks
    BY <1>3, <2>1 DEF releaseDefinitionLock, LeaseInv, LeaseTypes
  <2> QED BY <2>2 DEF releaseDefinitionLock
<1>4. CASE d \in Definition /\ locks[d].token = lease[r][d] /\ lease[r][d] # 0
  <2>1. /\ lease[r][d] \in Nat \ {0} /\ lease[r][d] < nextLock
        /\ nextLock \in Nat /\ nextLock <= MaxToken + 1 /\ MaxToken \in Nat
    BY <1>4, MigrationStoreAssumption
       DEF LeaseInv, LeaseTypes, TokensAreOld, CallInv, FlowTypes
  <2>2. lease[r][d] \in 1 .. MaxToken
    BY <2>1
  <2> QED BY <1>4, <2>2 DEF StoreNext, ReleaseDefinitionLock
<1> QED BY <1>1, <1>2, <1>3, <1>4

LEMMA NextIsStoreStep ==
    LeaseInv /\ CallInv /\ [Next]_vars => [StoreNext]_storeVars
<1> SUFFICES ASSUME LeaseInv, CallInv, [Next]_vars
             PROVE  [StoreNext]_storeVars
  OBVIOUS
<1> USE DEF storeVars, lockVars, lifecycleVars
<1>1. ASSUME NEW r \in Run, Start(r)
      PROVE  [StoreNext]_storeVars
  <2>1. CASE AcquireLock(r)
    <3>1. PICK d \in Scope[r] : acquireDefinitionLock(d, r) \/ UNCHANGED lockVars
      BY <2>1 DEF AcquireLock
    <3>2. UNCHANGED lifecycleVars /\ d \in Definition
      BY <2>1, ScopeIsDefined DEF AcquireLock
    <3> QED BY <3>1, <3>2 DEF StoreNext, AcquireDefinitionLock
  <2>2. CASE Queue(r)
    <3>1. QueueRun(r) \/ UNCHANGED storeVars
      BY <2>2 DEF Queue, QueueRun
    <3> QED BY <3>1 DEF StoreNext
  <2>3. CASE MarkStartFailed(r)
    <3>1. MarkRunStartFailed(r) \/ UNCHANGED storeVars
      BY <2>3 DEF MarkStartFailed, MarkRunStartFailed
    <3> QED BY <3>1 DEF StoreNext
  <2>4. CASE AttachExecution(r)
    <3>1. AttachRunExecution(r) \/ UNCHANGED storeVars
      BY <2>4 DEF AttachExecution, AttachRunExecution
    <3> QED BY <3>1 DEF StoreNext
  <2>5. CASE ReleaseAfterRejection(r)
    <3>1. UNCHANGED lifecycleVars
      BY <2>5 DEF ReleaseAfterRejection
    <3>2. UNCHANGED lockVars \/ \E d : releaseDefinitionLock(d, lease[r][d])
      BY <2>5 DEF ReleaseAfterRejection
    <3> QED BY <3>1, <3>2, ReleaseIsStoreStep
  <2>6. CASE StartPlan(r) \/ Preflight(r) \/ StartWorkflow(r)
    BY <2>6 DEF StartPlan, Preflight, StartWorkflow
  <2> QED BY <1>1, <2>1, <2>2, <2>3, <2>4, <2>5, <2>6 DEF Start
<1>2. ASSUME NEW r \in Run, Finalize(r)
      PROVE  [StoreNext]_storeVars
  <2>1. UNCHANGED lockVars /\ at[r] = "finalize"
    BY <1>2 DEF Finalize
  <2>2. CASE UNCHANGED lifecycleVars
    BY <2>1, <2>2
  <2>3. CASE finalTransition(r)
    <3>1. CASE requestedStatus(r) = "succeeded"
      <4>1. CompleteRun(r, outcomesOf(r))
        BY <2>1, <2>3, <3>1 DEF finalTransition, CompleteRun
      <4> QED BY <2>1, <3>1, <4>1, OutcomesInRange DEF StoreNext
    <3>2. CASE requestedStatus(r) = "failed"
      <4>1. FailRun(r, outcomesOf(r))
        BY <2>1, <2>3, <3>2 DEF finalTransition, FailRun
      <4> QED BY <2>1, <3>2, <4>1, OutcomesInRange DEF StoreNext
    <3>3. CASE requestedStatus(r) \notin {"succeeded", "failed"}
      <4>1. MarkRunCancelled(r)
        BY <2>1, <2>3, <3>3 DEF finalTransition, MarkRunCancelled
      <4> QED BY <4>1 DEF StoreNext
    <3> QED BY <3>1, <3>2, <3>3
  <2> QED BY <1>2, <2>2, <2>3 DEF Finalize
<1>3. ASSUME NEW r \in Run, ReleaseLock(r)
      PROVE  [StoreNext]_storeVars
  <2>1. UNCHANGED lifecycleVars
    BY <1>3 DEF ReleaseLock
  <2>2. UNCHANGED lockVars \/ \E d : releaseDefinitionLock(d, lease[r][d])
    BY <1>3 DEF ReleaseLock
  <2> QED BY <2>1, <2>2, ReleaseIsStoreStep
<1>4. ASSUME NEW r \in Run, BeginStep(r)
      PROVE  [StoreNext]_storeVars
  <2>1. BeginRun(r)
    BY <1>4 DEF BeginStep, BeginRun
  <2> QED BY <2>1 DEF StoreNext
<1>5. ASSUME NEW r \in Run,
             \/ AssertLease(r) \/ ResetCursor(r) \/ Gate(r) \/ ProcessWindow(r)
             \/ CommitCursor(r) \/ RollbackOrphansPage(r)
             \/ RecordCompletion(r) \/ ForgetCursor(r) \/ RollbackWork(r)
             \/ StepAnswers(r) \/ StarterCrash(r) \/ StepThrows(r)
             \/ RollbackThrows(r) \/ WorkerCrash(r) \/ ObserveTerminal(r)
      PROVE  UNCHANGED storeVars
  BY <1>5 DEF AssertLease, ResetCursor, Gate, ProcessWindow, CommitCursor,
     RollbackOrphansPage, RecordCompletion, ForgetCursor, RollbackWork,
     StepAnswers, StarterCrash, StepThrows, RollbackThrows, WorkerCrash,
     ObserveTerminal
<1>6. ASSUME NEW r \in Run, RequestStop(r)
      PROVE  [StoreNext]_storeVars
  <2>1. RequestRunCancellation(r)
    BY <1>6 DEF RequestStop, RequestRunCancellation
  <2> QED BY <2>1 DEF StoreNext
<1>7. ASSUME NEW d \in Definition, Unlock(d)
      PROVE  [StoreNext]_storeVars
  <2>1. BreakDefinitionLock(d)
    BY <1>7 DEF Unlock, BreakDefinitionLock
  <2> QED BY <2>1 DEF StoreNext
<1>8. CASE UNCHANGED vars
  BY <1>8 DEF vars
<1> QED BY <1>1, <1>2, <1>3, <1>4, <1>5, <1>6, <1>7, <1>8 DEF Next, Work

\* Starters, workers and operators, however often steps fail, are lost and are
\* executed again, implement the store's specification: every store call they
\* make is one of the store's atomic operations, with one outcome for each
\* definition of the run and tokens the store has issued.
THEOREM WorkflowImplementsStore == Spec => StoreSpec
<1>1. Init => StoreInit
  BY DEF Init
<1>2. Spec => []LeaseInv
  BY InitLeaseInv, NextLeaseInv, PTL DEF Spec
<1>3. Spec => []CallInv
  BY InitCallInv, NextCallInv, PTL DEF Spec
<1> QED BY <1>1, <1>2, <1>3, NextIsStoreStep, PTL DEF Spec, StoreSpec

-----------------------------------------------------------------------------
(* One run's step leaves the other runs alone *)

RunTypes ==
    /\ wf \in [Run -> {"none", "running", "completed", "failed"}]
    /\ held \in [Run -> SUBSET Definition]
    /\ retries \in [Run -> 0 .. MaxRetries]
    /\ budget \in 0 .. MaxEvents
    /\ kind \in [Run -> {"run", "rescan", "orphans", "rollback"}]
    /\ cursor \in [Definition -> 0 .. Windows - 1]
    /\ scanned \in [Run -> [Definition -> SUBSET (1 .. Windows)]]
    /\ window \in [Run -> 0 .. Windows]

\* All that the invariants say of run s but for its locks and cursors.
Untouched(s) ==
    /\ starter'[s] = starter[s] /\ held'[s] = held[s] /\ lease'[s] = lease[s]
    /\ wf'[s] = wf[s] /\ step'[s] = step[s] /\ at'[s] = at[s]
    /\ retries'[s] = retries[s] /\ result'[s] = result[s] /\ todo'[s] = todo[s]
    /\ flow'[s] = flow[s] /\ window'[s] = window[s] /\ scanned'[s] = scanned[s]
    /\ mishap'[s] = mishap[s] /\ runs'[s] = runs[s]

\* Run r takes and releases locks of its own, and moves cursors it has locked.
OnlyRun(r) ==
    /\ \A s \in Run \ {r} : Untouched(s)
    /\ kind' = kind
    /\ MishapGrows
    /\ budget' \in {budget, budget - 1}
    /\ \A d \in Definition :
        \/ locks'[d] = locks[d]
        \/ {locks[d].ownerRunId, locks'[d].ownerRunId} \subseteq {r, NoRun}
    /\ \A d \in Definition : \/ cursor'[d] = cursor[d]
                             \/ d \in Scope[r] /\ at[r] \in Asserted

\* What the steps that move cursors are about to write, and where.
CursorsFit ==
    \A r \in Run :
        /\ at[r] = "cursors" => todo[r] \subseteq Scope[r]
        /\ at[r] = "commit" => window[r] \in 1 .. Windows - 1 /\ step[r] = "window"

AllTypes == LeaseInv /\ CallInv /\ StoreTypeOK /\ RunTypes /\ CursorsFit

\* A workflow that goes on, or starts its step over, or ends.
LEMMA StepFailsTouches ==
    ASSUME AllTypes, NEW r \in Run, StepFails(r)
    PROVE  /\ \A s \in Run \ {r} :
                /\ wf'[s] = wf[s] /\ step'[s] = step[s] /\ at'[s] = at[s]
                /\ retries'[s] = retries[s] /\ result'[s] = result[s]
                /\ flow'[s] = flow[s] /\ window'[s] = window[s]
           /\ wf' \in [Run -> {"none", "running", "completed", "failed"}]
           /\ retries' \in [Run -> 0 .. MaxRetries]
           /\ window' \in [Run -> 0 .. Windows]
<1> USE DEF AllTypes, LeaseInv, CallInv, LeaseTypes, FlowTypes, RunTypes
<1>0. MaxRetries \in Nat /\ Windows \in Nat
  BY WorkflowAssumption
<1>1. CASE step[r] \in Retryable /\ retries[r] < MaxRetries
  <2>1. /\ retries' = [retries EXCEPT ![r] = @ + 1]
        /\ at' = [at EXCEPT ![r] = "assert"]
        /\ result' = [result EXCEPT ![r] = "none"]
        /\ UNCHANGED <<wf, step, flow, window>>
    BY <1>1 DEF StepFails, StepAt
  <2>2. retries[r] + 1 \in 0 .. MaxRetries
    BY <1>0, <1>1
  <2> QED BY <2>1, <2>2
<1>2. CASE ~(step[r] \in Retryable /\ retries[r] < MaxRetries)
  <2>1. Schedule(r, "fail", flow[r]) \/ End(r, "failed")
    BY <1>2 DEF StepFails
  <2>2. CASE Schedule(r, "fail", flow[r])
    BY <1>0, <2>2 DEF Schedule
  <2>3. CASE End(r, "failed")
    BY <2>3 DEF End
  <2> QED BY <2>1, <2>2, <2>3
<1> QED BY <1>1, <1>2

LEMMA StepAnswersTouches ==
    ASSUME AllTypes, NEW r \in Run, StepAnswers(r)
    PROVE  /\ \A s \in Run \ {r} :
                /\ wf'[s] = wf[s] /\ step'[s] = step[s] /\ at'[s] = at[s]
                /\ retries'[s] = retries[s] /\ result'[s] = result[s]
                /\ flow'[s] = flow[s] /\ window'[s] = window[s]
           /\ wf' \in [Run -> {"none", "running", "completed", "failed"}]
           /\ retries' \in [Run -> 0 .. MaxRetries]
           /\ window' \in [Run -> 0 .. Windows]
<1> USE DEF AllTypes, LeaseInv, CallInv, LeaseTypes, FlowTypes, RunTypes
<1>0. MaxRetries \in Nat /\ Windows \in Nat
  BY WorkflowAssumption
<1>1. CASE result[r] = "error"
  BY <1>1, StepFailsTouches DEF StepAnswers
<1>2. CASE result[r] # "error"
  <2>1. ASSUME NEW f, AfterDefinition(r, f)
        PROVE  \E next, g : Schedule(r, next, g)
    BY <2>1 DEF AfterDefinition
  <2>2. \/ \E next, g : Schedule(r, next, g)
        \/ \E status \in {"failed", "completed"} : End(r, status)
    BY <1>2, <2>1 DEF StepAnswers, AfterWindow, AfterOrphans
  <2>3. CASE \E next, g : Schedule(r, next, g)
    BY <1>0, <2>3 DEF Schedule
  <2>4. CASE \E status \in {"failed", "completed"} : End(r, status)
    BY <2>4 DEF End
  <2> QED BY <2>2, <2>3, <2>4
<1> QED BY <1>1, <1>2

\* A lifecycle write of run r writes its record only.
LEMMA OwnRecord ==
    ASSUME AllTypes, NEW r \in Run, NEW D,
           \/ beginRun(r) \/ queueRun(r) \/ attachRunExecution(r)
           \/ markRunStartFailed(r) \/ markRunCancelled(r)
           \/ completeRun(r, D) \/ failRun(r, D) \/ requestRunCancellation(r)
           \/ UNCHANGED lifecycleVars
    PROVE  \A s \in Run \ {r} : runs'[s] = runs[s]
BY DEF AllTypes, StoreTypeOK, beginRun, queueRun, writeRunState,
   attachRunExecution, markRunStartFailed, markRunCancelled, completeRun,
   failRun, requestRunCancellation, updateRunState, lifecycleVars

\* A release under a token of run r's envelope takes a lock of its own.
LEMMA OwnLock ==
    ASSUME LeaseInv, NEW r \in Run, NEW d,
           releaseDefinitionLock(d, lease[r][d]), NEW e \in Definition
    PROVE  \/ locks'[e] = locks[e]
           \/ locks[e].ownerRunId = r /\ locks'[e] = NoLock /\ e = d
<1> USE DEF LeaseInv
<1>1. CASE e # d \/ locks[d].token # lease[r][d]
  BY <1>1 DEF releaseDefinitionLock, LeaseTypes
<1>2. CASE e = d /\ locks[d].token = lease[r][d]
  <2>1. locks'[e] = NoLock
    BY <1>2 DEF releaseDefinitionLock, LeaseTypes
  <2>2. CASE lease[r][d] # 0
    BY <1>2, <2>1, <2>2 DEF TokensNameOwners
  <2>3. CASE lease[r][d] = 0
    BY <1>2, <2>1, <2>3 DEF TokensNameOwners
  <2> QED BY <2>2, <2>3
<1> QED BY <1>1, <1>2

\* The starter's steps.
LEMMA StartTouches ==
    ASSUME AllTypes, NEW r \in Run, Start(r) \/ StarterCrash(r)
    PROVE  OnlyRun(r) /\ RunTypes'
<1> USE DEF AllTypes, LeaseInv, CallInv
<1>0. /\ starter \in [Run -> Starter] /\ held \in [Run -> SUBSET Definition]
      /\ lease \in [Run -> [Definition -> Nat]]
      /\ mishap \in [Run -> SUBSET Mishap] /\ budget \in 0 .. MaxEvents
      /\ MaxEvents \in Nat /\ Scope[r] \subseteq Definition
      /\ locks \in [Definition -> Lock]
  BY WorkflowAssumption, ScopeIsDefined DEF LeaseTypes, RunTypes
<1>1. \/ UNCHANGED stepVars
      \/ ProviderAccepts(r)
  BY DEF Start, StartPlan, AcquireLock, Preflight, Queue, StartWorkflow,
     MarkStartFailed, ReleaseAfterRejection, AttachExecution, StarterCrash
<1>2. /\ UNCHANGED <<kind, sourceVars>>
      /\ \/ NoFault
         \/ /\ Spend
            /\ \E what \in Mishap : Note(r, what)
  BY DEF Start, StartPlan, AcquireLock, Preflight, Queue, StartWorkflow,
     MarkStartFailed, ReleaseAfterRejection, AttachExecution, StarterCrash,
     NoFault, Fault, Mishap
<1>3. /\ \A s \in Run \ {r} : mishap'[s] = mishap[s]
      /\ MishapGrows /\ budget' \in {budget, budget - 1}
      /\ budget' \in 0 .. MaxEvents
  <2>1. CASE NoFault
    BY <1>0, <2>1 DEF NoFault, MishapGrows
  <2>2. CASE Spend /\ \E what \in Mishap : Note(r, what)
    BY <1>0, <2>2 DEF Spend, Note, MishapGrows
  <2> QED BY <1>2, <2>1, <2>2
<1>4. /\ \A s \in Run \ {r} :
            /\ wf'[s] = wf[s] /\ step'[s] = step[s] /\ at'[s] = at[s]
            /\ retries'[s] = retries[s] /\ result'[s] = result[s]
            /\ todo'[s] = todo[s] /\ flow'[s] = flow[s]
            /\ window'[s] = window[s]
      /\ wf' \in [Run -> {"none", "running", "completed", "failed"}]
      /\ UNCHANGED <<retries, window>>
  BY <1>1 DEF stepVars, ProviderAccepts, RunTypes, FlowTypes
<1>5. \A s \in Run \ {r} : runs'[s] = runs[s]
  <2>1. \/ queueRun(r) \/ attachRunExecution(r) \/ markRunStartFailed(r)
        \/ UNCHANGED lifecycleVars
    BY DEF Start, StartPlan, AcquireLock, Preflight, Queue, StartWorkflow,
       MarkStartFailed, ReleaseAfterRejection, AttachExecution, StarterCrash,
       storeVars, lifecycleVars
  <2> QED BY <2>1, OwnRecord
<1>6. /\ \A s \in Run \ {r} : starter'[s] = starter[s] /\ held'[s] = held[s]
                              /\ lease'[s] = lease[s]
      /\ held' \in [Run -> SUBSET Definition]
  <2>1. CASE AcquireLock(r)
    <3>1. PICK d \in Scope[r] :
            \/ UNCHANGED <<lease, held>>
            \/ /\ lease' = [lease EXCEPT ![r][d] = nextLock]
               /\ held' = [held EXCEPT ![r] = @ \union {d}]
      BY <2>1 DEF AcquireLock
    <3>2. \E label : starter' = [starter EXCEPT ![r] = label]
      BY <2>1 DEF AcquireLock, StartAt
    <3> QED BY <1>0, <3>1, <3>2
  <2>2. CASE ReleaseAfterRejection(r)
    <3>1. PICK d : \/ UNCHANGED held
                   \/ held' = [held EXCEPT ![r] = @ \ {d}]
      BY <2>2 DEF ReleaseAfterRejection
    <3>2. UNCHANGED lease /\ (UNCHANGED starter \/
              \E label : starter' = [starter EXCEPT ![r] = label])
      BY <2>2 DEF ReleaseAfterRejection, StartAt
    <3> QED BY <1>0, <3>1, <3>2
  <2>3. CASE ~AcquireLock(r) /\ ~ReleaseAfterRejection(r)
    <3>1. UNCHANGED held \/ held' = [held EXCEPT ![r] = {}]
      BY <2>3 DEF Start, StartPlan, Preflight, Queue, StartWorkflow,
         MarkStartFailed, AttachExecution, StarterCrash
    <3>2. UNCHANGED lease /\ \E label : starter' = [starter EXCEPT ![r] = label]
      BY <2>3 DEF Start, StartPlan, Preflight, Queue, StartWorkflow,
         MarkStartFailed, AttachExecution, StarterCrash, StartAt
    <3> QED BY <1>0, <3>1, <3>2
  <2> QED BY <2>1, <2>2, <2>3
<1>7. ASSUME NEW e \in Definition
      PROVE  \/ locks'[e] = locks[e]
             \/ {locks[e].ownerRunId, locks'[e].ownerRunId} \subseteq {r, NoRun}
  <2>1. \/ UNCHANGED lockVars
        \/ \E d : acquireDefinitionLock(d, r)
        \/ \E d : releaseDefinitionLock(d, lease[r][d])
    BY DEF Start, StartPlan, AcquireLock, Preflight, Queue, StartWorkflow,
       MarkStartFailed, ReleaseAfterRejection, AttachExecution, StarterCrash,
       storeVars, lockVars
  <2>2. CASE \E d : acquireDefinitionLock(d, r)
    BY <1>0, <2>2 DEF acquireDefinitionLock, CanAcquire, NoLock
  <2>3. CASE \E d : releaseDefinitionLock(d, lease[r][d])
    BY <2>3, OwnLock DEF NoLock
  <2> QED BY <2>1, <2>2, <2>3 DEF lockVars
<1>8. OnlyRun(r)
  BY <1>2, <1>3, <1>4, <1>5, <1>6, <1>7 DEF OnlyRun, Untouched, sourceVars
<1>9. RunTypes'
  BY <1>2, <1>3, <1>4, <1>6 DEF RunTypes, sourceVars
<1> QED BY <1>8, <1>9

\* The worker's steps: a workflow that moves on, and the bodies of the steps.
LEMMA WorkTouches ==
    ASSUME AllTypes, NEW r \in Run,
           Work(r) \/ StepThrows(r) \/ RollbackThrows(r) \/ WorkerCrash(r)
    PROVE  OnlyRun(r) /\ RunTypes'
<1> USE DEF AllTypes, LeaseInv, CallInv
<1>0. /\ at \in [Run -> At] /\ result \in [Run -> Results]
      /\ todo \in [Run -> SUBSET Definition] /\ flow \in [Run -> Flow]
      /\ mishap \in [Run -> SUBSET Mishap] /\ budget \in 0 .. MaxEvents
      /\ MaxEvents \in Nat /\ Scope[r] \subseteq Definition
      /\ locks \in [Definition -> Lock] /\ Windows \in Nat \ {0}
      /\ window \in [Run -> 0 .. Windows]
      /\ cursor \in [Definition -> 0 .. Windows - 1]
      /\ scanned \in [Run -> [Definition -> SUBSET (1 .. Windows)]]
  BY WorkflowAssumption, ScopeIsDefined DEF LeaseTypes, FlowTypes, RunTypes
<1>1. /\ UNCHANGED <<starterVars, observed>>
      /\ \/ NoFault
         \/ /\ Spend
            /\ \E what \in Mishap : Note(r, what)
  BY DEF Work, AssertLease, BeginStep, ResetCursor, Gate, ProcessWindow,
     CommitCursor, RollbackOrphansPage, RecordCompletion, ForgetCursor,
     RollbackWork, Finalize, ReleaseLock, StepAnswers, StepThrows,
     RollbackThrows, WorkerCrash, stepFrame, NoFault, Fault, Mishap, starterVars
<1>2. /\ \A s \in Run \ {r} : mishap'[s] = mishap[s]
      /\ MishapGrows /\ budget' \in {budget, budget - 1}
      /\ budget' \in 0 .. MaxEvents
  <2>1. CASE NoFault
    BY <1>0, <2>1 DEF NoFault, MishapGrows
  <2>2. CASE Spend /\ \E what \in Mishap : Note(r, what)
    BY <1>0, <2>2 DEF Spend, Note, MishapGrows
  <2> QED BY <1>1, <2>1, <2>2
<1>3. \A s \in Run \ {r} : runs'[s] = runs[s]
  <2>1. \/ UNCHANGED lifecycleVars
        \/ beginRun(r) \/ markRunCancelled(r)
        \/ completeRun(r, outcomesOf(r)) \/ failRun(r, outcomesOf(r))
    BY DEF Work, AssertLease, BeginStep, ResetCursor, Gate, ProcessWindow,
     CommitCursor, RollbackOrphansPage, RecordCompletion, ForgetCursor,
     RollbackWork, Finalize, finalTransition, ReleaseLock, StepAnswers,
     StepThrows, RollbackThrows, WorkerCrash, storeVars, lifecycleVars
  <2> QED BY <2>1, OwnRecord
<1>4. ASSUME NEW e \in Definition
      PROVE  \/ locks'[e] = locks[e]
             \/ {locks[e].ownerRunId, locks'[e].ownerRunId} \subseteq {r, NoRun}
  <2>1. \/ UNCHANGED lockVars
        \/ \E d : releaseDefinitionLock(d, lease[r][d])
    BY DEF Work, AssertLease, BeginStep, ResetCursor, Gate, ProcessWindow,
     CommitCursor, RollbackOrphansPage, RecordCompletion, ForgetCursor,
     RollbackWork, Finalize, ReleaseLock, StepAnswers, StepThrows,
     RollbackThrows, WorkerCrash, storeVars, lockVars
  <2>2. CASE \E d : releaseDefinitionLock(d, lease[r][d])
    BY <2>2, OwnLock DEF NoLock
  <2> QED BY <2>1, <2>2 DEF lockVars
<1>5. CASE \/ AssertLease(r) /\ StepFails(r)
           \/ StepThrows(r) \/ WorkerCrash(r) \/ StepAnswers(r)
  <2>1. UNCHANGED <<sourceVars, starterVars, todo>>
    BY <1>5 DEF AssertLease, StepAnswers, StepThrows, WorkerCrash
  <2>2. StepFails(r) \/ StepAnswers(r)
    BY <1>5 DEF StepThrows, WorkerCrash
  <2>3. /\ \A s \in Run \ {r} :
            /\ wf'[s] = wf[s] /\ step'[s] = step[s] /\ at'[s] = at[s]
            /\ retries'[s] = retries[s] /\ result'[s] = result[s]
            /\ flow'[s] = flow[s] /\ window'[s] = window[s]
        /\ wf' \in [Run -> {"none", "running", "completed", "failed"}]
        /\ retries' \in [Run -> 0 .. MaxRetries]
        /\ window' \in [Run -> 0 .. Windows]
    BY <2>2, StepFailsTouches, StepAnswersTouches
  <2> QED BY <1>2, <1>3, <1>4, <2>1, <2>3
          DEF OnlyRun, Untouched, RunTypes, sourceVars, starterVars
<1>6. CASE \/ AssertLease(r) /\ ~StepFails(r)
           \/ BeginStep(r) \/ ResetCursor(r) \/ Gate(r) \/ ProcessWindow(r)
           \/ CommitCursor(r) \/ RollbackOrphansPage(r)
           \/ RecordCompletion(r) \/ ForgetCursor(r) \/ RollbackWork(r)
           \/ Finalize(r) \/ ReleaseLock(r) \/ RollbackThrows(r)
  <2>1. /\ UNCHANGED <<wf, step, retries, starterVars>>
        /\ UNCHANGED at \/ \E label : at' = [at EXCEPT ![r] = label]
    BY <1>6 DEF AssertLease, BeginStep, ResetCursor, Gate, ProcessWindow,
       CommitCursor, RollbackOrphansPage, RecordCompletion, ForgetCursor,
       RollbackWork, Finalize, ReleaseLock, RollbackThrows, stepFrame, StepAt,
       Answer, starterVars
  <2>2. /\ UNCHANGED result \/ \E value : result' = [result EXCEPT ![r] = value]
        /\ UNCHANGED todo \/ \E D : todo' = [todo EXCEPT ![r] = D]
    BY <1>6 DEF AssertLease, BeginStep, ResetCursor, Gate, ProcessWindow,
       CommitCursor, RollbackOrphansPage, RecordCompletion, ForgetCursor,
       RollbackWork, Finalize, ReleaseLock, RollbackThrows, Answer
  <2>3. CASE ProcessWindow(r)
    <3>1. /\ cursor[Current(r)] \in 0 .. Windows - 1 /\ UNCHANGED cursor
          /\ cursor[Current(r)] + 1 \in 1 .. Windows
      <4>1. Current(r) \in Definition
        BY <1>0, <2>3, CurrentInScope DEF ProcessWindow, CursorStep
      <4> QED BY <1>0, <2>3, <4>1 DEF ProcessWindow
    <3>2. \/ UNCHANGED <<scanned, flow, window>>
          \/ /\ scanned' = [scanned EXCEPT ![r][Current(r)] =
                                @ \union {cursor[Current(r)] + 1}]
             /\ flow' = [flow EXCEPT ![r].counted[Current(r)] = @ + 1]
             /\ window' = [window EXCEPT ![r] = cursor[Current(r)] + 1]
      BY <2>3 DEF ProcessWindow
    <3>3. /\ scanned' \in [Run -> [Definition -> SUBSET (1 .. Windows)]]
          /\ window' \in [Run -> 0 .. Windows]
          /\ \A s \in Run \ {r} : /\ flow'[s] = flow[s] /\ window'[s] = window[s]
                                  /\ scanned'[s] = scanned[s]
      <4>1. CASE UNCHANGED <<scanned, flow, window>>
        BY <1>0, <4>1
      <4>2. CASE ~UNCHANGED <<scanned, flow, window>>
        <5>1. PICK w \in 1 .. Windows :
                /\ scanned' = [scanned EXCEPT ![r][Current(r)] = @ \union {w}]
                /\ \E f : flow' = [flow EXCEPT ![r] = f]
                /\ window' = [window EXCEPT ![r] = w]
          BY <3>1, <3>2, <4>2
        <5>2. scanned' \in [Run -> [Definition -> SUBSET (1 .. Windows)]]
          <6> DEFINE d == Current(r)
                     row == [scanned[r] EXCEPT ![d] = scanned[r][d] \union {w}]
          <6>1. scanned' = [scanned EXCEPT ![r] = row]
            BY <1>0, <5>1
          <6>2. scanned[r] \in [Definition -> SUBSET (1 .. Windows)]
            BY <1>0
          <6>3. row \in [Definition -> SUBSET (1 .. Windows)]
            <7> HIDE DEF d
            <7>1. d \in Definition =>
                    scanned[r][d] \union {w} \in SUBSET (1 .. Windows)
              BY <6>2
            <7> QED BY <6>2, <7>1
          <6> HIDE DEF row
          <6> QED BY <1>0, <6>1, <6>3
        <5>3. w \in 0 .. Windows
          BY <1>0
        <5>4. \A s \in Run \ {r} : /\ flow'[s] = flow[s]
                                    /\ window'[s] = window[s]
                                    /\ scanned'[s] = scanned[s]
          BY <1>0, <5>1
        <5> QED BY <1>0, <5>1, <5>2, <5>3, <5>4
      <4> QED BY <4>1, <4>2
    <3> QED BY <1>0, <1>2, <1>3, <1>4, <2>1, <2>2, <3>1, <3>3
            DEF OnlyRun, Untouched, RunTypes, starterVars
  <2>4. CASE ~ProcessWindow(r)
    <3>1. UNCHANGED <<flow, window, scanned>>
      BY <1>6, <2>4 DEF AssertLease, BeginStep, ResetCursor, Gate, CommitCursor,
       RollbackOrphansPage, RecordCompletion, ForgetCursor, RollbackWork,
       Finalize, ReleaseLock, RollbackThrows, sourceVars
    <3>2. \/ UNCHANGED cursor
          \/ \E d \in Scope[r], w \in 0 .. Windows - 1 :
                at[r] \in Asserted /\ cursor' = [cursor EXCEPT ![d] = w]
      <4>1. CASE ResetCursor(r)
        <5>1. PICK d \in todo[r] : cursor' = [cursor EXCEPT ![d] = 0]
          BY <4>1 DEF ResetCursor
        <5>2. at[r] = "cursors"
          BY <4>1 DEF ResetCursor
        <5>3. todo[r] \subseteq Scope[r] /\ 0 \in 0 .. Windows - 1
          BY <1>0, <5>2 DEF CursorsFit
        <5>4. d \in Scope[r]
          BY <5>3
        <5> QED BY <5>1, <5>2, <5>3, <5>4 DEF Asserted
      <4>2. CASE CommitCursor(r)
        <5>1. /\ at[r] = "commit" /\ step[r] \in CursorStep
              /\ cursor' = [cursor EXCEPT ![Current(r)] = window[r]]
          BY <4>2 DEF CommitCursor, StepAndPlace, PlaceFits
        <5>2. Current(r) \in Scope[r] /\ window[r] \in 0 .. Windows - 1
          BY <5>1, CurrentInScope DEF CursorsFit
        <5> QED BY <5>1, <5>2 DEF Asserted
      <4>3. CASE ForgetCursor(r)
        <5>1. /\ at[r] = "forget" /\ step[r] \in CursorStep
              /\ cursor' = [cursor EXCEPT ![Current(r)] = 0]
          BY <4>3 DEF ForgetCursor, StepAndPlace, PlaceFits
        <5>2. Current(r) \in Scope[r] /\ 0 \in 0 .. Windows - 1
          BY <1>0, <5>1, CurrentInScope
        <5> QED BY <5>1, <5>2 DEF Asserted
      <4>4. CASE ~ResetCursor(r) /\ ~CommitCursor(r) /\ ~ForgetCursor(r)
        BY <1>6, <2>4, <4>4 DEF AssertLease, BeginStep, Gate,
           RollbackOrphansPage, RecordCompletion, RollbackWork, Finalize,
           ReleaseLock, RollbackThrows, sourceVars
      <4> QED BY <4>1, <4>2, <4>3, <4>4
    <3>3. /\ cursor' \in [Definition -> 0 .. Windows - 1]
          /\ \A d \in Definition : \/ cursor'[d] = cursor[d]
                                   \/ d \in Scope[r] /\ at[r] \in Asserted
      BY <1>0, <3>2
    <3> QED BY <1>0, <1>2, <1>3, <1>4, <2>1, <2>2, <3>1, <3>3
            DEF OnlyRun, Untouched, RunTypes, starterVars
  <2> QED BY <2>3, <2>4
<1> QED BY <1>5, <1>6 DEF Work

LEMMA OtherTouches ==
    ASSUME AllTypes, NEW r \in Run, ObserveTerminal(r) \/ RequestStop(r)
    PROVE  OnlyRun(r) /\ RunTypes'
<1> USE DEF AllTypes, LeaseInv, CallInv
<1>1. /\ UNCHANGED <<starterVars, wf, step, at, retries, flow, result, window,
                     todo, sourceVars, lockVars>>
      /\ NoFault \/ Fault(r) \/ (Spend /\ UNCHANGED mishap)
      /\ requestRunCancellation(r) \/ UNCHANGED lifecycleVars
  <2>1. CASE ObserveTerminal(r)
    BY <2>1 DEF ObserveTerminal, storeVars, lockVars, lifecycleVars
  <2>2. CASE RequestStop(r)
    BY <2>2 DEF RequestStop, stepVars
  <2> QED BY <2>1, <2>2
<1>2. /\ \A s \in Run \ {r} : mishap'[s] = mishap[s]
      /\ MishapGrows /\ budget' \in {budget, budget - 1}
      /\ budget' \in 0 .. MaxEvents
  <2>1. /\ mishap \in [Run -> SUBSET Mishap] /\ budget \in 0 .. MaxEvents
        /\ MaxEvents \in Nat
    BY WorkflowAssumption DEF LeaseTypes, RunTypes
  <2>2. budget' = budget \/ (budget > 0 /\ budget' = budget - 1)
    BY <1>1 DEF NoFault, Fault, Spend
  <2>3. mishap' = mishap \/ mishap' = [mishap EXCEPT ![r] = @ \union {"fault"}]
    BY <1>1 DEF NoFault, Fault, Note
  <2> QED BY <2>1, <2>2, <2>3 DEF MishapGrows, Mishap
<1>3. \A s \in Run \ {r} : runs'[s] = runs[s]
  BY <1>1, OwnRecord
<1> QED BY <1>1, <1>2, <1>3
        DEF OnlyRun, Untouched, RunTypes, starterVars, sourceVars, lockVars

\* An operator's unlock leaves all runs alone but for a lock.
LEMMA UnlockTouches ==
    ASSUME AllTypes, NEW d \in Definition, Unlock(d)
    PROVE  /\ UNCHANGED <<lifecycleVars, starterVars, stepVars, sourceVars>>
           /\ RunTypes' /\ MishapGrows /\ ~Undisturbed'
           /\ \A e \in Definition : locks'[e] = locks[e] \/ locks'[e] = NoLock
<1> USE DEF AllTypes, LeaseInv, LeaseTypes, RunTypes
<1>1. /\ locks[d] # NoLock /\ locks[d].ownerRunId \in Run
      /\ Note(locks[d].ownerRunId, "evicted")
      /\ UNCHANGED <<lifecycleVars, starterVars, stepVars, sourceVars>>
      /\ locks' = [locks EXCEPT ![d] = NoLock]
      /\ budget > 0 /\ budget' = budget - 1
  BY DEF Unlock, breakDefinitionLock, TokensNameOwners, Spend
<1>2. MishapGrows /\ "evicted" \in mishap'[locks[d].ownerRunId]
  BY <1>1 DEF Note, MishapGrows, Mishap
<1>3. ~Undisturbed'
  BY <1>1, <1>2 DEF Undisturbed
<1>4. budget' \in 0 .. MaxEvents
  BY <1>1, WorkflowAssumption
<1> QED BY <1>1, <1>2, <1>3, <1>4 DEF starterVars, stepVars, sourceVars

-----------------------------------------------------------------------------
(* Who holds the locks, and how a workflow comes to its end *)

EnvelopeHeld(r) == assertDefinitionLocks(r, Scope[r], lease[r])

Freed(r) == \A d \in Definition : locks[d].ownerRunId # r

\* A run owns locks of its envelope only.
OwnedFits(r) ==
    \A d \in Definition : locks[d].ownerRunId = r =>
        d \in Scope[r] /\ locks[d].token = lease[r][d]

\* A starter has the locks it acquired until it hands them over.
StarterFits(r) ==
    /\ starter[r] \in BeforeStart => wf[r] = "none"
    /\ held[r] \subseteq Scope[r]
    /\ starter[r] \in {"preflight", "queue", "start"} => held[r] = Scope[r]
    /\ starter[r] \in BeforeStart /\ Undisturbed =>
        \A d \in held[r] : locks[d] = [ownerRunId |-> r, token |-> lease[r][d]]

\* A workflow has the locks of its envelope until a step finalizes the run.
WorkerFits(r) ==
    /\ at[r] # "none" <=> wf[r] = "running"
    /\ wf[r] = "none" => retries[r] = 0
    /\ at[r] = "none" => step[r] = "none" /\ result[r] = "none"
    /\ result[r] = "error" => step[r] \in Finalizing
    /\ wf[r] = "running" /\ step[r] \notin Finalizing /\ Undisturbed =>
        EnvelopeHeld(r)

\* A finalization releases all of them or none, unless its worker is lost; one
\* that never came to it has failed more often than it is retried.
FinalizationFits(r) ==
    Undisturbed /\ "stepLost" \notin mishap[r] =>
        /\ wf[r] = "running" /\ at[r] \notin {"release", "answer"} =>
                EnvelopeHeld(r) \/ Freed(r)
        /\ at[r] = "release" => \A d \in Definition :
                                    locks[d].ownerRunId = r => d \in todo[r]
        /\ at[r] = "answer" /\ step[r] \in Finalizing => Freed(r)
        /\ wf[r] = "running" => Freed(r) \/ retries[r] + budget <= MaxEvents
        /\ wf[r] \in {"completed", "failed"} =>
                Freed(r) \/ MaxRetries + budget < MaxEvents

EnvelopeFits(r) == /\ OwnedFits(r) /\ StarterFits(r) /\ WorkerFits(r)
                   /\ FinalizationFits(r)

EnvelopeInv == \A r \in Run : EnvelopeFits(r)

LEMMA InitEnvelopeInv == Init => EnvelopeInv
<1> SUFFICES ASSUME Init, NEW r \in Run PROVE EnvelopeFits(r)
  BY DEF EnvelopeInv
<1>1. \A d \in Definition : locks[d].ownerRunId # r
  BY MigrationStoreAssumption DEF Init, StoreInit, NoLock
<1> QED BY <1>1 DEF Init, EnvelopeFits, OwnedFits, StarterFits, WorkerFits,
                    FinalizationFits, BeforeStart

\* What is spent stays spent.
LEMMA Spending ==
    ASSUME NEW b \in Int, NEW c \in Int, c <= b, NEW x \in Int, NEW m \in Int
    PROVE  /\ x + b <= m => x + c <= m
           /\ x + b < m => x + c < m
OBVIOUS

LEMMA CalmBefore == MishapGrows /\ Undisturbed' => Undisturbed
BY DEF MishapGrows, Undisturbed

\* What other runs do is no concern of run s.
LEMMA OthersFit ==
    ASSUME AllTypes, AllTypes', NEW r \in Run, NEW s \in Run \ {r}, OnlyRun(r),
           EnvelopeFits(s)
    PROVE  EnvelopeFits(s)'
<1>1. /\ starter'[s] = starter[s] /\ held'[s] = held[s] /\ lease'[s] = lease[s]
      /\ wf'[s] = wf[s] /\ step'[s] = step[s] /\ at'[s] = at[s]
      /\ retries'[s] = retries[s] /\ result'[s] = result[s]
      /\ todo'[s] = todo[s] /\ mishap'[s] = mishap[s]
      /\ Undisturbed' => Undisturbed
      /\ Scope[s] \subseteq Definition
  BY CalmBefore, ScopeIsDefined DEF OnlyRun, Untouched
<1>2. \A d \in Definition :
        locks[d].ownerRunId = s \/ locks'[d].ownerRunId = s =>
            locks'[d] = locks[d]
  BY MigrationStoreAssumption DEF OnlyRun
<1>3. /\ budget \in Int /\ budget' \in Int /\ MaxEvents \in Int
      /\ budget' <= budget
  <2>1. budget \in Int /\ budget' \in {budget, budget - 1} /\ MaxEvents \in Int
    BY WorkflowAssumption DEF OnlyRun, AllTypes, RunTypes
  <2>2. CASE budget' = budget
    BY <2>1, <2>2
  <2>3. CASE budget' = budget - 1
    BY <2>1, <2>3
  <2> QED BY <2>1, <2>2, <2>3
<1>4. OwnedFits(s)'
  <2>1. OwnedFits(s)
    BY DEF EnvelopeFits
  <2> QED BY <1>1, <1>2, <2>1 DEF OwnedFits
<1>5. StarterFits(s)'
  <2>1. StarterFits(s)
    BY DEF EnvelopeFits
  <2>2. ASSUME NEW d \in held[s], Undisturbed', starter[s] \in BeforeStart
        PROVE  locks'[d] = [ownerRunId |-> s, token |-> lease[s][d]]
    <3>1. locks[d] = [ownerRunId |-> s, token |-> lease[s][d]]
      BY <1>1, <2>1, <2>2 DEF StarterFits
    <3>2. d \in Definition /\ locks[d].ownerRunId = s
      BY <1>1, <2>1, <3>1 DEF StarterFits
    <3> QED BY <1>2, <3>1, <3>2
  <2> QED BY <1>1, <2>1, <2>2 DEF StarterFits
<1>6. EnvelopeHeld(s) => EnvelopeHeld(s)'
  <2> SUFFICES ASSUME EnvelopeHeld(s), NEW d \in Scope[s]
               PROVE  locks'[d] = [ownerRunId |-> s, token |-> lease'[s][d]]
    BY DEF EnvelopeHeld, assertDefinitionLocks
  <2>1. locks[d] = [ownerRunId |-> s, token |-> lease[s][d]]
    BY DEF EnvelopeHeld, assertDefinitionLocks
  <2> QED BY <1>1, <1>2, <2>1
<1>7. Freed(s) => Freed(s)'
  BY <1>2 DEF Freed
<1>8. WorkerFits(s)'
  <2>1. WorkerFits(s)
    BY DEF EnvelopeFits
  <2> QED BY <1>1, <1>6, <2>1 DEF WorkerFits
<1>9. FinalizationFits(s)'
  <2>1. retries[s] \in Nat /\ MaxRetries \in Nat
    BY WorkflowAssumption DEF AllTypes, RunTypes
  <2>2. FinalizationFits(s)
    BY DEF EnvelopeFits
  <2>3. \A d \in Definition : locks'[d].ownerRunId = s =>
                                    locks[d].ownerRunId = s
    BY <1>2
  <2>4. /\ retries[s] + budget <= MaxEvents => retries[s] + budget' <= MaxEvents
        /\ MaxRetries + budget < MaxEvents => MaxRetries + budget' < MaxEvents
    <3>1. retries[s] \in Int /\ MaxRetries \in Int
      BY <2>1
    <3>2. retries[s] + budget <= MaxEvents => retries[s] + budget' <= MaxEvents
      BY <1>3, <3>1, Spending
    <3>3. MaxRetries + budget < MaxEvents => MaxRetries + budget' < MaxEvents
      BY <1>3, <3>1, Spending
    <3> QED BY <3>2, <3>3
  <2> QED BY <1>1, <1>6, <1>7, <2>2, <2>3, <2>4 DEF FinalizationFits
<1> QED BY <1>4, <1>5, <1>8, <1>9 DEF EnvelopeFits

LEMMA OnlyRunFits ==
    ASSUME AllTypes, AllTypes', EnvelopeInv, NEW r \in Run, OnlyRun(r),
           EnvelopeFits(r)'
    PROVE  EnvelopeInv'
BY OthersFit DEF EnvelopeInv

-----------------------------------------------------------------------------
(* The starter's steps *)

LEMMA AcquireLockEnvelope ==
    ASSUME AllTypes, NEW r \in Run, OnlyRun(r), EnvelopeFits(r), AcquireLock(r)
    PROVE  EnvelopeFits(r)'
<1> USE DEF AllTypes, LeaseInv, LeaseTypes, RunTypes
<1>1. PICK d \in Scope[r] \ held[r] :
        IF CanAcquire(d)
        THEN /\ acquireDefinitionLock(d, r)
             /\ lease' = [lease EXCEPT ![r][d] = nextLock]
             /\ held' = [held EXCEPT ![r] = @ \union {d}]
             /\ StartAt(r, IF held'[r] = Scope[r] THEN "preflight"
                           ELSE "acquire")
        ELSE /\ StartAt(r, "release")
             /\ UNCHANGED <<lockVars, lease, held>>
  BY DEF AcquireLock
<1>2. /\ starter[r] = "acquire" /\ wf[r] = "none" /\ at[r] = "none"
      /\ d \in Definition /\ UNCHANGED <<stepVars, mishap>>
      /\ held[r] \subseteq Scope[r] /\ Scope[r] \subseteq Definition
  BY ScopeIsDefined DEF AcquireLock, EnvelopeFits, StarterFits, WorkerFits,
                        BeforeStart
<1>3. WorkerFits(r)' /\ FinalizationFits(r)'
  BY <1>2 DEF EnvelopeFits, WorkerFits, FinalizationFits, stepVars
<1>4. CASE ~CanAcquire(d)
  BY <1>1, <1>2, <1>3, <1>4 DEF EnvelopeFits, OwnedFits, StarterFits, StartAt,
     BeforeStart, lockVars
<1>5. CASE CanAcquire(d)
  <2>1. /\ locks[d] = NoLock
        /\ locks' = [locks EXCEPT ![d] = [ownerRunId |-> r, token |-> nextLock]]
        /\ lease' = [lease EXCEPT ![r][d] = nextLock]
        /\ held' = [held EXCEPT ![r] = @ \union {d}]
        /\ starter' = [starter EXCEPT ![r] = IF held'[r] = Scope[r]
                                             THEN "preflight" ELSE "acquire"]
    BY <1>1, <1>5 DEF acquireDefinitionLock, CanAcquire, StartAt
  <2>2. /\ locks'[d] = [ownerRunId |-> r, token |-> nextLock]
        /\ lease'[r][d] = nextLock
        /\ held'[r] = held[r] \union {d}
        /\ \A e \in Definition \ {d} : /\ locks'[e] = locks[e]
                                       /\ lease'[r][e] = lease[r][e]
    BY <1>2, <2>1
  <2>3. OwnedFits(r)'
    <3>1. OwnedFits(r)
      BY DEF EnvelopeFits
    <3>2. ASSUME NEW e \in Definition, locks'[e].ownerRunId = r
          PROVE  e \in Scope[r] /\ locks'[e].token = lease'[r][e]
      <4>1. CASE e = d
        BY <1>1, <2>2, <4>1
      <4>2. CASE e # d
        BY <2>2, <3>1, <3>2, <4>2 DEF OwnedFits
      <4> QED BY <4>1, <4>2
    <3> QED BY <3>2 DEF OwnedFits
  <2>4. starter'[r] \in {"preflight", "acquire"}
        /\ (starter'[r] = "preflight" => held'[r] = Scope[r])
    BY <2>1
  <2>5. \A e \in held'[r] : e = d \/ (e \in held[r] /\ e \in Definition)
    BY <1>2, <2>2
  <2>6. StarterFits(r)'
    BY <1>2, <2>2, <2>4, <2>5, CalmBefore
       DEF EnvelopeFits, StarterFits, stepVars, BeforeStart, OnlyRun
  <2> QED BY <1>3, <2>3, <2>6 DEF EnvelopeFits
<1> QED BY <1>4, <1>5

\* A release of a lock of run r, and what it leaves behind.
LEMMA ReleaseLeaves ==
    ASSUME AllTypes, NEW r \in Run, NEW d, OwnedFits(r),
           releaseDefinitionLock(d, lease[r][d])
    PROVE  /\ \A e \in Definition : locks'[e].ownerRunId = r =>
                    locks'[e] = locks[e] /\ e # d
           /\ Freed(r) => Freed(r)'
<1>1. ASSUME NEW e \in Definition, locks'[e].ownerRunId = r
      PROVE  locks'[e] = locks[e] /\ e # d
  <2>1. locks'[e] = locks[e]
    BY <1>1, OwnLock, MigrationStoreAssumption DEF AllTypes, NoLock
  <2>2. ASSUME e = d PROVE FALSE
    <3>1. locks[d].token = lease[r][d]
      BY <1>1, <2>1, <2>2 DEF OwnedFits
    <3>2. locks'[d] = NoLock
      BY <2>2, <3>1 DEF releaseDefinitionLock, AllTypes, LeaseInv, LeaseTypes
    <3> QED BY <1>1, <2>2, <3>2, MigrationStoreAssumption DEF NoLock
  <2> QED BY <2>1, <2>2
<1> QED BY <1>1 DEF Freed

LEMMA ReleaseAfterRejectionEnvelope ==
    ASSUME AllTypes, NEW r \in Run, OnlyRun(r), EnvelopeFits(r),
           ReleaseAfterRejection(r)
    PROVE  EnvelopeFits(r)'
<1> USE DEF AllTypes, LeaseInv, LeaseTypes, RunTypes
<1>1. /\ starter[r] = "release" /\ UNCHANGED <<lease, stepVars, budget, mishap>>
      /\ starter'[r] \in {"release", "rejected"}
      /\ held'[r] \subseteq held[r] /\ held[r] \subseteq Scope[r]
  BY DEF ReleaseAfterRejection, StartAt, EnvelopeFits, StarterFits
<1>2. at[r] = "none" \/ ~Undisturbed
  BY <1>1 DEF StarterAndWorker, Undisturbed
<1>3. /\ \A e \in Definition : locks'[e].ownerRunId = r => locks'[e] = locks[e]
      /\ Freed(r) => Freed(r)'
  <2>1. UNCHANGED locks \/ \E d : releaseDefinitionLock(d, lease[r][d])
    BY DEF ReleaseAfterRejection, lockVars
  <2> QED BY <2>1, ReleaseLeaves DEF EnvelopeFits, Freed
<1>4. OwnedFits(r)'
  BY <1>1, <1>3 DEF EnvelopeFits, OwnedFits
<1>5. StarterFits(r)'
  BY <1>1 DEF StarterFits, BeforeStart
<1>6. /\ wf'[r] = wf[r] /\ at'[r] = at[r] /\ step'[r] = step[r]
      /\ retries'[r] = retries[r] /\ result'[r] = result[r]
      /\ todo'[r] = todo[r] /\ Undisturbed' = Undisturbed
  BY <1>1 DEF stepVars, Undisturbed
<1>7. WorkerFits(r)' /\ FinalizationFits(r)'
  BY <1>1, <1>2, <1>3, <1>6
     DEF EnvelopeFits, WorkerFits, FinalizationFits
<1> QED BY <1>4, <1>5, <1>7 DEF EnvelopeFits

\* The starter moves on, or dies.
LEMMA StarterEnvelope ==
    ASSUME AllTypes, NEW r \in Run, OnlyRun(r), EnvelopeFits(r),
           \/ StartPlan(r) \/ Preflight(r) \/ Queue(r) \/ MarkStartFailed(r)
           \/ AttachExecution(r) \/ StarterCrash(r)
           \/ StartWorkflow(r) /\ ~ProviderAccepts(r)
    PROVE  EnvelopeFits(r)'
<1> USE DEF AllTypes, LeaseInv, LeaseTypes, RunTypes
<1>1. /\ UNCHANGED <<locks, lease, stepVars>>
      /\ Undisturbed' => Undisturbed
      /\ mishap[r] \subseteq mishap'[r]
      /\ budget \in Int /\ budget' \in {budget, budget - 1} /\ MaxEvents \in Int
  BY CalmBefore, WorkflowAssumption
     DEF StartPlan, Preflight, Queue, MarkStartFailed, AttachExecution,
     StarterCrash, StartWorkflow, storeVars, lockVars, OnlyRun, MishapGrows
<1>2. \/ /\ starter[r] = "idle" /\ starter'[r] = "acquire"
         /\ held'[r] = held[r]
      \/ /\ starter[r] \in {"preflight", "queue"} /\ held'[r] = held[r]
         /\ starter'[r] \in {"queue", "start", "release"}
      \/ /\ starter'[r] \in {"markFailed", "release", "returned", "rejected",
                             "crashed"}
         /\ held'[r] \subseteq held[r]
  BY DEF StartPlan, Preflight, Queue, MarkStartFailed, AttachExecution,
     StarterCrash, StartWorkflow, StartAt
<1>3. OwnedFits(r)'
  BY <1>1 DEF EnvelopeFits, OwnedFits
<1>4. StarterFits(r)'
  BY <1>1, <1>2 DEF EnvelopeFits, StarterFits, BeforeStart, stepVars
<1>5. WorkerFits(r)'
  BY <1>1 DEF EnvelopeFits, WorkerFits, stepVars, EnvelopeHeld,
     assertDefinitionLocks
<1>6. FinalizationFits(r)'
  <2>1. retries[r] \in Nat /\ MaxRetries \in Nat
    BY WorkflowAssumption
  <2>2. /\ wf'[r] = wf[r] /\ at'[r] = at[r] /\ step'[r] = step[r]
        /\ retries'[r] = retries[r] /\ todo'[r] = todo[r]
        /\ EnvelopeHeld(r)' = EnvelopeHeld(r) /\ Freed(r)' = Freed(r)
    BY <1>1 DEF stepVars, EnvelopeHeld, assertDefinitionLocks, Freed
  <2>3. /\ retries[r] + budget <= MaxEvents => retries[r] + budget' <= MaxEvents
        /\ MaxRetries + budget < MaxEvents => MaxRetries + budget' < MaxEvents
    BY <1>1, <2>1
  <2>4. FinalizationFits(r)
    BY DEF EnvelopeFits
  <2> QED BY <1>1, <2>2, <2>3, <2>4 DEF FinalizationFits
<1> QED BY <1>3, <1>4, <1>5, <1>6 DEF EnvelopeFits

\* The provider accepts the run.
LEMMA AcceptedEnvelope ==
    ASSUME AllTypes, NEW r \in Run, OnlyRun(r), EnvelopeFits(r),
           StartWorkflow(r), ProviderAccepts(r)
    PROVE  EnvelopeFits(r)'
<1>0. /\ wf \in [Run -> {"none", "running", "completed", "failed"}]
      /\ at \in [Run -> At] /\ starter \in [Run -> Starter]
      /\ budget \in 0 .. MaxEvents /\ budget' \in {budget, budget - 1}
      /\ MaxEvents \in Nat
  BY WorkflowAssumption DEF AllTypes, LeaseInv, LeaseTypes, RunTypes, OnlyRun
<1>1. /\ starter[r] = "start" /\ wf[r] = "none" /\ held[r] = Scope[r]
      /\ at[r] = "none" /\ retries[r] = 0 /\ result[r] = "none"
      /\ Undisturbed => EnvelopeHeld(r)
  BY DEF StartWorkflow, EnvelopeFits, StarterFits, WorkerFits, BeforeStart,
     EnvelopeHeld, assertDefinitionLocks
<1>2. /\ held'[r] = held[r] /\ wf'[r] = "running" /\ at'[r] = "assert"
      /\ retries'[r] = 0 /\ result'[r] = "none"
      /\ starter'[r] \in {"attach", "markFailed"}
      /\ UNCHANGED <<locks, lease>>
      /\ Undisturbed' => Undisturbed
  BY <1>0, <1>1, CalmBefore DEF StartWorkflow, ProviderAccepts, StartAt, storeVars,
     OnlyRun
<1>3. Undisturbed' => EnvelopeHeld(r)'
  BY <1>1, <1>2 DEF EnvelopeHeld, assertDefinitionLocks
<1>4. OwnedFits(r)'
  <2>1. OwnedFits(r)
    BY DEF EnvelopeFits
  <2> QED BY <1>2, <2>1 DEF OwnedFits
<1>5. StarterFits(r)'
  <2>1. held[r] \subseteq Scope[r]
    BY DEF EnvelopeFits, StarterFits
  <2> QED BY <1>2, <2>1 DEF StarterFits, BeforeStart
<1>6. WorkerFits(r)'
  BY <1>2, <1>3 DEF WorkerFits
<1>7. FinalizationFits(r)'
  <2>1. budget' \in Int /\ budget' <= MaxEvents
    BY <1>0
  <2>2. retries'[r] + budget' <= MaxEvents
    BY <1>2, <2>1
  <2> QED BY <1>2, <1>3, <2>2 DEF FinalizationFits
<1> QED BY <1>4, <1>5, <1>6, <1>7 DEF EnvelopeFits

-----------------------------------------------------------------------------
(* The worker's steps *)

\* What most steps of a worker leave alone.
WorkFrame(r) ==
    /\ UNCHANGED <<locks, starterVars>>
    /\ Undisturbed' => Undisturbed
    /\ mishap[r] \subseteq mishap'[r]
    /\ budget \in Int /\ budget' \in {budget, budget - 1} /\ MaxEvents \in Int

LEMMA WorkFrames ==
    ASSUME AllTypes, NEW r \in Run, OnlyRun(r), UNCHANGED <<locks, starterVars>>
    PROVE  WorkFrame(r)
BY CalmBefore, WorkflowAssumption
   DEF WorkFrame, OnlyRun, MishapGrows, AllTypes, RunTypes

LEMMA FrameKeeps ==
    ASSUME NEW r \in Run, WorkFrame(r)
    PROVE  /\ EnvelopeHeld(r)' = EnvelopeHeld(r) /\ Freed(r)' = Freed(r)
           /\ OwnedFits(r) => OwnedFits(r)'
           /\ budget' \in Int /\ budget' <= budget
<1>1. EnvelopeHeld(r)' = EnvelopeHeld(r) /\ Freed(r)' = Freed(r)
  BY DEF WorkFrame, EnvelopeHeld, assertDefinitionLocks, Freed, starterVars
<1>2. OwnedFits(r) => OwnedFits(r)'
  BY DEF WorkFrame, OwnedFits, starterVars
<1>3. budget \in Int /\ (budget' = budget \/ budget' = budget - 1)
  BY DEF WorkFrame
<1>4. budget' \in Int /\ budget' <= budget
  BY <1>3
<1> QED BY <1>1, <1>2, <1>4

\* A worker moves within its step.
LEMMA StaysEnvelope ==
    ASSUME AllTypes, NEW r \in Run, WorkFrame(r), EnvelopeFits(r),
           UNCHANGED <<wf, step, retries>>,
           at[r] \notin {"none", "release", "answer"}, at'[r] # "none",
           at'[r] = "answer" => step[r] \notin Finalizing,
           at'[r] = "release" => todo'[r] = Scope[r],
           result'[r] = "error" => step[r] \in Finalizing
    PROVE  EnvelopeFits(r)'
<1>1. /\ EnvelopeHeld(r)' = EnvelopeHeld(r) /\ Freed(r)' = Freed(r)
      /\ OwnedFits(r)' /\ budget \in Int /\ budget' \in Int
      /\ MaxEvents \in Int /\ budget' <= budget
  BY FrameKeeps DEF WorkFrame, EnvelopeFits
<1>2. StarterFits(r)'
  <2>1. StarterFits(r)
    BY DEF EnvelopeFits
  <2> QED BY <2>1 DEF WorkFrame, StarterFits, starterVars
<1>3. WorkerFits(r)'
  <2>1. WorkerFits(r)
    BY DEF EnvelopeFits
  <2> QED BY <1>1, <2>1 DEF WorkFrame, WorkerFits
<1>4. FinalizationFits(r)'
  <2>1. retries[r] \in Int /\ MaxRetries \in Int
    BY WorkflowAssumption DEF AllTypes, RunTypes
  <2>2. retries[r] + budget <= MaxEvents => retries[r] + budget' <= MaxEvents
    BY <1>1, <2>1, Spending
  <2>3. FinalizationFits(r) /\ WorkerFits(r)
    BY DEF EnvelopeFits
  <2>4. at'[r] = "release" => \A d \in Definition :
                                locks'[d].ownerRunId = r => d \in todo'[r]
    BY DEF EnvelopeFits, OwnedFits, WorkFrame
  <2>5. wf'[r] = "running"
    BY <2>3 DEF WorkerFits
  <2> QED BY <1>1, <2>2, <2>3, <2>4, <2>5 DEF FinalizationFits, WorkFrame,
                                              WorkerFits
<1> QED BY <1>1, <1>2, <1>3, <1>4 DEF EnvelopeFits

\* A step fails: one that was not to be executed again has used up a call
\* that failed, or its run has no locks.
LEMMA StepFailsEnvelope ==
    ASSUME AllTypes, NEW r \in Run, WorkFrame(r), EnvelopeFits(r),
           StepFails(r), at[r] # "none",
           \/ "stepLost" \in mishap'[r]
           \/ ~Undisturbed
           \/ Freed(r)
           \/ EnvelopeHeld(r) /\ budget' = budget - 1
    PROVE  EnvelopeFits(r)'
<1>1. /\ EnvelopeHeld(r)' = EnvelopeHeld(r) /\ Freed(r)' = Freed(r)
      /\ OwnedFits(r)' /\ budget \in Int /\ budget' \in Int
      /\ MaxEvents \in Int /\ budget' <= budget
      /\ MaxRetries \in Int /\ retries[r] \in 0 .. MaxRetries
      /\ Undisturbed' => Undisturbed
      /\ mishap[r] \subseteq mishap'[r]
  BY FrameKeeps, WorkflowAssumption DEF WorkFrame, EnvelopeFits, AllTypes,
     RunTypes
<1>2. /\ wf \in [Run -> {"none", "running", "completed", "failed"}]
      /\ at \in [Run -> At] /\ retries \in [Run -> 0 .. MaxRetries]
      /\ step \in [Run -> Retryable \union CursorStep \union {"none"}]
      /\ result \in [Run -> Results]
      /\ at[r] # "none" => step[r] # "none"
  BY DEF AllTypes, LeaseInv, CallInv, LeaseTypes, FlowTypes, RunTypes,
     StepAndPlace, PlaceFits
<1>3. /\ WorkerFits(r) /\ FinalizationFits(r) /\ wf[r] = "running"
      /\ starter[r] \notin BeforeStart
  BY DEF EnvelopeFits, StarterFits, WorkerFits
<1>4. StarterFits(r)'
  BY <1>3 DEF StarterFits, EnvelopeFits, WorkFrame, starterVars
<1>5. \/ /\ step[r] \in Retryable /\ retries[r] < MaxRetries
         /\ retries'[r] = retries[r] + 1
         /\ at'[r] = "assert" /\ step'[r] = step[r] /\ wf'[r] = "running"
         /\ result'[r] = "none"
      \/ /\ step[r] \in caught
         /\ retries'[r] = 0
         /\ at'[r] = "assert" /\ step'[r] = "fail" /\ wf'[r] = "running"
         /\ result'[r] = "none"
      \/ /\ step[r] \in Finalizing /\ retries[r] = MaxRetries
         /\ at'[r] = "none" /\ step'[r] = "none" /\ wf'[r] = "failed"
         /\ result'[r] = "none"
  <2>1. CASE step[r] \in Retryable /\ retries[r] < MaxRetries
    BY <1>2, <1>3, <2>1 DEF StepFails, StepAt
  <2>2. CASE ~(step[r] \in Retryable /\ retries[r] < MaxRetries)
    <3>1. CASE step[r] \in caught
      BY <1>2, <1>3, <2>2, <3>1 DEF StepFails, Schedule
    <3>2. CASE step[r] \notin caught
      <4>1. step[r] \in Finalizing /\ step[r] \in Retryable
        BY <1>2, <3>2 DEF caught, Finalizing, Retryable, CursorStep
      <4>2. retries[r] = MaxRetries
        BY <1>1, <2>2, <4>1
      <4> QED BY <1>2, <2>2, <3>2, <4>1, <4>2 DEF StepFails, End
    <3> QED BY <3>1, <3>2
  <2> QED BY <2>1, <2>2
<1>6. WorkerFits(r)'
  BY <1>1, <1>3, <1>5 DEF WorkerFits, Finalizing
<1>7. FinalizationFits(r)'
  <2> SUFFICES ASSUME Undisturbed', "stepLost" \notin mishap'[r]
               PROVE  /\ wf'[r] = "running" => EnvelopeHeld(r) \/ Freed(r)
                      /\ wf'[r] = "running" =>
                            Freed(r) \/ retries'[r] + budget' <= MaxEvents
                      /\ wf'[r] \in {"completed", "failed"} =>
                            Freed(r) \/ MaxRetries + budget' < MaxEvents
    BY <1>1, <1>5 DEF FinalizationFits
  <2>1. Freed(r) \/ (EnvelopeHeld(r) /\ budget' = budget - 1)
    <3>1. Undisturbed
      BY <1>1
    <3> QED BY <3>1
  <2>2. Freed(r) \/ retries[r] + budget <= MaxEvents
    BY <1>1, <1>3 DEF FinalizationFits
  <2>3. CASE Freed(r)
    BY <2>3
  <2>4. CASE ~Freed(r)
    <3>1. retries[r] + 1 + budget' <= MaxEvents
      BY <1>1, <2>1, <2>2, <2>4
    <3>2. /\ retries'[r] = retries[r] + 1 => retries'[r] + budget' <= MaxEvents
          /\ retries'[r] = 0 => retries'[r] + budget' <= MaxEvents
      BY <1>1, <3>1
    <3>3. retries[r] = MaxRetries => MaxRetries + budget' < MaxEvents
      BY <1>1, <3>1
    <3> QED BY <1>5, <2>1, <2>4, <3>2, <3>3
  <2> QED BY <2>3, <2>4
<1> QED BY <1>1, <1>4, <1>6, <1>7 DEF EnvelopeFits

\* The workflow goes on to another step.
LEMMA ScheduleEnvelope ==
    ASSUME AllTypes, NEW r \in Run, WorkFrame(r), EnvelopeFits(r),
           NEW next, NEW f, Schedule(r, next, f), at[r] # "none",
           step[r] \notin Finalizing
    PROVE  EnvelopeFits(r)'
<1>1. /\ EnvelopeHeld(r)' = EnvelopeHeld(r) /\ OwnedFits(r)'
      /\ Undisturbed' => Undisturbed
  BY FrameKeeps DEF WorkFrame, EnvelopeFits
<1>2. /\ wf'[r] = "running" /\ at'[r] = "assert" /\ retries'[r] = 0
      /\ result'[r] = "none" /\ starter[r] \notin BeforeStart
      /\ Undisturbed => EnvelopeHeld(r)
  BY DEF Schedule, EnvelopeFits, WorkerFits, StarterFits, AllTypes, LeaseInv,
     LeaseTypes, CallInv, FlowTypes, RunTypes
<1>3. StarterFits(r)'
  BY <1>2 DEF StarterFits, EnvelopeFits, WorkFrame, starterVars
<1>4. WorkerFits(r)'
  BY <1>1, <1>2 DEF WorkerFits
<1>5. FinalizationFits(r)'
  <2>1. budget' \in Int /\ budget' <= MaxEvents
    <3>1. budget \in 0 .. MaxEvents /\ MaxEvents \in Nat
      BY WorkflowAssumption DEF AllTypes, RunTypes
    <3>2. budget' \in Int /\ budget' <= budget
      BY FrameKeeps
    <3> QED BY <3>1, <3>2
  <2>2. retries'[r] + budget' <= MaxEvents
    BY <1>2, <2>1
  <2> QED BY <1>1, <1>2, <2>2 DEF FinalizationFits
<1> QED BY <1>1, <1>3, <1>4, <1>5 DEF EnvelopeFits

\* The workflow comes to its end.
LEMMA EndEnvelope ==
    ASSUME AllTypes, NEW r \in Run, WorkFrame(r), EnvelopeFits(r),
           NEW status \in {"completed", "failed"}, End(r, status),
           at[r] = "answer", step[r] \in Finalizing
    PROVE  EnvelopeFits(r)'
<1>1. Freed(r)' = Freed(r) /\ OwnedFits(r)'
  BY FrameKeeps DEF WorkFrame, EnvelopeFits
<1>2. /\ wf'[r] = status /\ at'[r] = "none" /\ step'[r] = "none"
      /\ result'[r] = "none" /\ starter[r] \notin BeforeStart
  BY DEF End, EnvelopeFits, WorkerFits, StarterFits, AllTypes, LeaseInv,
     LeaseTypes, CallInv, FlowTypes, RunTypes
<1>3. StarterFits(r)'
  BY <1>2 DEF StarterFits, EnvelopeFits, WorkFrame, starterVars
<1>4. WorkerFits(r)'
  BY <1>2 DEF WorkerFits
<1>5. FinalizationFits(r)'
  <2>1. Undisturbed /\ "stepLost" \notin mishap[r] => Freed(r)
    BY DEF EnvelopeFits, FinalizationFits
  <2>2. /\ Undisturbed' => Undisturbed
        /\ mishap[r] \subseteq mishap'[r]
        /\ Freed(r)' = Freed(r)
    BY FrameKeeps DEF WorkFrame
  <2> QED BY <1>2, <2>1, <2>2 DEF FinalizationFits
<1> QED BY <1>1, <1>3, <1>4, <1>5 DEF EnvelopeFits

\* The bodies of the steps.
LEMMA BodyEnvelope ==
    ASSUME AllTypes, NEW r \in Run, OnlyRun(r), EnvelopeFits(r),
           \/ AssertLease(r) /\ ~StepFails(r)
           \/ BeginStep(r) \/ ResetCursor(r) \/ Gate(r) \/ ProcessWindow(r)
           \/ CommitCursor(r) \/ RollbackOrphansPage(r)
           \/ RecordCompletion(r) \/ ForgetCursor(r) \/ RollbackWork(r)
           \/ Finalize(r) \/ RollbackThrows(r)
    PROVE  EnvelopeFits(r)'
<1>1. WorkFrame(r) /\ UNCHANGED <<wf, step, retries>>
  <2>1. UNCHANGED <<locks, starterVars, wf, step, retries>>
    BY DEF AssertLease, BeginStep, ResetCursor, Gate, ProcessWindow,
       CommitCursor, RollbackOrphansPage, RecordCompletion, ForgetCursor,
       RollbackWork, Finalize, RollbackThrows, stepFrame, storeVars, lockVars
  <2> QED BY <2>1, WorkFrames
<1>2. /\ at \in [Run -> At] /\ result \in [Run -> Results]
      /\ todo \in [Run -> SUBSET Definition] /\ PlaceFits(r)
      /\ result[r] = "error" => step[r] \in Finalizing
  BY DEF AllTypes, LeaseInv, LeaseTypes, CallInv, FlowTypes, StepAndPlace,
     EnvelopeFits, WorkerFits
<1> DEFINE Goal ==
        /\ at[r] \notin {"none", "release", "answer"} /\ at'[r] # "none"
        /\ at'[r] = "answer" => step[r] \notin Finalizing
        /\ at'[r] = "release" => todo'[r] = Scope[r]
        /\ result'[r] = "error" => step[r] \in Finalizing
<1>3. ASSUME AssertLease(r) /\ ~StepFails(r)
      PROVE  Goal
  <2>1. /\ at[r] = "assert" /\ at' = [at EXCEPT ![r] = executorCall(r)]
        /\ UNCHANGED result
    BY <1>3 DEF AssertLease, StepAt
  <2>2. executorCall(r) \in {"begin", "gate", "finalize"}
    BY DEF executorCall
  <2>3. at'[r] = executorCall(r)
    BY <1>2, <2>1
  <2> QED BY <1>2, <2>1, <2>2, <2>3
<1>4. ASSUME BeginStep(r)
      PROVE  Goal
  <2>1. at[r] = "begin" /\ step[r] \in {"begin", "rollback"}
    BY <1>2, <1>4 DEF BeginStep, PlaceFits
  <2>2. \/ at' = [at EXCEPT ![r] = "work"] /\ UNCHANGED result
        \/ at' = [at EXCEPT ![r] = "cursors"] /\ UNCHANGED result
        \/ /\ step[r] # "rollback"
           /\ at' = [at EXCEPT ![r] = "answer"]
           /\ result' = [result EXCEPT ![r] = "ok"]
    BY <1>4 DEF BeginStep, StepAt, Answer
  <2> QED BY <1>2, <2>1, <2>2 DEF Finalizing
<1>5. ASSUME ResetCursor(r)
      PROVE  Goal
  <2>1. at[r] = "cursors" /\ step[r] = "begin"
    BY <1>2, <1>5 DEF ResetCursor, PlaceFits
  <2>2. \/ UNCHANGED <<at, result>>
        \/ /\ at' = [at EXCEPT ![r] = "answer"]
           /\ result' = [result EXCEPT ![r] = "ok"]
    BY <1>5 DEF ResetCursor, StepAt, Answer
  <2> QED BY <1>2, <2>1, <2>2 DEF Finalizing
<1>6. ASSUME \/ Gate(r) \/ ProcessWindow(r) \/ CommitCursor(r)
             \/ RollbackOrphansPage(r) \/ RecordCompletion(r) \/ ForgetCursor(r)
      PROVE  Goal
  <2>1. /\ at[r] \in {"gate", "work", "commit", "finish", "forget"}
        /\ step[r] \in CursorStep
    BY <1>2, <1>6 DEF Gate, ProcessWindow, CommitCursor, RollbackOrphansPage,
       RecordCompletion, ForgetCursor, PlaceFits, CursorStep
  <2>2. \/ /\ UNCHANGED result
           /\ \E label \in {"work", "commit", "finish", "forget"} :
                    at' = [at EXCEPT ![r] = label]
        \/ /\ at' = [at EXCEPT ![r] = "answer"]
           /\ \E value \in {"cancelled", "continue", "failed", "succeeded"} :
                    result' = [result EXCEPT ![r] = value]
    BY <1>6 DEF Gate, ProcessWindow, CommitCursor, RollbackOrphansPage,
       RecordCompletion, ForgetCursor, StepAt, Answer
  <2> QED BY <1>2, <2>1, <2>2 DEF Finalizing, CursorStep
<1>7. ASSUME RollbackWork(r)
      PROVE  Goal
  <2>1. /\ at[r] = "work" /\ at' = [at EXCEPT ![r] = "finalize"]
        /\ \E s \in {"succeeded", "failed", "cancelled"} :
                result' = [result EXCEPT ![r] = s]
    BY <1>7 DEF RollbackWork, StepAt
  <2> QED BY <1>2, <2>1
<1>8. ASSUME Finalize(r)
      PROVE  Goal
  <2>1. /\ at[r] = "finalize" /\ at' = [at EXCEPT ![r] = "release"]
        /\ todo' = [todo EXCEPT ![r] = Scope[r]] /\ step[r] \in Finalizing
    BY <1>2, <1>8 DEF Finalize, StepAt, PlaceFits
  <2> QED BY <1>2, <2>1
<1>9. ASSUME RollbackThrows(r)
      PROVE  Goal
  <2>1. /\ at[r] \in {"begin", "work"} /\ step[r] \in Finalizing
        /\ \E label \in {"release", "finalize"} : at' = [at EXCEPT ![r] = label]
        /\ todo' = [todo EXCEPT ![r] = Scope[r]]
    BY <1>9 DEF RollbackThrows, StepAt, Finalizing
  <2> QED BY <1>2, <2>1
<1>10. Goal
  BY <1>3, <1>4, <1>5, <1>6, <1>7, <1>8, <1>9
<1> QED BY <1>1, <1>10, StaysEnvelope

LEMMA ReleaseLockEnvelope ==
    ASSUME AllTypes, NEW r \in Run, OnlyRun(r), EnvelopeFits(r), ReleaseLock(r)
    PROVE  EnvelopeFits(r)'
<1>1. /\ at \in [Run -> At] /\ todo \in [Run -> SUBSET Definition]
      /\ locks \in [Definition -> Lock]
      /\ at[r] = "release" /\ step[r] \in Finalizing
      /\ UNCHANGED <<starterVars, wf, step, retries, result, budget, mishap>>
  BY DEF AllTypes, LeaseInv, LeaseTypes, CallInv, FlowTypes, StepAndPlace,
     PlaceFits, ReleaseLock, stepFrame
<1>2. /\ OwnedFits(r) /\ StarterFits(r) /\ WorkerFits(r) /\ FinalizationFits(r)
      /\ Undisturbed' = Undisturbed
      /\ wf[r] = "running" /\ starter[r] \notin BeforeStart
  BY <1>1 DEF EnvelopeFits, Undisturbed, WorkerFits, StarterFits
<1>3. CASE todo[r] = {}
  <2>1. at'[r] = "answer" /\ UNCHANGED locks /\ todo'[r] = {}
    BY <1>1, <1>3 DEF ReleaseLock, StepAt, lockVars
  <2>2. OwnedFits(r)' /\ StarterFits(r)'
    BY <1>1, <1>2, <2>1 DEF OwnedFits, StarterFits, starterVars
  <2>3. WorkerFits(r)'
    BY <1>1, <1>2, <2>1 DEF WorkerFits
  <2>4. Freed(r)' = Freed(r)
    BY <2>1 DEF Freed
  <2>5. Undisturbed /\ "stepLost" \notin mishap[r] => Freed(r)
    BY <1>1, <1>2, <1>3 DEF FinalizationFits, Freed
  <2>6. FinalizationFits(r)'
    BY <1>1, <1>2, <2>1, <2>4, <2>5 DEF FinalizationFits
  <2> QED BY <2>2, <2>3, <2>6 DEF EnvelopeFits
<1>4. CASE todo[r] # {}
  <2>1. PICK d \in todo[r] : /\ releaseDefinitionLock(d, lease[r][d])
                             /\ todo' = [todo EXCEPT ![r] = @ \ {d}]
                             /\ UNCHANGED at
    BY <1>4 DEF ReleaseLock
  <2>2. /\ todo'[r] = todo[r] \ {d} /\ at'[r] = "release"
        /\ \A e \in Definition : locks'[e].ownerRunId = r =>
                                    locks'[e] = locks[e] /\ e # d
        /\ Freed(r) => Freed(r)'
    BY <1>1, <1>2, <2>1, ReleaseLeaves
  <2>3. OwnedFits(r)' /\ StarterFits(r)'
    <3>1. OwnedFits(r)'
      BY <1>1, <1>2, <2>2 DEF OwnedFits, starterVars
    <3>2. StarterFits(r)'
      BY <1>1, <1>2 DEF StarterFits, starterVars
    <3> QED BY <3>1, <3>2
  <2>4. WorkerFits(r)'
    BY <1>1, <1>2, <2>2 DEF WorkerFits
  <2>5. FinalizationFits(r)'
    BY <1>1, <1>2, <2>2 DEF FinalizationFits
  <2> QED BY <2>3, <2>4, <2>5 DEF EnvelopeFits
<1> QED BY <1>3, <1>4

\* Steps whose execution fails or is lost.
LEMMA FailureEnvelope ==
    ASSUME AllTypes, NEW r \in Run, OnlyRun(r), EnvelopeFits(r),
           \/ AssertLease(r) /\ StepFails(r)
           \/ StepThrows(r) \/ WorkerCrash(r)
    PROVE  EnvelopeFits(r)'
<1>1. WorkFrame(r)
  <2>1. UNCHANGED <<locks, starterVars>>
    BY DEF AssertLease, StepThrows, WorkerCrash, storeVars
  <2> QED BY <2>1, WorkFrames
<1>2. /\ StepFails(r) /\ at[r] # "none" /\ wf[r] = "running"
      /\ mishap[r] \subseteq mishap'[r]
  BY <1>1 DEF StepThrows, WorkerCrash, AssertLease, WorkFrame, EnvelopeFits,
              WorkerFits
<1>3. \/ "stepLost" \in mishap'[r] \/ ~Undisturbed
      \/ at[r] \in {"release", "answer"} \/ EnvelopeHeld(r) \/ Freed(r)
  BY <1>2 DEF EnvelopeFits, FinalizationFits
<1>4. CASE AssertLease(r) /\ StepFails(r)
  <2>1. at[r] = "assert"
    BY <1>4 DEF AssertLease
  <2>2. ~EnvelopeHeld(r)
    <3> SUFFICES ASSUME EnvelopeHeld(r) PROVE FALSE
      OBVIOUS
    <3>1. /\ UNCHANGED <<wf, step, retries, result>>
          /\ at' = [at EXCEPT ![r] = executorCall(r)]
      BY <1>4 DEF AssertLease, EnvelopeHeld, StepAt
    <3>2. executorCall(r) \in {"begin", "gate", "finalize"}
      BY DEF executorCall
    <3>3. at'[r] = executorCall(r) /\ step'[r] = step[r]
      BY <3>1 DEF AllTypes, LeaseInv, LeaseTypes
    <3>4. at'[r] \in {"assert", "none"}
      <4>1. PICK label \in {"assert", "none"} : at' = [at EXCEPT ![r] = label]
        BY <1>4, StepFailsMoves
      <4> QED BY <4>1 DEF AllTypes, LeaseInv, LeaseTypes
    <3> QED BY <3>2, <3>3, <3>4
  <2> QED BY <1>1, <1>2, <1>3, <2>1, <2>2, StepFailsEnvelope
<1>5. CASE StepThrows(r)
  <2>1. at[r] \notin {"release", "answer"} /\ budget' = budget - 1
    BY <1>5 DEF StepThrows, Fault, Spend
  <2> QED BY <1>1, <1>2, <1>3, <2>1, StepFailsEnvelope
<1>6. CASE WorkerCrash(r)
  <2>1. "stepLost" \in mishap'[r]
    BY <1>6 DEF WorkerCrash, Note, AllTypes, LeaseInv, LeaseTypes
  <2> QED BY <1>1, <1>2, <2>1, StepFailsEnvelope
<1> QED BY <1>4, <1>5, <1>6

LEMMA StepAnswersEnvelope ==
    ASSUME AllTypes, NEW r \in Run, OnlyRun(r), EnvelopeFits(r), StepAnswers(r)
    PROVE  EnvelopeFits(r)'
<1>1. WorkFrame(r) /\ at[r] = "answer"
  BY WorkFrames DEF StepAnswers, storeVars
<1>2. /\ WorkerFits(r) /\ FinalizationFits(r) /\ PlaceFits(r)
      /\ step[r] \in Retryable \union CursorStep \union {"none"}
  BY DEF EnvelopeFits, AllTypes, CallInv, StepAndPlace, FlowTypes
<1>3. CASE result[r] = "error"
  <2>1. StepFails(r) /\ step[r] \in Finalizing
    BY <1>2, <1>3 DEF StepAnswers, WorkerFits
  <2>2. \/ "stepLost" \in mishap[r] \/ ~Undisturbed \/ Freed(r)
    BY <1>1, <1>2, <2>1 DEF FinalizationFits
  <2>3. mishap[r] \subseteq mishap'[r]
    BY <1>1 DEF WorkFrame
  <2> QED BY <1>1, <2>1, <2>2, <2>3, StepFailsEnvelope
<1>4. CASE result[r] # "error"
  <2>1. CASE step[r] \in Finalizing
    <3>1. \E status \in {"completed", "failed"} : End(r, status)
      BY <1>4, <2>1 DEF StepAnswers, Finalizing
    <3> QED BY <1>1, <2>1, <3>1, EndEnvelope
  <2>2. CASE step[r] \notin Finalizing
    <3>1. step[r] \in {"begin", "window", "orphans"}
      BY <1>1, <1>2, <2>2 DEF Retryable, CursorStep, Finalizing, PlaceFits
    <3>2. ASSUME NEW f, AfterDefinition(r, f)
          PROVE  \E next, g : Schedule(r, next, g)
      BY <3>2 DEF AfterDefinition
    <3>3. \E next, g : Schedule(r, next, g)
      BY <1>4, <3>1, <3>2 DEF StepAnswers, AfterWindow, AfterOrphans
    <3> QED BY <1>1, <2>2, <3>3, ScheduleEnvelope
  <2> QED BY <2>1, <2>2
<1> QED BY <1>3, <1>4

\* Those who watch and stop runs, and a step that does nothing to it.
LEMMA WatchedEnvelope ==
    ASSUME AllTypes, NEW r \in Run, OnlyRun(r), EnvelopeFits(r),
           UNCHANGED <<locks, starterVars, wf, step, at, retries, result, todo>>
    PROVE  EnvelopeFits(r)'
<1>1. WorkFrame(r)
  BY WorkFrames
<1>2. /\ EnvelopeHeld(r)' = EnvelopeHeld(r) /\ Freed(r)' = Freed(r)
      /\ OwnedFits(r)' /\ budget \in Int /\ budget' \in Int
      /\ MaxEvents \in Int /\ budget' <= budget
      /\ retries[r] \in Int /\ MaxRetries \in Int
  <2>1. retries[r] \in Int /\ MaxRetries \in Int
    BY WorkflowAssumption DEF AllTypes, RunTypes
  <2>2. OwnedFits(r) /\ budget \in Int /\ MaxEvents \in Int
    BY <1>1 DEF WorkFrame, EnvelopeFits
  <2> QED BY <1>1, <2>1, <2>2, FrameKeeps
<1>3. /\ retries[r] + budget <= MaxEvents => retries[r] + budget' <= MaxEvents
      /\ MaxRetries + budget < MaxEvents => MaxRetries + budget' < MaxEvents
  BY <1>2, Spending
<1>4. /\ Undisturbed' => Undisturbed
      /\ mishap[r] \subseteq mishap'[r]
      /\ StarterFits(r) /\ WorkerFits(r) /\ FinalizationFits(r)
  BY <1>1 DEF WorkFrame, EnvelopeFits
<1>5. StarterFits(r)'
  BY <1>4 DEF StarterFits, starterVars
<1>6. WorkerFits(r)'
  BY <1>2, <1>4 DEF WorkerFits
<1>7. FinalizationFits(r)'
  <2>1. \A d \in Definition : (locks'[d].ownerRunId = r => d \in todo'[r])
                              = (locks[d].ownerRunId = r => d \in todo[r])
    OBVIOUS
  <2> QED BY <1>2, <1>3, <1>4, <2>1 DEF FinalizationFits
<1> QED BY <1>2, <1>5, <1>6, <1>7 DEF EnvelopeFits

\* An operator clears a lock.
LEMMA UnlockEnvelope ==
    ASSUME AllTypes, AllTypes', EnvelopeInv, NEW d \in Definition, Unlock(d)
    PROVE  EnvelopeInv'
<1> SUFFICES ASSUME NEW r \in Run PROVE EnvelopeFits(r)'
  BY DEF EnvelopeInv
<1>1. /\ UNCHANGED <<starterVars, stepVars>> /\ ~Undisturbed'
      /\ \A e \in Definition : locks'[e] = locks[e] \/ locks'[e] = NoLock
  BY UnlockTouches
<1>2. EnvelopeFits(r)
  BY DEF EnvelopeInv
<1>3. OwnedFits(r)'
  <2>1. ASSUME NEW e \in Definition, locks'[e].ownerRunId = r
        PROVE  locks'[e] = locks[e]
    <3>1. locks'[e] # NoLock
      <4>1. NoLock.ownerRunId # r
        BY MigrationStoreAssumption DEF NoLock
      <4> QED BY <2>1, <4>1
    <3> QED BY <1>1, <3>1
  <2>2. OwnedFits(r) /\ lease' = lease
    BY <1>1, <1>2 DEF EnvelopeFits, starterVars
  <2> QED BY <2>1, <2>2 DEF OwnedFits
<1>4. StarterFits(r)' /\ WorkerFits(r)' /\ FinalizationFits(r)'
  BY <1>1, <1>2 DEF EnvelopeFits, StarterFits, WorkerFits, FinalizationFits,
     starterVars, stepVars
<1> QED BY <1>3, <1>4 DEF EnvelopeFits

\* Cursors are reset in the run's scope, and committed at a window that is not
\* the last one.
LEMMA NextCursorsFit ==
    ASSUME AllTypes, NEW r \in Run, OnlyRun(r),
           \/ Start(r) \/ StarterCrash(r) \/ Work(r) \/ StepThrows(r)
           \/ RollbackThrows(r) \/ WorkerCrash(r) \/ ObserveTerminal(r)
           \/ RequestStop(r)
    PROVE  CursorsFit'
<1> DEFINE Fits(s) == /\ at[s] = "cursors" => todo[s] \subseteq Scope[s]
                      /\ at[s] = "commit" => /\ window[s] \in 1 .. Windows - 1
                                             /\ step[s] = "window"
<1>1. /\ at \in [Run -> At] /\ todo \in [Run -> SUBSET Definition]
      /\ window \in [Run -> 0 .. Windows]
      /\ cursor \in [Definition -> 0 .. Windows - 1]
      /\ Windows \in Nat \ {0} /\ Fits(r)
  BY WorkflowAssumption DEF AllTypes, LeaseInv, LeaseTypes, CallInv, FlowTypes,
     RunTypes, CursorsFit
<1>2. ASSUME NEW s \in Run \ {r} PROVE Fits(s)'
  BY DEF OnlyRun, Untouched, AllTypes, CursorsFit
<1>3. ASSUME UNCHANGED <<at, todo, window, step>>
      PROVE  Fits(r)'
  BY <1>1, <1>3
<1>4. ASSUME \E label : /\ label \notin {"cursors", "commit"}
                        /\ at' = [at EXCEPT ![r] = label]
      PROVE  Fits(r)'
  BY <1>1, <1>4
<1>5. ASSUME BeginStep(r)
      PROVE  Fits(r)'
  <2>1. \/ \E label \in {"work", "answer"} : at' = [at EXCEPT ![r] = label]
        \/ /\ at' = [at EXCEPT ![r] = "cursors"]
           /\ todo' = [todo EXCEPT ![r] = Scope[r]]
    BY <1>5 DEF BeginStep, StepAt, Answer
  <2> QED BY <1>1, <1>4, <2>1
<1>6. ASSUME ResetCursor(r)
      PROVE  Fits(r)'
  <2>1. /\ at[r] = "cursors"
        /\ UNCHANGED at \/ at' = [at EXCEPT ![r] = "answer"]
        /\ \E d : todo' = [todo EXCEPT ![r] = @ \ {d}]
    BY <1>6 DEF ResetCursor, Answer, StepAt
  <2> QED BY <1>1, <1>4, <2>1
<1>7. ASSUME ProcessWindow(r)
      PROVE  Fits(r)'
  <2> DEFINE w == cursor[Current(r)] + 1
  <2>1. \/ \E label \in {"finish", "answer"} : at' = [at EXCEPT ![r] = label]
        \/ /\ at' = [at EXCEPT ![r] = "commit"] /\ w < Windows
           /\ window' = [window EXCEPT ![r] = w] /\ UNCHANGED step
           /\ step[r] = "window"
    BY <1>7 DEF ProcessWindow, StepAt, Answer, stepFrame
  <2>2. Current(r) \in Definition
    BY <1>7, CurrentInScope, ScopeIsDefined
       DEF ProcessWindow, AllTypes, CursorStep
  <2>3. w \in Int /\ 1 <= w /\ (w < Windows => w \in 1 .. Windows - 1)
    BY <1>1, <2>2
  <2> HIDE DEF w
  <2> QED BY <1>1, <1>4, <2>1, <2>3
<1>8. ASSUME \/ Start(r) \/ StarterCrash(r) \/ ObserveTerminal(r)
             \/ RequestStop(r)
      PROVE  Fits(r)'
  <2>1. \/ UNCHANGED stepVars \/ ProviderAccepts(r)
        \/ UNCHANGED <<at, todo, window, step>>
    BY <1>8 DEF Start, StartPlan, AcquireLock, Preflight, Queue, StartWorkflow,
       MarkStartFailed, ReleaseAfterRejection, AttachExecution, StarterCrash,
       ObserveTerminal, RequestStop
  <2> QED BY <1>3, <1>4, <2>1 DEF stepVars, ProviderAccepts
<1>9. ASSUME StepAnswers(r) \/ StepFails(r)
      PROVE  Fits(r)'
  <2>1. \E label \in {"assert", "none"} : at' = [at EXCEPT ![r] = label]
    BY <1>9, StepAnswersMoves, StepFailsMoves
  <2> QED BY <1>4, <2>1
<1>10. ASSUME \/ AssertLease(r) /\ ~StepFails(r)
              \/ Gate(r) \/ CommitCursor(r) \/ RollbackOrphansPage(r)
              \/ RecordCompletion(r) \/ ForgetCursor(r) \/ RollbackWork(r)
              \/ Finalize(r) \/ RollbackThrows(r)
      PROVE  Fits(r)'
  <2>1. \E label : /\ label \notin {"cursors", "commit"}
                   /\ at' = [at EXCEPT ![r] = label]
    BY <1>10 DEF AssertLease, executorCall, Gate, CommitCursor,
       RollbackOrphansPage, RecordCompletion, ForgetCursor, RollbackWork,
       Finalize, RollbackThrows, StepAt, Answer
  <2> QED BY <1>4, <2>1
<1>11. ASSUME ReleaseLock(r)
      PROVE  Fits(r)'
  <2>1. /\ at[r] = "release"
        /\ UNCHANGED at \/ at' = [at EXCEPT ![r] = "answer"]
    BY <1>11 DEF ReleaseLock, StepAt
  <2> QED BY <1>1, <1>4, <2>1
<1>12. Fits(r)'
  <2>1. CASE StepThrows(r) \/ WorkerCrash(r)
    BY <1>9, <2>1 DEF StepThrows, WorkerCrash
  <2> HIDE DEF Fits
  <2>2. CASE Work(r)
    BY <1>5, <1>6, <1>7, <1>9, <1>10, <1>11, <2>2 DEF Work
  <2> QED BY <1>8, <1>10, <2>1, <2>2
<1> QED BY <1>2, <1>12 DEF CursorsFit

LEMMA InitAllTypes == Init => AllTypes
<1> SUFFICES ASSUME Init PROVE AllTypes
  OBVIOUS
<1>1. LeaseInv /\ CallInv
  BY InitLeaseInv, InitCallInv
<1>2. StoreTypeOK
  BY DEF Init, StoreInit, StoreTypeOK, RunRecord, Projection, Lock, NoRecord,
     NoProjection, NoLock
<1>3. RunTypes
  <2>1. 0 \in 0 .. MaxRetries /\ MaxEvents \in 0 .. MaxEvents /\ 0 \in 0 .. Windows
    BY WorkflowAssumption
  <2>2. kind \in [Run -> {"run", "rescan", "orphans", "rollback"}]
    BY WorkflowAssumption DEF Init
  <2> QED BY <2>1, <2>2 DEF Init, RunTypes
<1>4. CursorsFit
  BY DEF Init, CursorsFit
<1> QED BY <1>1, <1>2, <1>3, <1>4 DEF AllTypes

LEMMA NextTouches ==
    ASSUME AllTypes, NEW r \in Run,
           \/ Start(r) \/ StarterCrash(r) \/ Work(r) \/ StepThrows(r)
           \/ RollbackThrows(r) \/ WorkerCrash(r) \/ ObserveTerminal(r)
           \/ RequestStop(r)
    PROVE  OnlyRun(r) /\ RunTypes'
BY StartTouches, WorkTouches, OtherTouches

LEMMA NextAllTypes ==
    AllTypes /\ [Next]_vars /\ StoreTypeOK' => AllTypes'
<1> SUFFICES ASSUME AllTypes, [Next]_vars, StoreTypeOK' PROVE AllTypes'
  OBVIOUS
<1>1. LeaseInv' /\ CallInv'
  BY NextLeaseInv, NextCallInv DEF AllTypes
<1>2. RunTypes' /\ CursorsFit'
  <2>1. CASE \E r \in Run :
              \/ Start(r) \/ StarterCrash(r) \/ Work(r) \/ StepThrows(r)
              \/ RollbackThrows(r) \/ WorkerCrash(r) \/ ObserveTerminal(r)
              \/ RequestStop(r)
    BY <2>1, NextTouches, NextCursorsFit
  <2>2. CASE \E d \in Definition : Unlock(d)
    BY <2>2, UnlockTouches DEF CursorsFit, AllTypes, stepVars
  <2>3. CASE UNCHANGED vars
    BY <2>3 DEF vars, starterVars, stepVars, sourceVars, AllTypes, RunTypes,
                CursorsFit
  <2> QED BY <2>1, <2>2, <2>3 DEF Next
<1> QED BY <1>1, <1>2 DEF AllTypes

LEMMA NextEnvelopeInv ==
    AllTypes /\ AllTypes' /\ EnvelopeInv /\ [Next]_vars => EnvelopeInv'
<1> SUFFICES ASSUME AllTypes, AllTypes', EnvelopeInv, [Next]_vars
             PROVE  EnvelopeInv'
  OBVIOUS
<1>1. ASSUME NEW r \in Run,
             \/ Start(r) \/ StarterCrash(r) \/ Work(r) \/ StepThrows(r)
             \/ RollbackThrows(r) \/ WorkerCrash(r) \/ ObserveTerminal(r)
             \/ RequestStop(r)
      PROVE  EnvelopeInv'
  <2>1. OnlyRun(r) /\ EnvelopeFits(r)
    BY <1>1, NextTouches DEF EnvelopeInv
  <2>2. CASE Start(r) \/ StarterCrash(r)
    <3>1. EnvelopeFits(r)'
      BY <2>1, <2>2, AcquireLockEnvelope, ReleaseAfterRejectionEnvelope,
         StarterEnvelope, AcceptedEnvelope DEF Start
    <3> QED BY <2>1, <3>1, OnlyRunFits
  <2>3. CASE Work(r) \/ StepThrows(r) \/ RollbackThrows(r) \/ WorkerCrash(r)
    <3>1. EnvelopeFits(r)'
      BY <2>1, <2>3, BodyEnvelope, ReleaseLockEnvelope, FailureEnvelope,
         StepAnswersEnvelope DEF Work
    <3> QED BY <2>1, <3>1, OnlyRunFits
  <2>4. CASE ObserveTerminal(r) \/ RequestStop(r)
    <3>1. UNCHANGED <<locks, starterVars, wf, step, at, retries, result, todo>>
      BY <2>4 DEF ObserveTerminal, RequestStop, storeVars, lockVars, stepVars
    <3>2. EnvelopeFits(r)'
      BY <2>1, <3>1, WatchedEnvelope
    <3> QED BY <2>1, <3>2, OnlyRunFits
  <2> QED BY <1>1, <2>2, <2>3, <2>4
<1>2. ASSUME NEW d \in Definition, Unlock(d) PROVE EnvelopeInv'
  BY <1>2, UnlockEnvelope
<1>3. CASE UNCHANGED vars
  <2> SUFFICES ASSUME NEW r \in Run PROVE EnvelopeFits(r)'
    BY DEF EnvelopeInv
  <2>1. /\ UNCHANGED <<locks, starterVars, wf, step, at, retries, result, todo>>
        /\ EnvelopeFits(r) /\ OnlyRun(r)
    BY <1>3 DEF vars, storeVars, starterVars, stepVars, sourceVars, EnvelopeInv,
       OnlyRun, Untouched, AllTypes, MishapGrows, LeaseInv, LeaseTypes
  <2> QED BY <2>1, WatchedEnvelope
<1> QED BY <1>1, <1>2, <1>3 DEF Next

\* The records of runs keep their types.
LEMMA WorkflowStoreTypes == Spec => []StoreTypeOK
BY WorkflowImplementsStore, StoreTypeCorrect, PTL

LEMMA WorkflowTypes == Spec => []AllTypes
BY WorkflowStoreTypes, InitAllTypes, NextAllTypes, PTL DEF Spec

LEMMA WorkflowEnvelopes == Spec => []EnvelopeInv
BY WorkflowTypes, InitEnvelopeInv, NextEnvelopeInv, PTL DEF Spec

\* For any runs, plans and bounds: a workflow that ended holds no lock, however
\* often calls failed, as long as they failed no more often than the provider
\* retries a step, no worker was lost, and nobody else disturbed the runs
\* (finalizeMigrationRunExecutionState releases whatever the transition did).
THEOREM WorkflowEndedFreesLocks == Spec => []EndedWorkflowFreesLocks
<1>1. AllTypes /\ EnvelopeInv => EndedWorkflowFreesLocks
  <2> SUFFICES ASSUME AllTypes, EnvelopeInv, NEW r \in Run,
                      wf[r] \in {"completed", "failed"},
                      mishap[r] \subseteq {"fault"}, Undisturbed,
                      MaxEvents - budget <= MaxRetries
               PROVE  Freed(r)
    BY DEF EndedWorkflowFreesLocks, Freed
  <2>1. Freed(r) \/ MaxRetries + budget < MaxEvents
    BY DEF EnvelopeInv, EnvelopeFits, FinalizationFits
  <2>2. budget \in Int /\ MaxRetries \in Int /\ MaxEvents \in Int
    BY WorkflowAssumption DEF AllTypes, RunTypes
  <2> QED BY <2>1, <2>2
<1> QED BY <1>1, WorkflowTypes, WorkflowEnvelopes, PTL

-----------------------------------------------------------------------------
(* The windows a run has settled, and what it counts *)

\* The windows S are those from some window on up to w, and n is how many they
\* are.
Contiguous(S, n, w) == \E a \in 0 .. w : S = a + 1 .. w /\ n + a = w

LEMMA ContiguousFrom ==
    ASSUME NEW w \in Nat
    PROVE  Contiguous({}, 0, w)
<1>1. w \in 0 .. w /\ {} = w + 1 .. w /\ 0 + w = w
  OBVIOUS
<1> QED BY <1>1 DEF Contiguous

LEMMA ContiguousGrows ==
    ASSUME NEW w \in Nat, NEW S, NEW n \in Nat, Contiguous(S, n, w)
    PROVE  /\ Contiguous(S \union {w + 1}, n + 1, w + 1)
           /\ S = 1 .. w => S \union {w + 1} = 1 .. w + 1
<1>1. PICK a \in 0 .. w : S = a + 1 .. w /\ n + a = w
  BY DEF Contiguous
<1>2. a \in 0 .. w + 1 /\ n + 1 + a = w + 1
  BY <1>1
<1>3. S \union {w + 1} = a + 1 .. w + 1
  BY <1>1
<1>4. S = 1 .. w => S \union {w + 1} = 1 .. w + 1
  OBVIOUS
<1> QED BY <1>2, <1>3, <1>4 DEF Contiguous

LEMMA ContiguousCounts ==
    ASSUME NEW w \in Nat, NEW S, NEW n \in Nat, Contiguous(S, n, w)
    PROVE  n = Cardinality(S)
<1>1. PICK a \in 0 .. w : S = a + 1 .. w /\ n + a = w
  BY DEF Contiguous
<1>2. a + 1 \in Int /\ w \in Int
  BY <1>1
<1>3. Cardinality(a + 1 .. w) = IF a + 1 > w THEN 0 ELSE w - (a + 1) + 1
  BY <1>2, FS_Interval
<1> QED BY <1>1, <1>3

-----------------------------------------------------------------------------
(* The status of a run's record *)

Live == {"none", "queued", "running", "succeeded"}

\* A run that is stopped, failed or cancelled does not come back.
StatusFits(old, new) ==
    /\ new \in Live => old \in Live
    /\ old # "none" => new # "none"

LEMMA StatusMoves ==
    ASSUME StoreTypeOK, NEW r \in Run, NEW D,
           \/ queueRun(r) \/ attachRunExecution(r)
           \/ markRunStartFailed(r) \/ markRunCancelled(r)
           \/ failRun(r, D) \/ requestRunCancellation(r)
           \/ UNCHANGED lifecycleVars
    PROVE  /\ StatusFits(getRunState(r), getRunState(r)')
           /\ getRunState(r)' = "succeeded" => getRunState(r) = "succeeded"
<1> DEFINE Goal(new) ==
        /\ StatusFits(getRunState(r), new)
        /\ new = "succeeded" => getRunState(r) = "succeeded"
<1>0. /\ getRunState(r) \in RunStatus \union {"none"}
      /\ runs \in [Run -> RunRecord]
  BY DEF StoreTypeOK, RunRecord, getRunState
<1>1. ASSUME NEW requested \in {"queued", "start-failed", "cancelled", "failed"}
      PROVE  LET decision == resolveMigrationRunTransition(getRunState(r),
                                                           requested, FALSE)
             IN Goal(IF decision.accepted THEN decision.status
                     ELSE getRunState(r))
  BY <1>0 DEF resolveMigrationRunTransition, Decision, OrCurrent, ActiveStatus,
              TerminalStatus, RunStatus, StatusFits, Live
<1>2. ASSUME NEW requested \in {"queued", "start-failed", "cancelled", "failed"},
             NEW outcomes,
             \/ writeRunState(r, requested)
             \/ updateRunState(r, requested, FALSE, outcomes)
      PROVE  Goal(getRunState(r)')
  <2>1. LET decision == resolveMigrationRunTransition(getRunState(r),
                                                      requested, FALSE)
        IN getRunState(r)' = IF decision.accepted THEN decision.status
                             ELSE getRunState(r)
    BY <1>2, StatusWritten
  <2> QED BY <1>1, <2>1
<1>3. CASE UNCHANGED lifecycleVars
  BY <1>3 DEF lifecycleVars, getRunState, StatusFits
<1>4. CASE attachRunExecution(r)
  <2>1. runs'[r].status = runs[r].status
    BY <1>0, <1>4 DEF attachRunExecution, lifecycleVars, RunRecord
  <2> QED BY <2>1 DEF getRunState, StatusFits
<1>5. CASE requestRunCancellation(r)
  <2>1. \/ runs'[r].status = runs[r].status
        \/ runs'[r].status = "cancelling"
    BY <1>0, <1>5 DEF requestRunCancellation, lifecycleVars, RunRecord
  <2> QED BY <2>1 DEF getRunState, StatusFits, Live
<1>6. CASE queueRun(r)
  BY <1>2, <1>6 DEF queueRun
<1>7. CASE markRunStartFailed(r)
  BY <1>2, <1>7 DEF markRunStartFailed
<1>8. CASE markRunCancelled(r)
  BY <1>2, <1>8 DEF markRunCancelled
<1>9. CASE failRun(r, D)
  BY <1>2, <1>9 DEF failRun
<1> QED BY <1>3, <1>4, <1>5, <1>6, <1>7, <1>8, <1>9

\* A run that is queued has a record afterwards, whatever became of it.
LEMMA QueueStatus ==
    ASSUME StoreTypeOK, NEW r \in Run, queueRun(r)
    PROVE  getRunState(r)' # "none"
<1>0. getRunState(r) \in RunStatus \union {"none"}
  BY DEF StoreTypeOK, RunRecord, getRunState
<1>1. LET decision == resolveMigrationRunTransition(getRunState(r), "queued",
                                                    FALSE)
      IN getRunState(r)' = IF decision.accepted THEN decision.status
                           ELSE getRunState(r)
  BY StatusWritten DEF queueRun
<1> QED BY <1>0, <1>1 DEF resolveMigrationRunTransition, Decision, OrCurrent,
           ActiveStatus, TerminalStatus, RunStatus

\* A run begins unless it was stopped or is over.
LEMMA BeginStatus ==
    ASSUME StoreTypeOK, NEW r \in Run, beginRun(r)
    PROVE  /\ StatusFits(getRunState(r), getRunState(r)')
           /\ getRunState(r)' \in Live =>
                \/ getRunState(r)' = "running"
                \/ getRunState(r)' = "succeeded" /\ getRunState(r) = "succeeded"
<1>0. getRunState(r) \in RunStatus \union {"none"}
  BY DEF StoreTypeOK, RunRecord, getRunState
<1>1. LET decision == resolveMigrationRunTransition(getRunState(r), "running",
                                                    FALSE)
      IN getRunState(r)' = IF decision.accepted THEN decision.status
                           ELSE getRunState(r)
  BY StatusWritten DEF beginRun
<1> QED BY <1>0, <1>1 DEF resolveMigrationRunTransition, Decision, OrCurrent,
           ActiveStatus, TerminalStatus, RunStatus, StatusFits, Live

LEMMA CompleteStatus ==
    ASSUME StoreTypeOK, NEW r \in Run, NEW D, completeRun(r, D)
    PROVE  StatusFits(getRunState(r), getRunState(r)')
<1>0. getRunState(r) \in RunStatus \union {"none"}
  BY DEF StoreTypeOK, RunRecord, getRunState
<1>1. LET decision == resolveMigrationRunTransition(getRunState(r), "succeeded",
                                                    TRUE)
      IN getRunState(r)' = IF decision.accepted THEN decision.status
                           ELSE getRunState(r)
  BY StatusWritten DEF completeRun
<1> QED BY <1>0, <1>1 DEF resolveMigrationRunTransition, Decision, OrCurrent,
           ActiveStatus, TerminalStatus, RunStatus, StatusFits, Live

-----------------------------------------------------------------------------
(* What a run has settled when it is where in its plan *)

Resets(r) == kind[r] \in {"rescan", "orphans"}

\* Run r has settled the windows of definition d up to w, and counts them.
Scanned(r, d, w) ==
    /\ Contiguous(scanned[r][d], flow[r].counted[d], w)
    /\ Resets(r) => scanned[r][d] = 1 .. w

AllScanned(r) == \A d \in Scope[r] : Scanned(r, d, Windows)

Fresh(r, d) == scanned[r][d] = {} /\ flow[r].counted[d] = 0

\* Its cursor is where the run starts to scan.
Ready(r, d) == Fresh(r, d) /\ (Resets(r) => cursor[d] = 0)

BeginFits(r) ==
    /\ flow[r].index = 1
    /\ \A d \in Scope[r] : Fresh(r, d)
    /\ at[r] = "cursors" => \A d \in Scope[r] \ todo[r] : Ready(r, d)
    /\ at[r] = "answer" => \A d \in Scope[r] : Ready(r, d)

\* Up to where the current definition is scanned.
CurrentFits(r) ==
    /\ at[r] \in {"assert", "gate", "work"} =>
            Scanned(r, Current(r), cursor[Current(r)])
    /\ at[r] = "commit" => Scanned(r, Current(r), window[r])
    /\ at[r] \in {"finish", "forget"} => Scanned(r, Current(r), Windows)
    /\ at[r] = "answer" =>
        /\ result[r] # "cancelled"
        /\ result[r] = "continue" => Scanned(r, Current(r), cursor[Current(r)])
        /\ result[r] \in {"succeeded", "failed"} =>
                Scanned(r, Current(r), Windows)

WindowFits(r) ==
    /\ flow[r].index \in 1 .. Len(Plan[r])
    /\ \A i \in 1 .. Len(Plan[r]) :
        /\ i < flow[r].index => Scanned(r, Plan[r][i], Windows)
        /\ i > flow[r].index => Ready(r, Plan[r][i])
    /\ CurrentFits(r)

\* As long as nobody disturbs the runs and the run is not stopped or failed.
PlanFits(r) ==
    /\ step[r] = "begin" => BeginFits(r)
    /\ step[r] = "window" => WindowFits(r)
    /\ step[r] \in {"orphans", "complete"} =>
            flow[r].index > Len(Plan[r]) /\ AllScanned(r)
    /\ getRunState(r) = "succeeded" => AllScanned(r)

\* A run has a record when it has a workflow, which succeeds in its last step.
RecordFits(r) ==
    /\ starter[r] = "start" \/ wf[r] # "none" => getRunState(r) # "none"
    /\ kind[r] # "rollback" =>
        /\ step[r] # "rollback"
        /\ wf[r] = "none" =>
            flow[r].index = 1 /\ \A d \in Scope[r] : Fresh(r, d)
        /\ getRunState(r) = "succeeded" =>
            wf[r] # "none" /\ step[r] \in {"complete", "none"}

Good(r) == kind[r] # "rollback" /\ Undisturbed /\ getRunState(r) \in Live

ScanFits(r) == RecordFits(r) /\ (Good(r) => PlanFits(r))

ScanInv == \A r \in Run : ScanFits(r)

LEMMA InitScanInv == Init => ScanInv
<1> SUFFICES ASSUME Init, NEW r \in Run PROVE ScanFits(r)
  BY DEF ScanInv
<1>1. /\ starter[r] = "idle" /\ wf[r] = "none" /\ step[r] = "none"
      /\ flow[r].index = 1 /\ getRunState(r) = "none"
  BY DEF Init, StoreInit, getRunState, NoRecord
<1>2. \A d \in Scope[r] : Fresh(r, d)
  BY ScopeIsDefined DEF Init, Fresh
<1> QED BY <1>1, <1>2 DEF ScanFits, RecordFits, PlanFits

\* What a run has settled does not change with what else happens.
SameScan(r) ==
    /\ kind' = kind /\ scanned'[r] = scanned[r]
    /\ flow'[r].counted = flow[r].counted

LEMMA SameScanned ==
    ASSUME NEW r, SameScan(r)
    PROVE  /\ Resets(r)' = Resets(r)
           /\ \A d : Fresh(r, d)' = Fresh(r, d)
           /\ AllScanned(r)' = AllScanned(r)
           /\ \A d, w : Scanned(r, d, w) =>
                /\ Contiguous(scanned'[r][d], flow'[r].counted[d], w)
                /\ Resets(r)' => scanned'[r][d] = 1 .. w
<1>1. Resets(r)' = Resets(r)
  BY DEF SameScan, Resets
<1>2. \A d : Fresh(r, d)' = Fresh(r, d)
  BY DEF SameScan, Fresh
<1>3. AllScanned(r)' = AllScanned(r)
  BY DEF SameScan, AllScanned, Scanned, Resets
<1>4. ASSUME NEW d, NEW w, Scanned(r, d, w)
      PROVE  /\ Contiguous(scanned'[r][d], flow'[r].counted[d], w)
             /\ Resets(r)' => scanned'[r][d] = 1 .. w
  BY <1>1, <1>4 DEF SameScan, Scanned
<1> QED BY <1>1, <1>2, <1>3, <1>4

\* A run that moves neither in its plan nor in its step keeps to its plan, when
\* the cursors it relies on stay where they are.
LEMMA PlanKept ==
    ASSUME NEW r \in Run, SameScan(r), PlanFits(r), Good(r)',
           StatusFits(getRunState(r), getRunState(r)'),
           getRunState(r)' = "succeeded" => getRunState(r) = "succeeded",
           flow'[r].index = flow[r].index, step'[r] = step[r], at'[r] = at[r],
           result'[r] = result[r], todo'[r] = todo[r], window'[r] = window[r],
           step[r] \in {"begin", "window"} =>
                \A d \in Scope[r] : cursor'[d] = cursor[d],
           step[r] = "window" => Current(r) \in Scope[r],
           \A i \in 1 .. Len(Plan[r]) : Plan[r][i] \in Scope[r]
    PROVE  PlanFits(r)'
<1>1. /\ Resets(r)' = Resets(r)
      /\ \A d : Fresh(r, d)' = Fresh(r, d)
      /\ AllScanned(r)' = AllScanned(r)
      /\ Current(r)' = Current(r)
  BY SameScanned DEF Current
<1>2. CASE step[r] = "begin"
  <2>1. BeginFits(r)
    BY <1>2 DEF PlanFits
  <2>2. \A d \in Scope[r] : Ready(r, d) => Ready(r, d)'
    BY <1>1, <1>2 DEF Ready
  <2>3. BeginFits(r)'
    BY <1>1, <2>1, <2>2 DEF BeginFits
  <2> QED BY <1>1, <1>2, <2>3 DEF PlanFits
<1>3. CASE step[r] = "window"
  <2>1. WindowFits(r) /\ CurrentFits(r)
    BY <1>3 DEF PlanFits, WindowFits
  <2>2. \A d \in Scope[r] : Ready(r, d) => Ready(r, d)'
    BY <1>1, <1>3 DEF Ready
  <2>3. cursor'[Current(r)] = cursor[Current(r)]
    BY <1>3
  <2> DEFINE Keeps(d, w) == Contiguous(scanned'[r][d], flow'[r].counted[d], w)
                            /\ (Resets(r)' => scanned'[r][d] = 1 .. w)
  <2>a. ASSUME NEW d, NEW w, Scanned(r, d, w) PROVE Keeps(d, w)
    BY <2>a, SameScanned
  <2> HIDE DEF Keeps
  <2>4. CurrentFits(r)'
    <3> DEFINE d == Current(r)
    <3>1. /\ at[r] \in {"assert", "gate", "work"} => Keeps(d, cursor[d])
          /\ at[r] = "commit" => Keeps(d, window[r])
          /\ at[r] \in {"finish", "forget"} => Keeps(d, Windows)
          /\ at[r] = "answer" =>
                /\ result[r] # "cancelled"
                /\ result[r] = "continue" => Keeps(d, cursor[d])
                /\ result[r] \in {"succeeded", "failed"} => Keeps(d, Windows)
      BY <2>1, <2>a DEF CurrentFits
    <3>2. \A w : Keeps(d, w) =>
                /\ Contiguous(scanned'[r][Current(r)'],
                              flow'[r].counted[Current(r)'], w)
                /\ Resets(r)' => scanned'[r][Current(r)'] = 1 .. w
      BY <1>1 DEF Keeps
    <3>3. cursor'[Current(r)'] = cursor[d] /\ window'[r] = window[r]
      BY <1>1, <2>3
    <3> HIDE DEF d
    <3> QED BY <3>1, <3>2, <3>3 DEF CurrentFits, Scanned
  <2>5. ASSUME NEW i \in 1 .. Len(Plan[r]), Scanned(r, Plan[r][i], Windows)
        PROVE  Scanned(r, Plan[r][i], Windows)'
    <3>1. Keeps(Plan[r][i], Windows)
      BY <2>5, <2>a
    <3> QED BY <3>1 DEF Keeps, Scanned
  <2>6. WindowFits(r)'
    BY <1>1, <2>1, <2>2, <2>4, <2>5 DEF WindowFits
  <2> QED BY <1>1, <1>3, <2>6 DEF PlanFits
<1>4. CASE step[r] \notin {"begin", "window"}
  BY <1>1, <1>4 DEF PlanFits
<1> QED BY <1>2, <1>3, <1>4

\* The run's record may move, but not to where it succeeded.
StatusKept(r) ==
    /\ StatusFits(getRunState(r), getRunState(r)')
    /\ getRunState(r)' = "succeeded" => getRunState(r) = "succeeded"

LEMMA GoodBefore ==
    ASSUME NEW r \in Run, Good(r)', MishapGrows, kind' = kind,
           StatusFits(getRunState(r), getRunState(r)')
    PROVE  Good(r)
BY CalmBefore DEF Good, StatusFits

\* What keeps to the plan of run r when only its record, or other runs, move.
LEMMA QuietScan ==
    ASSUME AllTypes, NEW r \in Run, ScanFits(r), MishapGrows, SameScan(r),
           StatusKept(r), wf'[r] = wf[r], flow'[r] = flow[r],
           step'[r] = step[r], at'[r] = at[r], result'[r] = result[r],
           todo'[r] = todo[r], window'[r] = window[r],
           starter'[r] = "start" =>
                starter[r] = "start" \/ getRunState(r)' # "none",
           Undisturbed /\ step[r] \in {"begin", "window"} =>
                \A d \in Scope[r] : cursor'[d] = cursor[d]
    PROVE  ScanFits(r)'
<1>1. kind' = kind /\ \A d : Fresh(r, d)' = Fresh(r, d)
  BY SameScanned DEF SameScan
<1>2. RecordFits(r)'
  BY <1>1 DEF ScanFits, RecordFits, StatusKept, StatusFits
<1>3. ASSUME Good(r)' PROVE PlanFits(r)'
  <2>1. Good(r) /\ PlanFits(r) /\ Undisturbed
    BY <1>1, <1>3, GoodBefore DEF ScanFits, StatusKept, Good
  <2>2. step[r] = "window" => Current(r) \in Scope[r]
    BY CurrentInScope DEF AllTypes, CursorStep
  <2>3. flow'[r].index = flow[r].index
    OBVIOUS
  <2> QED BY <1>3, <2>1, <2>2, <2>3, PlanKept, PlanNamesScope DEF StatusKept
<1> QED BY <1>2, <1>3 DEF ScanFits

\* Whoever moves a cursor has locked its definition, and so has a workflow that
\* relies on it.
LEMMA CursorsAreOwn ==
    ASSUME AllTypes, EnvelopeInv, NEW r \in Run, NEW s \in Run \ {r}, OnlyRun(r),
           Undisturbed, step[s] \in {"begin", "window"}, NEW d \in Scope[s]
    PROVE  cursor'[d] = cursor[d]
<1> SUFFICES ASSUME cursor'[d] # cursor[d] PROVE FALSE
  OBVIOUS
<1>1. d \in Definition
  BY ScopeIsDefined
<1>2. d \in Scope[r] /\ at[r] \in Asserted
  BY <1>1 DEF OnlyRun
<1>3. locks[d].ownerRunId = r
  <2>1. assertDefinitionLocks(r, Scope[r], lease[r])
    BY <1>2 DEF AllTypes, LeaseInv, AssertedHolds
  <2>2. locks[d] = [ownerRunId |-> r, token |-> lease[r][d]]
    BY <1>2, <2>1 DEF assertDefinitionLocks
  <2> QED BY <2>2
<1>4. WorkerFits(s)
  BY DEF EnvelopeInv, EnvelopeFits
<1>5. EnvelopeHeld(s)
  <2>1. at[s] # "none" /\ step[s] \notin Finalizing
    BY <1>4 DEF WorkerFits, Finalizing
  <2> QED BY <1>4, <2>1 DEF WorkerFits
<1>6. locks[d].ownerRunId = s
  <2>1. locks[d] = [ownerRunId |-> s, token |-> lease[s][d]]
    BY <1>5 DEF EnvelopeHeld, assertDefinitionLocks
  <2> QED BY <2>1
<1> QED BY <1>3, <1>6

LEMMA OthersScan ==
    ASSUME AllTypes, EnvelopeInv, NEW r \in Run, NEW s \in Run \ {r}, OnlyRun(r),
           ScanFits(s)
    PROVE  ScanFits(s)'
<1>1. SameScan(s) /\ MishapGrows /\ StatusKept(s)
  BY DEF OnlyRun, Untouched, SameScan, StatusKept, StatusFits, getRunState
<1>2. Undisturbed /\ step[s] \in {"begin", "window"} =>
            \A d \in Scope[s] : cursor'[d] = cursor[d]
  BY CursorsAreOwn
<1> QED BY <1>1, <1>2, QuietScan DEF OnlyRun, Untouched

LEMMA OnlyRunScans ==
    ASSUME AllTypes, EnvelopeInv, ScanInv, NEW r \in Run, OnlyRun(r),
           ScanFits(r)'
    PROVE  ScanInv'
BY OthersScan DEF ScanInv

\* A worker's step, but for what it does to where the run is in its plan.
LEMMA WorkScans ==
    ASSUME NEW r \in Run, ScanFits(r), OnlyRun(r), wf[r] # "none",
           StatusFits(getRunState(r), getRunState(r)'),
           kind[r] # "rollback" =>
                /\ wf'[r] # "none" /\ step'[r] # "rollback"
                /\ getRunState(r)' = "succeeded" =>
                        step'[r] \in {"complete", "none"},
           kind[r] # "rollback" /\ Good(r) /\ Good(r)' /\ PlanFits(r) =>
                PlanFits(r)'
    PROVE  ScanFits(r)'
<1>1. kind' = kind /\ MishapGrows
  BY DEF OnlyRun
<1>2. RecordFits(r)'
  BY <1>1 DEF ScanFits, RecordFits, StatusFits
<1>3. ASSUME Good(r)' PROVE PlanFits(r)'
  BY <1>1, <1>3, GoodBefore DEF ScanFits, Good
<1> QED BY <1>2, <1>3 DEF ScanFits

\* Steps after the windows: nothing is scanned.
LEMMA LaterScan ==
    ASSUME NEW r \in Run, ScanFits(r), OnlyRun(r), SameScan(r), wf[r] # "none",
           StatusFits(getRunState(r), getRunState(r)'),
           kind[r] # "rollback" /\ getRunState(r)' = "succeeded" =>
                getRunState(r) = "succeeded" \/ step[r] = "complete",
           flow'[r].index = flow[r].index, wf'[r] = wf[r], step'[r] = step[r],
           step[r] \notin {"begin", "window"} \/ kind[r] = "rollback"
    PROVE  ScanFits(r)'
<1>1. AllScanned(r)' = AllScanned(r)
  BY SameScanned
<1>2. ASSUME kind[r] # "rollback", PlanFits(r), Good(r), Good(r)'
      PROVE  PlanFits(r)'
  BY <1>1, <1>2 DEF PlanFits
<1>3. ASSUME kind[r] # "rollback"
      PROVE  /\ wf'[r] # "none" /\ step'[r] # "rollback"
             /\ getRunState(r)' = "succeeded" =>
                    step'[r] \in {"complete", "none"}
  BY <1>3 DEF ScanFits, RecordFits
<1> QED BY <1>2, <1>3, WorkScans

LEMMA AtWork ==
    ASSUME AllTypes, NEW r \in Run, EnvelopeFits(r), at[r] # "none"
    PROVE  /\ wf[r] = "running" /\ step[r] # "none"
           /\ PlaceFits(r)
           /\ at \in [Run -> At] /\ result \in [Run -> Results]
           /\ todo \in [Run -> SUBSET Definition]
           /\ step[r] \in CursorStep => Current(r) \in Scope[r]
           /\ Scope[r] \subseteq Definition
<1>1. WorkerFits(r) /\ PlaceFits(r)
  BY DEF EnvelopeFits, AllTypes, CallInv, StepAndPlace
<1>2. step[r] \in CursorStep => Current(r) \in Scope[r]
  BY CurrentInScope DEF AllTypes
<1> QED BY <1>1, <1>2, ScopeIsDefined
        DEF WorkerFits, PlaceFits, AllTypes, CallInv, FlowTypes

\* A step that leaves run r's record and its workflow alone.
LEMMA WithinScan ==
    ASSUME AllTypes, NEW r \in Run, ScanFits(r), OnlyRun(r), EnvelopeFits(r),
           at[r] # "none", UNCHANGED <<lifecycleVars, wf, step>>,
           kind[r] # "rollback" /\ Good(r) /\ PlanFits(r) => PlanFits(r)'
    PROVE  ScanFits(r)'
<1>1. getRunState(r)' = getRunState(r) /\ wf[r] # "none"
  BY AtWork DEF getRunState, lifecycleVars
<1> QED BY <1>1, WorkScans DEF StatusFits, ScanFits, RecordFits

\* The lease is asserted, and the step turns to its executor.
LEMMA LeaseScan ==
    ASSUME AllTypes, NEW r \in Run, ScanFits(r), OnlyRun(r), EnvelopeFits(r),
           AssertLease(r), ~StepFails(r)
    PROVE  ScanFits(r)'
<1>1. /\ at[r] = "assert" /\ UNCHANGED <<lifecycleVars, wf, step, flow, result,
                                         window, todo, sourceVars>>
      /\ at' = [at EXCEPT ![r] = executorCall(r)]
  BY DEF AssertLease, StepAt, storeVars, lifecycleVars
<1>2. /\ step[r] = "begin" => at'[r] = "begin"
      /\ step[r] = "window" => at'[r] = "gate"
  BY <1>1, AtWork DEF executorCall, CursorStep
<1>3. SameScan(r) /\ kind' = kind
  BY <1>1 DEF SameScan, OnlyRun, sourceVars
<1>4. ASSUME kind[r] # "rollback", Good(r), PlanFits(r) PROVE PlanFits(r)'
  <2>1. /\ \A d : Fresh(r, d)' = Fresh(r, d)
        /\ AllScanned(r)' = AllScanned(r)
        /\ Resets(r)' = Resets(r) /\ Current(r)' = Current(r)
        /\ getRunState(r)' = getRunState(r)
    BY <1>1, <1>3, SameScanned DEF Current, getRunState, lifecycleVars
  <2>2. CASE step[r] = "begin"
    <3>1. BeginFits(r)'
      BY <1>1, <1>2, <1>4, <2>1, <2>2 DEF PlanFits, BeginFits
    <3> QED BY <1>1, <1>4, <2>1, <2>2, <3>1 DEF PlanFits
  <2>3. CASE step[r] = "window"
    <3>1. Scanned(r, Current(r), cursor[Current(r)]) /\ WindowFits(r)
      BY <1>1, <1>4, <2>3 DEF PlanFits, WindowFits, CurrentFits
    <3>2. CurrentFits(r)'
      BY <1>1, <1>2, <1>3, <2>1, <2>3, <3>1
         DEF CurrentFits, Scanned, sourceVars
    <3>3. WindowFits(r)'
      BY <1>1, <1>3, <2>1, <3>1, <3>2 DEF WindowFits, Scanned, Ready, sourceVars
    <3> QED BY <1>1, <1>4, <2>1, <2>3, <3>3 DEF PlanFits
  <2>4. CASE step[r] \notin {"begin", "window"}
    BY <1>1, <1>4, <2>1, <2>4 DEF PlanFits
  <2> QED BY <2>2, <2>3, <2>4
<1> QED BY <1>1, <1>4, WithinScan

-----------------------------------------------------------------------------
(* The begin step: cursors are reset when the run has begun *)

LEMMA BeginScan ==
    ASSUME AllTypes, NEW r \in Run, ScanFits(r), OnlyRun(r), EnvelopeFits(r),
           BeginStep(r)
    PROVE  ScanFits(r)'
<1>1. /\ at[r] = "begin" /\ UNCHANGED <<wf, step, flow, sourceVars>>
      /\ StatusFits(getRunState(r), getRunState(r)')
      /\ getRunState(r)' \in Live =>
            \/ getRunState(r)' = "running"
            \/ getRunState(r)' = "succeeded" /\ getRunState(r) = "succeeded"
      /\ step[r] \in {"begin", "rollback"} /\ wf[r] = "running"
      /\ kind' = kind
  BY AtWork, BeginStatus DEF BeginStep, stepFrame, PlaceFits, AllTypes, OnlyRun
<1>2. kind[r] # "rollback" => step[r] = "begin" /\ getRunState(r) # "succeeded"
  BY <1>1 DEF ScanFits, RecordFits
<1>3. SameScan(r)
  BY <1>1 DEF SameScan, sourceVars
<1>4. ASSUME kind[r] # "rollback", Good(r)', PlanFits(r) PROVE PlanFits(r)'
  <2>1. /\ \A d : Fresh(r, d)' = Fresh(r, d) /\ Resets(r)' = Resets(r)
        /\ getRunState(r)' = "running" /\ runs'[r].status = "running"
    BY <1>1, <1>2, <1>3, <1>4, SameScanned DEF Good, getRunState
  <2>2. BeginFits(r)
    BY <1>2, <1>4 DEF PlanFits
  <2>3. \/ /\ Resets(r) /\ todo' = [todo EXCEPT ![r] = Scope[r]]
           /\ at' = [at EXCEPT ![r] = "cursors"]
        \/ /\ ~Resets(r) /\ at' = [at EXCEPT ![r] = "answer"]
    BY <1>2, <1>4, <2>1 DEF BeginStep, Resets, StepAt, Answer
  <2>4. \/ Resets(r) /\ todo'[r] = Scope[r] /\ at'[r] = "cursors"
        \/ ~Resets(r) /\ at'[r] = "answer"
    BY <1>1, <2>3, AtWork
  <2>5. BeginFits(r)'
    BY <1>1, <2>1, <2>2, <2>4 DEF BeginFits, Ready
  <2> QED BY <1>1, <1>2, <1>4, <2>1, <2>5 DEF PlanFits
<1>5. getRunState(r)' = "succeeded" => getRunState(r) = "succeeded"
  BY <1>1 DEF Live
<1>6. wf[r] # "none" /\ wf'[r] # "none" /\ step'[r] = step[r]
  BY <1>1
<1> QED BY <1>1, <1>2, <1>4, <1>5, <1>6, WorkScans

LEMMA ResetScan ==
    ASSUME AllTypes, NEW r \in Run, ScanFits(r), OnlyRun(r), EnvelopeFits(r),
           ResetCursor(r)
    PROVE  ScanFits(r)'
<1>1. /\ at[r] = "cursors" /\ step[r] = "begin"
      /\ UNCHANGED <<lifecycleVars, wf, step, flow, scanned>>
  BY AtWork DEF ResetCursor, PlaceFits, stepFrame, storeVars, lifecycleVars
<1>2. PICK d \in todo[r] :
        /\ cursor' = [cursor EXCEPT ![d] = 0]
        /\ todo' = [todo EXCEPT ![r] = @ \ {d}]
        /\ IF todo'[r] = {} THEN Answer(r, "ok") ELSE UNCHANGED <<at, result>>
  BY DEF ResetCursor
<1>3. SameScan(r)
  BY <1>1 DEF SameScan, OnlyRun
<1>4. ASSUME kind[r] # "rollback", Good(r), PlanFits(r) PROVE PlanFits(r)'
  <2>1. /\ \A e : Fresh(r, e)' = Fresh(r, e) /\ Resets(r)' = Resets(r)
        /\ getRunState(r)' = getRunState(r) /\ getRunState(r) # "succeeded"
    BY <1>1, <1>3, <1>4, SameScanned
       DEF getRunState, lifecycleVars, ScanFits, RecordFits
  <2>2. /\ BeginFits(r) /\ todo[r] \subseteq Scope[r] /\ d \in Definition
        /\ cursor \in [Definition -> 0 .. Windows - 1]
        /\ at \in [Run -> At] /\ todo'[r] = todo[r] \ {d}
    BY <1>1, <1>2, <1>4, AtWork DEF PlanFits, AllTypes, CursorsFit, RunTypes
  <2>3. \A e \in Scope[r] \ todo'[r] : Ready(r, e)'
    <3> SUFFICES ASSUME NEW e \in Scope[r] \ todo'[r] PROVE Ready(r, e)'
      OBVIOUS
    <3>1. CASE e = d
      BY <1>2, <2>1, <2>2, <3>1 DEF Ready, BeginFits
    <3>2. CASE e # d
      <4>1. Ready(r, e)
        BY <1>1, <2>2, <3>2 DEF BeginFits
      <4>2. cursor'[e] = cursor[e]
        BY <1>2, <3>2, ScopeIsDefined, <2>2
      <4> QED BY <2>1, <4>1, <4>2 DEF Ready
    <3> QED BY <3>1, <3>2
  <2>4. at'[r] = "cursors" \/ (at'[r] = "answer" /\ todo'[r] = {})
    <3>1. CASE todo'[r] = {}
      <4>1. at' = [at EXCEPT ![r] = "answer"]
        BY <1>2, <3>1 DEF Answer, StepAt
      <4> QED BY <2>2, <3>1, <4>1
    <3>2. CASE todo'[r] # {}
      <4>1. at' = at
        BY <1>2, <3>2
      <4> QED BY <1>1, <4>1
    <3> QED BY <3>1, <3>2
  <2>5. BeginFits(r)'
    BY <1>1, <2>1, <2>2, <2>3, <2>4 DEF BeginFits
  <2> QED BY <1>1, <1>4, <2>1, <2>5 DEF PlanFits
<1> QED BY <1>1, <1>4, WithinScan

-----------------------------------------------------------------------------
(* The window step *)

\* Where a run is that scans, and what follows for the step it takes.
LEMMA AtWindow ==
    ASSUME AllTypes, NEW r \in Run, ScanFits(r), step[r] = "window",
           kind[r] # "rollback", Good(r), PlanFits(r)
    PROVE  /\ WindowFits(r) /\ CurrentFits(r)
           /\ Current(r) \in Scope[r] /\ Current(r) \in Definition
           /\ Current(r) = Plan[r][flow[r].index]
           /\ getRunState(r) # "succeeded"
           /\ cursor[Current(r)] \in 0 .. Windows - 1 /\ Windows \in Nat \ {0}
           /\ \A i \in 1 .. Len(Plan[r]) \ {flow[r].index} :
                Plan[r][i] # Current(r) /\ Plan[r][i] \in Definition
<1>1. WindowFits(r) /\ CurrentFits(r) /\ getRunState(r) # "succeeded"
  BY DEF PlanFits, WindowFits, ScanFits, RecordFits
<1>2. /\ Current(r) \in Scope[r] /\ Scope[r] \subseteq Definition
      /\ Current(r) = Plan[r][flow[r].index]
      /\ flow[r].index \in 1 .. Len(Plan[r])
  <2>1. flow[r].index \in 1 .. Len(Plan[r]) /\ Len(Plan[r]) \in Nat
    BY <1>1, PlanNamesScope DEF WindowFits
  <2>2. flow[r].index <= Len(Plan[r])
    BY <2>1
  <2> QED BY <2>1, <2>2, CurrentInScope, ScopeIsDefined DEF AllTypes, CursorStep
<1>3. cursor[Current(r)] \in 0 .. Windows - 1 /\ Windows \in Nat \ {0}
  BY <1>2, WorkflowAssumption DEF AllTypes, RunTypes
<1>4. \A i \in 1 .. Len(Plan[r]) \ {flow[r].index} :
        Plan[r][i] # Current(r) /\ Plan[r][i] \in Definition
  <2>1. \A i, j \in 1 .. Len(Plan[r]) : Plan[r][i] = Plan[r][j] => i = j
    BY WorkflowAssumption
  <2> QED BY <1>2, <2>1, PlanNamesScope
<1> QED BY <1>1, <1>2, <1>3, <1>4

\* The rest of the plan keeps when the run moves within a definition.
LEMMA WindowMoves ==
    ASSUME AllTypes, NEW r \in Run, ScanFits(r), step[r] = "window",
           kind[r] # "rollback", Good(r), PlanFits(r),
           kind' = kind, UNCHANGED <<lifecycleVars, step>>,
           flow'[r].index = flow[r].index,
           \A d \in Definition \ {Current(r)} :
                /\ cursor'[d] = cursor[d]
                /\ scanned'[r][d] = scanned[r][d]
                /\ flow'[r].counted[d] = flow[r].counted[d],
           CurrentFits(r)'
    PROVE  PlanFits(r)'
<1>1. /\ WindowFits(r) /\ getRunState(r) # "succeeded"
      /\ \A i \in 1 .. Len(Plan[r]) \ {flow[r].index} :
            Plan[r][i] \in Definition \ {Current(r)}
  BY AtWindow
<1>2. ASSUME NEW i \in 1 .. Len(Plan[r]) \ {flow[r].index}
      PROVE  /\ Scanned(r, Plan[r][i], Windows) =>
                    Scanned(r, Plan[r][i], Windows)'
             /\ Ready(r, Plan[r][i]) => Ready(r, Plan[r][i])'
  <2>1. /\ cursor'[Plan[r][i]] = cursor[Plan[r][i]]
        /\ scanned'[r][Plan[r][i]] = scanned[r][Plan[r][i]]
        /\ flow'[r].counted[Plan[r][i]] = flow[r].counted[Plan[r][i]]
        /\ Resets(r)' = Resets(r)
    BY <1>1 DEF Resets
  <2> QED BY <2>1 DEF Scanned, Ready, Fresh
<1>3. WindowFits(r)'
  <2>1. flow[r].index \in Int /\ \A i \in 1 .. Len(Plan[r]) : i \in Int
    BY <1>1 DEF WindowFits
  <2>2. ASSUME NEW i \in 1 .. Len(Plan[r])
        PROVE  /\ i < flow[r].index => Scanned(r, Plan[r][i], Windows)'
               /\ i > flow[r].index => Ready(r, Plan[r][i])'
    BY <1>1, <1>2, <2>1 DEF WindowFits
  <2> QED BY <1>1, <2>2 DEF WindowFits
<1>4. getRunState(r)' = getRunState(r)
  BY DEF lifecycleVars, getRunState
<1> QED BY <1>1, <1>3, <1>4 DEF PlanFits

LEMMA ProcessScan ==
    ASSUME AllTypes, NEW r \in Run, ScanFits(r), OnlyRun(r), EnvelopeFits(r),
           ProcessWindow(r)
    PROVE  ScanFits(r)'
<1>1. /\ at[r] = "work" /\ step[r] = "window"
      /\ UNCHANGED <<lifecycleVars, wf, step, cursor>> /\ kind' = kind
  BY DEF ProcessWindow, stepFrame, storeVars, lifecycleVars, OnlyRun
<1>2. ASSUME kind[r] # "rollback", Good(r), PlanFits(r) PROVE PlanFits(r)'
  <2> DEFINE d == Current(r)
             w == cursor[d]
  <2>1. /\ CurrentFits(r) /\ d \in Definition /\ w \in Nat
        /\ getRunState(r) # "succeeded" /\ Windows \in Nat /\ w + 1 <= Windows
    BY <1>1, <1>2, AtWindow
  <2>2. schedulable(r)
    BY <1>1, <1>2, <2>1, AtWork
       DEF Good, Live, schedulable, ScanFits, RecordFits
  <2>3. /\ scanned' = [scanned EXCEPT ![r][d] = @ \union {w + 1}]
        /\ flow' = [flow EXCEPT ![r].counted[d] = @ + 1]
        /\ window' = [window EXCEPT ![r] = w + 1]
        /\ at' = [at EXCEPT ![r] = IF w + 1 < Windows THEN "commit"
                                   ELSE "finish"]
        /\ UNCHANGED result
    BY <2>2 DEF ProcessWindow, StepAt
  <2>4. /\ scanned \in [Run -> [Definition -> SUBSET (1 .. Windows)]]
        /\ flow \in [Run -> Flow] /\ window \in [Run -> 0 .. Windows]
        /\ at \in [Run -> At]
    BY DEF AllTypes, RunTypes, CallInv, FlowTypes, LeaseInv, LeaseTypes
  <2>5. Scanned(r, d, w)
    BY <1>1, <2>1 DEF CurrentFits
  <2> HIDE DEF d, w
  <2>6. /\ scanned'[r][d] = scanned[r][d] \union {w + 1}
        /\ \A e \in Definition \ {d} : scanned'[r][e] = scanned[r][e]
    BY <2>1, <2>3, <2>4
  <2>7. /\ flow'[r].counted[d] = flow[r].counted[d] + 1
        /\ flow'[r].index = flow[r].index
        /\ flow[r].counted[d] \in Nat
        /\ \A e \in Definition \ {d} :
                flow'[r].counted[e] = flow[r].counted[e]
    <3>1. flow[r] \in Flow
      BY <2>4
    <3>2. flow'[r] = [flow[r] EXCEPT !.counted[d] = @ + 1]
      BY <2>3, <2>4
    <3> QED BY <2>1, <3>1, <3>2 DEF Flow
  <2>8. /\ window'[r] = w + 1
        /\ at'[r] = IF w + 1 < Windows THEN "commit" ELSE "finish"
    BY <2>3, <2>4
  <2>9. /\ Contiguous(scanned'[r][d], flow'[r].counted[d], w + 1)
        /\ Resets(r)' => scanned'[r][d] = 1 .. w + 1
    <3>1. /\ Contiguous(scanned[r][d], flow[r].counted[d], w)
          /\ Resets(r) => scanned[r][d] = 1 .. w
      BY <2>5 DEF Scanned
    <3>2. /\ Contiguous(scanned[r][d] \union {w + 1}, flow[r].counted[d] + 1, w + 1)
          /\ scanned[r][d] = 1 .. w =>
                scanned[r][d] \union {w + 1} = 1 .. w + 1
      BY <2>1, <2>7, <3>1, ContiguousGrows
    <3>3. Resets(r)' = Resets(r)
      BY <1>1 DEF Resets
    <3> QED BY <2>6, <2>7, <3>1, <3>2, <3>3
  <2>10. Current(r)' = d
    BY <2>7 DEF Current, d
  <2>11. CurrentFits(r)'
    <3>1. CASE w + 1 < Windows
      BY <2>8, <2>9, <2>10, <3>1 DEF CurrentFits, Scanned
    <3>2. CASE ~(w + 1 < Windows)
      <4>1. w + 1 = Windows /\ at'[r] = "finish"
        BY <2>1, <2>8, <3>2
      <4> QED BY <2>9, <2>10, <4>1 DEF CurrentFits, Scanned
    <3> QED BY <3>1, <3>2
  <2>12. \A e \in Definition \ {Current(r)} :
            /\ cursor'[e] = cursor[e]
            /\ scanned'[r][e] = scanned[r][e]
            /\ flow'[r].counted[e] = flow[r].counted[e]
    BY <1>1, <2>6, <2>7 DEF d
  <2> QED BY <1>1, <1>2, <2>7, <2>11, <2>12, WindowMoves
<1> QED BY <1>1, <1>2, WithinScan

\* The gate is open for a run that is not stopped.
LEMMA GateScan ==
    ASSUME AllTypes, NEW r \in Run, ScanFits(r), OnlyRun(r), EnvelopeFits(r),
           Gate(r)
    PROVE  ScanFits(r)'
<1>1. /\ at[r] = "gate" /\ step[r] \in CursorStep
      /\ UNCHANGED <<lifecycleVars, wf, step, flow, cursor, scanned, window>>
      /\ kind' = kind
  BY AtWork DEF Gate, stepFrame, storeVars, lifecycleVars, sourceVars, OnlyRun,
                PlaceFits
<1>2. SameScan(r) /\ Current(r)' = Current(r)
  BY <1>1 DEF SameScan, Current
<1>3. ASSUME kind[r] # "rollback", Good(r), PlanFits(r) PROVE PlanFits(r)'
  <2>1. CASE step[r] = "window"
    <3>1. getRunState(r) # "succeeded" /\ CurrentFits(r)
      BY <1>3, <2>1, AtWindow
    <3>2. schedulable(r)
      BY <1>1, <1>3, <3>1, AtWork DEF Good, Live, schedulable, ScanFits, RecordFits
    <3>3. at' = [at EXCEPT ![r] = "work"]
      BY <3>2 DEF Gate, StepAt
    <3>4. at'[r] = "work"
      BY <1>1, <3>3, AtWork
    <3>5. Scanned(r, Current(r), cursor[Current(r)])
      BY <1>1, <3>1 DEF CurrentFits
    <3>6. CurrentFits(r)'
      BY <1>1, <1>2, <3>4, <3>5, SameScanned DEF CurrentFits, Scanned
    <3> QED BY <1>1, <1>3, <2>1, <3>6, WindowMoves
  <2>2. CASE step[r] = "orphans"
    <3>1. AllScanned(r)' = AllScanned(r) /\ getRunState(r)' = getRunState(r)
      BY <1>1, <1>2, SameScanned DEF getRunState, lifecycleVars
    <3> QED BY <1>1, <1>3, <2>2, <3>1 DEF PlanFits
  <2> QED BY <1>1, <2>1, <2>2 DEF CursorStep
<1> QED BY <1>1, <1>3, WithinScan

\* A step that leaves what is scanned, and has written the window it says.
LEMMA CommitScan ==
    ASSUME AllTypes, NEW r \in Run, ScanFits(r), OnlyRun(r), EnvelopeFits(r),
           CommitCursor(r) \/ RecordCompletion(r) \/ ForgetCursor(r)
    PROVE  ScanFits(r)'
<1>1. /\ at[r] \in {"commit", "finish", "forget"} /\ step[r] \in CursorStep
      /\ UNCHANGED <<lifecycleVars, wf, step, flow, scanned, window>>
      /\ kind' = kind
  BY AtWork DEF CommitCursor, RecordCompletion, ForgetCursor, stepFrame,
     storeVars, lifecycleVars, sourceVars, OnlyRun, PlaceFits
<1>2. SameScan(r) /\ Current(r)' = Current(r)
  BY <1>1 DEF SameScan, Current
<1>3. ASSUME kind[r] # "rollback", Good(r), PlanFits(r) PROVE PlanFits(r)'
  <2>1. CASE step[r] = "window"
    <3> DEFINE d == Current(r)
    <3>1. CurrentFits(r) /\ d \in Definition
      BY <1>3, <2>1, AtWindow
    <3>2. /\ at \in [Run -> At] /\ result \in [Run -> Results]
          /\ cursor \in [Definition -> 0 .. Windows - 1]
      BY DEF AllTypes, RunTypes, CallInv, FlowTypes
    <3>3. ASSUME NEW e \in Definition \ {d} PROVE cursor'[e] = cursor[e]
      BY <3>1, <3>2 DEF CommitCursor, RecordCompletion, ForgetCursor, sourceVars
    <3> HIDE DEF d
    <3>4. ASSUME NEW w, Scanned(r, d, w) PROVE Scanned(r, d, w)'
      <4>1. /\ Contiguous(scanned[r][d], flow[r].counted[d], w)
            /\ Resets(r) => scanned[r][d] = 1 .. w
        BY <3>4 DEF Scanned
      <4>2. d' = d /\ scanned'[r] = scanned[r]
            /\ flow'[r].counted = flow[r].counted /\ Resets(r)' = Resets(r)
        BY <1>2, SameScanned DEF SameScan, d
      <4> QED BY <4>1, <4>2 DEF Scanned
    <3>5. CurrentFits(r)'
      <4>1. CASE CommitCursor(r)
        <5>1. /\ at[r] = "commit" /\ at'[r] = "answer" /\ result'[r] = "continue"
              /\ cursor'[d] = window[r]
          BY <3>1, <3>2, <4>1 DEF CommitCursor, Answer, StepAt, d
        <5>2. Scanned(r, d, window[r])
          BY <3>1, <5>1 DEF CurrentFits, d
        <5>3. /\ Contiguous(scanned'[r][d], flow'[r].counted[d], cursor'[d])
              /\ Resets(r)' => scanned'[r][d] = 1 .. cursor'[d]
          BY <1>2, <5>1, <5>2, SameScanned
        <5> QED BY <1>2, <5>1, <5>3 DEF CurrentFits, Scanned, d
      <4>2. CASE RecordCompletion(r)
        <5>1. at[r] = "finish" /\ at'[r] = "forget"
          BY <3>2, <4>2 DEF RecordCompletion, StepAt
        <5>2. Scanned(r, d, Windows)
          BY <3>1, <5>1 DEF CurrentFits, d
        <5>3. Scanned(r, d, Windows)'
          BY <3>4, <5>2
        <5> QED BY <1>2, <5>1, <5>3 DEF CurrentFits, Scanned, d
      <4>3. CASE ForgetCursor(r)
        <5>1. /\ at[r] = "forget" /\ at'[r] = "answer"
              /\ result'[r] \in {"succeeded", "failed"}
          BY <3>2, <4>3 DEF ForgetCursor, Answer, StepAt
        <5>2. Scanned(r, d, Windows)
          BY <3>1, <5>1 DEF CurrentFits, d
        <5>3. Scanned(r, d, Windows)'
          BY <3>4, <5>2
        <5> QED BY <1>2, <5>1, <5>3 DEF CurrentFits, Scanned, d
      <4> QED BY <4>1, <4>2, <4>3
    <3> QED BY <1>1, <1>3, <2>1, <3>3, <3>5, WindowMoves DEF d
  <2>2. CASE step[r] = "orphans"
    <3>1. AllScanned(r)' = AllScanned(r) /\ getRunState(r)' = getRunState(r)
      BY <1>1, <1>2, SameScanned DEF getRunState, lifecycleVars
    <3> QED BY <1>1, <1>3, <2>2, <3>1 DEF PlanFits
  <2> QED BY <1>1, <2>1, <2>2 DEF CursorStep
<1> QED BY <1>1, <1>3, WithinScan

\* The steps of a rollback, and of the workflow's end.
LEMMA LateBodies ==
    ASSUME AllTypes, NEW r \in Run, ScanFits(r), OnlyRun(r), EnvelopeFits(r),
           \/ RollbackOrphansPage(r) \/ RollbackWork(r) \/ RollbackThrows(r)
           \/ ReleaseLock(r)
    PROVE  ScanFits(r)'
<1>1. /\ at[r] # "none" /\ step[r] \notin {"begin", "window"}
      /\ UNCHANGED <<lifecycleVars, wf, step, flow, scanned>>
  BY AtWork DEF RollbackOrphansPage, RollbackWork, RollbackThrows, ReleaseLock,
     PlaceFits, Finalizing, stepFrame, storeVars, lifecycleVars, sourceVars
<1>2. SameScan(r) /\ getRunState(r)' = getRunState(r) /\ wf[r] # "none"
  BY <1>1, AtWork DEF SameScan, OnlyRun, getRunState, lifecycleVars
<1> QED BY <1>1, <1>2, LaterScan DEF StatusFits

LEMMA FinalizeScan ==
    ASSUME AllTypes, NEW r \in Run, ScanFits(r), OnlyRun(r), EnvelopeFits(r),
           Finalize(r)
    PROVE  ScanFits(r)'
<1>1. /\ at[r] # "none" /\ step[r] \notin {"begin", "window"}
      /\ UNCHANGED <<wf, step, flow, scanned>> /\ wf[r] # "none"
      /\ step[r] \in Finalizing
  BY AtWork DEF Finalize, PlaceFits, Finalizing, stepFrame, sourceVars
<1>2. SameScan(r)
  BY <1>1 DEF SameScan, OnlyRun
<1>3. StoreTypeOK
  BY DEF AllTypes
<1>4. finalTransition(r) \/ UNCHANGED lifecycleVars
  BY DEF Finalize
<1>5. /\ StatusFits(getRunState(r), getRunState(r)')
      /\ getRunState(r)' = "succeeded" =>
            \/ getRunState(r) = "succeeded"
            \/ requestedStatus(r) = "succeeded"
  <2>1. CASE completeRun(r, outcomesOf(r)) /\ requestedStatus(r) = "succeeded"
    BY <1>3, <2>1, CompleteStatus
  <2>2. CASE \/ failRun(r, outcomesOf(r)) \/ markRunCancelled(r)
             \/ UNCHANGED lifecycleVars
    BY <1>3, <2>2, StatusMoves
  <2> QED BY <1>4, <2>1, <2>2 DEF finalTransition
<1>6. kind[r] # "rollback" /\ requestedStatus(r) = "succeeded" =>
            step[r] = "complete"
  BY <1>1 DEF requestedStatus, Finalizing, ScanFits, RecordFits
<1> QED BY <1>1, <1>2, <1>5, <1>6, LaterScan

-----------------------------------------------------------------------------
(* What the workflow does with a step's answer *)

LEMMA StepFailsScan ==
    ASSUME AllTypes, NEW r \in Run, ScanFits(r), OnlyRun(r), EnvelopeFits(r),
           at[r] # "none", StepFails(r),
           UNCHANGED <<lifecycleVars, scanned, cursor>>
    PROVE  ScanFits(r)'
<1>1. /\ getRunState(r)' = getRunState(r) /\ wf[r] = "running"
      /\ flow \in [Run -> Flow] /\ at \in [Run -> At] /\ kind' = kind
      /\ step \in [Run -> Retryable \union CursorStep \union {"none"}]
      /\ wf \in [Run -> {"none", "running", "completed", "failed"}]
  BY AtWork DEF getRunState, lifecycleVars, AllTypes, RunTypes, CallInv,
                FlowTypes, OnlyRun
<1>2. CASE step[r] \in Retryable /\ retries[r] < MaxRetries
  <2>1. UNCHANGED <<wf, step, flow, window>> /\ at' = [at EXCEPT ![r] = "assert"]
    BY <1>2 DEF StepFails, StepAt
  <2>2. SameScan(r) /\ step[r] # "window" /\ at'[r] = "assert"
    BY <1>1, <1>2, <2>1 DEF SameScan, Retryable
  <2>3. ASSUME kind[r] # "rollback", Good(r), PlanFits(r) PROVE PlanFits(r)'
    <3>1. /\ \A d : Fresh(r, d)' = Fresh(r, d)
          /\ AllScanned(r)' = AllScanned(r)
      BY <2>2, SameScanned
    <3>2. step[r] = "begin" => BeginFits(r)'
      BY <2>1, <2>2, <2>3, <3>1 DEF PlanFits, BeginFits
    <3> QED BY <1>1, <2>1, <2>2, <2>3, <3>1, <3>2 DEF PlanFits
  <2> QED BY <2>1, <2>3, WithinScan
<1>3. CASE ~(step[r] \in Retryable /\ retries[r] < MaxRetries)
  <2>1. CASE step[r] \in caught
    <3>1. Schedule(r, "fail", flow[r])
      BY <1>3, <2>1 DEF StepFails
    <3>2. step'[r] = "fail" /\ UNCHANGED wf
      BY <1>1, <3>1 DEF Schedule
    <3>3. kind[r] # "rollback" => getRunState(r) # "succeeded"
      BY <1>1, <2>1 DEF ScanFits, RecordFits, caught
    <3>4. kind[r] # "rollback" => PlanFits(r)'
      BY <1>1, <3>2, <3>3 DEF PlanFits
    <3> QED BY <1>1, <3>2, <3>3, <3>4, WorkScans DEF StatusFits
  <2>2. CASE step[r] \notin caught
    <3>1. End(r, "failed")
      BY <1>3, <2>2 DEF StepFails
    <3>2. step'[r] = "none" /\ wf'[r] = "failed" /\ UNCHANGED flow
      BY <1>1, <3>1 DEF End
    <3>3. AllScanned(r)' = AllScanned(r)
      BY <1>1, <3>2, SameScanned DEF SameScan
    <3>4. kind[r] # "rollback" /\ PlanFits(r) => PlanFits(r)'
      BY <1>1, <3>2, <3>3 DEF PlanFits
    <3> QED BY <1>1, <3>2, <3>4, WorkScans DEF StatusFits
  <2> QED BY <2>1, <2>2
<1> QED BY <1>2, <1>3

\* The definitions before position i of the plan are scanned, the others are
\* where the run starts to scan them, by the counts of flow f.
ScannedBefore(r, f) ==
    \A i \in 1 .. Len(Plan[r]) :
        /\ i < f.index =>
            /\ Contiguous(scanned[r][Plan[r][i]], f.counted[Plan[r][i]], Windows)
            /\ Resets(r) => scanned[r][Plan[r][i]] = 1 .. Windows
        /\ ~(i < f.index) =>
            /\ scanned[r][Plan[r][i]] = {} /\ f.counted[Plan[r][i]] = 0
            /\ Resets(r) => cursor[Plan[r][i]] = 0

LEMMA ScheduleFits ==
    ASSUME AllTypes, NEW r \in Run, NEW next, NEW f \in Flow,
           Schedule(r, next, f)
    PROVE  /\ flow'[r] = f /\ step'[r] = next /\ at'[r] = "assert"
           /\ result'[r] = "none" /\ UNCHANGED wf
BY DEF AllTypes, CallInv, FlowTypes, Schedule

LEMMA AfterDefinitionScan ==
    ASSUME AllTypes, NEW r \in Run, NEW f \in Flow, AfterDefinition(r, f),
           ScannedBefore(r, f), f.index \in Nat \ {0},
           UNCHANGED <<lifecycleVars, kind, cursor, scanned>>,
           getRunState(r) # "succeeded"
    PROVE  /\ PlanFits(r)' /\ UNCHANGED wf
           /\ step'[r] \in {"window", "orphans", "complete"}
<1> DEFINE n == Len(Plan[r])
           g == [f EXCEPT !.active = TRUE]
<1>0. /\ n \in Nat /\ Windows \in Nat
      /\ cursor \in [Definition -> 0 .. Windows - 1]
      /\ \A i \in 1 .. n : Plan[r][i] \in Definition /\ Plan[r][i] \in Scope[r]
      /\ \A d \in Scope[r] : \E i \in 1 .. n : Plan[r][i] = d
  BY PlanNamesScope, WorkflowAssumption DEF AllTypes, RunTypes
<1>1. g \in Flow /\ g.index = f.index /\ g.counted = f.counted
  BY DEF Flow
<1>2. getRunState(r)' # "succeeded" /\ Resets(r)' = Resets(r)
  BY DEF getRunState, lifecycleVars, Resets
<1> HIDE DEF n, g
<1>3. CASE f.index <= n
  <2>1. Schedule(r, "window", g)
    BY <1>3 DEF AfterDefinition, n, g
  <2>2. /\ flow'[r] = g /\ step'[r] = "window" /\ at'[r] = "assert"
        /\ UNCHANGED wf
    BY <1>1, <2>1, ScheduleFits
  <2>3. f.index \in 1 .. n
    BY <1>0, <1>3
  <2>4. ASSUME NEW i \in 1 .. n
        PROVE  /\ i < f.index => Scanned(r, Plan[r][i], Windows)'
               /\ ~(i < f.index) => Ready(r, Plan[r][i])'
    BY <1>1, <1>2, <2>2 DEF ScannedBefore, Scanned, Ready, Fresh, n
  <2>5. Current(r)' = Plan[r][f.index]
    BY <1>1, <1>3, <2>2 DEF Current, n
  <2>6. Ready(r, Plan[r][f.index])'
    BY <1>0, <2>3, <2>4
  <2>7. Scanned(r, Current(r), cursor[Current(r)])'
    <3> DEFINE d == Plan[r][f.index]
    <3>1. cursor[d] \in Nat /\ cursor'[d] = cursor[d]
      BY <1>0, <2>3
    <3>2. Contiguous({}, 0, cursor[d])
      BY <3>1, ContiguousFrom
    <3>3. /\ scanned'[r][d] = {} /\ flow'[r].counted[d] = 0
          /\ Resets(r)' => cursor[d] = 0
      BY <2>6 DEF Ready, Fresh
    <3>4. Resets(r)' => scanned'[r][d] = 1 .. cursor[d]
      BY <3>1, <3>3
    <3> HIDE DEF d
    <3>5. Current(r)' = d
      BY <2>5 DEF d
    <3> QED BY <3>1, <3>2, <3>3, <3>4, <3>5 DEF Scanned
  <2>8. CurrentFits(r)'
    BY <2>2, <2>7 DEF CurrentFits
  <2>9. WindowFits(r)'
    <3>1. \A i \in 1 .. n : i > f.index => ~(i < f.index)
      BY <1>0
    <3> QED BY <1>1, <2>2, <2>3, <2>4, <2>8, <3>1 DEF WindowFits, n
  <2> QED BY <1>2, <2>2, <2>9 DEF PlanFits
<1>4. CASE ~(f.index <= n)
  <2>1. \/ Schedule(r, "orphans", g) \/ Schedule(r, "complete", f)
    BY <1>4 DEF AfterDefinition, n, g
  <2>2. /\ flow'[r].index = f.index /\ flow'[r].counted = f.counted
        /\ step'[r] \in {"orphans", "complete"} /\ UNCHANGED wf
    BY <1>1, <2>1, ScheduleFits
  <2>3. AllScanned(r)'
    <3> SUFFICES ASSUME NEW d \in Scope[r] PROVE Scanned(r, d, Windows)'
      BY DEF AllScanned
    <3>1. PICK i \in 1 .. n : Plan[r][i] = d
      BY <1>0
    <3>2. i < f.index
      BY <1>0, <1>4
    <3> QED BY <1>2, <2>2, <3>1, <3>2 DEF ScannedBefore, Scanned, n
  <2>4. flow'[r].index > Len(Plan[r])
    BY <1>0, <1>4, <2>2 DEF n
  <2> QED BY <1>2, <2>2, <2>3, <2>4 DEF PlanFits
<1> QED BY <1>3, <1>4

\* A summary and a page leave the counts alone.
LEMMA SummaryKeepsCounts ==
    ASSUME NEW f \in Flow, NEW d, NEW status, NEW c, NEW page
    PROVE  /\ Summarised(f, d, status, c).counted = f.counted
           /\ [f EXCEPT !.page = page].counted = f.counted
           /\ [f EXCEPT !.page = page].index = f.index
<1> DEFINE g == Summarised(f, d, status, c)
<1>1. DOMAIN f = {"index", "active", "page", "counted", "summaries", "completed"}
  BY DEF Flow
<1>2. g.counted = f.counted
  BY <1>1 DEF Summarised
<1> QED BY <1>1, <1>2

LEMMA WindowAnswered ==
    ASSUME AllTypes, NEW r \in Run, ScanFits(r), step[r] = "window",
           at[r] = "answer", AfterWindow(r), EnvelopeFits(r),
           kind[r] # "rollback", Good(r), PlanFits(r),
           UNCHANGED <<lifecycleVars, kind, cursor, scanned>>
    PROVE  PlanFits(r)'
<1>1. /\ CurrentFits(r) /\ WindowFits(r) /\ getRunState(r) # "succeeded"
      /\ Current(r) \in Definition /\ Current(r) = Plan[r][flow[r].index]
  BY AtWindow
<1>2. /\ flow[r] \in Flow /\ flow[r].index \in Nat \ {0}
      /\ result[r] \in {"cancelled", "continue", "succeeded", "failed"}
      /\ Len(Plan[r]) \in Nat
  BY AtWork, PlanNamesScope
     DEF AllTypes, CallInv, FlowTypes, StepAndFlow, FlowSummarises, PlaceFits,
         CursorStep
<1>3. CASE result[r] = "cancelled"
  BY <1>1, <1>3 DEF CurrentFits
<1>4. CASE result[r] = "continue"
  <2>1. Schedule(r, "window", flow[r])
    BY <1>4 DEF AfterWindow
  <2>2. flow'[r] = flow[r] /\ step'[r] = "window" /\ at'[r] = "assert"
    BY <1>2, <2>1, ScheduleFits
  <2>3. Scanned(r, Current(r), cursor[Current(r)])
    BY <1>1, <1>4 DEF CurrentFits
  <2>4. SameScan(r) /\ Current(r)' = Current(r)
    BY <2>2 DEF SameScan, Current
  <2>5. CurrentFits(r)'
    BY <2>2, <2>3, <2>4, SameScanned DEF CurrentFits, Scanned
  <2>6. UNCHANGED <<lifecycleVars, step>>
    <3>1. step' = [step EXCEPT ![r] = "window"]
      BY <2>1 DEF Schedule
    <3> QED BY <3>1 DEF AllTypes, CallInv, FlowTypes
  <2> QED BY <2>2, <2>4, <2>5, <2>6, WindowMoves DEF SameScan
<1>5. CASE result[r] \in {"succeeded", "failed"}
  <2> DEFINE c == IF kind[r] = "orphans" THEN flow[r].completed
                  ELSE flow[r].completed \union {Current(r)}
             f == Summarised(flow[r], Current(r), result[r], c)
  <2>1. AfterDefinition(r, f)
    BY <1>5 DEF AfterWindow
  <2>2. f \in Flow /\ f.index = flow[r].index + 1 /\ f.counted = flow[r].counted
    <3>1. c \in SUBSET Definition
      BY <1>1, <1>2 DEF Flow
    <3> HIDE DEF c
    <3> QED BY <1>1, <1>2, <1>5, <3>1, FlowAfterDefinition, SummaryKeepsCounts
  <2>3. Scanned(r, Current(r), Windows)
    BY <1>1, <1>5 DEF CurrentFits
  <2> HIDE DEF f
  <2>4. ScannedBefore(r, f)
    <3> SUFFICES ASSUME NEW i \in 1 .. Len(Plan[r])
                 PROVE  /\ i < f.index => Scanned(r, Plan[r][i], Windows)
                        /\ ~(i < f.index) => Ready(r, Plan[r][i])
      BY <2>2 DEF ScannedBefore, Scanned, Ready, Fresh
    <3>1. \/ i = flow[r].index /\ i < f.index
          \/ i < flow[r].index /\ i < f.index
          \/ i > flow[r].index /\ ~(i < f.index)
      BY <1>2, <2>2
    <3> QED BY <1>1, <2>3, <3>1 DEF WindowFits
  <2>5. f.index \in Nat \ {0}
    BY <1>2, <2>2
  <2> QED BY <1>1, <2>1, <2>2, <2>4, <2>5, AfterDefinitionScan
<1> QED BY <1>2, <1>3, <1>4, <1>5

LEMMA PageAnswered ==
    ASSUME AllTypes, NEW r \in Run, ScanFits(r), step[r] = "orphans",
           at[r] = "answer", AfterOrphans(r), EnvelopeFits(r),
           kind[r] # "rollback", PlanFits(r),
           UNCHANGED <<lifecycleVars, kind, cursor, scanned>>
    PROVE  PlanFits(r)'
<1>1. /\ flow[r].index > Len(Plan[r]) /\ AllScanned(r)
      /\ getRunState(r) # "succeeded" /\ getRunState(r)' # "succeeded"
      /\ Current(r) \in Definition
  BY AtWork DEF PlanFits, ScanFits, RecordFits, getRunState, lifecycleVars,
                CursorStep
<1>2. /\ flow[r] \in Flow /\ flow[r].index \in Nat \ {0}
      /\ result[r] \in {"cancelled", "continue", "succeeded", "failed"}
      /\ Len(Plan[r]) \in Nat
      /\ \A i \in 1 .. Len(Plan[r]) : Plan[r][i] \in Scope[r]
  BY AtWork, PlanNamesScope
     DEF AllTypes, CallInv, FlowTypes, StepAndFlow, FlowSummarises, PlaceFits,
         CursorStep
<1>3. CASE result[r] = "cancelled"
  <2>1. step'[r] = "cancel"
    BY <1>2, <1>3, ScheduleFits DEF AfterOrphans
  <2> QED BY <1>1, <2>1 DEF PlanFits
<1>4. CASE result[r] = "continue"
  <2> DEFINE f == [flow[r] EXCEPT !.page = @ + 1]
  <2>1. Schedule(r, "orphans", f)
    BY <1>4 DEF AfterOrphans
  <2>2. f \in Flow /\ f.index = flow[r].index /\ f.counted = flow[r].counted
    BY <1>2 DEF Flow
  <2> HIDE DEF f
  <2>3. /\ flow'[r].index = flow[r].index /\ step'[r] = "orphans"
        /\ flow'[r].counted = flow[r].counted
    BY <2>1, <2>2, ScheduleFits
  <2>4. AllScanned(r)'
    BY <1>1, <2>3, SameScanned DEF SameScan
  <2> QED BY <1>1, <2>3, <2>4 DEF PlanFits
<1>5. CASE result[r] \in {"succeeded", "failed"}
  <2> DEFINE c == flow[r].completed \union {Current(r)}
             e == Summarised(flow[r], Current(r), result[r], c)
             f == [e EXCEPT !.page = 0]
  <2>1. AfterDefinition(r, f)
    BY <1>5 DEF AfterOrphans
  <2>2. f \in Flow /\ f.index = flow[r].index + 1 /\ f.counted = flow[r].counted
    <3>1. c \in SUBSET Definition
      BY <1>1, <1>2 DEF Flow
    <3> HIDE DEF c
    <3>2. e \in Flow /\ e.index = flow[r].index + 1 /\ e.counted = flow[r].counted
      BY <1>1, <1>2, <1>5, <3>1, FlowAfterDefinition, SummaryKeepsCounts
    <3> HIDE DEF e
    <3> QED BY <3>2, NextPage, SummaryKeepsCounts
  <2> HIDE DEF f
  <2>3. ScannedBefore(r, f)
    <3> SUFFICES ASSUME NEW i \in 1 .. Len(Plan[r])
                 PROVE  i < f.index /\ Scanned(r, Plan[r][i], Windows)
      BY <2>2 DEF ScannedBefore, Scanned
    <3>1. i < f.index
      BY <1>1, <1>2, <2>2
    <3> QED BY <1>1, <1>2, <3>1 DEF AllScanned
  <2>4. f.index \in Nat \ {0}
    BY <1>2, <2>2
  <2> QED BY <1>1, <2>1, <2>2, <2>3, <2>4, AfterDefinitionScan
<1> QED BY <1>2, <1>3, <1>4, <1>5

LEMMA AnswerScan ==
    ASSUME AllTypes, NEW r \in Run, ScanFits(r), OnlyRun(r), EnvelopeFits(r),
           StepAnswers(r)
    PROVE  ScanFits(r)'
<1>1. /\ at[r] = "answer" /\ UNCHANGED <<lifecycleVars, kind, cursor, scanned>>
      /\ wf[r] = "running" /\ step[r] # "none" /\ PlaceFits(r)
  BY AtWork DEF StepAnswers, storeVars, lifecycleVars, sourceVars, starterVars
<1>2. /\ getRunState(r)' = getRunState(r) /\ flow[r] \in Flow
      /\ flow[r].index \in Nat \ {0}
      /\ step \in [Run -> Retryable \union CursorStep \union {"none"}]
      /\ wf \in [Run -> {"none", "running", "completed", "failed"}]
  BY <1>1 DEF getRunState, lifecycleVars, AllTypes, RunTypes, CallInv,
              FlowTypes, StepAndFlow, FlowSummarises
<1>3. CASE result[r] = "error"
  BY <1>1, <1>3, StepFailsScan DEF StepAnswers
<1>4. ASSUME NEW next, NEW f, Schedule(r, next, f)
      PROVE  step'[r] = next /\ wf'[r] = "running"
  BY <1>1, <1>2, <1>4 DEF Schedule
<1>5. ASSUME NEW f, AfterDefinition(r, f)
      PROVE  step'[r] \in {"window", "orphans", "complete"} /\ wf'[r] = "running"
  BY <1>4, <1>5 DEF AfterDefinition
<1>6. CASE result[r] # "error" /\ step[r] = "begin"
  <2>1. AfterDefinition(r, flow[r])
    BY <1>6 DEF StepAnswers
  <2>2. kind[r] # "rollback" => getRunState(r) # "succeeded"
    BY <1>1, <1>6 DEF ScanFits, RecordFits
  <2>3. ASSUME kind[r] # "rollback", PlanFits(r) PROVE PlanFits(r)'
    <3>1. /\ flow[r].index = 1 /\ \A d \in Scope[r] : Ready(r, d)
      BY <1>1, <1>6, <2>3 DEF PlanFits, BeginFits
    <3>2. ScannedBefore(r, flow[r])
      BY <3>1, PlanNamesScope DEF ScannedBefore, Ready, Fresh
    <3> QED BY <1>1, <1>2, <2>1, <2>2, <2>3, <3>2, AfterDefinitionScan
  <2> QED BY <1>1, <1>2, <1>5, <2>1, <2>2, <2>3, WorkScans DEF StatusFits
<1>7. CASE result[r] # "error" /\ step[r] = "window"
  <2>1. AfterWindow(r)
    BY <1>7 DEF StepAnswers
  <2>2. /\ step'[r] \in {"window", "cancel", "orphans", "complete"}
        /\ wf'[r] = "running"
    BY <1>4, <1>5, <2>1 DEF AfterWindow
  <2>3. kind[r] # "rollback" => getRunState(r) # "succeeded"
    BY <1>1, <1>7 DEF ScanFits, RecordFits
  <2> QED BY <1>1, <1>2, <1>7, <2>1, <2>2, <2>3, WindowAnswered, WorkScans
          DEF StatusFits
<1>8. CASE result[r] # "error" /\ step[r] = "orphans"
  <2>1. AfterOrphans(r)
    BY <1>8 DEF StepAnswers
  <2>2. /\ step'[r] \in {"window", "cancel", "orphans", "complete"}
        /\ wf'[r] = "running"
    BY <1>4, <1>5, <2>1 DEF AfterOrphans
  <2>3. kind[r] # "rollback" => getRunState(r) # "succeeded"
    BY <1>1, <1>8 DEF ScanFits, RecordFits
  <2> QED BY <1>1, <1>2, <1>8, <2>1, <2>2, <2>3, PageAnswered, WorkScans
          DEF StatusFits
<1>9. CASE result[r] # "error" /\ step[r] \notin {"begin", "window", "orphans"}
  <2>1. PICK status \in {"failed", "completed"} : End(r, status)
    BY <1>9 DEF StepAnswers
  <2>2. step'[r] = "none" /\ wf'[r] = status /\ UNCHANGED flow
    BY <1>2, <2>1 DEF End
  <2>3. AllScanned(r)' = AllScanned(r)
    BY <1>1, <2>2, SameScanned DEF SameScan
  <2>4. PlanFits(r) => PlanFits(r)'
    BY <1>2, <2>2, <2>3 DEF PlanFits
  <2> QED BY <1>1, <1>2, <2>2, <2>4, WorkScans DEF StatusFits
<1> QED BY <1>3, <1>6, <1>7, <1>8, <1>9

-----------------------------------------------------------------------------
(* Starters, observers and operators *)

\* The starter's own steps.
LEMMA StarterScan ==
    ASSUME AllTypes, NEW r \in Run, ScanFits(r), OnlyRun(r),
           Start(r) \/ StarterCrash(r),
           ~(StartWorkflow(r) /\ ProviderAccepts(r))
    PROVE  ScanFits(r)'
<1>1. UNCHANGED <<stepVars, sourceVars>> /\ kind' = kind /\ MishapGrows
  BY DEF Start, StartPlan, AcquireLock, Preflight, Queue, StartWorkflow,
     MarkStartFailed, ReleaseAfterRejection, AttachExecution, StarterCrash,
     OnlyRun
<1>2. StatusKept(r)
  <2>1. \/ queueRun(r) \/ attachRunExecution(r) \/ markRunStartFailed(r)
        \/ UNCHANGED lifecycleVars
    BY DEF Start, StartPlan, AcquireLock, Preflight, Queue, StartWorkflow,
       MarkStartFailed, ReleaseAfterRejection, AttachExecution, StarterCrash,
       storeVars, lifecycleVars
  <2> QED BY <2>1, StatusMoves DEF AllTypes, StatusKept
<1>3. starter'[r] = "start" =>
            starter[r] = "start" \/ getRunState(r)' # "none"
  <2>1. CASE Queue(r)
    <3>1. queueRun(r) \/ starter' = [starter EXCEPT ![r] = "release"]
      BY <2>1 DEF Queue, StartAt
    <3>2. starter' = [starter EXCEPT ![r] = "release"] => starter'[r] # "start"
      BY DEF AllTypes, LeaseInv, LeaseTypes
    <3> QED BY <3>1, <3>2, QueueStatus DEF AllTypes
  <2>2. CASE ~Queue(r)
    BY <2>2 DEF Start, StartPlan, AcquireLock, Preflight, StartWorkflow,
       MarkStartFailed, ReleaseAfterRejection, AttachExecution, StarterCrash,
       StartAt, AllTypes, LeaseInv, LeaseTypes
  <2> QED BY <2>1, <2>2
<1>4. SameScan(r)
  BY <1>1 DEF SameScan, stepVars, sourceVars
<1> QED BY <1>1, <1>2, <1>3, <1>4, QuietScan DEF stepVars, sourceVars

LEMMA AcceptedScan ==
    ASSUME AllTypes, NEW r \in Run, ScanFits(r), OnlyRun(r), EnvelopeFits(r),
           StartWorkflow(r), ProviderAccepts(r)
    PROVE  ScanFits(r)'
<1>1. /\ wf[r] = "none" /\ getRunState(r) # "none"
      /\ UNCHANGED <<lifecycleVars, kind, scanned, flow>>
  BY DEF EnvelopeFits, StarterFits, BeforeStart, ScanFits, RecordFits,
     StartWorkflow, ProviderAccepts, storeVars, lifecycleVars, sourceVars
<1>2. /\ wf'[r] = "running" /\ step'[r] = firstStep(r) /\ at'[r] = "assert"
  BY DEF ProviderAccepts, AllTypes, RunTypes, LeaseInv, LeaseTypes, CallInv,
         FlowTypes
<1>3. SameScan(r) /\ getRunState(r)' = getRunState(r)
  BY <1>1 DEF SameScan, getRunState, lifecycleVars
<1>4. kind[r] # "rollback" =>
          /\ getRunState(r) # "succeeded" /\ step'[r] = "begin"
          /\ flow[r].index = 1 /\ \A d \in Scope[r] : Fresh(r, d)
  BY <1>1, <1>2 DEF ScanFits, RecordFits, firstStep
<1>5. kind[r] # "rollback" => BeginFits(r)'
  BY <1>1, <1>2, <1>3, <1>4, SameScanned DEF BeginFits
<1>6. RecordFits(r)'
  BY <1>1, <1>2, <1>3, <1>4 DEF RecordFits
<1>7. kind[r] # "rollback" => PlanFits(r)'
  BY <1>3, <1>4, <1>5 DEF PlanFits
<1> QED BY <1>1, <1>6, <1>7 DEF ScanFits, Good

\* An operator's unlock disturbs the runs.
LEMMA UnlockScan ==
    ASSUME AllTypes, ScanInv, NEW d \in Definition, Unlock(d)
    PROVE  ScanInv'
<1> SUFFICES ASSUME NEW r \in Run PROVE ScanFits(r)'
  BY DEF ScanInv
<1>1. /\ UNCHANGED <<lifecycleVars, starterVars, stepVars, sourceVars>>
      /\ ~Undisturbed' /\ ScanFits(r)
  BY UnlockTouches DEF ScanInv
<1>2. SameScan(r) /\ getRunState(r)' = getRunState(r)
  BY <1>1 DEF SameScan, starterVars, stepVars, sourceVars, getRunState,
              lifecycleVars
<1>3. RecordFits(r)'
  BY <1>1, <1>2, SameScanned DEF ScanFits, RecordFits, starterVars, stepVars
<1> QED BY <1>1, <1>3 DEF ScanFits, Good

LEMMA WatchedScan ==
    ASSUME AllTypes, NEW r \in Run, ScanFits(r), MishapGrows,
           UNCHANGED <<starterVars, wf, step, at, flow, result, window, todo,
                       sourceVars>>,
           requestRunCancellation(r) \/ UNCHANGED lifecycleVars
    PROVE  ScanFits(r)'
<1>1. StatusKept(r)
  BY StatusMoves DEF AllTypes, StatusKept
<1>2. SameScan(r)
  BY DEF SameScan, starterVars, sourceVars
<1> QED BY <1>1, <1>2, QuietScan DEF starterVars, sourceVars

LEMMA NextScanInv ==
    AllTypes /\ EnvelopeInv /\ ScanInv /\ [Next]_vars => ScanInv'
<1> SUFFICES ASSUME AllTypes, EnvelopeInv, ScanInv, [Next]_vars PROVE ScanInv'
  OBVIOUS
<1>1. ASSUME NEW r \in Run,
             \/ Start(r) \/ StarterCrash(r) \/ Work(r) \/ StepThrows(r)
             \/ RollbackThrows(r) \/ WorkerCrash(r) \/ ObserveTerminal(r)
             \/ RequestStop(r)
      PROVE  ScanInv'
  <2>1. OnlyRun(r) /\ EnvelopeFits(r) /\ ScanFits(r)
    BY <1>1, NextTouches DEF EnvelopeInv, ScanInv
  <2>2. CASE Start(r) \/ StarterCrash(r)
    BY <2>1, <2>2, StarterScan, AcceptedScan, OnlyRunScans
  <2>3. CASE Work(r) \/ RollbackThrows(r)
    <3>1. CASE AssertLease(r) /\ StepFails(r)
      <4>1. /\ at[r] # "none" /\ UNCHANGED <<lifecycleVars, scanned, cursor>>
        BY <3>1 DEF AssertLease, storeVars, lifecycleVars, sourceVars
      <4> QED BY <2>1, <3>1, <4>1, StepFailsScan, OnlyRunScans
    <3>2. CASE ~(AssertLease(r) /\ StepFails(r))
      <4>1. ScanFits(r)'
        BY <2>1, <2>3, <3>2, LeaseScan, BeginScan, ResetScan, GateScan,
           ProcessScan, CommitScan, LateBodies, FinalizeScan, AnswerScan
           DEF Work
      <4> QED BY <2>1, <4>1, OnlyRunScans
    <3> QED BY <3>1, <3>2
  <2>4. CASE StepThrows(r) \/ WorkerCrash(r)
    <3>1. /\ at[r] # "none" /\ StepFails(r)
          /\ UNCHANGED <<lifecycleVars, scanned, cursor>>
      BY <2>4 DEF StepThrows, WorkerCrash, storeVars, lifecycleVars, sourceVars
    <3> QED BY <2>1, <3>1, StepFailsScan, OnlyRunScans
  <2>5. CASE ObserveTerminal(r) \/ RequestStop(r)
    <3>1. /\ UNCHANGED <<starterVars, wf, step, at, flow, result, window, todo,
                         sourceVars>>
          /\ requestRunCancellation(r) \/ UNCHANGED lifecycleVars
      BY <2>5 DEF ObserveTerminal, RequestStop, storeVars, lifecycleVars,
                  stepVars
    <3>2. MishapGrows
      BY <2>1 DEF OnlyRun
    <3> QED BY <2>1, <3>1, <3>2, WatchedScan, OnlyRunScans
  <2> QED BY <1>1, <2>2, <2>3, <2>4, <2>5
<1>2. ASSUME NEW d \in Definition, Unlock(d) PROVE ScanInv'
  BY <1>2, UnlockScan
<1>3. CASE UNCHANGED vars
  <2> SUFFICES ASSUME NEW r \in Run PROVE ScanFits(r)'
    BY DEF ScanInv
  <2>1. /\ UNCHANGED <<starterVars, wf, step, at, flow, result, window, todo,
                       sourceVars, lifecycleVars>>
        /\ MishapGrows /\ ScanFits(r)
    BY <1>3 DEF vars, storeVars, lifecycleVars, starterVars, stepVars,
       sourceVars, ScanInv, AllTypes, LeaseInv, LeaseTypes, MishapGrows
  <2> QED BY <2>1, WatchedScan
<1> QED BY <1>1, <1>2, <1>3 DEF Next

LEMMA WorkflowScans == Spec => []ScanInv
BY WorkflowTypes, WorkflowEnvelopes, InitScanInv, NextScanInv, PTL DEF Spec

\* For any runs, plans and bounds: the summary of a workflow that succeeded
\* counts every window its run settled exactly once, and a run that rescans has
\* settled all of them, whatever results of steps were lost in between, unless
\* the runs were disturbed (runMigrationExecutionWorkflow,
\* makeDefinitionCursorWindow).
THEOREM WorkflowSummaryCountsEveryWindow == Spec => []SummaryCountsEveryWindow
<1>1. AllTypes /\ ScanInv => SummaryCountsEveryWindow
  <2> SUFFICES ASSUME AllTypes, ScanInv, NEW r \in Run,
                      kind[r] # "rollback", runs[r].status = "succeeded",
                      Undisturbed, NEW d \in Scope[r]
               PROVE  /\ flow[r].counted[d] = Cardinality(scanned[r][d])
                      /\ kind[r] \in {"rescan", "orphans"} =>
                            scanned[r][d] = 1 .. Windows
    BY DEF SummaryCountsEveryWindow
  <2>1. Scanned(r, d, Windows)
    BY DEF ScanInv, ScanFits, Good, Live, PlanFits, AllScanned, getRunState
  <2>2. Windows \in Nat /\ flow[r].counted[d] \in Nat
    BY WorkflowAssumption, ScopeIsDefined
       DEF AllTypes, CallInv, FlowTypes, Flow
  <2> QED BY <2>1, <2>2, ContiguousCounts DEF Scanned, Resets
<1> QED BY <1>1, WorkflowTypes, WorkflowScans, PTL

\* What the store promises its clients holds for workflows: their records and
\* projections agree, a terminal status stays, an acknowledged stop wins, and
\* no projection goes back to an older run.
COROLLARY WorkflowsKeepStorePromises ==
    Spec => /\ []LatestMatchesRecord
            /\ TerminalAbsorbing
            /\ AcknowledgedStopWins
            /\ LatestNeverGoesBack
BY WorkflowImplementsStore, StoreLatestMatchesRecord, StoreTerminalAbsorbing,
   StoreAcknowledgedStopWins, StoreLatestNeverGoesBack, PTL
=============================================================================
