---------------------------- MODULE InlineRunProofs ----------------------------
(***************************************************************************)
(* Proofs about InlineRun, for any runs, plans and bounds: a run works     *)
(* under its locks, no two runs work on one definition, a lock is only     *)
(* removed by its owner or by an operator who saw that very lock, every    *)
(* step is one of the store's operations, and what a run's handle reports  *)
(* is what the store recorded.                                             *)
(***************************************************************************)
EXTENDS InlineRun, MigrationStoreProofs, TLAPS

-----------------------------------------------------------------------------
(* The inductive invariant *)

\* The types of what locking depends on.
LockTypes ==
    /\ locks \in [Definition -> Lock]
    /\ nextLock \in Nat \ {0}
    /\ lease \in [Run -> [Definition -> Nat]]
    /\ evicted \in [Run -> SUBSET Definition]
    /\ seen \in [Definition -> Lock]
    /\ pc \in [Run -> Pc]

\* A token a run holds is in the store, with the run as owner, until an
\* operator clears it.
LeaseIsStored ==
    \A r \in Run, d \in Definition :
        lease[r][d] # 0 /\ d \notin evicted[r] =>
            locks[d] = [ownerRunId |-> r, token |-> lease[r][d]]

\* Tokens in use are older than the next one, and two runs never hold the
\* same: the release of one run cannot hit the lock of another.
TokensAreOld ==
    /\ \A r \in Run, d \in Definition : lease[r][d] < nextLock
    /\ \A d \in Definition : locks[d].token < nextLock
    /\ \A d \in Definition : seen[d].token < nextLock
TokensDiffer ==
    \A r, s \in Run, d \in Definition :
        r # s /\ lease[r][d] # 0 => lease[r][d] # lease[s][d]

\* Who knows the token of a lock knows its owner: a run under its lease, an
\* operator under the lock they saw.
TokensNameOwners ==
    \A d \in Definition :
        /\ \A r \in Run : lease[r][d] # 0 /\ locks[d].token = lease[r][d] =>
            locks[d].ownerRunId = r
        /\ locks[d].token = 0 => locks[d] = NoLock
        /\ seen[d].token = 0 => seen[d] = NoLock
        /\ seen[d] # NoLock /\ locks[d].token = seen[d].token =>
            locks[d] = seen[d]

\* A run past its acquisitions has a token for every definition of its plan.
OwningIsComplete ==
    \A r \in Run : Owning(r) => \A d \in Scope[r] : lease[r][d] # 0

LockInv == /\ LockTypes
           /\ LeaseIsStored
           /\ TokensAreOld
           /\ TokensDiffer
           /\ TokensNameOwners
           /\ OwningIsComplete

\* The invariant holds before any run starts.
LEMMA InitLockInv == Init => LockInv
<1> SUFFICES ASSUME Init PROVE LockInv
  OBVIOUS
<1>1. LockTypes
  BY DEF Init, StoreInit, LockTypes, NoLock, Lock, Pc, Executing, Persisting,
         Starting
<1>2. LeaseIsStored /\ TokensAreOld /\ TokensDiffer /\ TokensNameOwners
  BY DEF Init, StoreInit, LeaseIsStored, TokensAreOld, TokensDiffer,
         TokensNameOwners, NoLock
<1>3. OwningIsComplete
  BY DEF Init, OwningIsComplete, Owning, Executing, Persisting
<1> QED BY <1>1, <1>2, <1>3 DEF LockInv

-----------------------------------------------------------------------------
(* Steps that leave locks and leases alone *)

Unowned == {"idle", "acquiring", "releasing", "done", "crashed"}

\* Run r moves, and to a label that relies on locks only if it has them.
QuietMove(r) ==
    /\ UNCHANGED <<locks, nextLock, lease, evicted, seen>>
    /\ \E label \in Pc :
        /\ pc' = [pc EXCEPT ![r] = label]
        /\ Owning(r) \/ Scope[r] \subseteq Held(r) \/ label \in Unowned

\* Such a move preserves the invariant.
LEMMA QuietStep ==
    ASSUME LockInv, NEW r \in Run, QuietMove(r)
    PROVE  LockInv'
<1> PICK label \in Pc :
        /\ pc' = [pc EXCEPT ![r] = label]
        /\ Owning(r) \/ Scope[r] \subseteq Held(r) \/ label \in Unowned
  BY DEF QuietMove
<1> UNCHANGED <<locks, nextLock, lease, evicted, seen>>
  BY DEF QuietMove
<1>1. LockTypes'
  BY DEF LockInv, LockTypes
<1>2. LeaseIsStored' /\ TokensAreOld' /\ TokensDiffer' /\ TokensNameOwners'
  BY DEF LockInv, LeaseIsStored, TokensAreOld, TokensDiffer, TokensNameOwners
<1>3. OwningIsComplete'
  <2> SUFFICES ASSUME NEW s \in Run, Owning(s)', NEW d \in Scope[s]
               PROVE  lease'[s][d] # 0
    BY DEF OwningIsComplete
  <2>1. CASE s = r
    <3>1. label \notin Unowned
      BY <2>1 DEF LockInv, LockTypes, Owning, Executing, Persisting, Unowned
    <3>2. CASE Owning(r)
      BY <2>1, <3>2 DEF LockInv, OwningIsComplete
    <3>3. CASE Scope[r] \subseteq Held(r)
      BY <2>1, <3>3 DEF Held
    <3> QED BY <3>1, <3>2, <3>3
  <2>2. CASE s # r
    <3>1. Owning(s)
      BY <2>2 DEF LockInv, LockTypes, Owning
    <3> QED BY <3>1 DEF LockInv, OwningIsComplete
  <2> QED BY <2>1, <2>2
<1> QED BY <1>1, <1>2, <1>3 DEF LockInv

\* A step that does not even move a program counter.
LEMMA IdleStep ==
    ASSUME LockInv, UNCHANGED <<locks, nextLock, lease, evicted, seen, pc>>
    PROVE  LockInv'
BY DEF LockInv, LockTypes, LeaseIsStored, TokensAreOld, TokensDiffer,
       TokensNameOwners, OwningIsComplete, Owning

-----------------------------------------------------------------------------
(* Steps of the locks *)

\* The lock of d is taken for run r; the run may or may not learn its token.
LEMMA AcquireStep ==
    ASSUME LockInv, NEW r \in Run, NEW d \in Definition,
           acquireDefinitionLock(d, r), lease[r][d] = 0,
           UNCHANGED <<evicted, seen>>,
           \/ lease' = [lease EXCEPT ![r][d] = nextLock] /\ UNCHANGED pc
           \/ lease' = lease /\ pc' = [pc EXCEPT ![r] = "releasing"]
    PROVE  LockInv'
<1> USE DEF LockInv
<1>1. /\ locks[d] = NoLock
      /\ locks' = [locks EXCEPT ![d] = [ownerRunId |-> r, token |-> nextLock]]
      /\ nextLock' = nextLock + 1
  BY DEF acquireDefinitionLock, CanAcquire
<1>2. LockTypes'
  <2>1. locks' \in [Definition -> Lock]
    BY <1>1 DEF LockTypes, Lock
  <2>2. lease' \in [Run -> [Definition -> Nat]]
    BY DEF LockTypes
  <2>3. pc' \in [Run -> Pc]
    BY DEF LockTypes, Pc
  <2> QED BY <1>1, <2>1, <2>2, <2>3 DEF LockTypes
<1>3. \A s \in Run, e \in Definition :
        \/ lease'[s][e] = lease[s][e]
        \/ s = r /\ e = d /\ lease'[s][e] = nextLock
  <2> TAKE s \in Run, e \in Definition
  <2>1. lease \in [Run -> [Definition -> Nat]]
    BY DEF LockTypes
  <2>2. CASE lease' = [lease EXCEPT ![r][d] = nextLock]
    BY <2>1, <2>2
  <2> QED BY <2>2
<1>4. \A s \in Run : lease[s][d] # 0 => d \in evicted[s]
  <2> SUFFICES ASSUME NEW s \in Run, lease[s][d] # 0, d \notin evicted[s]
               PROVE  FALSE
    OBVIOUS
  <2>1. locks[d].ownerRunId = s
    <3>1. locks[d] = [ownerRunId |-> s, token |-> lease[s][d]]
      BY DEF LeaseIsStored
    <3> QED BY <3>1
  <2>2. locks[d].ownerRunId = NoRun
    BY <1>1 DEF NoLock
  <2> QED BY <2>1, <2>2, MigrationStoreAssumption
<1>5. LeaseIsStored'
  <2> SUFFICES ASSUME NEW s \in Run, NEW e \in Definition,
                      lease'[s][e] # 0, e \notin evicted'[s]
               PROVE  locks'[e] = [ownerRunId |-> s, token |-> lease'[s][e]]
    BY DEF LeaseIsStored
  <2>1. CASE e = d
    BY <1>1, <1>3, <1>4, <2>1 DEF LockTypes
  <2>2. CASE e # d
    BY <1>1, <1>3, <2>2 DEF LockTypes, LeaseIsStored
  <2> QED BY <2>1, <2>2
<1>6. TokensAreOld'
  <2> nextLock \in Nat /\ nextLock' = nextLock + 1
    BY <1>1 DEF LockTypes
  <2>1. ASSUME NEW s \in Run, NEW e \in Definition
        PROVE  lease'[s][e] < nextLock'
    <3>1. lease[s][e] \in Nat /\ lease[s][e] < nextLock
      BY DEF LockTypes, TokensAreOld
    <3> QED BY <1>3, <3>1
  <2>2. ASSUME NEW e \in Definition
        PROVE  locks'[e].token < nextLock'
    <3>1. locks[e].token \in Nat /\ locks[e].token < nextLock
      BY DEF LockTypes, TokensAreOld, Lock
    <3>2. locks'[e].token \in {locks[e].token, nextLock}
      BY <1>1 DEF LockTypes
    <3> QED BY <3>1, <3>2
  <2>3. ASSUME NEW e \in Definition
        PROVE  seen'[e].token < nextLock'
    <3>1. seen[e].token \in Nat /\ seen[e].token < nextLock
      BY DEF LockTypes, TokensAreOld, Lock
    <3> QED BY <3>1
  <2> QED BY <2>1, <2>2, <2>3 DEF TokensAreOld
<1>7. TokensDiffer'
  BY <1>3 DEF LockTypes, TokensDiffer, TokensAreOld
<1>8. TokensNameOwners'
  <2> SUFFICES ASSUME NEW e \in Definition
               PROVE  /\ \A s \in Run :
                            lease'[s][e] # 0 /\ locks'[e].token = lease'[s][e]
                                => locks'[e].ownerRunId = s
                      /\ locks'[e].token = 0 => locks'[e] = NoLock
                      /\ seen'[e].token = 0 => seen'[e] = NoLock
                      /\ seen'[e] # NoLock /\ locks'[e].token = seen'[e].token
                            => locks'[e] = seen'[e]
    BY DEF TokensNameOwners
  <2>1. CASE e = d
    BY <1>1, <1>3, <2>1 DEF LockTypes, TokensAreOld, TokensNameOwners
  <2>2. CASE e # d
    BY <1>1, <1>3, <2>2 DEF LockTypes, TokensNameOwners
  <2> QED BY <2>1, <2>2
<1>9. OwningIsComplete'
  <2>1. \A s \in Run : Owning(s)' => Owning(s)
    BY DEF LockTypes, Owning, Executing, Persisting
  <2>2. \A s \in Run, e \in Definition : lease[s][e] # 0 => lease'[s][e] # 0
    BY <1>3 DEF LockTypes
  <2> QED BY <2>1, <2>2, MigrationStoreAssumption DEF OwningIsComplete
<1> QED BY <1>2, <1>5, <1>6, <1>7, <1>8, <1>9

\* Run r gives up its token for d; the lock goes if it is still the run's.
LEMMA ReleaseStep ==
    ASSUME LockInv, NEW r \in Run, NEW d \in Definition, lease[r][d] # 0,
           \/ releaseDefinitionLock(d, lease[r][d])
           \/ UNCHANGED lockVars,
           pc[r] = "releasing", lease' = [lease EXCEPT ![r][d] = 0],
           UNCHANGED <<evicted, seen, pc>>
    PROVE  LockInv'
<1> USE DEF LockInv
<1>1. /\ nextLock' = nextLock
      /\ \/ locks' = locks
         \/ /\ locks[d].token = lease[r][d]
            /\ locks' = [locks EXCEPT ![d] = NoLock]
  BY DEF releaseDefinitionLock, lockVars
<1>2. LockTypes'
  BY <1>1 DEF LockTypes, Lock, NoLock
<1>3. \A s \in Run, e \in Definition :
        lease'[s][e] = IF s = r /\ e = d THEN 0 ELSE lease[s][e]
  BY DEF LockTypes
<1>4. \A s \in Run : s # r /\ lease[s][d] # 0 /\ d \notin evicted[s] =>
        locks'[d] = locks[d]
  <2> SUFFICES ASSUME NEW s \in Run, s # r, lease[s][d] # 0,
                      d \notin evicted[s]
               PROVE  locks'[d] = locks[d]
    OBVIOUS
  <2>1. locks[d].token = lease[s][d]
    <3>1. locks[d] = [ownerRunId |-> s, token |-> lease[s][d]]
      BY DEF LeaseIsStored
    <3> QED BY <3>1
  <2>2. lease[s][d] # lease[r][d]
    BY DEF TokensDiffer
  <2> QED BY <1>1, <2>1, <2>2
<1>5. \A e \in Definition : e # d => locks'[e] = locks[e]
  BY <1>1 DEF LockTypes
<1>6. LeaseIsStored'
  BY <1>3, <1>4, <1>5 DEF LeaseIsStored, LockTypes
<1>7. locks'[d] \in {locks[d], NoLock}
  BY <1>1 DEF LockTypes
<1>8. TokensAreOld'
  <2>1. locks'[d].token \in {locks[d].token, 0}
    BY <1>7 DEF NoLock
  <2>2. \A e \in Definition : locks'[e].token < nextLock
    BY <1>5, <2>1 DEF TokensAreOld, LockTypes
  <2> QED BY <1>1, <1>3, <2>2 DEF TokensAreOld, LockTypes
<1>9. TokensDiffer'
  BY <1>3 DEF TokensDiffer, LockTypes
<1>10. TokensNameOwners'
  <2> SUFFICES ASSUME NEW e \in Definition
               PROVE  /\ \A s \in Run :
                            lease'[s][e] # 0 /\ locks'[e].token = lease'[s][e]
                                => locks'[e].ownerRunId = s
                      /\ locks'[e].token = 0 => locks'[e] = NoLock
                      /\ seen'[e].token = 0 => seen'[e] = NoLock
                      /\ seen'[e] # NoLock /\ locks'[e].token = seen'[e].token
                            => locks'[e] = seen'[e]
    BY DEF TokensNameOwners
  <2>1. CASE locks'[e] = locks[e]
    BY <1>3, <2>1 DEF TokensNameOwners
  <2>2. CASE e = d /\ locks'[e] = NoLock
    BY <1>3, <2>2 DEF LockTypes, TokensNameOwners, NoLock
  <2> QED BY <1>5, <1>7, <2>1, <2>2
<1>11. OwningIsComplete'
  <2>1. \A s \in Run : Owning(s)' => Owning(s) /\ s # r
    BY DEF Owning, Executing, Persisting
  <2> QED BY <1>3, <2>1, MigrationStoreAssumption DEF OwningIsComplete
<1> QED BY <1>2, <1>6, <1>8, <1>9, <1>10, <1>11

\* An operator clears the lock of d under the token they saw, and evicts the
\* owner.
LEMMA BreakStep ==
    ASSUME LockInv, NEW d \in Definition, breakLock(d)
    PROVE  LockInv'
<1> USE DEF LockInv
<1>1. /\ UNCHANGED <<nextLock, lease, pc>>
      /\ \/ locks' = locks
         \/ /\ locks[d].token = seen[d].token
            /\ locks' = [locks EXCEPT ![d] = NoLock]
      /\ seen' = [seen EXCEPT ![d] = NoLock]
      /\ evicted' = IF locks'[d] # locks[d]
                    THEN [evicted EXCEPT ![locks[d].ownerRunId] =
                            @ \union {d}]
                    ELSE evicted
  BY DEF breakLock, releaseDefinitionLock, workerVars
<1>2. LockTypes'
  <2>1. NoLock \in Lock
    BY DEF NoLock, Lock
  <2>2. locks' \in [Definition -> Lock] /\ seen' \in [Definition -> Lock]
    BY <1>1, <2>1 DEF LockTypes
  <2>3. evicted' \in [Run -> SUBSET Definition]
    BY <1>1 DEF LockTypes
  <2> QED BY <1>1, <2>2, <2>3 DEF LockTypes
<1>3. \A e \in Definition : /\ e # d => locks'[e] = locks[e] /\ seen'[e] = seen[e]
                            /\ seen'[d] = NoLock
                            /\ locks'[d] \in {locks[d], NoLock}
  BY <1>1 DEF LockTypes
<1>4. \A s \in Run : evicted[s] \subseteq evicted'[s]
  BY <1>1 DEF LockTypes
<1>5. LeaseIsStored'
  <2> SUFFICES ASSUME NEW s \in Run, NEW e \in Definition,
                      lease'[s][e] # 0, e \notin evicted'[s]
               PROVE  locks'[e] = [ownerRunId |-> s, token |-> lease'[s][e]]
    BY DEF LeaseIsStored
  <2>1. locks[e] = [ownerRunId |-> s, token |-> lease[s][e]]
    BY <1>1, <1>4 DEF LeaseIsStored
  <2>2. CASE e = d /\ locks'[d] # locks[d]
    <3> locks[d].ownerRunId = s
      BY <2>1, <2>2
    <3>1. evicted' = [evicted EXCEPT ![s] = @ \union {d}]
      BY <1>1, <2>2
    <3> QED BY <2>2, <3>1 DEF LockTypes
  <2> QED BY <1>1, <1>3, <2>1, <2>2
<1>6. TokensAreOld'
  BY <1>1, <1>2, <1>3 DEF TokensAreOld, LockTypes, NoLock
<1>7. TokensDiffer'
  BY <1>1 DEF TokensDiffer
<1>8. TokensNameOwners'
  BY <1>1, <1>3 DEF TokensNameOwners, LockTypes, NoLock
<1>9. OwningIsComplete'
  BY <1>1 DEF OwningIsComplete, Owning
<1> QED BY <1>2, <1>5, <1>6, <1>7, <1>8, <1>9

\* An operator looks at a lock.
LEMMA SeeStep ==
    ASSUME LockInv, NEW d \in Definition, SeeLock(d)
    PROVE  LockInv'
<1> USE DEF LockInv
<1>1. /\ UNCHANGED <<locks, nextLock, lease, pc, evicted>>
      /\ seen' = [seen EXCEPT ![d] = locks[d]]
  BY DEF SeeLock, storeVars, workerVars
<1>2. LockTypes'
  BY <1>1 DEF LockTypes
<1>3. LeaseIsStored' /\ TokensDiffer'
  BY <1>1 DEF LeaseIsStored, TokensDiffer
<1>4. TokensAreOld' /\ TokensNameOwners'
  BY <1>1 DEF TokensAreOld, TokensNameOwners, LockTypes
<1>5. OwningIsComplete'
  BY <1>1 DEF OwningIsComplete, Owning
<1> QED BY <1>2, <1>3, <1>4, <1>5

-----------------------------------------------------------------------------
(* Every step preserves the invariant *)

\* The frame conditions of an action keep what the invariant speaks of.
LEMMA WorkerStepLockInv ==
    ASSUME LockInv, NEW r \in Run, WorkerStep(r)
    PROVE  LockInv'
<1> USE DEF storeVars, lockVars, lifecycleVars, operatorVars, historyVars,
            GoTo, Abort, Fault
<1>1. CASE AcquireLock(r)
  <2> PICK d \in Definition :
        /\ IsFirst(d, Scope[r] \ Held(r))
        /\ \/ /\ acquireDefinitionLock(d, r)
              /\ lease' = [lease EXCEPT ![r][d] = nextLock]
              /\ UNCHANGED <<pc, erred, historyVars>>
           \/ /\ ~CanAcquire(d)
              /\ Abort(r)
              /\ UNCHANGED <<lockVars, lease, historyVars>>
           \/ /\ CanAcquire(d)
              /\ Fault(r, "acquire")
              /\ acquireDefinitionLock(d, r) \/ UNCHANGED lockVars
              /\ Abort(r)
              /\ UNCHANGED lease
    BY <1>1 DEF AcquireLock
  <2>1. UNCHANGED <<seen, evicted>>
    BY <1>1 DEF AcquireLock
  <2>2. lease[r][d] = 0
    BY DEF IsFirst, Held
  <2>3. CASE acquireDefinitionLock(d, r)
    BY <2>1, <2>2, <2>3, AcquireStep DEF acquireDefinitionLock
  <2>4. CASE ~acquireDefinitionLock(d, r)
    <3>1. QuietMove(r)
      BY <2>1, <2>4 DEF QuietMove, Pc, Unowned
    <3> QED BY <3>1, QuietStep
  <2> QED BY <2>3, <2>4
<1>2. CASE ReleaseLock(r)
  <2> PICK d \in Held(r) :
        /\ lease' = [lease EXCEPT ![r][d] = 0]
        /\ releaseDefinitionLock(d, lease[r][d]) \/ UNCHANGED lockVars
        /\ UNCHANGED evicted
    BY <1>2 DEF ReleaseLock
  <2>1. pc[r] = "releasing" /\ UNCHANGED <<pc, seen>>
    BY <1>2 DEF ReleaseLock
  <2> QED BY <2>1, ReleaseStep DEF Held
<1>3. CASE LocksAcquired(r)
  <2>1. QuietMove(r)
    BY <1>3 DEF LocksAcquired, QuietMove, Pc, Starting
  <2> QED BY <2>1, QuietStep
<1>4. CASE Preflight(r) \/ StartFailing(r) \/ MarkStartFailed(r)
  <2>1. Owning(r)
    BY <1>4 DEF Preflight, StartFailing, MarkStartFailed, Owning
  <2>2. QuietMove(r)
    BY <1>4, <2>1 DEF Preflight, StartFailing, MarkStartFailed, QuietMove,
       Lost, Pc, Starting, Persisting
  <2> QED BY <2>2, QuietStep
<1>5. CASE Transition(r) \/ Confirm(r) \/ Repair(r)
  <2>1. Owning(r)
    BY <1>5 DEF Transition, Confirm, Repair, Owning, Persisting
  <2>2. UNCHANGED <<locks, nextLock, lease, evicted, seen>>
    BY <1>5 DEF Transition, Confirm, Repair, transitionFrame, Lost
  <2>3. \E label \in Pc : pc' = [pc EXCEPT ![r] = label]
    BY <1>5 DEF Transition, Confirm, Repair, TransitionSucceeded,
       TransitionFailed, Pc, Starting, Executing, Persisting
  <2>4. QuietMove(r)
    BY <2>1, <2>2, <2>3 DEF QuietMove
  <2> QED BY <2>4, QuietStep
<1>6. CASE \/ Boundary(r) \/ WorkContinues(r) \/ WorkFails(r) \/ Final(r)
           \/ Failing(r)
           \/ \E status \in {"succeeded", "failed"} :
                FinishDefinition(r, status)
  <2>1. Owning(r)
    BY <1>6 DEF Boundary, WorkContinues, WorkFails, Final, Failing,
       FinishDefinition, Owning, Executing
  <2>2. UNCHANGED <<locks, nextLock, lease, evicted, seen>>
    BY <1>6 DEF Boundary, WorkContinues, WorkFails, Final, Failing,
       FinishDefinition, Lost
  <2>3. \E label \in Pc : pc' = [pc EXCEPT ![r] = label]
    BY <1>6 DEF Boundary, WorkContinues, WorkFails, Final, Failing,
       FinishDefinition, Pc, Executing, Persisting
  <2>4. QuietMove(r)
    BY <2>1, <2>2, <2>3 DEF QuietMove
  <2> QED BY <2>4, QuietStep
<1>7. CASE Finish(r)
  <2>1. QuietMove(r)
    BY <1>7 DEF Finish, QuietMove, Pc, Unowned
  <2> QED BY <2>1, QuietStep
<1> QED BY <1>1, <1>2, <1>3, <1>4, <1>5, <1>6, <1>7 DEF WorkerStep

\* The invariant is inductive.
LEMMA NextLockInv == LockInv /\ [Next]_vars => LockInv'
<1> SUFFICES ASSUME LockInv, [Next]_vars PROVE LockInv'
  OBVIOUS
<1> USE DEF storeVars, lockVars, lifecycleVars, operatorVars, historyVars,
            GoTo, Abort, Fault
<1>1. CASE UNCHANGED vars
  BY <1>1, IdleStep DEF vars, workerVars
<1>2. ASSUME NEW d \in Definition, SeeLock(d) \/ breakLock(d)
      PROVE  LockInv'
  BY <1>2, SeeStep, BreakStep
<1>3. ASSUME NEW r \in Run, WorkerStep(r)
      PROVE  LockInv'
  BY <1>3, WorkerStepLockInv
<1>4. ASSUME NEW r \in Run, \/ StartPlan(r) \/ InterruptStart(r) \/ Crash(r)
                            \/ ScheduleReadFails(r)
      PROVE  LockInv'
  <2>1. UNCHANGED <<locks, nextLock, lease, evicted, seen>>
    BY <1>4 DEF StartPlan, InterruptStart, Crash, ScheduleReadFails
  <2>2. CASE ScheduleReadFails(r)
    <3>1. Owning(r)
      BY <2>2 DEF ScheduleReadFails, Owning, Executing
    <3>2. QuietMove(r)
      BY <2>1, <2>2, <3>1 DEF ScheduleReadFails, QuietMove, Pc, Executing
    <3> QED BY <3>2, QuietStep
  <2>3. CASE StartPlan(r) \/ InterruptStart(r) \/ Crash(r)
    <3>1. QuietMove(r)
      BY <2>1, <2>3 DEF StartPlan, InterruptStart, Crash, QuietMove, Pc,
         Starting, Unowned
    <3> QED BY <3>1, QuietStep
  <2> QED BY <1>4, <2>2, <2>3
<1>5. ASSUME NEW r \in Run, \/ CacheExpires(r) \/ CancelHandle(r)
                            \/ StopRunFindsActive(r) \/ StopRunRequests(r)
      PROVE  LockInv'
  BY <1>5, IdleStep DEF CacheExpires, CancelHandle, StopRunFindsActive,
     StopRunRequests, UseStop, workerVars
<1> QED BY <1>1, <1>2, <1>3, <1>4, <1>5 DEF Next

-----------------------------------------------------------------------------
(* Theorems *)

\* Until its last lifecycle write a run holds the lock of every definition of
\* its plan, under its own token (acquireDefinitionLocks before, and
\* releaseDefinitionLocks after everything else), unless an operator took it.
THEOREM InlineRunWorksUnderLock == Spec => []WorkUnderLock
<1>1. LockInv => WorkUnderLock
  <2> SUFFICES ASSUME LockInv, NEW r \in Run, Owning(r),
                      NEW d \in Scope[r] \ evicted[r]
               PROVE  locks[d] = [ownerRunId |-> r, token |-> lease[r][d]]
    BY DEF WorkUnderLock
  <2> QED BY MigrationStoreAssumption
          DEF LockInv, OwningIsComplete, LeaseIsStored
<1> QED BY <1>1, InitLockInv, NextLockInv, PTL DEF Spec

\* The step a working run is at exists.
PosInv ==
    /\ pc \in [Run -> Pc]
    /\ pos \in [Run -> Nat \ {0}]
    /\ \A r \in Run : pc[r] = "working" => pos[r] <= Steps(r)

\* The step counter stays within the plan while a run works.
LEMMA PosInvariant == Spec => []PosInv
<1>1. Init => PosInv
  BY DEF Init, PosInv, Pc
<1>2. PosInv /\ [Next]_vars => PosInv'
  <2> SUFFICES ASSUME PosInv, [Next]_vars PROVE PosInv'
    OBVIOUS
  <2> USE DEF PosInv, GoTo, Abort
  <2>1. ASSUME UNCHANGED <<pc, pos>>
        PROVE  PosInv'
    BY <2>1 DEF Steps
  <2>2. ASSUME NEW r \in Run, NEW label \in Pc \ {"working"},
               pc' = [pc EXCEPT ![r] = label], UNCHANGED pos
        PROVE  PosInv'
    BY <2>2 DEF Steps
  <2>3. ASSUME NEW r \in Run, Boundary(r)
        PROVE  PosInv'
    <3>1. CASE NoStepLeft(r) \/ ~canSchedule(r)
      BY <2>2, <2>3, <3>1 DEF Boundary, Pc, Executing
    <3>2. CASE ~NoStepLeft(r)
      <4>1. pos[r] \in Nat /\ Steps(r) \in Nat
        BY InlineRunAssumption DEF Steps
      <4>2. pos[r] <= Steps(r)
        BY <3>2, <4>1 DEF NoStepLeft
      <4> QED BY <2>3, <4>2 DEF Boundary, Pc, Executing, Steps
    <3> QED BY <3>1, <3>2
  <2>4. ASSUME NEW r \in Run,
               NEW status \in {"succeeded", "failed"},
               FinishDefinition(r, status)
        PROVE  PosInv'
    BY <2>4 DEF FinishDefinition, Pc, Executing, Steps
  <2>5. ASSUME NEW r \in Run, AcquireLock(r)
        PROVE  PosInv'
    BY <2>1, <2>2, <2>5 DEF AcquireLock, Pc
  <2>6. ASSUME NEW r \in Run,
               \/ LocksAcquired(r) \/ Preflight(r) \/ StartFailing(r)
               \/ MarkStartFailed(r) \/ StartPlan(r) \/ InterruptStart(r)
               \/ Crash(r) \/ ScheduleReadFails(r) \/ Finish(r)
        PROVE  PosInv'
    <3> \E label \in Pc \ {"working"} : pc' = [pc EXCEPT ![r] = label]
      BY <2>6 DEF LocksAcquired, Preflight, StartFailing, MarkStartFailed,
         StartPlan, InterruptStart, Crash, ScheduleReadFails, Finish, Pc,
         Starting, Executing, Persisting
    <3> UNCHANGED pos
      BY <2>6 DEF LocksAcquired, Preflight, StartFailing, MarkStartFailed,
         StartPlan, InterruptStart, Crash, ScheduleReadFails, Finish
    <3> QED BY <2>2
  <2>7. ASSUME NEW r \in Run, Transition(r) \/ Confirm(r) \/ Repair(r)
        PROVE  PosInv'
    <3> \E label \in Pc \ {"working"} : pc' = [pc EXCEPT ![r] = label]
      BY <2>7 DEF Transition, Confirm, Repair, TransitionSucceeded,
         TransitionFailed, Pc, Starting, Executing, Persisting
    <3> UNCHANGED pos
      BY <2>7 DEF Transition, Confirm, Repair, transitionFrame
    <3> QED BY <2>2
  <2>8. ASSUME NEW r \in Run,
               WorkContinues(r) \/ WorkFails(r) \/ Final(r) \/ Failing(r)
        PROVE  PosInv'
    BY <2>2, <2>8 DEF WorkContinues, WorkFails, Final, Failing, Pc,
       Executing, Persisting
  <2>9. ASSUME NEW r \in Run,
               \/ ReleaseLock(r) \/ CacheExpires(r) \/ CancelHandle(r)
               \/ StopRunFindsActive(r) \/ StopRunRequests(r)
        PROVE  PosInv'
    BY <2>1, <2>9 DEF ReleaseLock, CacheExpires, CancelHandle,
       StopRunFindsActive, StopRunRequests, workerVars
  <2>10. ASSUME NEW d \in Definition, SeeLock(d) \/ breakLock(d)
         PROVE  PosInv'
    BY <2>1, <2>10 DEF SeeLock, breakLock, workerVars
  <2>11. CASE UNCHANGED vars
    BY <2>1, <2>11 DEF vars, workerVars
  <2> QED BY <2>3, <2>4, <2>5, <2>6, <2>7, <2>8, <2>9, <2>10, <2>11
          DEF Next, WorkerStep
<1> QED BY <1>1, <1>2, PTL DEF Spec

\* No two runs work on one definition at the same time, unless an operator
\* took the lock of one of them (executePreparedRunDefinitions only runs
\* definitions of its own plan, whose locks superviseInlinePlan acquired).
THEOREM InlineRunOneWorker == Spec => []OneWorkerPerDefinition
<1>1. WorkUnderLock /\ PosInv => OneWorkerPerDefinition
  <2> SUFFICES ASSUME WorkUnderLock, PosInv, NEW r \in Run, NEW s \in Run,
                      r # s, pc[r] = "working", pc[s] = "working",
                      StepDefinition(r) = StepDefinition(s),
                      StepDefinition(r) \notin evicted[r],
                      StepDefinition(s) \notin evicted[s]
               PROVE  FALSE
    BY DEF OneWorkerPerDefinition
  <2>1. \A q \in Run : pc[q] = "working" => StepDefinition(q) \in Scope[q]
    <3> SUFFICES ASSUME NEW q \in Run, pc[q] = "working"
                 PROVE  StepDefinition(q) \in Scope[q]
      OBVIOUS
    <3> DEFINE n == Len(Plan[q])
    <3>1. Plan[q] \in Seq(Scope[q]) /\ n \in Nat
      BY InlineRunAssumption
    <3>2. pos[q] \in Nat \ {0} /\ pos[q] <= 2 * n
      BY <3>1 DEF PosInv, Steps
    <3>3. (IF pos[q] <= n THEN pos[q] ELSE 2 * n + 1 - pos[q]) \in 1 .. n
      BY <3>1, <3>2
    <3> QED BY <3>1, <3>3 DEF StepDefinition
  <2>2. \A q \in Run : pc[q] = "working" => Owning(q)
    BY DEF Owning, Executing
  <2>3. locks[StepDefinition(r)] =
            [ownerRunId |-> r, token |-> lease[r][StepDefinition(r)]]
    BY <2>1, <2>2 DEF WorkUnderLock
  <2>4. locks[StepDefinition(r)] =
            [ownerRunId |-> s, token |-> lease[s][StepDefinition(r)]]
    BY <2>1, <2>2 DEF WorkUnderLock
  <2>5. locks[StepDefinition(r)].ownerRunId = r
    BY <2>3
  <2>6. locks[StepDefinition(r)].ownerRunId = s
    BY <2>4
  <2> QED BY <2>5, <2>6
<1> QED BY <1>1, InlineRunWorksUnderLock, PosInvariant, PTL

\* A lock goes away only when its owner releases it or an operator clears the
\* very acquisition they saw (the token of releaseDefinitionLock).
THEOREM InlineRunLocksRemovedByRight == Spec => LocksRemovedByRight
<1> DEFINE Removed ==
        \A d \in Definition :
            locks[d] # NoLock /\ locks'[d] # locks[d] =>
                \/ pc[locks[d].ownerRunId] = "releasing"
                \/ seen[d] = locks[d]
<1>1. LockInv /\ [Next]_vars => [Removed]_vars
  <2> SUFFICES ASSUME LockInv, Next, NEW d \in Definition,
                      locks[d] # NoLock, locks'[d] # locks[d]
               PROVE  \/ pc[locks[d].ownerRunId] = "releasing"
                      \/ seen[d] = locks[d]
    OBVIOUS
  <2> USE DEF LockInv, storeVars, lockVars, lifecycleVars, workerVars
  <2>1. ASSUME NEW e \in Definition, SeeLock(e) \/ breakLock(e)
        PROVE  seen[d] = locks[d]
    BY <2>1 DEF SeeLock, breakLock, releaseDefinitionLock, LockTypes,
       TokensNameOwners
  <2>2. ASSUME NEW r \in Run, AcquireLock(r)
        PROVE  FALSE
    BY <2>2 DEF AcquireLock, acquireDefinitionLock, CanAcquire, LockTypes
  <2>3. ASSUME NEW r \in Run, ReleaseLock(r)
        PROVE  pc[locks[d].ownerRunId] = "releasing"
    BY <2>3 DEF ReleaseLock, releaseDefinitionLock, LockTypes,
       TokensNameOwners, Held
  <2>4. ASSUME NEW r \in Run, WorkerStep(r), ~AcquireLock(r), ~ReleaseLock(r)
        PROVE  FALSE
    BY <2>4 DEF WorkerStep, LocksAcquired, Preflight, StartFailing,
       MarkStartFailed, Transition, Confirm, Repair, transitionFrame,
       Boundary, WorkContinues, FinishDefinition, WorkFails, Final, Failing,
       Finish
  <2>5. ASSUME NEW r \in Run,
               \/ StartPlan(r) \/ InterruptStart(r) \/ ScheduleReadFails(r)
               \/ CacheExpires(r) \/ Crash(r) \/ CancelHandle(r)
               \/ StopRunFindsActive(r) \/ StopRunRequests(r)
        PROVE  FALSE
    BY <2>5 DEF StartPlan, InterruptStart, ScheduleReadFails, CacheExpires,
       Crash, CancelHandle, StopRunFindsActive, StopRunRequests
  <2> QED BY <2>1, <2>2, <2>3, <2>4, <2>5 DEF Next
<1> QED BY <1>1, InitLockInv, NextLockInv, PTL DEF Spec, LocksRemovedByRight

-----------------------------------------------------------------------------
(* Refinement: every step is a step of the store, or leaves it alone *)

\* What the store's operations ask of their callers.
CallInv ==
    /\ nextLock <= MaxToken + 1
    /\ summaries \in [Run -> [Definition -> {"none", "succeeded", "failed"}]]
    /\ completed \in [Run -> [Definition -> {"none", "succeeded", "failed"}]]

\* The bodies only report outcomes, and the store stops issuing tokens.
LEMMA CallInvariant == Spec => []CallInv
<1>1. Init => CallInv
  BY MigrationStoreAssumption DEF Init, StoreInit, CallInv
<1>2. LockInv /\ CallInv /\ [Next]_vars => CallInv'
  <2> SUFFICES ASSUME LockInv, CallInv, [Next]_vars PROVE CallInv'
    OBVIOUS
  <2> USE DEF CallInv, storeVars, lockVars, lifecycleVars
  <2>1. ASSUME UNCHANGED <<nextLock, summaries, completed>>
        PROVE  CallInv'
    BY <2>1
  <2>2. ASSUME NEW r \in Run, AcquireLock(r)
        PROVE  CallInv'
    <3>1. UNCHANGED <<summaries, completed>>
      BY <2>2 DEF AcquireLock
    <3>2. \/ nextLock' = nextLock
          \/ nextLock <= MaxToken /\ nextLock' = nextLock + 1
      BY <2>2 DEF AcquireLock, acquireDefinitionLock
    <3> QED BY <3>1, <3>2, MigrationStoreAssumption DEF LockInv, LockTypes
  <2>3. ASSUME NEW r \in Run, NEW status \in {"succeeded", "failed"},
               FinishDefinition(r, status)
        PROVE  CallInv'
    BY <2>3 DEF FinishDefinition
  <2>4. ASSUME NEW r \in Run,
               \/ LocksAcquired(r) \/ Preflight(r) \/ StartFailing(r)
               \/ MarkStartFailed(r) \/ Transition(r) \/ Confirm(r)
               \/ Repair(r) \/ Boundary(r) \/ WorkContinues(r)
               \/ WorkFails(r) \/ Final(r) \/ Failing(r) \/ ReleaseLock(r)
               \/ Finish(r)
        PROVE  CallInv'
    BY <2>1, <2>4 DEF LocksAcquired, Preflight, StartFailing,
       MarkStartFailed, Transition, Confirm, Repair, transitionFrame,
       Boundary, WorkContinues, WorkFails, Final, Failing, ReleaseLock,
       releaseDefinitionLock, Finish
  <2>5. ASSUME NEW r \in Run,
               \/ StartPlan(r) \/ InterruptStart(r) \/ ScheduleReadFails(r)
               \/ CacheExpires(r) \/ Crash(r) \/ CancelHandle(r)
               \/ StopRunFindsActive(r) \/ StopRunRequests(r)
        PROVE  CallInv'
    BY <2>1, <2>5 DEF StartPlan, InterruptStart, ScheduleReadFails,
       CacheExpires, Crash, CancelHandle, StopRunFindsActive,
       StopRunRequests, workerVars
  <2>6. ASSUME NEW d \in Definition, SeeLock(d) \/ breakLock(d)
        PROVE  CallInv'
    BY <2>1, <2>6 DEF SeeLock, breakLock, releaseDefinitionLock, workerVars
  <2>7. CASE UNCHANGED vars
    BY <2>1, <2>7 DEF vars, workerVars
  <2> QED BY <2>2, <2>3, <2>4, <2>5, <2>6, <2>7 DEF Next, WorkerStep
<1> QED BY <1>1, <1>2, InitLockInv, NextLockInv, PTL DEF Spec

\* A terminal write with outcomes is one of those the store allows for.
LEMMA OutcomesInRange ==
    ASSUME CallInv, NEW r \in Run
    PROVE  /\ DOMAIN definitionOutcomes(r) = Scope[r] =>
                definitionOutcomes(r) \in [Scope[r] -> OutcomeStatus]
           /\ definitionOutcomesAfterFailure(r) \in
                [Scope[r] -> OutcomeStatus]
<1>1. Scope[r] \subseteq Definition
  BY MigrationStoreAssumption
<1>2. ASSUME DOMAIN definitionOutcomes(r) = Scope[r]
      PROVE  definitionOutcomes(r) \in [Scope[r] -> OutcomeStatus]
  <2>1. Reported(summaries[r]) = Scope[r]
    BY <1>2 DEF definitionOutcomes
  <2>2. \A d \in Scope[r] : summaries[r][d] \in OutcomeStatus
    BY <1>1, <2>1 DEF Reported, CallInv, OutcomeStatus
  <2> QED BY <2>1, <2>2 DEF definitionOutcomes
<1>3. definitionOutcomesAfterFailure(r) \in [Scope[r] -> OutcomeStatus]
  <2>1. \A d \in Scope[r] :
            completed[r][d] \in {"none", "succeeded", "failed"}
    BY <1>1 DEF CallInv
  <2> QED BY <2>1 DEF definitionOutcomesAfterFailure, OutcomeStatus
<1> QED BY <1>2, <1>3

\* A lifecycle write of a run is an operation of the store.
LEMMA LifecycleWriteIsStoreStep ==
    ASSUME CallInv, NEW r \in Run, LifecycleWrite(r), UNCHANGED lockVars
    PROVE  StoreNext
<1>1. CASE completeRun(r, definitionOutcomes(r))
  <2>1. definitionOutcomes(r) \in [Scope[r] -> OutcomeStatus]
    BY <1>1, OutcomesInRange
       DEF completeRun, validateMigrationDefinitionRunOutcomes
  <2>2. CompleteRun(r, definitionOutcomes(r))
    BY <1>1 DEF CompleteRun
  <2> QED BY <2>1, <2>2 DEF StoreNext
<1>2. CASE failRun(r, definitionOutcomes(r))
  <2>1. definitionOutcomes(r) \in [Scope[r] -> OutcomeStatus]
    BY <1>2, OutcomesInRange
       DEF failRun, validateMigrationDefinitionRunOutcomes
  <2>2. FailRun(r, definitionOutcomes(r))
    BY <1>2 DEF FailRun
  <2> QED BY <2>1, <2>2 DEF StoreNext
<1>3. CASE queueRun(r) \/ beginRun(r) \/ markRunCancelled(r)
  BY <1>3 DEF StoreNext, QueueRun, BeginRun, MarkRunCancelled
<1> QED BY <1>1, <1>2, <1>3 DEF LifecycleWrite

\* The release of a token that was issued is an operation of the store.
LEMMA ReleaseIsStoreStep ==
    ASSUME LockInv, CallInv, NEW d \in Definition, NEW token \in Nat \ {0},
           token < nextLock, releaseDefinitionLock(d, token),
           UNCHANGED lifecycleVars
    PROVE  StoreNext
<1>1. token \in 1 .. MaxToken
  BY MigrationStoreAssumption DEF LockInv, LockTypes, CallInv
<1> QED BY <1>1 DEF StoreNext, ReleaseDefinitionLock

\* Every step of starters, workers and operators is one operation of the
\* store, or none.
LEMMA NextIsStoreStep ==
    LockInv /\ CallInv /\ [Next]_vars => [StoreNext]_storeVars
<1> SUFFICES ASSUME LockInv, CallInv, [Next]_vars, ~UNCHANGED storeVars
             PROVE  StoreNext
  OBVIOUS
<1> USE DEF storeVars, lockVars, lifecycleVars
<1>1. ASSUME NEW r \in Run, AcquireLock(r)
      PROVE  StoreNext
  <2>1. \E d \in Definition : acquireDefinitionLock(d, r)
    BY <1>1 DEF AcquireLock
  <2>2. UNCHANGED lifecycleVars
    BY <1>1 DEF AcquireLock
  <2> QED BY <2>1, <2>2 DEF StoreNext, AcquireDefinitionLock
<1>2. ASSUME NEW r \in Run, ReleaseLock(r)
      PROVE  StoreNext
  <2>1. UNCHANGED lifecycleVars
    BY <1>2 DEF ReleaseLock
  <2>2. PICK d \in Held(r) : releaseDefinitionLock(d, lease[r][d])
    BY <1>2, <2>1 DEF ReleaseLock
  <2>3. /\ d \in Definition
        /\ lease[r][d] \in Nat \ {0}
        /\ lease[r][d] < nextLock
    BY DEF Held, LockInv, LockTypes, TokensAreOld
  <2> QED BY <2>1, <2>2, <2>3, ReleaseIsStoreStep
<1>3. ASSUME NEW d \in Definition, breakLock(d)
      PROVE  StoreNext
  <2>1. UNCHANGED lifecycleVars /\ releaseDefinitionLock(d, seen[d].token)
    BY <1>3 DEF breakLock
  <2>2. seen[d].token \in Nat /\ seen[d].token < nextLock
    BY DEF LockInv, LockTypes, TokensAreOld, Lock
  <2>3. seen[d].token # 0
    BY <1>3 DEF breakLock, LockInv, TokensNameOwners
  <2> QED BY <2>1, <2>2, <2>3, ReleaseIsStoreStep
<1>4. ASSUME NEW r \in Run, Transition(r) \/ Repair(r)
      PROVE  StoreNext
  <2>1. LifecycleWrite(r) /\ UNCHANGED lockVars
    BY <1>4 DEF Transition, Repair, transitionFrame, Lost
  <2> QED BY <2>1, LifecycleWriteIsStoreStep
<1>5. ASSUME NEW r \in Run, Failing(r)
      PROVE  StoreNext
  <2>1. failRun(r, definitionOutcomesAfterFailure(r)) /\ UNCHANGED lockVars
    BY <1>5 DEF Failing, Lost
  <2>2. FailRun(r, definitionOutcomesAfterFailure(r))
    BY <2>1 DEF FailRun
  <2> QED BY <2>2, OutcomesInRange DEF StoreNext
<1>6. ASSUME NEW r \in Run, MarkStartFailed(r)
      PROVE  StoreNext
  <2>1. MarkRunStartFailed(r)
    BY <1>6 DEF MarkStartFailed, MarkRunStartFailed, Lost
  <2> QED BY <2>1 DEF StoreNext
<1>7. ASSUME NEW r \in Run, InterruptStart(r)
      PROVE  StoreNext
  <2>1. QueueRun(r)
    BY <1>7 DEF InterruptStart, QueueRun
  <2> QED BY <2>1 DEF StoreNext
<1>8. ASSUME NEW r \in Run, StopRunRequests(r)
      PROVE  StoreNext
  <2>1. RequestRunCancellation(r)
    BY <1>8 DEF StopRunRequests, RequestRunCancellation
  <2> QED BY <2>1 DEF StoreNext
<1>9. ASSUME NEW r \in Run,
             \/ StartPlan(r) \/ LocksAcquired(r) \/ Preflight(r)
             \/ StartFailing(r) \/ Confirm(r) \/ Boundary(r)
             \/ WorkContinues(r) \/ WorkFails(r) \/ Final(r) \/ Finish(r)
             \/ ScheduleReadFails(r) \/ CacheExpires(r) \/ Crash(r)
             \/ CancelHandle(r) \/ StopRunFindsActive(r)
             \/ \E status \in {"succeeded", "failed"} :
                    FinishDefinition(r, status)
      PROVE  FALSE
  BY <1>9 DEF StartPlan, LocksAcquired, Preflight, StartFailing, Confirm,
     transitionFrame, Boundary, WorkContinues, WorkFails, Final, Finish,
     ScheduleReadFails, CacheExpires, Crash, CancelHandle,
     StopRunFindsActive, FinishDefinition
<1>10. ASSUME NEW d \in Definition, SeeLock(d)
       PROVE  FALSE
  BY <1>10 DEF SeeLock
<1>11. CASE UNCHANGED vars
  BY <1>11 DEF vars
<1> QED BY <1>1, <1>2, <1>3, <1>4, <1>5, <1>6, <1>7, <1>8, <1>9, <1>10,
           <1>11 DEF Next, WorkerStep

\* Inline runs with all their faults, crashes, interrupts and operators
\* implement the store's specification: each store call is one of the store's
\* atomic operations, with arguments it accepts.
THEOREM InlineRunImplementsStore == Spec => ImplementsStore
<1>1. Init => StoreInit
  BY DEF Init
<1>2. Spec => []LockInv
  BY InitLockInv, NextLockInv, PTL DEF Spec
<1> QED BY <1>1, <1>2, CallInvariant, NextIsStoreStep, PTL
        DEF Spec, StoreSpec, ImplementsStore
-----------------------------------------------------------------------------
(* What the store's operations say about the runs carries over *)

\* The records of runs keep their types.
LEMMA StoreTypesInvariant == Spec => []StoreTypeOK
BY InlineRunImplementsStore, StoreTypeCorrect, PTL DEF ImplementsStore

-----------------------------------------------------------------------------
(* The handle and the record *)

\* The mishaps of run r that retryCommittedRunTransition is made for.
Fine(r) == AtMostOneUnacknowledged(r) /\ evicted[r] = {}

HandleTypes ==
    /\ pc \in [Run -> Pc]
    /\ op \in [Run -> Op]
    /\ handle \in [Run -> {"none", "running", "cancelling", "succeeded",
                           "failed", "cancelled"}]
    /\ erred \in [Run -> BOOLEAN]
    /\ mishap \in [Run -> SUBSET Mishap]
    /\ evicted \in [Run -> SUBSET Definition]

\* Before it is queued, a run has neither a handle nor a record.
StartFits(r) ==
    /\ pc[r] \in {"idle", "acquiring", "preflight"} =>
            getRunState(r) = "none"
    /\ pc[r] \in {"idle"} \union Starting => handle[r] = "none"

\* While a transition is persisted, the record shows the state before it or
\* the state after it; an unacknowledged write has taken effect.
PersistingFits(r) ==
    /\ pc[r] \in Persisting =>
            /\ op[r] # "none"
            /\ op[r] = "queueRun" => /\ handle[r] = "none"
                                     /\ getRunState(r) \notin TerminalStatus
            /\ op[r] = "beginRun" => getRunState(r) \in ActiveStatus
            /\ op[r] \in TerminalOp =>
                    getRunState(r) \in ActiveStatus \/ isCommitted(r)
    /\ pc[r] \in {"confirm", "repair"} => mishap[r] # {}
    /\ pc[r] = "confirm" /\ op[r] # "queueRun" /\ Fine(r) => isCommitted(r)

\* A run that executes is active; one that ends with an error and a handle is
\* recorded as failed, and one that ends without is recorded as its last
\* transition says, unless worse mishaps than one befell it.
EndFits(r) ==
    /\ pc[r] \in Executing => getRunState(r) \in ActiveStatus
    /\ erred[r] => pc[r] \in {"releasing", "done", "crashed"}
    /\ pc[r] = "releasing" /\ handle[r] # "none" =>
            /\ erred[r] => getRunState(r) = "failed" \/ ~Fine(r)
            /\ ~erred[r] => op[r] \in TerminalOp /\ isCommitted(r)
    /\ pc[r] = "done" /\ handle[r] # "none" =>
            /\ handle[r] \in {"succeeded", "failed", "cancelled"}
            /\ \/ handle[r] = getRunState(r)
               \/ handle[r] = "failed" /\ ~Fine(r)

HandleFits(r) == StartFits(r) /\ PersistingFits(r) /\ EndFits(r)

HandleInv == HandleTypes /\ \A r \in Run : HandleFits(r)

\* The invariant holds before any run starts.
LEMMA InitHandleInv == Init => HandleInv
<1> SUFFICES ASSUME Init PROVE HandleInv
  OBVIOUS
<1>1. HandleTypes
  BY DEF Init, HandleTypes, Pc, Op
<1>2. ASSUME NEW r \in Run PROVE HandleFits(r)
  <2>1. /\ pc[r] = "idle" /\ handle[r] = "none" /\ ~erred[r]
        /\ getRunState(r) = "none"
    BY DEF Init, StoreInit, getRunState, NoRecord
  <2> QED BY <2>1 DEF HandleFits, StartFits, PersistingFits, EndFits,
     Persisting, Executing
<1> QED BY <1>1, <1>2 DEF HandleInv

-----------------------------------------------------------------------------
(* What a step leaves alone *)

\* The part of run r that HandleFits speaks of, apart from its record.
handleFrame(r) == <<pc[r], op[r], handle[r], erred[r]>>

\* The record of run r stays, or a stop turns it to cancelling.
StoppedOrSame(r) ==
    \/ getRunState(r)' = getRunState(r)
    \/ getRunState(r) \in ActiveStatus /\ getRunState(r)' = "cancelling"

\* Mishaps are never forgotten.
MishapsKept(r) == mishap[r] \subseteq mishap'[r] /\ evicted[r] \subseteq evicted'[r]

\* Committed transitions stay committed when the run is stopped.
LEMMA CommittedStays ==
    ASSUME NEW r \in Run, isCommitted(r), op[r] # "queueRun", StoppedOrSame(r),
           op'[r] = op[r]
    PROVE  isCommitted(r)'
BY DEF isCommitted, StoppedOrSame, ActiveStatus, getRunState

\* Other mishaps, stops and steps of other runs keep what is known of a run.
LEMMA FrameFits ==
    ASSUME NEW r \in Run, HandleFits(r), UNCHANGED handleFrame(r),
           StoppedOrSame(r), MishapsKept(r)
    PROVE  HandleFits(r)'
<1>1. /\ pc'[r] = pc[r] /\ op'[r] = op[r] /\ handle'[r] = handle[r]
      /\ erred'[r] = erred[r]
  BY DEF handleFrame
<1>2. Fine(r)' => Fine(r)
  BY DEF MishapsKept, Fine, AtMostOneUnacknowledged
<1>3. StartFits(r)'
  BY <1>1 DEF HandleFits, StartFits, StoppedOrSame, ActiveStatus
<1>4. PersistingFits(r)'
  <2>1. getRunState(r) \in ActiveStatus => getRunState(r)' \in ActiveStatus
    BY DEF StoppedOrSame, ActiveStatus
  <2>2. getRunState(r) \notin TerminalStatus =>
            getRunState(r)' \notin TerminalStatus
    BY DEF StoppedOrSame, TerminalStatus
  <2>3. mishap[r] # {} => mishap'[r] # {}
    BY DEF MishapsKept
  <2>4. isCommitted(r) /\ op[r] # "queueRun" => isCommitted(r)'
    BY <1>1, CommittedStays
  <2> QED BY <1>1, <1>2, <2>1, <2>2, <2>3, <2>4
          DEF HandleFits, PersistingFits, TerminalOp
<1>5. EndFits(r)'
  <2>1. getRunState(r) \in ActiveStatus => getRunState(r)' \in ActiveStatus
    BY DEF StoppedOrSame, ActiveStatus
  <2>2. getRunState(r) \in TerminalStatus =>
            getRunState(r)' = getRunState(r)
    BY DEF StoppedOrSame, TerminalStatus, ActiveStatus
  <2>3. isCommitted(r) /\ op[r] # "queueRun" => isCommitted(r)'
    BY <1>1, CommittedStays
  <2> QED BY <1>1, <1>2, <2>1, <2>2, <2>3
          DEF HandleFits, EndFits, TerminalOp, TerminalStatus
<1> QED BY <1>3, <1>4, <1>5 DEF HandleFits

\* A step of run r leaves the other runs alone.
OnlyRun(r) ==
    /\ \A s \in Run \ {r} :
        /\ UNCHANGED handleFrame(s)
        /\ runs'[s] = runs[s]
        /\ mishap'[s] = mishap[s]
    /\ UNCHANGED evicted

LEMMA OnlyRunStep ==
    ASSUME HandleInv, HandleTypes', NEW r \in Run, OnlyRun(r), HandleFits(r)'
    PROVE  HandleInv'
<1>1. ASSUME NEW s \in Run \ {r} PROVE HandleFits(s)'
  <2>1. UNCHANGED handleFrame(s) /\ StoppedOrSame(s) /\ MishapsKept(s)
    BY DEF OnlyRun, StoppedOrSame, MishapsKept, getRunState
  <2>2. HandleFits(s)
    BY DEF HandleInv
  <2> QED BY <2>1, <2>2, FrameFits
<1> QED BY <1>1 DEF HandleInv

-----------------------------------------------------------------------------
(* What a write does to the record *)

\* A lifecycle write takes the record from the state before the transition to
\* the one after it.
LEMMA WriteCommits ==
    ASSUME StoreTypeOK, NEW r \in Run, LifecycleWrite(r), op[r] \in Op
    PROVE  /\ \A s \in Run \ {r} : runs'[s] = runs[s]
           /\ op[r] = "queueRun" /\ getRunState(r) \notin TerminalStatus =>
                getRunState(r)' \in ActiveStatus
           /\ op[r] = "beginRun" /\ getRunState(r) \in ActiveStatus =>
                getRunState(r)' \in {"running", "cancelling"}
           /\ op[r] = "completeRun"
              /\ getRunState(r) \in ActiveStatus \union {"succeeded", "cancelled"}
              => getRunState(r)' \in {"succeeded", "cancelled"}
           /\ op[r] = "failRun"
              /\ getRunState(r) \in ActiveStatus \union {"failed"}
              => getRunState(r)' = "failed"
           /\ op[r] = "markRunCancelled"
              /\ getRunState(r) \in ActiveStatus \union {"cancelled"}
              => getRunState(r)' = "cancelled"
<1>0. getRunState(r) \in RunStatus \union {"none"}
  BY DEF StoreTypeOK, RunRecord, getRunState
<1> USE DEF resolveMigrationRunTransition, Decision, OrCurrent, ActiveStatus,
            TerminalStatus, RunStatus
<1>1. CASE op[r] = "queueRun"
  <2>1. writeRunState(r, "queued")
    BY <1>1 DEF LifecycleWrite, queueRun
  <2>2. /\ \A s \in Run \ {r} : runs'[s] = runs[s]
        /\ LET decision == resolveMigrationRunTransition(getRunState(r),
                                                         "queued", FALSE)
           IN getRunState(r)' = IF decision.accepted THEN decision.status
                                ELSE getRunState(r)
    BY <2>1, StatusWritten
  <2> QED BY <1>0, <1>1, <2>2
<1>2. CASE op[r] = "beginRun"
  <2>1. writeRunState(r, "running")
    BY <1>2 DEF LifecycleWrite, beginRun
  <2>2. /\ \A s \in Run \ {r} : runs'[s] = runs[s]
        /\ LET decision == resolveMigrationRunTransition(getRunState(r),
                                                         "running", FALSE)
           IN getRunState(r)' = IF decision.accepted THEN decision.status
                                ELSE getRunState(r)
    BY <2>1, StatusWritten
  <2> QED BY <1>0, <1>2, <2>2
<1>3. CASE op[r] = "completeRun"
  <2>1. updateRunState(r, "succeeded", TRUE, definitionOutcomes(r))
    BY <1>3 DEF LifecycleWrite, completeRun
  <2>2. /\ \A s \in Run \ {r} : runs'[s] = runs[s]
        /\ LET decision == resolveMigrationRunTransition(getRunState(r),
                                                         "succeeded", TRUE)
           IN getRunState(r)' = IF decision.accepted THEN decision.status
                                ELSE getRunState(r)
    BY <2>1, StatusWritten
  <2> QED BY <1>0, <1>3, <2>2
<1>4. CASE op[r] = "failRun"
  <2>1. updateRunState(r, "failed", FALSE, definitionOutcomes(r))
    BY <1>4 DEF LifecycleWrite, failRun
  <2>2. /\ \A s \in Run \ {r} : runs'[s] = runs[s]
        /\ LET decision == resolveMigrationRunTransition(getRunState(r),
                                                         "failed", FALSE)
           IN getRunState(r)' = IF decision.accepted THEN decision.status
                                ELSE getRunState(r)
    BY <2>1, StatusWritten
  <2> QED BY <1>0, <1>4, <2>2
<1>5. CASE op[r] = "markRunCancelled"
  <2>1. updateRunState(r, "cancelled", FALSE, NoOutcomes)
    BY <1>5 DEF LifecycleWrite, markRunCancelled
  <2>2. /\ \A s \in Run \ {r} : runs'[s] = runs[s]
        /\ LET decision == resolveMigrationRunTransition(getRunState(r),
                                                         "cancelled", FALSE)
           IN getRunState(r)' = IF decision.accepted THEN decision.status
                                ELSE getRunState(r)
    BY <2>1, StatusWritten
  <2> QED BY <1>0, <1>5, <2>2
<1> QED BY <1>1, <1>2, <1>3, <1>4, <1>5 DEF LifecycleWrite

-----------------------------------------------------------------------------
(* Each step of a run preserves the invariant *)

\* A failing call leaves its trace, and two of them, or one that is not an
\* unacknowledged write, are more than a run is made for.
LEMMA FaultEffect ==
    ASSUME HandleTypes, NEW r \in Run, NEW kind \in Mishap, Fault(r, kind)
    PROVE  /\ mishap' \in [Run -> SUBSET Mishap] /\ evicted' = evicted
           /\ \A s \in Run \ {r} : mishap'[s] = mishap[s]
           /\ mishap'[r] # {}
           /\ kind # "unacknowledged" \/ mishap[r] # {} => ~Fine(r)'
<1>1. /\ mishap \in [Run -> SUBSET Mishap] /\ evicted' = evicted
      /\ mishap' = [mishap EXCEPT ![r] =
                    @ \union {kind} \union IF @ = {} THEN {} ELSE {"again"}]
  BY DEF HandleTypes, Fault
<1>2. "again" \in Mishap
  BY DEF Mishap
<1>3. mishap'[r] = mishap[r] \union {kind}
                    \union IF mishap[r] = {} THEN {} ELSE {"again"}
  BY <1>1
<1>4. mishap' \in [Run -> SUBSET Mishap]
  BY <1>1, <1>2
<1>5. kind \in mishap'[r] /\ (mishap[r] # {} => "again" \in mishap'[r])
  BY <1>3
<1>6. kind # "unacknowledged" \/ mishap[r] # {} => ~Fine(r)'
  BY <1>5 DEF Fine, AtMostOneUnacknowledged
<1> QED BY <1>1, <1>4, <1>5, <1>6

\* The call succeeds or fails: either way only the mishaps of the run change.
LEMMA HistoryTypes ==
    ASSUME HandleTypes, NEW r \in Run,
           \/ UNCHANGED historyVars
           \/ \E kind \in Mishap : Fault(r, kind)
    PROVE  /\ mishap' \in [Run -> SUBSET Mishap] /\ evicted' = evicted
           /\ \A s \in Run \ {r} : mishap'[s] = mishap[s]
           /\ mishap[r] # {} => mishap'[r] # {}
           /\ Fine(r)' => Fine(r)
<1>1. CASE UNCHANGED historyVars
  BY <1>1 DEF historyVars, HandleTypes, Fine, AtMostOneUnacknowledged
<1>2. CASE \E kind \in Mishap : Fault(r, kind)
  <2> PICK kind \in Mishap : Fault(r, kind)
    BY <1>2
  <2>1. /\ mishap' \in [Run -> SUBSET Mishap] /\ evicted' = evicted
        /\ \A s \in Run \ {r} : mishap'[s] = mishap[s]
        /\ mishap'[r] # {}
    BY FaultEffect
  <2>2. mishap[r] \subseteq mishap'[r]
    BY DEF Fault, HandleTypes
  <2>3. Fine(r)' => Fine(r)
    BY <2>1, <2>2 DEF Fine, AtMostOneUnacknowledged
  <2> QED BY <2>1, <2>3
<1> QED BY <1>1, <1>2

\* The run goes on to `label`.
LEMMA GoToEffect ==
    ASSUME HandleTypes, NEW r \in Run, NEW label \in Pc, GoTo(r, label)
    PROVE  /\ pc' \in [Run -> Pc] /\ pc'[r] = label
           /\ \A s \in Run \ {r} : pc'[s] = pc[s]
BY DEF GoTo, HandleTypes

\* ... or to releasing its locks, with an error.
LEMMA AbortEffect ==
    ASSUME HandleTypes, NEW r \in Run, Abort(r)
    PROVE  /\ pc' \in [Run -> Pc] /\ pc'[r] = "releasing"
           /\ erred' \in [Run -> BOOLEAN] /\ erred'[r] = TRUE
           /\ \A s \in Run \ {r} : pc'[s] = pc[s] /\ erred'[s] = erred[s]
<1>1. "releasing" \in Pc /\ GoTo(r, "releasing")
  BY DEF Abort, Pc
<1>2. erred' = [erred EXCEPT ![r] = TRUE] /\ erred \in [Run -> BOOLEAN]
  BY DEF Abort, HandleTypes
<1> QED BY <1>1, <1>2, GoToEffect

\* A run that cannot have a handle gives up its start.
LEMMA StartAborted ==
    ASSUME HandleInv, NEW r \in Run, handle[r] = "none", Abort(r),
           UNCHANGED <<op, handle>>,
           \A s \in Run \ {r} : runs'[s] = runs[s],
           \A s \in Run \ {r} : mishap'[s] = mishap[s],
           evicted' = evicted, mishap' \in [Run -> SUBSET Mishap]
    PROVE  HandleInv'
<1>1. HandleTypes /\ HandleFits(r)
  BY DEF HandleInv
<1>2. /\ pc' \in [Run -> Pc] /\ pc'[r] = "releasing"
      /\ erred' \in [Run -> BOOLEAN] /\ erred'[r] = TRUE
      /\ \A s \in Run \ {r} : pc'[s] = pc[s] /\ erred'[s] = erred[s]
  BY <1>1, AbortEffect
<1>3. HandleTypes'
  BY <1>1, <1>2 DEF HandleTypes
<1>4. OnlyRun(r)
  BY <1>2 DEF OnlyRun, handleFrame
<1>5. HandleFits(r)'
  BY <1>2 DEF HandleFits, StartFits, PersistingFits, EndFits, Starting,
     Persisting, Executing
<1> QED BY <1>3, <1>4, <1>5, OnlyRunStep

\* Steps of the start that do not touch the record.
LEMMA StartSteps ==
    ASSUME HandleInv, NEW r \in Run,
           \/ StartPlan(r) \/ AcquireLock(r) \/ LocksAcquired(r)
           \/ Preflight(r) \/ StartFailing(r)
    PROVE  HandleInv'
<1> USE DEF storeVars, lifecycleVars
<1>1. HandleTypes /\ HandleFits(r)
  BY DEF HandleInv
<1>2. pc[r] \in {"idle"} \union Starting /\ runs' = runs
      /\ UNCHANGED handle
  BY DEF StartPlan, AcquireLock, LocksAcquired, Preflight, StartFailing,
     Starting
<1>3. handle[r] = "none"
  BY <1>1, <1>2 DEF HandleFits, StartFits
<1>4. /\ mishap' \in [Run -> SUBSET Mishap] /\ evicted' = evicted
      /\ \A s \in Run \ {r} : mishap'[s] = mishap[s]
  <2>1. CASE StartPlan(r)
    BY <2>1, <1>1 DEF StartPlan, HandleTypes
  <2>2. CASE ~StartPlan(r)
    <3>1. \/ UNCHANGED historyVars
          \/ Fault(r, "acquire") \/ Fault(r, "read")
      BY <2>2 DEF AcquireLock, LocksAcquired, Preflight, StartFailing
    <3>2. "acquire" \in Mishap /\ "read" \in Mishap
      BY DEF Mishap
    <3> QED BY <3>1, <3>2, <1>1, HistoryTypes
  <2> QED BY <2>1, <2>2
<1>5. CASE Abort(r)
  <2>1. UNCHANGED op
    <3>1. ~Preflight(r)
      BY <1>1, <1>5 DEF Preflight, Abort, GoTo, HandleTypes
    <3> QED BY <3>1 DEF StartPlan, AcquireLock, LocksAcquired, StartFailing
  <2> QED BY <1>2, <1>3, <1>4, <1>5, <2>1, StartAborted
<1>6. CASE ~Abort(r)
  <2>1. UNCHANGED erred
    BY <1>6 DEF StartPlan, AcquireLock, LocksAcquired, Preflight,
       StartFailing
  <2>2. pc' \in [Run -> Pc] /\ \A s \in Run \ {r} : pc'[s] = pc[s]
    <3>1. pc' = pc \/ \E label \in {"acquiring", "preflight", "transition",
                                    "startFailing", "markingStartFailed"} :
                        pc' = [pc EXCEPT ![r] = label]
      BY <1>6 DEF StartPlan, AcquireLock, LocksAcquired, Preflight,
         StartFailing, GoTo
    <3> QED BY <3>1, <1>1 DEF HandleTypes, Pc, Starting, Persisting
  <2>3. op' \in [Run -> Op] /\ \A s \in Run \ {r} : op'[s] = op[s]
    <3>1. op' = op \/ op' = [op EXCEPT ![r] = "queueRun"]
      BY DEF StartPlan, AcquireLock, LocksAcquired, Preflight, StartFailing
    <3> QED BY <3>1, <1>1 DEF HandleTypes, Op
  <2>4. HandleTypes'
    BY <1>1, <1>2, <1>4, <2>1, <2>2, <2>3 DEF HandleTypes
  <2>5. OnlyRun(r)
    BY <1>2, <1>4, <2>1, <2>2, <2>3 DEF OnlyRun, handleFrame
  <2>6. ~erred[r]
    BY <1>1, <1>2 DEF HandleFits, EndFits, Starting
  <2>7. \/ pc'[r] = pc[r]
        \/ pc[r] \in {"idle", "acquiring"} /\ pc'[r] \in {"acquiring", "preflight"}
        \/ pc'[r] \in {"startFailing", "markingStartFailed"}
        \/ pc[r] = "preflight" /\ pc'[r] = "transition" /\ op'[r] = "queueRun"
    BY <1>1, <1>6 DEF StartPlan, AcquireLock, LocksAcquired, Preflight,
       StartFailing, GoTo, HandleTypes
  <2>8. getRunState(r)' = getRunState(r)
    BY <1>2 DEF getRunState
  <2>9. pc[r] \in {"idle", "acquiring", "preflight"} => getRunState(r) = "none"
    BY <1>1 DEF HandleFits, StartFits
  <2>10. StartFits(r)'
    BY <1>2, <1>3, <2>7, <2>8, <2>9 DEF StartFits, Starting
  <2>11. PersistingFits(r)'
    BY <1>2, <1>3, <2>7, <2>8, <2>9 DEF PersistingFits, Starting, Persisting,
       TerminalStatus, TerminalOp
  <2>12. EndFits(r)'
    BY <1>2, <2>1, <2>6, <2>7 DEF EndFits, Starting, Executing
  <2>13. HandleFits(r)'
    BY <2>10, <2>11, <2>12 DEF HandleFits
  <2> QED BY <2>4, <2>5, <2>13, OnlyRunStep
<1> QED BY <1>5, <1>6

\* Steps of the start that write the record.
LEMMA StartWrites ==
    ASSUME StoreTypeOK, HandleInv, NEW r \in Run,
           MarkStartFailed(r) \/ InterruptStart(r)
    PROVE  HandleInv'
<1> USE DEF storeVars, lifecycleVars
<1>1. HandleTypes /\ HandleFits(r)
  BY DEF HandleInv
<1>2. handle[r] = "none"
  BY <1>1 DEF MarkStartFailed, InterruptStart, HandleFits, StartFits,
     PersistingFits, Starting
<1>3. UNCHANGED <<op, handle>> /\ Abort(r)
  BY DEF MarkStartFailed, InterruptStart
<1>4. \A s \in Run \ {r} : runs'[s] = runs[s]
  <2>1. \/ runs' = runs
        \/ writeRunState(r, "queued")
        \/ updateRunState(r, "start-failed", FALSE, NoOutcomes)
    BY DEF MarkStartFailed, InterruptStart, markRunStartFailed, queueRun, Lost
  <2> QED BY <2>1, StatusWritten
<1>5. /\ mishap' \in [Run -> SUBSET Mishap] /\ evicted' = evicted
      /\ \A s \in Run \ {r} : mishap'[s] = mishap[s]
  <2>1. CASE MarkStartFailed(r)
    <3>1. \/ UNCHANGED historyVars
          \/ Fault(r, "lost") \/ Fault(r, "unacknowledged")
      BY <2>1 DEF MarkStartFailed, Lost
    <3>2. "lost" \in Mishap /\ "unacknowledged" \in Mishap
      BY DEF Mishap
    <3> QED BY <3>1, <3>2, <1>1, HistoryTypes
  <2>2. CASE InterruptStart(r)
    <3>1. /\ mishap' = [mishap EXCEPT ![r] = @ \union {"interrupted"}]
          /\ evicted' = evicted
      BY <2>2 DEF InterruptStart
    <3> QED BY <3>1, <1>1 DEF HandleTypes, Mishap
  <2> QED BY <2>1, <2>2
<1> QED BY <1>2, <1>3, <1>4, <1>5, StartAborted

\* A lifecycle write ends in a state that shows it as committed.
LEMMA WriteFits ==
    ASSUME StoreTypeOK, HandleInv, NEW r \in Run, LifecycleWrite(r),
           pc[r] \in Persisting
    PROVE  /\ \A s \in Run \ {r} : runs'[s] = runs[s]
           /\ op[r] = "queueRun" => getRunState(r)' \in ActiveStatus
           /\ op[r] = "beginRun" => getRunState(r)' \in {"running", "cancelling"}
           /\ op[r] \in TerminalOp /\ op'[r] = op[r] => isCommitted(r)'
<1>1. HandleTypes /\ PersistingFits(r)
  BY DEF HandleInv, HandleFits
<1>2. op[r] \in Op
  BY <1>1 DEF HandleTypes
<1>3. /\ op[r] = "queueRun" => getRunState(r) \notin TerminalStatus
      /\ op[r] = "beginRun" => getRunState(r) \in ActiveStatus
      /\ op[r] = "completeRun" => getRunState(r) \in
            ActiveStatus \union {"succeeded", "cancelled"}
      /\ op[r] = "failRun" => getRunState(r) \in ActiveStatus \union {"failed"}
      /\ op[r] = "markRunCancelled" =>
            getRunState(r) \in ActiveStatus \union {"cancelled"}
  BY <1>1 DEF PersistingFits, TerminalOp, isCommitted
<1>4. op[r] \in TerminalOp /\ op'[r] = op[r] => isCommitted(r)'
  BY <1>2, <1>3, WriteCommits DEF TerminalOp, isCommitted, getRunState
<1> QED BY <1>2, <1>3, <1>4, WriteCommits

\* A transition that succeeds starts the worker, its body, or the release.
LEMMA SucceededStep ==
    ASSUME StoreTypeOK, HandleInv, NEW r \in Run,
           pc[r] \in {"transition", "repair"},
           LifecycleWrite(r), TransitionSucceeded(r), UNCHANGED historyVars
    PROVE  HandleInv'
<1>1. HandleTypes /\ HandleFits(r) /\ PersistingFits(r)
  BY DEF HandleInv, HandleFits
<1>2. pc[r] \in Persisting
  BY DEF Persisting
<1>3. ~erred[r] /\ erred' = erred
  BY <1>1, <1>2 DEF HandleFits, EndFits, Persisting, TransitionSucceeded
<1>4. /\ mishap' = mishap /\ evicted' = evicted
  BY DEF historyVars
<1>5. \A s \in Run \ {r} : runs'[s] = runs[s]
  BY <1>2, WriteFits
<1>6. CASE op[r] = "queueRun"
  <2>1. /\ pc' = [pc EXCEPT ![r] = "transition"]
        /\ op' = [op EXCEPT ![r] = "beginRun"]
        /\ handle' = [handle EXCEPT ![r] = "running"]
    BY <1>6 DEF TransitionSucceeded, TerminalOp, GoTo
  <2>2. /\ pc'[r] = "transition" /\ op'[r] = "beginRun"
        /\ handle'[r] = "running"
    BY <2>1, <1>1 DEF HandleTypes
  <2>3. HandleTypes'
    BY <2>1, <1>1, <1>3, <1>4 DEF HandleTypes, Pc, Persisting, Op
  <2>4. OnlyRun(r)
    BY <2>1, <1>1, <1>3, <1>4, <1>5 DEF OnlyRun, handleFrame, HandleTypes
  <2>5. getRunState(r)' \in ActiveStatus
    BY <1>2, <1>6, WriteFits
  <2>6. HandleFits(r)'
    BY <2>2, <2>5, <1>3 DEF HandleFits, StartFits, PersistingFits, EndFits,
       Starting, Executing, TerminalOp
  <2> QED BY <2>3, <2>4, <2>6, OnlyRunStep
<1>7. CASE op[r] = "beginRun"
  <2>1. /\ pc' = [pc EXCEPT ![r] = "boundary"] /\ op' = op
        /\ handle' = handle
    BY <1>7 DEF TransitionSucceeded, TerminalOp, GoTo
  <2>2. pc'[r] = "boundary"
    BY <2>1, <1>1 DEF HandleTypes
  <2>3. HandleTypes'
    BY <2>1, <1>1, <1>3, <1>4 DEF HandleTypes, Pc, Executing
  <2>4. OnlyRun(r)
    BY <2>1, <1>1, <1>3, <1>4, <1>5 DEF OnlyRun, handleFrame, HandleTypes
  <2>5. getRunState(r)' \in ActiveStatus
    BY <1>2, <1>7, WriteFits DEF ActiveStatus
  <2>6. HandleFits(r)'
    BY <2>2, <2>5, <1>3 DEF HandleFits, StartFits, PersistingFits, EndFits,
       Starting, Persisting
  <2> QED BY <2>3, <2>4, <2>6, OnlyRunStep
<1>8. CASE op[r] \in TerminalOp
  <2>1. /\ pc' = [pc EXCEPT ![r] = "releasing"] /\ op' = op
        /\ handle' = handle
    BY <1>8 DEF TransitionSucceeded, TerminalOp, GoTo
  <2>2. pc'[r] = "releasing"
    BY <2>1, <1>1 DEF HandleTypes
  <2>3. HandleTypes'
    BY <2>1, <1>1, <1>3, <1>4 DEF HandleTypes, Pc
  <2>4. OnlyRun(r)
    BY <2>1, <1>1, <1>3, <1>4, <1>5 DEF OnlyRun, handleFrame, HandleTypes
  <2>5. isCommitted(r)'
    BY <2>1, <1>2, <1>8, WriteFits
  <2>6. HandleFits(r)'
    BY <2>1, <2>2, <2>5, <1>3, <1>8 DEF HandleFits, StartFits,
       PersistingFits, EndFits, Starting, Persisting, Executing
  <2> QED BY <2>3, <2>4, <2>6, OnlyRunStep
<1> QED BY <1>6, <1>7, <1>8 DEF TransitionSucceeded

\* A transition that fails for good fails the start, fails the run, or is
\* reported: the last only when more went wrong than one acknowledgement.
LEMMA FailedStep ==
    ASSUME StoreTypeOK, HandleInv, NEW r \in Run, pc[r] \in Persisting,
           TransitionFailed(r), UNCHANGED <<op, handle>>,
           UNCHANGED lifecycleVars \/ LifecycleWrite(r),
           \/ UNCHANGED historyVars
           \/ \E kind \in Mishap : Fault(r, kind),
           op[r] \in TerminalOp => ~Fine(r)'
    PROVE  HandleInv'
<1>1. HandleTypes /\ HandleFits(r) /\ PersistingFits(r)
  BY DEF HandleInv, HandleFits
<1>2. ~erred[r]
  BY <1>1 DEF HandleFits, EndFits, Persisting
<1>3. /\ mishap' \in [Run -> SUBSET Mishap] /\ evicted' = evicted
      /\ \A s \in Run \ {r} : mishap'[s] = mishap[s]
  BY <1>1, HistoryTypes
<1>4. \A s \in Run \ {r} : runs'[s] = runs[s]
  BY WriteFits DEF lifecycleVars
<1>5. CASE op[r] = "queueRun"
  <2>1. pc' = [pc EXCEPT ![r] = "startFailing"] /\ erred' = erred
    BY <1>5 DEF TransitionFailed, TerminalOp, GoTo
  <2>2. pc'[r] = "startFailing"
    BY <2>1, <1>1 DEF HandleTypes
  <2>3. HandleTypes'
    BY <2>1, <1>1, <1>3 DEF HandleTypes, Pc, Starting
  <2>4. OnlyRun(r)
    BY <2>1, <1>1, <1>3, <1>4 DEF OnlyRun, handleFrame, HandleTypes
  <2>5. handle[r] = "none"
    BY <1>1, <1>5 DEF PersistingFits
  <2>6. HandleFits(r)'
    BY <2>1, <2>2, <2>5, <1>2 DEF HandleFits, StartFits, PersistingFits,
       EndFits, Starting, Persisting, Executing
  <2> QED BY <2>3, <2>4, <2>6, OnlyRunStep
<1>6. CASE op[r] = "beginRun"
  <2>1. pc' = [pc EXCEPT ![r] = "failing"] /\ erred' = erred
    BY <1>6 DEF TransitionFailed, TerminalOp, GoTo
  <2>2. pc'[r] = "failing"
    BY <2>1, <1>1 DEF HandleTypes
  <2>3. HandleTypes'
    BY <2>1, <1>1, <1>3 DEF HandleTypes, Pc, Executing
  <2>4. OnlyRun(r)
    BY <2>1, <1>1, <1>3, <1>4 DEF OnlyRun, handleFrame, HandleTypes
  <2>5. getRunState(r)' \in ActiveStatus
    <3>1. CASE UNCHANGED lifecycleVars
      BY <3>1, <1>1, <1>6 DEF PersistingFits, lifecycleVars, getRunState
    <3>2. CASE LifecycleWrite(r)
      BY <3>2, <1>6, WriteFits DEF ActiveStatus
    <3> QED BY <3>1, <3>2
  <2>6. HandleFits(r)'
    BY <2>1, <2>2, <2>5, <1>2 DEF HandleFits, StartFits, PersistingFits,
       EndFits, Starting, Persisting
  <2> QED BY <2>3, <2>4, <2>6, OnlyRunStep
<1>7. CASE op[r] \in TerminalOp
  <2>1. Abort(r)
    BY <1>7 DEF TransitionFailed, TerminalOp
  <2>2. /\ pc' \in [Run -> Pc] /\ pc'[r] = "releasing"
        /\ erred' \in [Run -> BOOLEAN] /\ erred'[r] = TRUE
        /\ \A s \in Run \ {r} : pc'[s] = pc[s] /\ erred'[s] = erred[s]
    BY <2>1, <1>1, AbortEffect
  <2>3. HandleTypes'
    BY <2>2, <1>1, <1>3 DEF HandleTypes
  <2>4. OnlyRun(r)
    BY <2>2, <1>3, <1>4 DEF OnlyRun, handleFrame
  <2>5. HandleFits(r)'
    BY <2>2, <1>7 DEF HandleFits, StartFits, PersistingFits, EndFits,
       Starting, Persisting, Executing
  <2> QED BY <2>3, <2>4, <2>5, OnlyRunStep
<1> QED BY <1>5, <1>6, <1>7 DEF TransitionFailed

\* The first attempt of a transition.
LEMMA TransitionStep ==
    ASSUME StoreTypeOK, HandleInv, NEW r \in Run, Transition(r)
    PROVE  HandleInv'
<1>1. HandleTypes /\ HandleFits(r) /\ PersistingFits(r)
  BY DEF HandleInv, HandleFits
<1>2. pc[r] = "transition" /\ pc[r] \in Persisting
  BY DEF Transition, Persisting
<1>3. CASE LifecycleWrite(r) /\ TransitionSucceeded(r) /\ UNCHANGED historyVars
  BY <1>2, <1>3, SucceededStep
<1>4. CASE /\ \/ Fault(r, "lost") /\ UNCHANGED lifecycleVars
              \/ Fault(r, "unacknowledged") /\ LifecycleWrite(r)
           /\ GoTo(r, "confirm")
           /\ UNCHANGED <<op, handle, erred>>
  <2>1. PICK kind \in {"lost", "unacknowledged"} :
            /\ Fault(r, kind)
            /\ kind = "lost" => UNCHANGED lifecycleVars
            /\ kind = "unacknowledged" => LifecycleWrite(r)
    BY <1>4
  <2>2. kind \in Mishap
    BY DEF Mishap
  <2>3. /\ mishap' \in [Run -> SUBSET Mishap] /\ evicted' = evicted
        /\ \A s \in Run \ {r} : mishap'[s] = mishap[s]
        /\ mishap'[r] # {}
        /\ kind # "unacknowledged" => ~Fine(r)'
    BY <1>1, <2>1, <2>2, FaultEffect
  <2>4. /\ pc' \in [Run -> Pc] /\ pc'[r] = "confirm"
        /\ \A s \in Run \ {r} : pc'[s] = pc[s]
    <3>1. "confirm" \in Pc
      BY DEF Pc, Persisting
    <3> QED BY <3>1, <1>1, <1>4, GoToEffect
  <2>5. HandleTypes'
    BY <1>1, <1>4, <2>3, <2>4 DEF HandleTypes
  <2>6. /\ \A s \in Run \ {r} : runs'[s] = runs[s]
        /\ op[r] = "queueRun" => getRunState(r)' \notin TerminalStatus
        /\ op[r] = "beginRun" => getRunState(r)' \in ActiveStatus
        /\ op[r] \in TerminalOp =>
            getRunState(r)' \in ActiveStatus \/ isCommitted(r)'
        /\ op[r] # "queueRun" /\ Fine(r)' => isCommitted(r)'
    <3>1. CASE kind = "lost"
      <4>1. runs' = runs /\ op' = op
        BY <1>4, <2>1, <3>1 DEF lifecycleVars
      <4>2. isCommitted(r) => isCommitted(r)'
        BY <4>1 DEF isCommitted, getRunState
      <4> QED BY <4>1, <4>2, <1>1, <1>2, <2>3, <3>1
              DEF PersistingFits, getRunState
    <3>2. CASE kind = "unacknowledged"
      <4>1. LifecycleWrite(r) /\ op' = op /\ op[r] \in Op \ {"none"}
        BY <1>1, <1>2, <1>4, <2>1, <3>2 DEF HandleTypes, PersistingFits
      <4>2. op[r] = "beginRun" => isCommitted(r)'
        BY <4>1, <1>2, WriteFits DEF isCommitted
      <4>3. op[r] = "queueRun" \/ op[r] = "beginRun" \/ op[r] \in TerminalOp
        BY <4>1 DEF Op, TerminalOp
      <4> QED BY <4>1, <4>2, <4>3, <1>2, WriteFits
              DEF ActiveStatus, TerminalStatus
    <3> QED BY <3>1, <3>2
  <2>7. OnlyRun(r)
    BY <1>4, <2>3, <2>4, <2>6 DEF OnlyRun, handleFrame
  <2>8. ~erred[r] /\ (op[r] = "queueRun" => handle[r] = "none")
        /\ op[r] # "none"
    BY <1>1, <1>2 DEF HandleFits, EndFits, PersistingFits
  <2>9. HandleFits(r)'
    BY <1>4, <2>3, <2>4, <2>6, <2>8 DEF HandleFits, StartFits,
       PersistingFits, EndFits, Starting, Executing
  <2> QED BY <2>5, <2>7, <2>9, OnlyRunStep
<1> QED BY <1>3, <1>4 DEF Transition, Lost

\* The read after a failed attempt: an unacknowledged write is found.
LEMMA ConfirmStep ==
    ASSUME StoreTypeOK, HandleInv, NEW r \in Run, Confirm(r)
    PROVE  HandleInv'
<1>1. HandleTypes /\ HandleFits(r) /\ PersistingFits(r)
  BY DEF HandleInv, HandleFits
<1>2. pc[r] = "confirm" /\ pc[r] \in Persisting
  BY DEF Confirm, Persisting
<1>3. UNCHANGED <<lifecycleVars, op, handle>>
  BY DEF Confirm
<1>4. CASE isCommitted(r) /\ GoTo(r, "repair") /\ UNCHANGED <<erred, historyVars>>
  <2>1. /\ pc' \in [Run -> Pc] /\ pc'[r] = "repair"
        /\ \A s \in Run \ {r} : pc'[s] = pc[s]
    <3>1. "repair" \in Pc
      BY DEF Pc, Persisting
    <3> QED BY <3>1, <1>1, <1>4, GoToEffect
  <2>2. runs' = runs /\ mishap' = mishap /\ evicted' = evicted
    BY <1>3, <1>4 DEF lifecycleVars, historyVars
  <2>3. HandleTypes'
    BY <1>1, <1>3, <1>4, <2>1, <2>2 DEF HandleTypes
  <2>4. OnlyRun(r)
    BY <1>3, <1>4, <2>1, <2>2 DEF OnlyRun, handleFrame
  <2>5. getRunState(r)' = getRunState(r) /\ isCommitted(r)'
    BY <1>3, <1>4, <2>2 DEF getRunState, isCommitted
  <2>6. StartFits(r)' /\ EndFits(r)'
    BY <1>1, <1>2, <1>4, <2>1 DEF HandleFits, StartFits, EndFits, Starting,
       Executing
  <2>7. PersistingFits(r)'
    BY <1>1, <1>2, <1>3, <2>1, <2>2, <2>5 DEF PersistingFits
  <2> QED BY <2>3, <2>4, <2>6, <2>7, OnlyRunStep DEF HandleFits
<1>5. CASE ~isCommitted(r) /\ TransitionFailed(r) /\ UNCHANGED historyVars
  <2>1. op[r] \in TerminalOp => ~Fine(r)
    BY <1>1, <1>2, <1>5 DEF PersistingFits, TerminalOp
  <2>2. Fine(r)' => Fine(r)
    BY <1>5, <1>1, HistoryTypes
  <2> QED BY <1>2, <1>3, <1>5, <2>1, <2>2, FailedStep
<1>6. CASE Fault(r, "read") /\ TransitionFailed(r)
  <2>1. "read" \in Mishap
    BY DEF Mishap
  <2>2. ~Fine(r)'
    BY <1>1, <1>6, <2>1, FaultEffect
  <2> QED BY <1>2, <1>3, <1>6, <2>1, <2>2, FailedStep
<1> QED BY <1>4, <1>5, <1>6 DEF Confirm

\* The second attempt, which repairs projections.
LEMMA RepairStep ==
    ASSUME StoreTypeOK, HandleInv, NEW r \in Run, Repair(r)
    PROVE  HandleInv'
<1>1. HandleTypes /\ PersistingFits(r)
  BY DEF HandleInv, HandleFits
<1>2. pc[r] = "repair" /\ pc[r] \in Persisting
  BY DEF Repair, Persisting
<1>3. CASE LifecycleWrite(r) /\ TransitionSucceeded(r) /\ UNCHANGED historyVars
  BY <1>2, <1>3, SucceededStep
<1>4. CASE /\ \/ Fault(r, "lost") /\ UNCHANGED lifecycleVars
              \/ Fault(r, "unacknowledged") /\ LifecycleWrite(r)
           /\ TransitionFailed(r)
           /\ UNCHANGED <<op, handle>>
  <2>1. PICK kind \in {"lost", "unacknowledged"} : Fault(r, kind)
    BY <1>4
  <2>2. kind \in Mishap
    BY DEF Mishap
  <2>3. mishap[r] # {}
    BY <1>1, <1>2 DEF PersistingFits
  <2>4. ~Fine(r)'
    BY <1>1, <2>1, <2>2, <2>3, FaultEffect
  <2> QED BY <1>2, <1>4, <2>1, <2>2, <2>4, FailedStep
<1> QED BY <1>3, <1>4 DEF Repair, Lost

\* A step of the body that stays among the labels of the executing run, or
\* goes on to persist its end.
LEMMA BodyStep ==
    ASSUME HandleInv, NEW r \in Run,
           \/ Boundary(r) \/ WorkContinues(r) \/ WorkFails(r) \/ Final(r)
           \/ ScheduleReadFails(r)
           \/ \E status \in {"succeeded", "failed"} :
                FinishDefinition(r, status)
    PROVE  HandleInv'
<1> USE DEF storeVars, lifecycleVars
<1>1. HandleTypes /\ HandleFits(r)
  BY DEF HandleInv
<1>2. /\ pc[r] \in Executing /\ runs' = runs /\ UNCHANGED <<handle, erred>>
  BY DEF Boundary, WorkContinues, WorkFails, Final, ScheduleReadFails,
     FinishDefinition, Executing
<1>3. /\ mishap' \in [Run -> SUBSET Mishap] /\ evicted' = evicted
      /\ \A s \in Run \ {r} : mishap'[s] = mishap[s]
  <2>1. "read" \in Mishap
    BY DEF Mishap
  <2>2. UNCHANGED historyVars \/ Fault(r, "read")
    BY DEF Boundary, WorkContinues, WorkFails, Final, ScheduleReadFails,
       FinishDefinition
  <2> QED BY <2>1, <2>2, <1>1, HistoryTypes
<1>4. /\ getRunState(r)' \in ActiveStatus /\ ~erred'[r]
  BY <1>1, <1>2 DEF HandleFits, EndFits, Executing, getRunState
<1>5. /\ pc' \in [Run -> Pc] /\ \A s \in Run \ {r} : pc'[s] = pc[s]
      /\ pc'[r] \in Executing \union {"transition"}
  <2>1. PICK label \in Executing \union {"transition"} :
            pc' = [pc EXCEPT ![r] = label]
    BY DEF Boundary, WorkContinues, WorkFails, Final, ScheduleReadFails,
       FinishDefinition, Executing, GoTo
  <2> QED BY <2>1, <1>1 DEF HandleTypes, Pc, Persisting
<1>6. /\ op' \in [Run -> Op] /\ \A s \in Run \ {r} : op'[s] = op[s]
      /\ pc'[r] = "transition" => op'[r] \in TerminalOp
  <2>1. CASE Final(r)
    <3>1. \E o \in TerminalOp : op' = [op EXCEPT ![r] = o]
      BY <2>1 DEF Final, TerminalOp
    <3> QED BY <3>1, <1>1 DEF HandleTypes, TerminalOp, Op
  <2>2. CASE ~Final(r)
    <3>1. op' = op /\ pc'[r] # "transition"
      BY <2>2, <1>1 DEF Boundary, WorkContinues, WorkFails,
         ScheduleReadFails, FinishDefinition, GoTo, HandleTypes
    <3> QED BY <3>1, <1>1 DEF HandleTypes
  <2> QED BY <2>1, <2>2
<1>7. HandleTypes'
  BY <1>1, <1>2, <1>3, <1>5, <1>6 DEF HandleTypes
<1>8. OnlyRun(r)
  BY <1>2, <1>3, <1>5, <1>6 DEF OnlyRun, handleFrame
<1>9. HandleFits(r)'
  BY <1>4, <1>5, <1>6 DEF HandleFits, StartFits, PersistingFits, EndFits,
     Starting, Executing, Persisting, TerminalOp
<1> QED BY <1>7, <1>8, <1>9, OnlyRunStep

\* failRun of a failed body: the record shows it, or the write was lost.
LEMMA FailingStep ==
    ASSUME StoreTypeOK, HandleInv, NEW r \in Run, Failing(r)
    PROVE  HandleInv'
<1> DEFINE outcomes == definitionOutcomesAfterFailure(r)
<1>1. HandleTypes /\ HandleFits(r)
  BY DEF HandleInv
<1>2. Abort(r) /\ UNCHANGED <<op, handle>>
  BY DEF Failing
<1>3. /\ pc' \in [Run -> Pc] /\ pc'[r] = "releasing"
      /\ erred' \in [Run -> BOOLEAN] /\ erred'[r] = TRUE
      /\ \A s \in Run \ {r} : pc'[s] = pc[s] /\ erred'[s] = erred[s]
  BY <1>1, <1>2, AbortEffect
<1>4. PICK kind \in {"none", "lost", "unacknowledged"} :
        /\ kind = "none" => UNCHANGED historyVars
        /\ kind # "none" => Fault(r, kind)
        /\ IF kind = "lost" THEN runs' = runs
           ELSE updateRunState(r, "failed", FALSE, outcomes)
  BY DEF Failing, Lost, lifecycleVars, failRun
<1>5. kind # "none" => kind \in Mishap
  BY DEF Mishap
<1>6. /\ mishap' \in [Run -> SUBSET Mishap] /\ evicted' = evicted
      /\ \A s \in Run \ {r} : mishap'[s] = mishap[s]
  BY <1>1, <1>4, <1>5, HistoryTypes
<1>7. kind = "lost" => ~Fine(r)'
  BY <1>1, <1>4, <1>5, FaultEffect
<1>8. /\ \A s \in Run \ {r} : runs'[s] = runs[s]
      /\ kind # "lost" => getRunState(r)' = "failed"
  <2>1. CASE kind = "lost"
    BY <2>1, <1>4
  <2>2. CASE kind # "lost"
    <3>1. updateRunState(r, "failed", FALSE, outcomes)
      BY <2>2, <1>4
    <3> HIDE DEF outcomes
    <3>2. /\ \A s \in Run \ {r} : runs'[s] = runs[s]
          /\ LET decision == resolveMigrationRunTransition(getRunState(r),
                                                           "failed", FALSE)
             IN getRunState(r)' = IF decision.accepted THEN decision.status
                                  ELSE getRunState(r)
      BY <3>1, StatusWritten
    <3>3. getRunState(r) \in ActiveStatus
      BY <1>1 DEF Failing, HandleFits, EndFits, Executing
    <3> QED BY <3>2, <3>3 DEF resolveMigrationRunTransition, Decision,
       OrCurrent, ActiveStatus, TerminalStatus
  <2> QED BY <2>1, <2>2
<1>9. HandleTypes'
  BY <1>1, <1>2, <1>3, <1>6 DEF HandleTypes
<1>10. OnlyRun(r)
  BY <1>2, <1>3, <1>6, <1>8 DEF OnlyRun, handleFrame
<1>11. HandleFits(r)'
  BY <1>3, <1>7, <1>8 DEF HandleFits, StartFits, PersistingFits, EndFits,
     Starting, Persisting, Executing
<1> QED BY <1>9, <1>10, <1>11, OnlyRunStep

\* Releasing a lock fails by a mishap, or because an operator cleared it.
LEMMA ReleaseFits ==
    ASSUME LockInv, HandleInv, NEW r \in Run, ReleaseLock(r)
    PROVE  HandleInv'
<1>1. HandleTypes /\ HandleFits(r)
  BY DEF HandleInv
<1>2. /\ pc[r] = "releasing" /\ runs' = runs /\ UNCHANGED <<pc, op, handle>>
  BY DEF ReleaseLock, lifecycleVars
<1>3. PICK d \in Held(r) :
        \/ /\ erred' = [erred EXCEPT ![r] = @ \/ ReleaseRefused(d, lease[r][d])]
           /\ UNCHANGED historyVars
        \/ Fault(r, "release") /\ erred' = [erred EXCEPT ![r] = TRUE]
  BY DEF ReleaseLock
<1>4. PICK e \in BOOLEAN :
        /\ erred' = [erred EXCEPT ![r] = e]
        /\ erred[r] => e
        /\ e => erred[r] \/ ~Fine(r)'
  <2>1. CASE /\ erred' = [erred EXCEPT ![r] =
                            @ \/ ReleaseRefused(d, lease[r][d])]
             /\ UNCHANGED historyVars
    <3>1. PICK e \in BOOLEAN : e <=> erred[r] \/ ReleaseRefused(d, lease[r][d])
      OBVIOUS
    <3>2. erred' = [erred EXCEPT ![r] = e]
      BY <2>1, <3>1, <1>1 DEF HandleTypes
    <3>3. ReleaseRefused(d, lease[r][d]) => ~Fine(r)'
      <4>1. d \in Definition /\ lease[r][d] # 0
        BY DEF Held
      <4>2. d \notin evicted[r] => locks[d].token = lease[r][d]
        <5>1. d \notin evicted[r] =>
                locks[d] = [ownerRunId |-> r, token |-> lease[r][d]]
          BY <4>1 DEF LockInv, LeaseIsStored
        <5> QED BY <5>1
      <4>3. evicted' = evicted
        BY <2>1 DEF historyVars
      <4> QED BY <4>2, <4>3 DEF ReleaseRefused, Fine
    <3> QED BY <3>1, <3>2, <3>3
  <2>2. CASE Fault(r, "release") /\ erred' = [erred EXCEPT ![r] = TRUE]
    <3>1. "release" \in Mishap
      BY DEF Mishap
    <3>2. ~Fine(r)'
      BY <1>1, <2>2, <3>1, FaultEffect
    <3> QED BY <2>2, <3>2
  <2> QED BY <1>3, <2>1, <2>2
<1>5. /\ mishap' \in [Run -> SUBSET Mishap] /\ evicted' = evicted
      /\ \A s \in Run \ {r} : mishap'[s] = mishap[s]
      /\ Fine(r)' => Fine(r)
  <2>1. "release" \in Mishap
    BY DEF Mishap
  <2> QED BY <1>1, <1>3, <2>1, HistoryTypes
<1>6. /\ erred' \in [Run -> BOOLEAN] /\ erred'[r] = e
      /\ \A s \in Run \ {r} : erred'[s] = erred[s]
  BY <1>1, <1>4 DEF HandleTypes
<1>7. HandleTypes'
  BY <1>1, <1>2, <1>5, <1>6 DEF HandleTypes
<1>8. OnlyRun(r)
  BY <1>2, <1>5, <1>6 DEF OnlyRun, handleFrame
<1>9. /\ getRunState(r)' = getRunState(r)
      /\ isCommitted(r) => isCommitted(r)'
  BY <1>2 DEF getRunState, isCommitted
<1>10. HandleFits(r)'
  BY <1>1, <1>2, <1>4, <1>5, <1>6, <1>9 DEF HandleFits, StartFits,
     PersistingFits, EndFits, Starting, Persisting, Executing
<1> QED BY <1>7, <1>8, <1>10, OnlyRunStep

\* The handle ends as the last transition was recorded, or as failed.
LEMMA FinishStep ==
    ASSUME HandleInv, NEW r \in Run, Finish(r)
    PROVE  HandleInv'
<1>1. HandleTypes /\ HandleFits(r)
  BY DEF HandleInv
<1>2. /\ pc[r] = "releasing" /\ pc' = [pc EXCEPT ![r] = "done"]
      /\ runs' = runs /\ UNCHANGED <<op, erred, mishap, evicted>>
  BY DEF Finish, GoTo, storeVars, historyVars
<1>3. pc' \in [Run -> Pc] /\ pc'[r] = "done"
      /\ \A s \in Run \ {r} : pc'[s] = pc[s]
  BY <1>1, <1>2 DEF HandleTypes, Pc
<1>4. PICK h \in {"none", "succeeded", "failed", "cancelled"} :
        /\ handle' = [handle EXCEPT ![r] = h]
        /\ h = "none" <=> handle[r] = "none"
        /\ handle[r] # "none" =>
            h = IF erred[r] THEN "failed" ELSE ExecutionStatus(r)
  <2>1. ExecutionStatus(r) \in {"succeeded", "failed", "cancelled"}
    BY DEF ExecutionStatus
  <2>2. CASE handle[r] = "none"
    <3>1. handle' = handle
      BY <2>2 DEF Finish
    <3>2. handle = [handle EXCEPT ![r] = "none"]
      BY <2>2, <1>1 DEF HandleTypes
    <3> QED BY <2>2, <3>1, <3>2
  <2>3. CASE handle[r] # "none"
    <3>1. handle' = [handle EXCEPT ![r] = IF erred[r] THEN "failed"
                                          ELSE ExecutionStatus(r)]
      BY <2>3 DEF Finish
    <3> QED BY <2>1, <2>3, <3>1
  <2> QED BY <2>2, <2>3
<1>5. /\ handle'[r] = h
      /\ \A s \in Run \ {r} : handle'[s] = handle[s]
  BY <1>1, <1>4 DEF HandleTypes
<1>6. HandleTypes'
  BY <1>1, <1>2, <1>3, <1>4 DEF HandleTypes
<1>7. OnlyRun(r)
  BY <1>2, <1>3, <1>5 DEF OnlyRun, handleFrame
<1>8. Fine(r)' <=> Fine(r)
  BY <1>2 DEF Fine, AtMostOneUnacknowledged
<1>9. ~erred[r] /\ handle[r] # "none" => h = getRunState(r)
  <2> SUFFICES ASSUME ~erred[r], handle[r] # "none"
               PROVE  h = getRunState(r)
    OBVIOUS
  <2>1. op[r] \in TerminalOp /\ isCommitted(r)
    BY <1>1, <1>2 DEF HandleFits, EndFits
  <2>2. h = ExecutionStatus(r)
    BY <1>4
  <2> QED BY <2>1, <2>2 DEF ExecutionStatus, isCommitted, TerminalOp
<1>10. getRunState(r)' = getRunState(r)
  BY <1>2 DEF getRunState
<1>11. h # "none" => h = getRunState(r) \/ (h = "failed" /\ ~Fine(r))
  BY <1>1, <1>2, <1>4, <1>9 DEF HandleFits, EndFits
<1>12. HandleFits(r)'
  BY <1>2, <1>3, <1>4, <1>5, <1>8, <1>10, <1>11 DEF HandleFits, StartFits,
     PersistingFits, EndFits, Starting, Persisting, Executing
<1> QED BY <1>6, <1>7, <1>12, OnlyRunStep

\* Nothing is asked of a run whose process died.
LEMMA CrashStep ==
    ASSUME HandleInv, NEW r \in Run, Crash(r)
    PROVE  HandleInv'
<1>1. HandleTypes
  BY DEF HandleInv
<1>2. /\ pc' = [pc EXCEPT ![r] = "crashed"]
      /\ runs' = runs /\ UNCHANGED <<op, handle, erred, mishap, evicted>>
  BY DEF Crash, GoTo, storeVars
<1>3. pc' \in [Run -> Pc] /\ pc'[r] = "crashed"
      /\ \A s \in Run \ {r} : pc'[s] = pc[s]
  BY <1>1, <1>2 DEF HandleTypes, Pc
<1>4. HandleTypes' /\ OnlyRun(r)
  BY <1>1, <1>2, <1>3 DEF HandleTypes, OnlyRun, handleFrame
<1>5. HandleFits(r)'
  BY <1>3 DEF HandleFits, StartFits, PersistingFits, EndFits, Starting,
     Persisting, Executing
<1> QED BY <1>4, <1>5, OnlyRunStep

\* A cancelled handle shows a status of its own only while the run goes on.
LEMMA CancelHandleStep ==
    ASSUME HandleInv, NEW r \in Run, CancelHandle(r)
    PROVE  HandleInv'
<1>1. HandleTypes /\ HandleFits(r)
  BY DEF HandleInv
<1>2. /\ handle' = [handle EXCEPT ![r] = "cancelling"]
      /\ handle[r] = "running"
      /\ runs' = runs /\ UNCHANGED <<pc, op, erred, mishap, evicted>>
  BY DEF CancelHandle, UseStop, storeVars
<1>3. handle'[r] = "cancelling" /\ \A s \in Run \ {r} : handle'[s] = handle[s]
  BY <1>1, <1>2 DEF HandleTypes
<1>4. HandleTypes' /\ OnlyRun(r)
  BY <1>1, <1>2, <1>3 DEF HandleTypes, OnlyRun, handleFrame
<1>5. /\ getRunState(r)' = getRunState(r)
      /\ isCommitted(r)' <=> isCommitted(r)
      /\ Fine(r)' <=> Fine(r)
  BY <1>2 DEF getRunState, isCommitted, Fine, AtMostOneUnacknowledged
<1>6. HandleFits(r)'
  BY <1>1, <1>2, <1>3, <1>5 DEF HandleFits, StartFits, PersistingFits, EndFits
<1> QED BY <1>4, <1>6, OnlyRunStep

\* The durable stop turns an active record to cancelling.
LEMMA StopStep ==
    ASSUME StoreTypeOK, HandleInv, NEW r \in Run, StopRunRequests(r)
    PROVE  HandleInv'
<1>1. UNCHANGED <<pc, op, handle, erred, mishap, evicted>>
  BY DEF StopRunRequests, workerVars, historyVars
<1>2. ASSUME NEW s \in Run PROVE StoppedOrSame(s)
  <2>1. CASE runs' = [runs EXCEPT ![r].status = "cancelling"]
    <3>1. isActiveMigrationRunStatus(runs[r].status) \/ runs' = runs
      BY DEF StopRunRequests, requestRunCancellation, lifecycleVars
    <3>2. CASE s = r
      <4>1. runs'[r].status = "cancelling"
        BY <2>1 DEF StoreTypeOK, RunRecord
      <4> QED BY <3>1, <3>2, <4>1 DEF StoppedOrSame, getRunState,
              isActiveMigrationRunStatus
    <3>3. CASE s # r
      BY <2>1, <3>3 DEF StoreTypeOK, StoppedOrSame, getRunState
    <3> QED BY <3>2, <3>3
  <2>2. CASE runs' = runs
    BY <2>2 DEF StoppedOrSame, getRunState
  <2> QED BY <2>1, <2>2 DEF StopRunRequests, requestRunCancellation,
     lifecycleVars
<1>3. ASSUME NEW s \in Run PROVE HandleFits(s)'
  BY <1>1, <1>2, FrameFits DEF HandleInv, handleFrame, MishapsKept
<1> QED BY <1>1, <1>3 DEF HandleInv, HandleTypes

\* A step that only adds to the mishaps of runs.
LEMMA UntouchedStep ==
    ASSUME HandleInv, UNCHANGED <<runs, pc, op, handle, erred, mishap>>,
           evicted' \in [Run -> SUBSET Definition],
           \A s \in Run : evicted[s] \subseteq evicted'[s]
    PROVE  HandleInv'
<1>1. ASSUME NEW s \in Run PROVE HandleFits(s)'
  BY FrameFits DEF HandleInv, handleFrame, MishapsKept, StoppedOrSame,
     getRunState
<1> QED BY <1>1 DEF HandleInv, HandleTypes

\* The invariant is inductive, given what is known of locks and records.
LEMMA NextHandleInv ==
    LockInv /\ StoreTypeOK /\ HandleInv /\ [Next]_vars => HandleInv'
<1> SUFFICES ASSUME LockInv, StoreTypeOK, HandleInv, [Next]_vars
             PROVE  HandleInv'
  OBVIOUS
<1> evicted \in [Run -> SUBSET Definition]
  BY DEF LockInv, LockTypes
<1>1. ASSUME NEW r \in Run, WorkerStep(r)
      PROVE  HandleInv'
  BY <1>1, StartSteps, StartWrites, TransitionStep, ConfirmStep, RepairStep,
     BodyStep, FailingStep, ReleaseFits, FinishStep DEF WorkerStep
<1>2. ASSUME NEW r \in Run,
             \/ StartPlan(r) \/ InterruptStart(r) \/ ScheduleReadFails(r)
             \/ Crash(r) \/ CancelHandle(r) \/ StopRunRequests(r)
      PROVE  HandleInv'
  BY <1>2, StartSteps, StartWrites, BodyStep, CrashStep, CancelHandleStep,
     StopStep
<1>3. ASSUME NEW r \in Run, CacheExpires(r) \/ StopRunFindsActive(r)
      PROVE  HandleInv'
  BY <1>3, UntouchedStep DEF CacheExpires, StopRunFindsActive, UseStop,
     storeVars, workerVars, historyVars
<1>4. ASSUME NEW d \in Definition, SeeLock(d)
      PROVE  HandleInv'
  BY <1>4, UntouchedStep DEF SeeLock, storeVars, workerVars
<1>5. ASSUME NEW d \in Definition, breakLock(d)
      PROVE  HandleInv'
  <2>1. UNCHANGED <<runs, pc, op, handle, erred, mishap>>
    BY <1>5 DEF breakLock, lifecycleVars, workerVars
  <2>2. \/ evicted' = evicted
        \/ evicted' = [evicted EXCEPT ![locks[d].ownerRunId] = @ \union {d}]
    BY <1>5 DEF breakLock
  <2> QED BY <2>1, <2>2, UntouchedStep
<1>6. CASE UNCHANGED vars
  BY <1>6, UntouchedStep DEF vars, storeVars, workerVars, historyVars
<1> QED BY <1>1, <1>2, <1>3, <1>4, <1>5, <1>6 DEF Next

\* HandleAgreesWithRecord: what a finished run's handle tells the caller is
\* what the store recorded, whatever other runs, stops and operators do, also
\* when one of the run's writes went unacknowledged.
THEOREM InlineRunHandleAgrees == Spec => []HandleAgreesWithRecord
<1>1. HandleInv => HandleAgreesWithRecord
  BY DEF HandleInv, HandleFits, EndFits, HandleAgreesWithRecord, Fine
<1>2. Spec => []LockInv
  BY InitLockInv, NextLockInv, PTL DEF Spec
<1> QED BY <1>1, <1>2, StoreTypesInvariant, InitHandleInv, NextHandleInv, PTL
        DEF Spec

-----------------------------------------------------------------------------
(* What the store promises its clients, for inline runs *)

\* No step of an inline run, an operator or a fault changes the status of a
\* finished run, overwrites an acknowledged stop with success, or takes a
\* definition's projection back to an older run.
COROLLARY InlineRunsKeepStorePromises ==
    Spec => /\ []LatestMatchesRecord
            /\ TerminalAbsorbing
            /\ AcknowledgedStopWins
            /\ LatestNeverGoesBack
BY InlineRunImplementsStore, StoreLatestMatchesRecord, StoreTerminalAbsorbing,
   StoreAcknowledgedStopWins, StoreLatestNeverGoesBack, PTL DEF ImplementsStore
=============================================================================
