----------------------- MODULE FileMigrationStoreProofs -----------------------
(***************************************************************************)
(* Proofs about FileMigrationStore, for any clients, runs and bounds:      *)
(* calls never wait for each other in a circle, they act on the run        *)
(* records as the atomic operations of the in-memory store, and the        *)
(* projections follow the records (FollowInv).                             *)
(***************************************************************************)
EXTENDS FileMigrationStore, FiniteSetTheorems, TLAPS

-----------------------------------------------------------------------------
(* Projection locks *)

Phase == {"idle", "locking", "writing", "projecting", "unlocking", "crashed"}
InSection == {"writing", "projecting"}
Calling == {"locking"} \union InSection

\* The types of what locking depends on.
LockTypes ==
    /\ projectionLocks \in [Definition -> Client \union {NoClient}]
    /\ at \in [Client -> Phase]
    /\ job = [c \in Client |-> job[c]]
    /\ \A c \in Client : at[c] \in Calling => job[c].run \in Run

\* The next lock a call takes is later in the order than those it holds.
TakenInOrder ==
    \A c \in Client : at[c] = "locking" =>
        \A d \in HeldBy(c), e \in Scope[job[c].run] \ HeldBy(c) : d < e

\* A call starts without locks, and holds those of all the run's definitions
\* while it writes.
SectionIsLocked ==
    \A c \in Client :
        /\ at[c] = "idle" => HeldBy(c) = {}
        /\ at[c] \in InSection => Scope[job[c].run] \subseteq HeldBy(c)

SectionInv == LockTypes /\ TakenInOrder /\ SectionIsLocked

\* Definitions are numbers, and a scope consists of definitions.
LEMMA ScopeIsDefined ==
    /\ \A d \in Definition : d \in Nat
    /\ \A r \in Run : Scope[r] # {} /\ Scope[r] \subseteq Definition
BY FileMigrationStoreAssumption

\* No client is "no client".
LEMMA ClientIsSomeone == NoClient \notin Client
BY FileMigrationStoreAssumption

\* Nobody holds a lock at first.
LEMMA InitSection == Init => SectionInv
<1> SUFFICES ASSUME Init PROVE SectionInv
  OBVIOUS
<1> QED
  BY ClientIsSomeone DEF Init, SectionInv, LockTypes, TakenInOrder, SectionIsLocked,
     HeldBy, Phase, Calling, InSection, NoJob

\* A step that takes no lock and lets no client into its section, unless it
\* has all it needs, keeps the invariant.
LEMMA KeepsLocks ==
    ASSUME SectionInv, UNCHANGED projectionLocks, NEW c \in Client,
           NEW phase \in Phase, at' = [at EXCEPT ![c] = phase],
           NEW j, job' = [job EXCEPT ![c] = j],
           phase \in Calling => j.run \in Run,
           phase = "idle" => HeldBy(c) = {},
           phase = "locking" => HeldBy(c) = {},
           phase \in InSection => Scope[j.run] \subseteq HeldBy(c)
    PROVE  SectionInv'
<1>1. \A e \in Client : HeldBy(e)' = HeldBy(e)
  BY DEF HeldBy
<1>2. /\ at'[c] = phase /\ job'[c] = j
      /\ \A e \in Client \ {c} : at'[e] = at[e] /\ job'[e] = job[e]
  BY DEF SectionInv, LockTypes
<1>3. LockTypes'
  BY <1>2 DEF SectionInv, LockTypes
<1>4. TakenInOrder'
  <2> SUFFICES ASSUME NEW e \in Client, at'[e] = "locking",
                      NEW d \in HeldBy(e)', NEW f \in (Scope[job[e].run] \ HeldBy(e))'
               PROVE  d < f
    BY DEF TakenInOrder
  <2>1. CASE e = c
    BY <1>1, <1>2, <2>1
  <2>2. CASE e # c
    BY <1>1, <1>2, <2>2 DEF SectionInv, TakenInOrder
  <2> QED BY <2>1, <2>2
<1>5. SectionIsLocked'
  <2> SUFFICES ASSUME NEW e \in Client
               PROVE  /\ at'[e] = "idle" => HeldBy(e)' = {}
                      /\ at'[e] \in InSection => Scope[job'[e].run] \subseteq HeldBy(e)'
    BY DEF SectionIsLocked
  <2>1. CASE e = c
    BY <1>1, <1>2, <2>1
  <2>2. CASE e # c
    BY <1>1, <1>2, <2>2 DEF SectionInv, SectionIsLocked
  <2> QED BY <2>1, <2>2
<1> QED BY <1>3, <1>4, <1>5 DEF SectionInv

\* The same for a step that moves a client on within its call, or out of it.
LEMMA MovesOn ==
    ASSUME SectionInv, UNCHANGED <<projectionLocks, job>>, NEW c \in Client,
           NEW phase \in Phase \ {"locking"}, at' = [at EXCEPT ![c] = phase],
           phase \in InSection => /\ job[c].run \in Run
                                  /\ Scope[job[c].run] \subseteq HeldBy(c),
           phase = "idle" => HeldBy(c) = {}
    PROVE  SectionInv'
<1>1. job' = [job EXCEPT ![c] = job[c]]
  BY DEF SectionInv, LockTypes
<1> DEFINE j == job[c]
<1>2. job' = [job EXCEPT ![c] = j]
  BY <1>1
<1>3. phase \in Calling => j.run \in Run
  BY DEF Calling
<1>4. phase \in InSection => Scope[j.run] \subseteq HeldBy(c)
  OBVIOUS
<1> HIDE DEF j
<1> QED BY <1>2, <1>3, <1>4, KeepsLocks

\* The first missing lock is later than all that are held, and earlier than
\* the others that are missing.
LEMMA AcquireSection ==
    ASSUME SectionInv, NEW c \in Client, acquireProjectionLock(c)
    PROVE  SectionInv'
<1>1. PICK d \in Definition :
        /\ IsFirst(d, Scope[job[c].run] \ HeldBy(c))
        /\ projectionLocks[d] = NoClient
        /\ projectionLocks' = [projectionLocks EXCEPT ![d] = c]
  BY DEF acquireProjectionLock
<1>2. at[c] = "locking" /\ UNCHANGED <<at, job>>
  BY DEF acquireProjectionLock, callVars
<1>3. /\ HeldBy(c)' = HeldBy(c) \union {d}
      /\ \A e \in Client \ {c} : HeldBy(e)' = HeldBy(e)
  BY <1>1, ClientIsSomeone DEF HeldBy, SectionInv, LockTypes
<1>4. LockTypes'
  BY <1>1, <1>2 DEF SectionInv, LockTypes
<1>5. TakenInOrder'
  <2> SUFFICES ASSUME NEW e \in Client, at'[e] = "locking",
                      NEW h \in HeldBy(e)', NEW f \in (Scope[job[e].run] \ HeldBy(e))'
               PROVE  h < f
    BY DEF TakenInOrder
  <2>1. CASE e = c
    <3>1. job[c].run \in Run
      BY <1>2 DEF SectionInv, LockTypes, Calling
    <3>2. d \in Nat /\ f \in Nat /\ d <= f /\ f # d /\ f \in Scope[job[c].run] \ HeldBy(c)
      BY <1>1, <1>2, <1>3, <2>1, <3>1, ScopeIsDefined DEF IsFirst
    <3>3. CASE h = d
      BY <3>2, <3>3
    <3>4. CASE h # d
      BY <1>2, <1>3, <2>1, <3>2, <3>4 DEF SectionInv, TakenInOrder
    <3> QED BY <3>3, <3>4
  <2>2. CASE e # c
    BY <1>2, <1>3, <2>2 DEF SectionInv, TakenInOrder
  <2> QED BY <2>1, <2>2
<1>6. SectionIsLocked'
  BY <1>2, <1>3 DEF SectionInv, SectionIsLocked, InSection
<1> QED BY <1>4, <1>5, <1>6 DEF SectionInv

\* A lock given up by a client outside its section, or taken from a dead one,
\* is nobody's condition.
LEMMA GivesUpSection ==
    ASSUME SectionInv, NEW d \in Definition, NEW c \in Client,
           projectionLocks[d] = c, at[c] \in {"unlocking", "crashed"},
           projectionLocks' = [projectionLocks EXCEPT ![d] = NoClient],
           UNCHANGED <<at, job>>
    PROVE  SectionInv'
<1>1. \A e \in Client \ {c} : HeldBy(e)' = HeldBy(e)
  BY ClientIsSomeone DEF HeldBy, SectionInv, LockTypes
<1>2. LockTypes'
  BY DEF SectionInv, LockTypes
<1>3. TakenInOrder'
  BY <1>1 DEF SectionInv, TakenInOrder
<1>4. SectionIsLocked'
  BY <1>1 DEF SectionInv, SectionIsLocked, InSection
<1> QED BY <1>2, <1>3, <1>4 DEF SectionInv

\* Every step keeps the locks in order and the sections locked.
LEMMA SectionStep == SectionInv /\ [Next]_vars => SectionInv'
<1> SUFFICES ASSUME SectionInv, [Next]_vars PROVE SectionInv'
  OBVIOUS
<1> USE DEF SectionInv, LockTypes
<1>1. CASE \E c \in Client, r \in Run, op \in Op : \E outcomes : Call(c, op, r, outcomes)
  <2>0. PICK c \in Client, r \in Run, op \in Op : \E outcomes : Call(c, op, r, outcomes)
    BY <1>1
  <2>1. PICK outcomes : Call(c, op, r, outcomes)
    BY <2>0
  <2> DEFINE j == [op |-> op, run |-> r, outcomes |-> outcomes]
  <2>2. /\ UNCHANGED projectionLocks /\ at[c] = "idle"
        /\ at' = [at EXCEPT ![c] = "locking"] /\ job' = [job EXCEPT ![c] = j]
    BY <2>1 DEF Call
  <2>3. HeldBy(c) = {}
    BY <2>2 DEF SectionIsLocked
  <2>4. j.run \in Run
    OBVIOUS
  <2> HIDE DEF j, SectionInv, LockTypes
  <2> QED BY <2>2, <2>3, <2>4, KeepsLocks DEF Phase, InSection
<1>2. ASSUME NEW c \in Client, acquireProjectionLock(c) PROVE SectionInv'
  <2> HIDE DEF SectionInv, LockTypes
  <2> QED BY <1>2, AcquireSection
<1>3. ASSUME NEW c \in Client, ReadRecord(c) PROVE SectionInv'
  <2>1. PICK phase \in {"writing", "unlocking"} : at' = [at EXCEPT ![c] = phase]
    BY <1>3 DEF ReadRecord, Leave
  <2>2. /\ UNCHANGED <<projectionLocks, job>> /\ at[c] = "locking"
        /\ Scope[job[c].run] \subseteq HeldBy(c)
    BY <1>3 DEF ReadRecord
  <2>3. job[c].run \in Run
    BY <2>2 DEF Calling
  <2> HIDE DEF SectionInv, LockTypes
  <2> QED BY <2>1, <2>2, <2>3, MovesOn DEF Phase
<1>4. ASSUME NEW c \in Client, writeRunRecord(c) PROVE SectionInv'
  <2>1. /\ at' = [at EXCEPT ![c] = "projecting"]
        /\ UNCHANGED <<projectionLocks, job>> /\ at[c] = "writing"
    BY <1>4 DEF writeRunRecord
  <2>2. job[c].run \in Run /\ Scope[job[c].run] \subseteq HeldBy(c)
    BY <2>1 DEF SectionIsLocked, Calling, InSection
  <2> HIDE DEF SectionInv, LockTypes
  <2> QED BY <2>1, <2>2, MovesOn DEF Phase
<1>5. ASSUME NEW c \in Client, NEW d \in Definition, writeProjection(c, d)
      PROVE  SectionInv'
  <2>1. PICK phase \in {"projecting", "unlocking"} : at' = [at EXCEPT ![c] = phase]
    BY <1>5 DEF writeProjection, Leave
  <2>2. UNCHANGED <<projectionLocks, job>> /\ at[c] = "projecting"
    BY <1>5 DEF writeProjection
  <2>3. job[c].run \in Run /\ Scope[job[c].run] \subseteq HeldBy(c)
    BY <2>2 DEF SectionIsLocked, Calling, InSection
  <2> HIDE DEF SectionInv, LockTypes
  <2> QED BY <2>1, <2>2, <2>3, MovesOn DEF Phase
<1>6. ASSUME NEW c \in Client, releaseProjectionLock(c) PROVE SectionInv'
  <2>1. PICK d \in Definition :
          /\ d \in HeldBy(c)
          /\ projectionLocks' = [projectionLocks EXCEPT ![d] = NoClient]
    BY <1>6 DEF releaseProjectionLock, IsLast
  <2>2. at[c] = "unlocking" /\ UNCHANGED <<at, job>> /\ projectionLocks[d] = c
    BY <1>6, <2>1 DEF releaseProjectionLock, callVars, HeldBy
  <2> HIDE DEF SectionInv, LockTypes
  <2> QED BY <2>1, <2>2, GivesUpSection
<1>7. ASSUME NEW c \in Client, LockTimesOut(c) \/ WriteFails(c) PROVE SectionInv'
  <2>1. at' = [at EXCEPT ![c] = "unlocking"] /\ UNCHANGED <<projectionLocks, job>>
    BY <1>7 DEF LockTimesOut, WriteFails, Leave
  <2> HIDE DEF SectionInv, LockTypes
  <2> QED BY <2>1, MovesOn DEF Phase, InSection
<1>8. ASSUME NEW c \in Client, Return(c) \/ Crash(c) PROVE SectionInv'
  <2>1. PICK phase \in {"idle", "crashed"} :
            /\ at' = [at EXCEPT ![c] = phase]
            /\ phase = "idle" => HeldBy(c) = {}
    BY <1>8 DEF Return, Crash
  <2>2. job' = [job EXCEPT ![c] = NoJob] /\ UNCHANGED projectionLocks
    BY <1>8 DEF Return, Crash
  <2> HIDE DEF SectionInv, LockTypes
  <2> QED BY <2>1, <2>2, KeepsLocks DEF Phase, Calling, InSection
<1>9. ASSUME NEW c \in Client, Restart(c) PROVE SectionInv'
  <2>1. /\ at' = [at EXCEPT ![c] = "idle"] /\ UNCHANGED <<projectionLocks, job>>
        /\ HeldBy(c) = {}
    BY <1>9 DEF Restart
  <2> HIDE DEF SectionInv, LockTypes
  <2> QED BY <2>1, MovesOn DEF Phase, InSection
<1>10. ASSUME NEW d \in Definition, LockGoesStale(d) PROVE SectionInv'
  <2>1. /\ projectionLocks[d] \in Client /\ at[projectionLocks[d]] = "crashed"
        /\ projectionLocks' = [projectionLocks EXCEPT ![d] = NoClient]
        /\ UNCHANGED <<at, job>>
    BY <1>10 DEF LockGoesStale, callVars
  <2> HIDE DEF SectionInv, LockTypes
  <2> QED BY <2>1, GivesUpSection
<1>11. CASE UNCHANGED vars
  BY <1>11 DEF vars, callVars, TakenInOrder, SectionIsLocked, HeldBy
<1> HIDE DEF SectionInv, LockTypes
<1>12. CASE Next
  <2>1. CASE \E c \in Client, r \in Run :
               \/ \E op \in StartOp \union PlainOp : Call(c, op, r, NoOutcomes)
               \/ \E op \in OutcomeOp, outcomes \in Outcomes[r] :
                      Call(c, op, r, outcomes)
    BY <1>1, <2>1 DEF Op
  <2>2. CASE \E c \in Client : ClientStep(c)
    BY <1>2, <1>3, <1>4, <1>5, <1>6, <1>8, <2>2 DEF ClientStep
  <2>3. CASE \E c \in Client : LockTimesOut(c) \/ WriteFails(c) \/ Crash(c) \/ Restart(c)
    BY <1>7, <1>8, <1>9, <2>3
  <2>4. CASE \E d \in Definition : LockGoesStale(d)
    BY <1>10, <2>4
  <2> QED BY <1>12, <2>1, <2>2, <2>3, <2>4 DEF Next
<1> QED BY <1>11, <1>12

\* SectionInv holds in every reachable state.
LEMMA SectionInvariant == Spec => []SectionInv
<1> QED BY InitSection, SectionStep, PTL DEF Spec

-----------------------------------------------------------------------------
(* No circular wait *)

\* A nonempty set of definitions has a last one: there are finitely many.
LEMMA LastExists ==
    ASSUME NEW D \in SUBSET Definition, D # {}
    PROVE  \E m \in D : \A d \in D : d <= m
<1> DEFINE From(m) == {d \in D : m <= d}
           Froms == {From(m) : m \in D}
           R == StrictSubsetOrdering(Definition)
<1>1. IsWellFoundedOn(R, FiniteSubsetsOf(Definition))
  BY FS_StrictSubsetOrderingWellFounded
<1>2. FiniteSubsetsOf(Definition) = SUBSET Definition
  BY FS_FiniteSubsetsOfFinite, FileMigrationStoreAssumption
<1>3. Froms \subseteq SUBSET Definition /\ Froms # {}
  OBVIOUS
<1> HIDE DEF R
<1>4. \E U \in Froms : \A V \in Froms : <<V, U>> \notin R
  <2> HIDE DEF Froms
  <2> QED BY <1>1, <1>2, <1>3, WFMin
<1>5. PICK m \in D : \A V \in Froms : <<V, From(m)>> \notin R
  BY <1>4
<1>6. ASSUME NEW d \in D PROVE d <= m
  <2>1. m \in Nat /\ d \in Nat /\ \A e \in D : e \in Nat
    BY ScopeIsDefined
  <2>2. SUFFICES ASSUME m < d PROVE FALSE
    BY <2>1
  <2>3. m \in From(m) /\ m \notin From(d)
    BY <2>1, <2>2
  <2>5. ASSUME NEW e \in From(d) PROVE e \in From(m)
    <3>1. e \in Nat /\ d <= e
      BY <2>1
    <3> QED BY <2>1, <2>2, <3>1
  <2>4. <<From(d), From(m)>> \in R
    <3>1. /\ From(d) \in SUBSET Definition /\ From(m) \in SUBSET Definition
          /\ From(d) \subseteq From(m) /\ From(d) # From(m)
      BY <2>3, <2>5
    <3> HIDE DEF From
    <3> QED BY <3>1 DEF R, StrictSubsetOrdering
  <2> QED BY <1>5, <2>4
<1> QED BY <1>6

\* Of clients that all wait for each other, consider the one that waits for
\* the last definition: its holder waits for a later one still.
LEMMA SectionNoCircle == SectionInv => NoCircularWait
<1> SUFFICES ASSUME SectionInv, NEW W \in (SUBSET Client) \ {{}},
                    \A c \in W : \E e \in W : WaitsFor(c, e)
             PROVE  FALSE
  BY DEF NoCircularWait
<1> DEFINE Missing(c) == Scope[job[c].run] \ HeldBy(c)
           Wanted == {d \in Definition : \E c \in W : IsFirst(d, Missing(c))}
<1>1. ASSUME NEW c \in W
      PROVE  /\ at[c] = "locking" /\ job[c].run \in Run
             /\ \E d \in Wanted : IsFirst(d, Missing(c)) /\ projectionLocks[d] \in W
  <2>1. PICK e \in W : WaitsFor(c, e)
    OBVIOUS
  <2>2. PICK d \in Definition : IsFirst(d, Missing(c)) /\ projectionLocks[d] = e
    BY <2>1 DEF WaitsFor
  <2>3. d \in Wanted
    BY <2>2
  <2>4. at[c] = "locking" /\ job[c].run \in Run
    BY <2>1 DEF WaitsFor, SectionInv, LockTypes, Calling
  <2> QED BY <2>2, <2>3, <2>4
<1>2. Wanted \in SUBSET Definition /\ Wanted # {}
  BY <1>1
<1>3. PICK m \in Wanted : \A d \in Wanted : d <= m
  <2> HIDE DEF Wanted
  <2> QED BY <1>2, LastExists
<1>4. PICK c \in W : IsFirst(m, Missing(c))
  OBVIOUS
<1>5. PICK d \in Wanted : IsFirst(d, Missing(c)) /\ projectionLocks[d] \in W
  BY <1>1
<1>6. d = m
  <2>1. d \in Nat /\ m \in Nat /\ d <= m /\ m <= d
    BY <1>4, <1>5, ScopeIsDefined DEF IsFirst
  <2> QED BY <2>1
<1>7. PICK e \in W : projectionLocks[m] = e
  BY <1>5, <1>6
<1>8. PICK n \in Wanted : IsFirst(n, Missing(e))
  BY <1>1
<1>9. m \in HeldBy(e) /\ at[e] = "locking" /\ n \in Missing(e)
  BY <1>1, <1>7, <1>8 DEF HeldBy, IsFirst
<1>10. m < n /\ n <= m /\ m \in Nat /\ n \in Nat
  BY <1>3, <1>9, ScopeIsDefined DEF SectionInv, TakenInOrder
<1> QED BY <1>10

\* NoCircularWait: for any number of clients and any overlap of the runs'
\* scopes, calls never wait for each other's projection locks in a circle.
THEOREM FileStoreNoCircularWait == Spec => []NoCircularWait
<1> QED BY SectionInvariant, SectionNoCircle, PTL

-----------------------------------------------------------------------------
(* What a call has decided still holds when it writes *)

CallTypes ==
    /\ runs = [r \in Run |-> runs[r]]
    /\ \A r \in Run : runs[r] = NoRecord \/ runs[r] \in Record(r)
    /\ latest = [d \in Definition |-> latest[d]]
    /\ \A d \in Definition : latest[d] = NoProjection \/ latest[d] \in Projection
    /\ intended = [d \in Definition |-> intended[d]]
    /\ draft = [c \in Client |-> draft[c]]

\* A call has the arguments of its operation.
JobFits(c) ==
    /\ job[c].run \in Run /\ job[c].op \in Op
    /\ IF job[c].op \in OutcomeOp
       THEN job[c].outcomes \in [Scope[job[c].run] -> OutcomeStatus]
       ELSE job[c].outcomes = NoOutcomes

\* The status a start write gives the record, or leaves it.
StartStatus(c) ==
    IF runs[job[c].run] = NoRecord THEN requestedStatus(job[c].op)
    ELSE IF transitionOf(c).accepted THEN transitionOf(c).status
    ELSE runs[job[c].run].status

\* The draft is still what the call would make of the record.
DraftIsCurrent(c) ==
    IF job[c].op \in StartOp
    THEN /\ draft[c].status = StartStatus(c)
         /\ draft[c].finished = runs[job[c].run].finished
         /\ draft[c].execution = runs[job[c].run].execution
    ELSE /\ runs[job[c].run] # NoRecord /\ UpdateApplies(c)
         /\ draft[c] = updatedRunState(c)

CallFits(c) ==
    /\ at[c] \in Calling => JobFits(c)
    /\ at[c] \in InSection => draft[c] \in Record(job[c].run)
    /\ at[c] = "writing" => DraftIsCurrent(c)

CallInv == CallTypes /\ \A c \in Client : CallFits(c)

\* No call is under way at first.
LEMMA InitCall == Init => CallInv
<1> QED BY DEF Init, CallInv, CallTypes, CallFits, Calling, InSection

\* Two calls in their sections are about different runs.
LEMMA OneWriter ==
    ASSUME SectionInv, NEW c \in Client, NEW e \in Client, c # e,
           at[c] \in InSection, at[e] \in InSection
    PROVE  job[c].run # job[e].run
<1> SUFFICES ASSUME job[c].run = job[e].run PROVE FALSE
  OBVIOUS
<1>1. Scope[job[c].run] \subseteq HeldBy(c) /\ Scope[job[e].run] \subseteq HeldBy(e)
  BY DEF SectionInv, SectionIsLocked
<1>2. job[c].run \in Run
  BY DEF SectionInv, LockTypes, Calling
<1> QED BY <1>1, <1>2, ScopeIsDefined DEF HeldBy

\* Whoever does not act is not affected, unless its record is written.
LEMMA OthersFit ==
    ASSUME CallInv, NEW e \in Client,
           at'[e] = at[e], job'[e] = job[e], draft'[e] = draft[e],
           at[e] = "writing" => runs'[job[e].run] = runs[job[e].run]
    PROVE  CallFits(e)'
<1>1. CallFits(e)
  BY DEF CallInv
<1>2. at[e] \in Calling => JobFits(e)'
  BY <1>1 DEF CallFits, JobFits
<1>3. at[e] \in InSection => draft'[e] \in Record(job'[e].run)
  BY <1>1 DEF CallFits
<1>4. ASSUME at[e] = "writing" PROVE DraftIsCurrent(e)'
  <2>1. DraftIsCurrent(e)
    BY <1>1, <1>4 DEF CallFits
  <2>2. runs'[job'[e].run] = runs[job[e].run]
    BY <1>4
  <2>3. transitionOf(e)' = transitionOf(e)
    BY <2>2 DEF transitionOf
  <2>4. StartStatus(e)' = StartStatus(e) /\ UpdateApplies(e)' = UpdateApplies(e)
    BY <2>2, <2>3 DEF StartStatus, UpdateApplies
  <2>5. updatedRunState(e)' = updatedRunState(e)
    BY <2>2, <2>3 DEF updatedRunState
  <2> QED BY <2>1, <2>2, <2>4, <2>5 DEF DraftIsCurrent
<1> QED BY <1>2, <1>3, <1>4 DEF CallFits, Record

\* What a write requests, and what is decided of it, is a status.
LEMMA DecidedStatus ==
    ASSUME CallTypes, NEW c \in Client, JobFits(c)
    PROVE  /\ job[c].op \in StartOp => StartStatus(c) \in RunStatus
           /\ runs[job[c].run] # NoRecord => transitionOf(c).status \in RunStatus
           /\ runs[job[c].run] = NoRecord \/ runs[job[c].run].status \in RunStatus
<1> DEFINE r == job[c].run
           requested == requestedStatus(job[c].op)
<1>1. runs[r] = NoRecord \/ runs[r].status \in RunStatus
  BY DEF CallTypes, JobFits, Record
<1>2. /\ requested \in RunStatus \union {"none"}
      /\ job[c].op \in StartOp => requested \in RunStatus
  BY DEF JobFits, requestedStatus, Op, StartOp, OutcomeOp, PlainOp, RunStatus,
     ActiveStatus, TerminalStatus
<1>3. runs[r] # NoRecord => transitionOf(c).status \in RunStatus
  BY <1>1, <1>2 DEF transitionOf, resolveMigrationRunTransition, Decision, OrCurrent,
     RunStatus, ActiveStatus, TerminalStatus
<1> QED BY <1>1, <1>2, <1>3 DEF StartStatus

\* A record with another status is a record.
LEMMA NewStatus ==
    ASSUME NEW r \in Run, NEW record \in Record(r), NEW status \in RunStatus,
           NEW changed, changed = [record EXCEPT !.status = status]
    PROVE  /\ changed \in Record(r)
           /\ changed.status = status
           /\ changed.finished = record.finished
           /\ changed.execution = record.execution
BY DEF Record

\* The draft of an update.
LEMMA UpdatedRecord ==
    ASSUME CallTypes, NEW c \in Client, JobFits(c), runs[job[c].run] # NoRecord
    PROVE  /\ updatedRunState(c) \in Record(job[c].run)
           /\ updatedRunState(c).status = transitionOf(c).status
           /\ updatedRunState(c).finished =
                (\/ runs[job[c].run].finished
                 \/ requestedStatus(job[c].op) \in TerminalStatus)
           /\ updatedRunState(c).execution =
                (runs[job[c].run].execution \/ job[c].op = "attachRunExecution")
<1> DEFINE record == runs[job[c].run]
           finished == \/ record.finished
                       \/ requestedStatus(job[c].op) \in TerminalStatus
           execution == record.execution \/ job[c].op = "attachRunExecution"
           status == transitionOf(c).status
<1>1. job[c].run \in Run /\ record \in Record(job[c].run)
  BY DEF JobFits, CallTypes
<1>2. status \in RunStatus
  BY DecidedStatus
<1>3. finished \in BOOLEAN /\ execution \in BOOLEAN
  OBVIOUS
<1>4. updatedRunState(c) = [record EXCEPT !.status = status, !.finished = finished,
                                          !.execution = execution]
  BY <1>1 DEF updatedRunState, Record
<1>5. /\ updatedRunState(c) \in Record(job[c].run)
      /\ updatedRunState(c).status = status
      /\ updatedRunState(c).finished = finished
      /\ updatedRunState(c).execution = execution
  <2> HIDE DEF record, finished, execution, status
  <2> QED BY <1>1, <1>2, <1>3, <1>4 DEF Record
<1> QED BY <1>5

\* The draft of a start.
LEMMA StartedRecord ==
    ASSUME CallTypes, NEW c \in Client, JobFits(c), job[c].op \in StartOp
    PROVE  /\ transitionedRunState(c) \in Record(job[c].run)
           /\ transitionedRunState(c).status = StartStatus(c)
           /\ transitionedRunState(c).finished = runs[job[c].run].finished
           /\ transitionedRunState(c).execution = runs[job[c].run].execution
<1>1. StartStatus(c) \in RunStatus /\ job[c].run \in Run
  BY DecidedStatus DEF JobFits
<1>2. CASE runs[job[c].run] = NoRecord
  <2>1. projectionPredecessors(job[c].run)
            \in [Scope[job[c].run] -> Run \union {NoRun}]
    <3>1. \A d \in Scope[job[c].run] : latest[d].runId \in Run \union {NoRun}
      BY <1>1, ScopeIsDefined DEF CallTypes, NoProjection, Projection
    <3> QED BY <3>1 DEF projectionPredecessors
  <2> QED BY <1>1, <1>2, <2>1 DEF transitionedRunState, StartStatus, Record, NoRecord
<1>3. CASE runs[job[c].run] # NoRecord
  <2>1. runs[job[c].run] \in Record(job[c].run)
    BY <1>1, <1>3 DEF CallTypes
  <2>2. CASE transitionOf(c).accepted
    BY <1>1, <1>3, <2>1, <2>2, NewStatus DEF transitionedRunState, StartStatus
  <2>3. CASE ~transitionOf(c).accepted
    BY <1>1, <1>3, <2>1, <2>3 DEF transitionedRunState, StartStatus
  <2> QED BY <2>2, <2>3
<1> QED BY <1>2, <1>3

\* A step that writes no record keeps the invariant if the acting client's
\* call fits: it is not in its section, or has a draft that is current.
LEMMA QuietCall ==
    ASSUME CallInv, UNCHANGED <<runs, intended>>,
           latest' = latest \/ \E d \in Definition, p \in Projection :
                                    latest' = [latest EXCEPT ![d] = p],
           NEW c \in Client,
           \A e \in Client \ {c} :
               at'[e] = at[e] /\ job'[e] = job[e] /\ draft'[e] = draft[e],
           draft' = [e \in Client |-> draft'[e]],
           CallFits(c)'
    PROVE  CallInv'
<1>1. latest' = [d \in Definition |-> latest'[d]]
  BY DEF CallInv, CallTypes
<1>2. \A d \in Definition : latest'[d] = NoProjection \/ latest'[d] \in Projection
  BY DEF CallInv, CallTypes
<1>3. CallTypes'
  BY <1>1, <1>2 DEF CallInv, CallTypes, Record, Projection, NoRecord, NoProjection,
     NoPredecessors
<1>4. \A e \in Client \ {c} : CallFits(e)'
  BY OthersFit
<1> QED BY <1>3, <1>4 DEF CallInv

\* The projection that a call in its section writes.
LEMMA WrittenProjection ==
    ASSUME NEW c \in Client, JobFits(c), draft[c] \in Record(job[c].run),
           NEW d \in Definition
    PROVE  Project(job[c].run, d, draft[c].status, job[c].outcomes) \in Projection
<1>1. draft[c].status \in RunStatus /\ job[c].run \in Run
  BY DEF Record, JobFits
<1>2. d \in DOMAIN job[c].outcomes => job[c].outcomes[d] \in OutcomeStatus
  BY DEF JobFits, NoOutcomes
<1> QED
  BY <1>1, <1>2 DEF Project, Projection, migrationDefinitionRunStatus, RunStatus,
     DefinitionRunStatus, ActiveStatus, TerminalStatus, OutcomeStatus

\* Every step keeps the calls' decisions valid.
LEMMA CallStep == SectionInv /\ CallInv /\ [Next]_vars => CallInv'
<1> SUFFICES ASSUME SectionInv, CallInv, [Next]_vars PROVE CallInv'
  OBVIOUS
<1> DEFINE Others(c) == \A e \in Client \ {c} :
               at'[e] = at[e] /\ job'[e] = job[e] /\ draft'[e] = draft[e]
           DraftsTyped == draft' = [e \in Client |-> draft'[e]]
<1>a. at \in [Client -> Phase] /\ job = [c \in Client |-> job[c]]
  BY DEF SectionInv, LockTypes
<1>b. CallTypes /\ draft = [c \in Client |-> draft[c]]
  BY DEF CallInv, CallTypes
<1>1. ASSUME NEW c \in Client, NEW r \in Run, NEW op \in Op, NEW outcomes,
             op \in OutcomeOp => outcomes \in [Scope[r] -> OutcomeStatus],
             op \notin OutcomeOp => outcomes = NoOutcomes,
             Call(c, op, r, outcomes)
      PROVE  CallInv'
  <2>1. /\ UNCHANGED <<runs, latest, intended, draft>>
        /\ at' = [at EXCEPT ![c] = "locking"]
        /\ job' = [job EXCEPT ![c] = [op |-> op, run |-> r, outcomes |-> outcomes]]
    BY <1>1 DEF Call, fileVars, historyVars
  <2>2. Others(c) /\ DraftsTyped
    BY <1>a, <1>b, <2>1
  <2>3. at'[c] = "locking" /\ job'[c] = [op |-> op, run |-> r, outcomes |-> outcomes]
    BY <1>a, <2>1
  <2>4. CallFits(c)'
    BY <1>1, <2>3 DEF CallFits, JobFits, Calling, InSection
  <2> QED BY <2>1, <2>2, <2>4, QuietCall
<1>2. ASSUME NEW c \in Client, acquireProjectionLock(c) \/ releaseProjectionLock(c)
      PROVE  CallInv'
  <2>1. UNCHANGED <<runs, latest, intended, at, job, draft>>
    BY <1>2 DEF acquireProjectionLock, releaseProjectionLock, fileVars, callVars,
       historyVars
  <2>2. CallFits(c)'
    BY <2>1, OthersFit
  <2> QED BY <1>b, <2>1, <2>2, QuietCall
<1>3. ASSUME NEW c \in Client, ReadRecord(c) PROVE CallInv'
  <2>1. /\ UNCHANGED <<runs, latest, intended, job>> /\ at[c] = "locking"
        /\ JobFits(c)
    BY <1>3 DEF ReadRecord, fileVars, historyVars, CallInv, CallFits, Calling
  <2>2. PICK phase \in {"writing", "unlocking"} :
            /\ at' = [at EXCEPT ![c] = phase]
            /\ phase = "unlocking" => UNCHANGED draft
            /\ phase = "writing" =>
                \/ /\ job[c].op \in StartOp
                   /\ draft' = [draft EXCEPT ![c] = transitionedRunState(c)]
                \/ /\ job[c].op \notin StartOp
                   /\ runs[job[c].run] # NoRecord /\ UpdateApplies(c)
                   /\ draft' = [draft EXCEPT ![c] = updatedRunState(c)]
    BY <1>3 DEF ReadRecord, Leave
  <2>3. Others(c) /\ DraftsTyped
    BY <1>a, <1>b, <2>1, <2>2
  <2>4. JobFits(c)'
    BY <2>1 DEF JobFits
  <2>5. CASE phase = "unlocking"
    <3>1. CallFits(c)'
      BY <1>a, <2>2, <2>5 DEF CallFits, Calling, InSection
    <3> QED BY <2>1, <2>3, <3>1, QuietCall
  <2>6. CASE phase = "writing" /\ job[c].op \in StartOp
    <3>1. /\ at'[c] = "writing" /\ draft'[c] = transitionedRunState(c)
          /\ job'[c] = job[c] /\ runs' = runs
      BY <1>a, <1>b, <2>1, <2>2, <2>6
    <3>2. StartStatus(c)' = StartStatus(c)
      BY <3>1 DEF StartStatus, transitionOf
    <3>3. draft'[c] \in Record(job[c].run) /\ DraftIsCurrent(c)'
      BY <1>b, <2>1, <2>6, <3>1, <3>2, StartedRecord DEF DraftIsCurrent
    <3>4. CallFits(c)'
      BY <2>4, <3>1, <3>3 DEF CallFits, Record
    <3> QED BY <2>1, <2>3, <3>4, QuietCall
  <2>7. CASE phase = "writing" /\ job[c].op \notin StartOp
    <3>1. /\ at'[c] = "writing" /\ draft'[c] = updatedRunState(c)
          /\ runs[job[c].run] # NoRecord /\ UpdateApplies(c)
          /\ job'[c] = job[c] /\ runs' = runs
      BY <1>a, <1>b, <2>1, <2>2, <2>7
    <3>2. transitionOf(c)' = transitionOf(c)
      BY <3>1 DEF transitionOf
    <3>3. updatedRunState(c)' = updatedRunState(c) /\ UpdateApplies(c)' = UpdateApplies(c)
      BY <3>1, <3>2 DEF updatedRunState, UpdateApplies
    <3>4. draft'[c] \in Record(job[c].run) /\ DraftIsCurrent(c)'
      BY <1>b, <2>1, <2>7, <3>1, <3>3, UpdatedRecord DEF DraftIsCurrent
    <3>5. CallFits(c)'
      BY <2>4, <3>1, <3>4 DEF CallFits, Record
    <3> QED BY <2>1, <2>3, <3>5, QuietCall
  <2> QED BY <2>5, <2>6, <2>7
<1>4. ASSUME NEW c \in Client, writeRunRecord(c) PROVE CallInv'
  <2>1. /\ at[c] = "writing" /\ at' = [at EXCEPT ![c] = "projecting"]
        /\ UNCHANGED <<latest, job, draft>>
        /\ runs' = [runs EXCEPT ![job[c].run] = draft[c]]
        /\ intended' = [d \in Definition |-> intended'[d]]
    BY <1>4 DEF writeRunRecord, Intend
  <2>2. JobFits(c) /\ draft[c] \in Record(job[c].run)
    BY <2>1 DEF CallInv, CallFits, Calling, InSection
  <2>3. runs' = [r \in Run |-> runs'[r]]
    BY <1>b, <2>1 DEF CallTypes
  <2>4. \A r \in Run : runs'[r] = NoRecord \/ runs'[r] \in Record(r)
    BY <1>b, <2>1, <2>2 DEF CallTypes
  <2>5. CallTypes'
    BY <1>b, <2>1, <2>3, <2>4 DEF CallTypes, Record, Projection, NoRecord,
       NoProjection, NoPredecessors
  <2>6. CallFits(c)'
    <3>1. JobFits(c)'
      BY <2>1, <2>2 DEF JobFits
    <3>2. at'[c] = "projecting"
      BY <1>a, <2>1
    <3> QED BY <2>1, <2>2, <3>1, <3>2 DEF CallFits, Record
  <2>7. ASSUME NEW e \in Client \ {c} PROVE CallFits(e)'
    <3>1. at'[e] = at[e] /\ job'[e] = job[e] /\ draft'[e] = draft[e]
      BY <1>a, <2>1
    <3>2. at[e] = "writing" => job[e].run # job[c].run
      BY <2>1, OneWriter DEF InSection
    <3>3. at[e] = "writing" => runs'[job[e].run] = runs[job[e].run]
      BY <1>b, <2>1, <3>2 DEF CallTypes
    <3> QED BY <3>1, <3>3, OthersFit
  <2> QED BY <2>5, <2>6, <2>7 DEF CallInv
<1>5. ASSUME NEW c \in Client, NEW d \in Definition, writeProjection(c, d)
      PROVE  CallInv'
  <2>1. at[c] = "projecting" /\ UNCHANGED <<runs, intended, job, draft>>
    BY <1>5 DEF writeProjection
  <2>2. JobFits(c) /\ draft[c] \in Record(job[c].run)
    BY <2>1 DEF CallInv, CallFits, Calling, InSection
  <2>3. latest' = latest \/ \E p \in Projection : latest' = [latest EXCEPT ![d] = p]
    BY <1>5, <2>2, WrittenProjection DEF writeProjection
  <2>4. PICK phase \in {"projecting", "unlocking"} : at' = [at EXCEPT ![c] = phase]
    <3>1. at' = [at EXCEPT ![c] = "unlocking"] \/ at' = at
      BY <1>5 DEF writeProjection, Leave
    <3>2. at = [at EXCEPT ![c] = "projecting"]
      BY <1>a, <2>1
    <3> QED BY <3>1, <3>2
  <2>5. Others(c) /\ DraftsTyped
    BY <1>a, <1>b, <2>1, <2>4
  <2>6. CallFits(c)'
    <3>1. JobFits(c)'
      BY <2>1, <2>2 DEF JobFits
    <3>2. at'[c] # "writing"
      BY <1>a, <2>4
    <3> QED BY <2>1, <2>2, <3>1, <3>2 DEF CallFits, Record
  <2> QED BY <2>1, <2>3, <2>5, <2>6, QuietCall
<1>6. ASSUME NEW c \in Client,
             LockTimesOut(c) \/ WriteFails(c) \/ Return(c) \/ Crash(c) \/ Restart(c)
      PROVE  CallInv'
  <2>1. /\ UNCHANGED <<runs, latest, intended>>
        /\ job' = job \/ job' = [job EXCEPT ![c] = NoJob]
        /\ draft' = draft \/ draft' = [draft EXCEPT ![c] = NoRecord]
    BY <1>6 DEF LockTimesOut, WriteFails, Return, Crash, Restart, fileVars, historyVars
  <2>2. PICK phase \in {"idle", "unlocking", "crashed"} :
            at' = [at EXCEPT ![c] = phase]
    BY <1>6 DEF LockTimesOut, WriteFails, Return, Crash, Restart, Leave
  <2>3. Others(c) /\ DraftsTyped
    BY <1>a, <1>b, <2>1, <2>2
  <2>4. CallFits(c)'
    BY <1>a, <2>2 DEF CallFits, Calling, InSection
  <2> QED BY <2>1, <2>3, <2>4, QuietCall
<1>7. ASSUME NEW d \in Definition, LockGoesStale(d) PROVE CallInv'
  <2>1. UNCHANGED <<runs, latest, intended, at, job, draft>>
    BY <1>7 DEF LockGoesStale, fileVars, callVars, historyVars
  <2>2. PICK c \in Client : TRUE
    BY <1>7 DEF LockGoesStale
  <2>3. CallFits(c)'
    BY <2>1, OthersFit
  <2> QED BY <1>b, <2>1, <2>3, QuietCall
<1>8. CASE UNCHANGED vars
  <2>1. UNCHANGED <<runs, latest, intended, at, job, draft>>
    BY <1>8 DEF vars, fileVars, callVars, historyVars
  <2>2. \A c \in Client : CallFits(c)'
    BY <2>1, OthersFit
  <2>3. CallTypes'
    BY <1>b, <2>1 DEF CallTypes, Record, Projection, NoRecord, NoProjection,
       NoPredecessors
  <2> QED BY <2>2, <2>3 DEF CallInv
<1>9. CASE Next
  <2>1. ASSUME NEW c \in Client, NEW r \in Run,
               \/ \E op \in StartOp \union PlainOp : Call(c, op, r, NoOutcomes)
               \/ \E op \in OutcomeOp, outcomes \in Outcomes[r] :
                      Call(c, op, r, outcomes)
        PROVE  CallInv'
    <3>1. CASE \E op \in StartOp \union PlainOp : Call(c, op, r, NoOutcomes)
      <4>1. PICK op \in StartOp \union PlainOp : Call(c, op, r, NoOutcomes)
        BY <3>1
      <4>2. op \in Op /\ op \notin OutcomeOp
        BY DEF Op, StartOp, PlainOp, OutcomeOp
      <4> QED BY <1>1, <4>1, <4>2
    <3>2. CASE \E op \in OutcomeOp, outcomes \in Outcomes[r] :
                      Call(c, op, r, outcomes)
      BY <1>1, <3>2, FileMigrationStoreAssumption DEF Op
    <3> QED BY <2>1, <3>1, <3>2
  <2>2. CASE \E c \in Client : ClientStep(c)
    BY <1>2, <1>3, <1>4, <1>5, <1>6, <2>2 DEF ClientStep
  <2>3. CASE \E c \in Client : LockTimesOut(c) \/ WriteFails(c) \/ Crash(c) \/ Restart(c)
    BY <1>6, <2>3
  <2>4. CASE \E d \in Definition : LockGoesStale(d)
    BY <1>7, <2>4
  <2> QED BY <1>9, <2>1, <2>2, <2>3, <2>4 DEF Next
<1> QED BY <1>8, <1>9

\* Both invariants hold in every reachable state.
LEMMA CallInvariant == Spec => [](SectionInv /\ CallInv)
<1> QED BY InitSection, InitCall, SectionStep, CallStep, PTL DEF Spec

-----------------------------------------------------------------------------
(* The records change as those of the in-memory store *)

\* The atomic store's view of a record, and of all of them.
Seen(record) == [status |-> record.status, finished |-> record.finished,
                 execution |-> record.execution]
SeenRuns == [r \in Run |-> Seen(runs[r])]
NoLocks == [d \in Definition |-> [ownerRunId |-> NoRun, token |-> 0]]

\* Both modules use one status algebra.
LEMMA SameAlgebra ==
    /\ \A current, requested, cancel :
         Store!resolveMigrationRunTransition(current, requested, cancel)
             = resolveMigrationRunTransition(current, requested, cancel)
    /\ \A r, d, status, outcomes :
         Store!Project(r, d, status, outcomes) = Project(r, d, status, outcomes)
    /\ Store!NoOutcomes = NoOutcomes
    /\ Store!TerminalStatus = TerminalStatus
    /\ Store!OutcomeStatus = OutcomeStatus
    /\ \A status : Store!isActiveMigrationRunStatus(status)
                        = isActiveMigrationRunStatus(status)
<1>1. \A current, requested, cancel :
         Store!resolveMigrationRunTransition(current, requested, cancel)
             = resolveMigrationRunTransition(current, requested, cancel)
  BY DEF Store!resolveMigrationRunTransition, resolveMigrationRunTransition,
     Store!Decision, Decision, Store!OrCurrent, OrCurrent,
     Store!TerminalStatus, TerminalStatus
<1>2. \A r, d, status, outcomes :
         Store!Project(r, d, status, outcomes) = Project(r, d, status, outcomes)
  BY DEF Store!Project, Project, Store!migrationDefinitionRunStatus,
     migrationDefinitionRunStatus
<1>3. \A status : Store!isActiveMigrationRunStatus(status)
                        = isActiveMigrationRunStatus(status)
  BY DEF Store!isActiveMigrationRunStatus, isActiveMigrationRunStatus,
     Store!ActiveStatus, ActiveStatus
<1> QED BY <1>1, <1>2, <1>3 DEF Store!NoOutcomes, NoOutcomes, Store!TerminalStatus,
     TerminalStatus, Store!OutcomeStatus, OutcomeStatus

\* What writing the record does to the atomic store's view of it.
LEMMA WriteSeen ==
    ASSUME SectionInv, CallInv, NEW c \in Client, writeRunRecord(c)
    PROVE  /\ JobFits(c) /\ draft[c] \in Record(job[c].run) /\ DraftIsCurrent(c)
           /\ CallTypes
           /\ SeenRuns' = [SeenRuns EXCEPT ![job[c].run] = Seen(draft[c])]
<1>1. at[c] = "writing"
  BY DEF writeRunRecord
<1>2. JobFits(c) /\ draft[c] \in Record(job[c].run) /\ DraftIsCurrent(c) /\ CallTypes
  BY <1>1 DEF CallInv, CallFits, Calling, InSection
<1>3. runs' = [runs EXCEPT ![job[c].run] = draft[c]] /\ job[c].run \in Run
  BY <1>2 DEF writeRunRecord, JobFits
<1>4. \A r \in Run : runs'[r] = IF r = job[c].run THEN draft[c] ELSE runs[r]
  BY <1>2, <1>3 DEF CallTypes
<1> QED BY <1>2, <1>3, <1>4 DEF SeenRuns, Seen

\* Without a record the status is "none", and only then.
LEMMA NoneIsNoRecord ==
    ASSUME CallTypes, NEW r \in Run
    PROVE  /\ runs[r].status = "none" <=> runs[r] = NoRecord
           /\ runs[r].finished \in BOOLEAN /\ runs[r].execution \in BOOLEAN
<1>1. CASE runs[r] = NoRecord
  BY <1>1 DEF NoRecord
<1>2. CASE runs[r] # NoRecord
  <2>1. runs[r] \in Record(r)
    BY <1>2 DEF CallTypes
  <2> QED BY <1>2, <2>1 DEF Record, RunStatus, ActiveStatus, TerminalStatus
<1> QED BY <1>1, <1>2

\* Attaching a handle requests no status, and keeps the one there is.
LEMMA AttachKeepsStatus ==
    ASSUME NEW current \in RunStatus
    PROVE  resolveMigrationRunTransition(current, "none", FALSE).status = current
BY DEF resolveMigrationRunTransition, Decision, OrCurrent, RunStatus,
   ActiveStatus, TerminalStatus

\* Attaching a handle changes that field of the view alone.
LEMMA SeenAttached ==
    ASSUME NEW old, NEW value
    PROVE  [Seen(old) EXCEPT !.execution = value]
                = [status |-> old.status, finished |-> old.finished,
                   execution |-> value]
<1>1. DOMAIN Seen(old) = {"status", "finished", "execution"}
  BY DEF Seen
<1>2. [Seen(old) EXCEPT !.execution = value]
        = [field \in {"status", "finished", "execution"} |->
              IF field = "execution" THEN value ELSE Seen(old)[field]]
  BY <1>1
<1>3. Seen(old).status = old.status /\ Seen(old).finished = old.finished
  BY DEF Seen
<1> QED BY <1>2, <1>3

\* A start write is queueRun or beginRun of the atomic store.
LEMMA StartRefines ==
    ASSUME SectionInv, CallInv, NEW c \in Client, writeRunRecord(c),
           job[c].op \in StartOp,
           NEW r \in Run, r = job[c].run,
           NEW requested \in {"queued", "running"},
           requested = requestedStatus(job[c].op)
    PROVE  Store!StoreNext
<1> DEFINE decision == transitionOf(c)
<1>1. /\ JobFits(c) /\ DraftIsCurrent(c) /\ CallTypes /\ r \in Run
      /\ SeenRuns' = [SeenRuns EXCEPT ![r] = Seen(draft[c])]
  BY WriteSeen DEF JobFits
<1>2. /\ draft[c].status = StartStatus(c)
      /\ draft[c].finished = runs[r].finished
      /\ draft[c].execution = runs[r].execution
      /\ job[c].outcomes = NoOutcomes /\ job[c].op # "completeRun"
  BY <1>1 DEF DraftIsCurrent, JobFits, StartOp, OutcomeOp
<1>3. decision = resolveMigrationRunTransition(runs[r].status, requested, FALSE)
  BY <1>2 DEF transitionOf
<1>4. runs[r] = NoRecord =>
        decision.accepted /\ decision.status = requested
  <2>1. runs[r] = NoRecord => runs[r].status = "none"
    BY DEF NoRecord
  <2>2. resolveMigrationRunTransition("none", requested, FALSE)
            = [accepted |-> TRUE, status |-> requested]
    BY DEF resolveMigrationRunTransition, Decision, TerminalStatus
  <2>3. SUFFICES ASSUME runs[r] = NoRecord
                 PROVE  decision.accepted /\ decision.status = requested
    OBVIOUS
  <2>4. decision = [accepted |-> TRUE, status |-> requested]
    BY <1>3, <2>1, <2>2, <2>3
  <2> HIDE DEF decision
  <2> QED BY <2>4
<1>5. SeenRuns[r] = Seen(runs[r]) /\ SeenRuns[r].status = runs[r].status
  BY <1>1 DEF SeenRuns, Seen
<1>6. runs[r].status = "none" <=> runs[r] = NoRecord
  BY <1>1, NoneIsNoRecord
<1>7. intended' = [d \in Definition |->
        IF /\ d \in Scope[r]
           /\ runs[r] = NoRecord \/ decision.accepted
           /\ runs[r] = NoRecord \/ intended[d].runId = r
        THEN Project(r, d, draft[c].status, NoOutcomes) ELSE intended[d]]
  BY <1>2 DEF writeRunRecord, Intend
<1> HIDE DEF decision
<1>8. ASSUME decision.accepted PROVE Store!writeRunState(r, requested)
  <2>1. draft[c].status = decision.status
    BY <1>2, <1>4, <1>8 DEF StartStatus, decision
  <2>2. Seen(draft[c]) = [SeenRuns[r] EXCEPT !.status = decision.status]
    BY <1>2, <1>5, <2>1 DEF Seen
  <2>3. SeenRuns' = [SeenRuns EXCEPT ![r].status = decision.status]
    BY <1>1, <2>2
  <2>4. intended' = [d \in Definition |->
            IF d \in Scope[r] /\ (\/ SeenRuns[r].status = "none"
                                  \/ intended[d].runId = r)
            THEN Project(r, d, decision.status, NoOutcomes) ELSE intended[d]]
    BY <1>5, <1>6, <1>7, <1>8, <2>1
  <2> QED BY <1>3, <1>5, <1>8, <2>3, <2>4, SameAlgebra
          DEF Store!writeRunState, SeenRuns, Seen
<1>9. ASSUME ~decision.accepted PROVE Store!writeRunState(r, requested)
  <2>1. runs[r] # NoRecord /\ draft[c].status = runs[r].status
    BY <1>2, <1>4, <1>9 DEF StartStatus, decision
  <2>2. Seen(draft[c]) = SeenRuns[r]
    BY <1>2, <1>5, <2>1 DEF Seen
  <2>3. SeenRuns' = SeenRuns
    BY <1>1, <2>2 DEF SeenRuns
  <2>4. intended' = intended
    BY <1>1, <1>7, <1>9, <2>1 DEF CallTypes
  <2> QED BY <1>3, <1>5, <1>9, <2>3, <2>4, SameAlgebra
          DEF Store!writeRunState, Store!lifecycleVars, SeenRuns, Seen
<1>10. Store!writeRunState(r, requested)
  BY <1>8, <1>9
<1>11. UNCHANGED Store!lockVars
  BY DEF Store!lockVars
<1>12. CASE requested = "queued"
  BY <1>10, <1>11, <1>12 DEF Store!StoreNext, Store!QueueRun, Store!queueRun,
     Store!writeRunState
<1>13. CASE requested = "running"
  BY <1>10, <1>11, <1>13 DEF Store!StoreNext, Store!BeginRun, Store!beginRun,
     Store!writeRunState
<1> QED BY <1>12, <1>13

\* An update that applies is the operation of the atomic store.
LEMMA UpdateRefines ==
    ASSUME SectionInv, CallInv, NEW c \in Client, writeRunRecord(c),
           job[c].op \notin StartOp,
           NEW r \in Run, r = job[c].run, NEW op \in Op, op = job[c].op,
           NEW outcomes, outcomes = job[c].outcomes
    PROVE  Store!StoreNext
<1> DEFINE decision == transitionOf(c)
<1>1. /\ JobFits(c) /\ DraftIsCurrent(c) /\ CallTypes /\ r \in Run
      /\ SeenRuns' = [SeenRuns EXCEPT ![r] = Seen(draft[c])]
  BY WriteSeen DEF JobFits
<1>2. /\ runs[r] # NoRecord /\ UpdateApplies(c)
      /\ draft[c] = updatedRunState(c)
  BY <1>1 DEF DraftIsCurrent
<1>3. /\ draft[c].status = decision.status
      /\ draft[c].finished = (runs[r].finished \/ requestedStatus(op) \in TerminalStatus)
      /\ draft[c].execution = (runs[r].execution \/ op = "attachRunExecution")
  BY <1>1, <1>2, UpdatedRecord
<1>4. /\ SeenRuns[r] = Seen(runs[r]) /\ SeenRuns[r].status = runs[r].status
      /\ SeenRuns[r].finished = runs[r].finished
      /\ SeenRuns[r].execution = runs[r].execution
  BY <1>1 DEF SeenRuns, Seen
<1>5. /\ runs[r].status \in RunStatus /\ runs[r].status # "none"
      /\ runs[r].finished \in BOOLEAN /\ runs[r].execution \in BOOLEAN
  BY <1>1, <1>2, NoneIsNoRecord, DecidedStatus
<1>6. Store!RunExists(r)
  BY <1>4, <1>5 DEF Store!RunExists, SeenRuns, Seen
<1>7. intended' = [d \in Definition |->
        IF d \in Scope[r] /\ intended[d].runId = r
        THEN Project(r, d, draft[c].status, outcomes) ELSE intended[d]]
  BY <1>2 DEF writeRunRecord, Intend
<1>8. decision.accepted /\ decision = resolveMigrationRunTransition(runs[r].status,
                                requestedStatus(op), op = "completeRun")
  BY <1>2 DEF UpdateApplies, transitionOf
<1>12. UNCHANGED Store!lockVars
  BY DEF Store!lockVars
<1>9. CASE op = "requestRunCancellation"
  <2>1. runs[r].status \in ActiveStatus
    BY <1>2, <1>9 DEF UpdateApplies, isActiveMigrationRunStatus
  <2>2. requestedStatus(op) = "cancelling" /\ outcomes = NoOutcomes
    BY <1>1, <1>9 DEF requestedStatus, JobFits, OutcomeOp
  <2>3. decision.status = "cancelling"
    BY <1>8, <1>9, <2>1, <2>2 DEF resolveMigrationRunTransition, Decision, OrCurrent,
       ActiveStatus, TerminalStatus
  <2>4. Seen(draft[c]) = [SeenRuns[r] EXCEPT !.status = "cancelling"]
    BY <1>3, <1>4, <1>5, <1>9, <2>2, <2>3 DEF Seen, TerminalStatus
  <2>5. SeenRuns' = [SeenRuns EXCEPT ![r].status = "cancelling"]
    BY <1>1, <2>4
  <2>6. intended' = [d \in Definition |->
            IF d \in Scope[r] /\ intended[d].runId = r
            THEN Project(r, d, "cancelling", NoOutcomes) ELSE intended[d]]
    BY <1>3, <1>7, <2>2, <2>3
  <2>7. Store!requestRunCancellation(r)
    BY <1>4, <1>6, <2>1, <2>5, <2>6, SameAlgebra
       DEF Store!requestRunCancellation, Store!updateCurrentLatestRunStates,
           isActiveMigrationRunStatus, SeenRuns, Seen
  <2> QED BY <1>6, <1>12, <2>7 DEF Store!StoreNext, Store!RequestRunCancellation
<1>10. CASE op = "attachRunExecution"
  <2> HIDE DEF decision
  <2>1. requestedStatus(op) = "none" /\ outcomes = NoOutcomes
    BY <1>1, <1>10 DEF requestedStatus, JobFits, OutcomeOp
  <2>2. decision = resolveMigrationRunTransition(runs[r].status, "none", FALSE)
    BY <1>8, <1>10, <2>1
  <2>3. decision.status = runs[r].status
    BY <1>5, <2>2, AttachKeepsStatus
  <2>4. Seen(draft[c]) = [SeenRuns[r] EXCEPT !.execution = TRUE]
    <3>1. draft[c].finished = runs[r].finished
      BY <1>3, <1>5, <2>1 DEF TerminalStatus
    <3>2. draft[c].execution = TRUE
      BY <1>3, <1>10
    <3>3. Seen(draft[c]) = [status |-> runs[r].status, finished |-> runs[r].finished,
                            execution |-> TRUE]
      BY <1>3, <2>3, <3>1, <3>2, Zenon DEF Seen
    <3>4. SeenRuns[r] = Seen(runs[r])
      BY <1>4
    <3>5. [Seen(runs[r]) EXCEPT !.execution = TRUE]
            = [status |-> runs[r].status, finished |-> runs[r].finished,
               execution |-> TRUE]
      BY SeenAttached
    <3> QED BY <3>3, <3>4, <3>5, Zenon
  <2>5. SeenRuns' = [SeenRuns EXCEPT ![r].execution = TRUE]
    BY <1>1, <2>4
  <2>6. intended' = [d \in Definition |->
            IF d \in Scope[r] /\ intended[d].runId = r
            THEN Project(r, d, runs[r].status, NoOutcomes) ELSE intended[d]]
    BY <1>3, <1>7, <2>1, <2>3
  <2>7. Store!attachRunExecution(r)
    BY <1>4, <1>6, <1>8, <2>2, <2>5, <2>6, SameAlgebra
       DEF Store!attachRunExecution, Store!updateCurrentLatestRunStates, SeenRuns, Seen
  <2> QED BY <1>6, <1>12, <2>7 DEF Store!StoreNext, Store!AttachRunExecution
<1>11. CASE op \notin {"requestRunCancellation", "attachRunExecution"}
  <2> HIDE DEF decision
  <2>1. Seen(draft[c]) = [SeenRuns[r] EXCEPT
            !.status = decision.status,
            !.finished = @ \/ requestedStatus(op) \in TerminalStatus]
    <3>1. draft[c].execution = runs[r].execution
      BY <1>3, <1>5, <1>11
    <3>2. draft[c].finished = (\/ SeenRuns[r].finished
                               \/ requestedStatus(op) \in TerminalStatus)
      BY <1>3, <1>4
    <3>3. PICK done \in BOOLEAN : done =
              (SeenRuns[r].finished \/ requestedStatus(op) \in TerminalStatus)
      OBVIOUS
    <3>4. Seen(draft[c]) = [status |-> decision.status, finished |-> done,
                            execution |-> runs[r].execution]
      BY <1>3, <3>1, <3>2, <3>3, Zenon DEF Seen
    <3>5. [Seen(runs[r]) EXCEPT !.status = decision.status, !.finished = done]
            = [status |-> decision.status, finished |-> done,
               execution |-> runs[r].execution]
      <4>1. DOMAIN Seen(runs[r]) = {"status", "finished", "execution"}
        BY DEF Seen
      <4>2. [Seen(runs[r]) EXCEPT !.status = decision.status, !.finished = done]
              = [field \in {"status", "finished", "execution"} |->
                    IF field = "finished" THEN done
                    ELSE IF field = "status" THEN decision.status
                    ELSE Seen(runs[r])[field]]
        BY <4>1
      <4>3. Seen(runs[r]).execution = runs[r].execution
        BY DEF Seen
      <4> QED BY <4>2, <4>3
    <3>6. SeenRuns[r] = Seen(runs[r])
      BY <1>4
    <3>7. [SeenRuns[r] EXCEPT
              !.status = decision.status,
              !.finished = @ \/ requestedStatus(op) \in TerminalStatus]
            = [SeenRuns[r] EXCEPT !.status = decision.status, !.finished = done]
      BY <3>3, Zenon
    <3> QED BY <3>4, <3>5, <3>6, <3>7, Zenon
  <2>2. SeenRuns' = [SeenRuns EXCEPT
            ![r].status = decision.status,
            ![r].finished = @ \/ requestedStatus(op) \in TerminalStatus]
    BY <1>1, <1>4, <2>1 DEF SeenRuns, Seen
  <2>3. intended' = [d \in Definition |->
            IF d \in Scope[r] /\ intended[d].runId = r
            THEN Project(r, d, decision.status, outcomes) ELSE intended[d]]
    BY <1>3, <1>7
  <2>4. Store!updateRunState(r, requestedStatus(op), op = "completeRun",
                             outcomes)
    BY <1>4, <1>8, <2>2, <2>3, SameAlgebra
       DEF Store!updateRunState, Store!updateCurrentLatestRunStates, SeenRuns, Seen
  <2>5. CASE op \in OutcomeOp
    <3>1. /\ outcomes \in [Scope[r] -> Store!OutcomeStatus]
          /\ Store!validateMigrationDefinitionRunOutcomes(Scope[r], outcomes)
      BY <1>1, <2>5, SameAlgebra DEF JobFits,
         Store!validateMigrationDefinitionRunOutcomes
    <3>2. CASE op = "completeRun"
      <4>1. Store!CompleteRun(r, outcomes)
        BY <1>6, <1>12, <2>4, <3>1, <3>2 DEF requestedStatus, Store!CompleteRun,
           Store!completeRun, Store!updateRunState
      <4> QED BY <3>1, <4>1 DEF Store!StoreNext
    <3>3. CASE op = "failRun"
      <4>1. Store!FailRun(r, outcomes)
        BY <1>6, <1>12, <2>4, <3>1, <3>3 DEF requestedStatus, Store!FailRun,
           Store!failRun, Store!updateRunState
      <4> QED BY <3>1, <4>1 DEF Store!StoreNext
    <3> QED BY <2>5, <3>2, <3>3 DEF OutcomeOp
  <2>6. CASE op \in {"markRunCancelled", "markRunStartFailed"}
    <3>1. outcomes = NoOutcomes
      BY <1>1, <2>6 DEF JobFits, OutcomeOp
    <3>2. CASE op = "markRunCancelled"
      <4>2. requestedStatus(op) = "cancelled" /\ (op = "completeRun") = FALSE
        BY <3>2 DEF requestedStatus
      <4>3. Store!updateRunState(r, "cancelled", FALSE, Store!NoOutcomes)
        BY <2>4, <3>1, <4>2, SameAlgebra
      <4>1. Store!MarkRunCancelled(r)
        BY <1>6, <1>12, <4>3 DEF Store!MarkRunCancelled, Store!markRunCancelled
      <4> QED BY <4>1 DEF Store!StoreNext
    <3>3. CASE op = "markRunStartFailed"
      <4>2. requestedStatus(op) = "start-failed" /\ (op = "completeRun") = FALSE
        BY <3>3 DEF requestedStatus
      <4>3. Store!updateRunState(r, "start-failed", FALSE, Store!NoOutcomes)
        BY <2>4, <3>1, <4>2, SameAlgebra
      <4>1. Store!MarkRunStartFailed(r)
        BY <1>6, <1>12, <4>3 DEF Store!MarkRunStartFailed, Store!markRunStartFailed
      <4> QED BY <4>1 DEF Store!StoreNext
    <3> QED BY <2>6, <3>2, <3>3
  <2> QED BY <1>11, <2>5, <2>6 DEF Op, StartOp, PlainOp
<1> QED BY <1>9, <1>10, <1>11

\* Every step is an operation of the atomic store, or leaves it alone.
LEMMA FileStepRefines ==
    SectionInv /\ CallInv /\ [Next]_vars => [Store!StoreNext]_(Store!storeVars)
<1> SUFFICES ASSUME SectionInv, CallInv, [Next]_vars
             PROVE  [Store!StoreNext]_(Store!storeVars)
  OBVIOUS
<1>1. CASE UNCHANGED <<runs, intended>>
  BY <1>1 DEF Store!storeVars
<1>2. ASSUME NEW c \in Client, writeRunRecord(c) PROVE Store!StoreNext
  <2>1. JobFits(c)
    BY <1>2, WriteSeen
  <2>2. PICK r \in Run, op \in Op, outcomes \in {job[c].outcomes} :
            r = job[c].run /\ op = job[c].op
    BY <2>1 DEF JobFits
  <2>3. CASE op \in StartOp
    <3>1. PICK requested \in {"queued", "running"} : requested = requestedStatus(op)
      BY <2>3 DEF StartOp, requestedStatus
    <3> QED BY <1>2, <2>2, <2>3, <3>1, StartRefines
  <2>4. CASE op \notin StartOp
    BY <1>2, <2>2, <2>4, UpdateRefines
  <2> QED BY <2>3, <2>4
<1>3. CASE UNCHANGED vars
  BY <1>1, <1>3 DEF vars, fileVars, historyVars
<1>4. CASE Next
  <2>1. CASE \E c \in Client : writeRunRecord(c)
    BY <1>2, <2>1
  <2>2. CASE \A c \in Client : ~writeRunRecord(c)
    <3>1. UNCHANGED <<runs, intended>>
      BY <1>4, <2>2 DEF Next, ClientStep, Call, acquireProjectionLock, ReadRecord,
         writeProjection, releaseProjectionLock, Return, LockTimesOut, WriteFails,
         Crash, Restart, LockGoesStale, fileVars, historyVars
    <3> QED BY <1>1, <3>1
  <2> QED BY <2>1, <2>2
<1> QED BY <1>3, <1>4

\* No record, no projection: the atomic store's initial state.
LEMMA FileInitRefines == Init => Store!StoreInit
BY DEF Init, Store!StoreInit, NoRecord, Store!NoRecord, NoProjection,
   Store!NoProjection, Store!NoLock

\* ImplementsStore: for any number of clients, calls, crashes and failed
\* writes, the run records and the intended projections change as if every
\* call were one operation of the in-memory store.
THEOREM FileStoreImplementsStore == Spec => ImplementsStore
<1>1. Spec => Store!StoreInit /\ [][Store!StoreNext]_(Store!storeVars)
  BY CallInvariant, FileStepRefines, FileInitRefines, PTL DEF Spec
<1> QED BY <1>1 DEF ImplementsStore, Store!StoreSpec

-----------------------------------------------------------------------------
(* Projections follow the records *)

Made == {r \in Run : created[r] # 0}

\* The types of what the projections depend on.
FollowTypes ==
    /\ todo = [c \in Client |-> todo[c]]
    /\ torn \in [Run -> SUBSET Definition]
    /\ created \in [Run -> Nat]

\* created ranks the runs that have a record, in the order they were made: a
\* run is younger than its predecessors, and the run that a projection is
\* going to name is the youngest of the definition.
RanksFit ==
    /\ IsFiniteSet(Made)
    /\ \A r \in Run : /\ created[r] <= Cardinality(Made)
                      /\ created[r] # 0 <=> runs[r] # NoRecord
    /\ \A r \in Run : runs[r] # NoRecord =>
          \A d \in Scope[r] :
             LET p == runs[r].predecessors[d]
             IN p # NoRun => created[p] # 0 /\ created[p] < created[r]
    /\ \A d \in Definition : latest[d] # NoProjection =>
          created[latest[d].runId] # 0

\* What a projection is going to be: of the youngest run, with its status.
IntendedFits(d) ==
    /\ intended[d] = NoProjection => latest[d] = NoProjection
    /\ intended[d] = NoProjection \/ intended[d] \in Projection
    /\ intended[d] # NoProjection =>
          /\ d \in Scope[intended[d].runId]
          /\ runs[intended[d].runId].status = intended[d].status
          /\ intended[d].status \notin {"succeeded", "failed"} =>
                intended[d].definitionStatus = intended[d].status
    /\ \A r \in Run : d \in Scope[r] /\ created[r] # 0 =>
          /\ intended[d] # NoProjection
          /\ created[r] <= created[intended[d].runId]

\* A start under way meets no outcome, neither a written one nor another call.
UnderWay(c) == at[c] \notin {"idle", "crashed"}
StartsFirst(c) ==
    UnderWay(c) /\ job[c].op \in StartOp =>
       /\ runs[job[c].run].status \notin {"succeeded", "failed"}
       /\ \A e \in Client : UnderWay(e) /\ job[e].run = job[c].run =>
             job[e].op \notin OutcomeOp

\* A call about to write has the predecessors of the record, or those of now.
WritingFits(c) ==
    at[c] = "writing" =>
       IF runs[job[c].run] = NoRecord
       THEN \A d \in Scope[job[c].run] :
               draft[c].predecessors[d] = latest[d].runId
       ELSE draft[c].predecessors = runs[job[c].run].predecessors

\* A call that is projecting writes what is intended, where it is still the
\* one to write it, unless an earlier call broke off before.
ProjectingFits(c) ==
    /\ at[c] # "projecting" => todo[c] = {}
    /\ at[c] = "projecting" =>
          /\ runs[job[c].run] = draft[c] /\ todo[c] \subseteq Scope[job[c].run]
          /\ \A d \in todo[c] : intended[d].runId = job[c].run =>
                /\ intended[d] = Project(job[c].run, d, draft[c].status,
                                         job[c].outcomes)
                /\ MayProject(c, d) \/ d \in torn[job[c].run]

\* A projection is what it is going to be, or left behind, or being written.
Explained(d) ==
    \/ latest[d] = intended[d]
    \/ intended[d] # NoProjection /\ d \in torn[intended[d].runId]
Followed(d) ==
    \/ Explained(d)
    \/ \E c \in Client : d \in todo[c] /\ intended[d].runId = job[c].run

FollowInv ==
    /\ FollowTypes /\ RanksFit
    /\ \A d \in Definition : IntendedFits(d) /\ Followed(d)
    /\ \A c \in Client : StartsFirst(c) /\ WritingFits(c) /\ ProjectingFits(c)

\* At first no run has a record.
LEMMA InitFollow == Init => FollowInv
<1> SUFFICES ASSUME Init PROVE FollowInv
  OBVIOUS
<1>1. Made = {}
  BY DEF Init, Made
<1>2. FollowTypes /\ RanksFit
  BY <1>1, FS_EmptySet DEF Init, FollowTypes, RanksFit
<1>3. \A d \in Definition : IntendedFits(d) /\ Followed(d)
  BY DEF Init, IntendedFits, Followed, Explained
<1>4. \A c \in Client : StartsFirst(c) /\ WritingFits(c) /\ ProjectingFits(c)
  BY DEF Init, StartsFirst, UnderWay, WritingFits, ProjectingFits
<1> QED BY <1>2, <1>3, <1>4 DEF FollowInv

\* Calls that end or go on keep the order of starts and outcomes.
LEMMA StartsKept ==
    ASSUME \A e \in Client : StartsFirst(e), UNCHANGED runs,
           \A e \in Client : UnderWay(e)' => UnderWay(e) /\ job'[e] = job[e]
    PROVE  \A e \in Client : StartsFirst(e)'
BY DEF StartsFirst

\* A step that writes neither a record nor a projection: what its call was
\* still to write is left behind.
LEMMA QuietFollow ==
    ASSUME SectionInv, CallInv, FollowInv, NEW c \in Client,
           UNCHANGED <<runs, latest, intended, created>>,
           torn' \in [Run -> SUBSET Definition],
           \A r \in Run : torn[r] \subseteq torn'[r],
           \A d \in todo[c] : d \in torn'[job[c].run],
           \A e \in Client \ {c} :
               /\ at'[e] = at[e] /\ job'[e] = job[e] /\ draft'[e] = draft[e]
               /\ todo'[e] = todo[e],
           todo' = [e \in Client |-> todo'[e]], todo'[c] = {},
           at'[c] # "projecting", WritingFits(c)',
           \A e \in Client : StartsFirst(e)'
    PROVE  FollowInv'
<1>1. FollowTypes'
  BY DEF FollowInv, FollowTypes
<1>2. RanksFit'
  BY DEF FollowInv, RanksFit, Made
<1>3. ASSUME NEW d \in Definition PROVE IntendedFits(d)'
  BY DEF FollowInv, IntendedFits
<1>4. ASSUME NEW d \in Definition PROVE Followed(d)'
  <2>1. IntendedFits(d) /\ Followed(d)
    BY DEF FollowInv
  <2>2. CASE latest[d] = intended[d]
    BY <2>2 DEF Followed, Explained
  <2>3. CASE intended[d] # NoProjection /\ d \in torn[intended[d].runId]
    <3>1. intended[d].runId \in Run
      BY <2>1, <2>3 DEF IntendedFits, Projection
    <3> QED BY <2>3, <3>1 DEF Followed, Explained
  <2>4. ASSUME NEW e \in Client, d \in todo[e], intended[d].runId = job[e].run
        PROVE  Followed(d)'
    <3>1. CASE e = c
      <4>1. job[c].run \in Run
        BY <2>4, <3>1 DEF FollowInv, ProjectingFits, SectionInv, LockTypes, Calling,
           InSection
      <4>2. intended[d] # NoProjection
        BY <2>4, <3>1, <4>1, FileMigrationStoreAssumption DEF NoProjection
      <4> QED BY <2>4, <3>1, <4>2 DEF Followed, Explained
    <3>2. CASE e # c
      BY <2>4, <3>2 DEF Followed
    <3> QED BY <3>1, <3>2
  <2> QED BY <2>1, <2>2, <2>3, <2>4 DEF Followed, Explained
<1>5. ASSUME NEW e \in Client PROVE WritingFits(e)'
  <2>1. CASE e = c
    BY <2>1
  <2>2. CASE e # c
    BY <2>2 DEF FollowInv, WritingFits
  <2> QED BY <2>1, <2>2
<1>6. ASSUME NEW e \in Client PROVE ProjectingFits(e)'
  <2>1. CASE e = c
    BY <2>1 DEF ProjectingFits
  <2>2. CASE e # c
    <3>1. ProjectingFits(e) /\ at'[e] = at[e] /\ job'[e] = job[e]
          /\ draft'[e] = draft[e] /\ todo'[e] = todo[e]
      BY <2>2 DEF FollowInv
    <3>2. \A d : MayProject(e, d)' <=> MayProject(e, d)
      BY <3>1 DEF MayProject
    <3>3. at[e] = "projecting" => job[e].run \in Run
      BY DEF SectionInv, LockTypes, Calling, InSection
    <3> QED BY <3>1, <3>2, <3>3 DEF ProjectingFits
  <2> QED BY <2>1, <2>2
<1> QED BY <1>1, <1>2, <1>3, <1>4, <1>5, <1>6 DEF FollowInv

\* Nothing happens.
LEMMA StutterFollow == FollowInv /\ UNCHANGED vars => FollowInv'
<1> SUFFICES ASSUME FollowInv, UNCHANGED vars PROVE FollowInv'
  OBVIOUS
<1>1. UNCHANGED <<runs, latest, at, job, draft, todo, intended, torn, created>>
  BY DEF vars, fileVars, callVars, historyVars
<1>2. FollowTypes' /\ RanksFit'
  BY <1>1 DEF FollowInv, FollowTypes, RanksFit, Made
<1>3. \A d \in Definition : IntendedFits(d)' /\ Followed(d)'
  BY <1>1 DEF FollowInv, IntendedFits, Followed, Explained
<1>4. \A c \in Client : StartsFirst(c)' /\ WritingFits(c)'
  BY <1>1 DEF FollowInv, StartsFirst, UnderWay, WritingFits
<1>5. \A c \in Client : ProjectingFits(c)'
  <2>1. \A c, d : MayProject(c, d)' <=> MayProject(c, d)
    BY <1>1 DEF MayProject
  <2> QED BY <1>1, <2>1 DEF FollowInv, ProjectingFits
<1> QED BY <1>2, <1>3, <1>4, <1>5 DEF FollowInv

\* What a draft says of the predecessors of its run.
LEMMA DraftPredecessors ==
    ASSUME CallTypes, NEW c \in Client, JobFits(c),
           runs[job[c].run] # NoRecord
    PROVE  /\ transitionedRunState(c).predecessors = runs[job[c].run].predecessors
           /\ updatedRunState(c).predecessors = runs[job[c].run].predecessors
<1>1. runs[job[c].run] \in Record(job[c].run)
  BY DEF CallTypes, JobFits
<1>2. ASSUME NEW record \in Record(job[c].run), NEW status
      PROVE  [record EXCEPT !.status = status].predecessors = record.predecessors
  BY DEF Record
<1>3. ASSUME NEW record \in Record(job[c].run), NEW status, NEW finished, NEW execution
      PROVE  [record EXCEPT !.status = status, !.finished = finished,
                            !.execution = execution].predecessors
                = record.predecessors
  BY DEF Record
<1>4. transitionedRunState(c).predecessors = runs[job[c].run].predecessors
  BY <1>1, <1>2 DEF transitionedRunState
<1>5. updatedRunState(c) =
         [runs[job[c].run] EXCEPT
            !.status = transitionOf(c).status,
            !.finished = \/ runs[job[c].run].finished
                         \/ requestedStatus(job[c].op) \in TerminalStatus,
            !.execution = \/ runs[job[c].run].execution
                          \/ job[c].op = "attachRunExecution"]
  BY <1>1 DEF updatedRunState, Record
<1>6. updatedRunState(c).predecessors = runs[job[c].run].predecessors
  <2> HIDE DEF updatedRunState
  <2> QED BY <1>1, <1>3, <1>5
<1> QED BY <1>4, <1>6

\* The status a write gives its run, and what its projections show for it.
LEMMA DraftStatus ==
    ASSUME CallInv, NEW c \in Client, at[c] = "writing", JobFits(c)
    PROVE  /\ job[c].op \in OutcomeOp =>
                draft[c].status \in {"succeeded", "failed", "cancelled"}
           /\ job[c].op \notin OutcomeOp
                /\ runs[job[c].run].status \notin {"succeeded", "failed"} =>
                draft[c].status \notin {"succeeded", "failed"}
           /\ job[c].op \notin OutcomeOp \/ draft[c].status = "cancelled" =>
                \A d : migrationDefinitionRunStatus(d, draft[c].status,
                                  job[c].outcomes) = draft[c].status
<1>1. DraftIsCurrent(c) /\ CallTypes /\ JobFits(c)
  BY DEF CallInv, CallFits, Calling, InSection
<1> DEFINE current == runs[job[c].run].status
<1>2. current \in RunStatus \union {"none"}
  BY <1>1 DEF CallTypes, JobFits, Record, NoRecord
<1>3. job[c].op \in Op
  BY <1>1 DEF JobFits
<1>4. CASE job[c].op \in StartOp
  <2>1. job[c].op \notin OutcomeOp
    BY <1>4 DEF StartOp, OutcomeOp
  <2>2. requestedStatus(job[c].op) \in {"queued", "running"}
    BY <1>4 DEF StartOp, requestedStatus
  <2>3. transitionOf(c).status \in {current, "queued", "running"}
    BY <1>2, <1>4, <2>2 DEF transitionOf, resolveMigrationRunTransition, Decision,
       OrCurrent, StartOp, RunStatus, ActiveStatus, TerminalStatus
  <2>4. draft[c].status \in {current, "queued", "running"}
    BY <1>1, <1>4, <2>2, <2>3 DEF DraftIsCurrent, StartStatus
  <2>5. job[c].outcomes = NoOutcomes
    BY <1>1, <2>1 DEF JobFits
  <2>6. \A d : migrationDefinitionRunStatus(d, draft[c].status, job[c].outcomes)
                  = draft[c].status
    BY <2>5 DEF migrationDefinitionRunStatus, NoOutcomes
  <2> QED BY <2>1, <2>4, <2>6
<1>5. CASE job[c].op \notin StartOp
  <2>1. /\ runs[job[c].run] # NoRecord /\ UpdateApplies(c)
        /\ draft[c].status = transitionOf(c).status
    BY <1>1, <1>5, UpdatedRecord DEF DraftIsCurrent
  <2>2. current \in RunStatus /\ transitionOf(c).accepted
    BY <1>1, <2>1 DEF CallTypes, JobFits, Record, UpdateApplies
  <2>3. CASE job[c].op \in OutcomeOp
    <3>1. \/ job[c].op = "completeRun" /\ requestedStatus(job[c].op) = "succeeded"
          \/ job[c].op = "failRun" /\ requestedStatus(job[c].op) = "failed"
      BY <2>3 DEF OutcomeOp, requestedStatus
    <3>2. transitionOf(c).status \in {"succeeded", "failed", "cancelled"}
      BY <2>2, <3>1 DEF transitionOf, resolveMigrationRunTransition, Decision,
         OrCurrent, RunStatus, ActiveStatus, TerminalStatus
    <3> QED BY <2>1, <2>3, <3>2 DEF migrationDefinitionRunStatus
  <2>4. CASE job[c].op \notin OutcomeOp
    <3>1. /\ job[c].op # "completeRun"
          /\ requestedStatus(job[c].op) \in
                {"cancelled", "start-failed", "cancelling", "none"}
      BY <1>3, <1>5, <2>4 DEF Op, StartOp, OutcomeOp, PlainOp, requestedStatus
    <3>2. transitionOf(c).status \in
             {current, "cancelled", "start-failed", "cancelling"}
      BY <2>2, <3>1 DEF transitionOf, resolveMigrationRunTransition, Decision,
         OrCurrent, RunStatus, ActiveStatus, TerminalStatus
    <3>3. job[c].outcomes = NoOutcomes
      BY <1>1, <2>4 DEF JobFits
    <3>4. \A d : migrationDefinitionRunStatus(d, draft[c].status, job[c].outcomes)
                    = draft[c].status
      BY <3>3 DEF migrationDefinitionRunStatus, NoOutcomes
    <3> QED BY <2>1, <2>4, <3>2, <3>4
  <2> QED BY <2>3, <2>4
<1> QED BY <1>4, <1>5

\* Who may write the projection of a definition.
LEMMA TodoIsHeld ==
    ASSUME SectionInv, FollowInv, NEW c \in Client, NEW d \in todo[c]
    PROVE  /\ at[c] = "projecting" /\ job[c].run \in Run /\ d \in Scope[job[c].run]
           /\ d \in Definition /\ projectionLocks[d] = c
<1>1. at[c] = "projecting" /\ d \in Scope[job[c].run]
  BY DEF FollowInv, ProjectingFits
<1>2. job[c].run \in Run /\ d \in HeldBy(c)
  BY <1>1 DEF SectionInv, LockTypes, SectionIsLocked, Calling, InSection
<1> QED BY <1>1, <1>2 DEF HeldBy

\* The write of a record: what is intended changes with it.
LEMMA RecordFollow ==
    ASSUME SectionInv, CallInv, FollowInv, NEW c \in Client, writeRunRecord(c)
    PROVE  FollowInv'
<1> DEFINE r == job[c].run
           creates == runs[r] = NoRecord
           applies == job[c].op \in StartOp => creates \/ transitionOf(c).accepted
           new(d) == Project(r, d, draft[c].status, job[c].outcomes)
<1>1. /\ at[c] = "writing" /\ at' = [at EXCEPT ![c] = "projecting"]
      /\ runs' = [runs EXCEPT ![r] = draft[c]]
      /\ created' = IF creates
                    THEN [created EXCEPT ![r] = 1 + Cardinality(Made)]
                    ELSE created
      /\ intended' = [d \in Definition |->
                        IF d \in Scope[r] /\ applies /\ (creates \/ intended[d].runId = r)
                        THEN new(d) ELSE intended[d]]
      /\ todo' = [todo EXCEPT ![c] = Scope[r]]
      /\ UNCHANGED <<latest, job, draft, torn>>
  BY DEF writeRunRecord, Intend, Made
<1>2. /\ JobFits(c) /\ draft[c] \in Record(r) /\ DraftIsCurrent(c)
      /\ r \in Run /\ CallTypes
  BY <1>1 DEF CallInv, CallFits, Calling, InSection, JobFits
<1>3. Scope[r] \subseteq HeldBy(c) /\ Scope[r] \subseteq Definition
  BY <1>1, <1>2, ScopeIsDefined DEF SectionInv, SectionIsLocked, InSection
<1>4. /\ runs'[r] = draft[c] /\ \A q \in Run : q # r => runs'[q] = runs[q]
      /\ runs'[r] # NoRecord /\ draft[c].status \in RunStatus
  BY <1>1, <1>2 DEF CallTypes, Record, NoRecord, RunStatus, ActiveStatus, TerminalStatus
<1>5. /\ IsFiniteSet(Made) /\ Cardinality(Made) \in Nat
      /\ \A q \in Run : created[q] \in Nat /\ created[q] <= Cardinality(Made)
      /\ \A q \in Run : created[q] # 0 <=> runs[q] # NoRecord
      /\ created \in [Run -> Nat]
  BY FS_CardinalityType DEF FollowInv, FollowTypes, RanksFit
<1>6. /\ \A q \in Run : q # r => created'[q] = created[q]
      /\ creates => created'[r] = 1 + Cardinality(Made) /\ created[r] = 0
      /\ ~creates => created'[r] = created[r] /\ created[r] # 0
  BY <1>1, <1>2, <1>5
<1>7. /\ \A e \in Client \ {c} : at'[e] = at[e] /\ todo'[e] = todo[e]
      /\ at'[c] = "projecting" /\ todo'[c] = Scope[r] /\ todo[c] = {}
  BY <1>1 DEF SectionInv, LockTypes, FollowInv, FollowTypes, ProjectingFits
<1>8. \A d \in Definition :
         IF d \in Scope[r] /\ applies /\ (creates \/ intended[d].runId = r)
         THEN intended'[d] = new(d) ELSE intended'[d] = intended[d]
  BY <1>1
<1>9. \A d \in Definition :
         /\ new(d) \in Projection /\ new(d).runId = r
         /\ new(d).status = draft[c].status
         /\ new(d).definitionStatus = migrationDefinitionRunStatus(
                                d, draft[c].status, job[c].outcomes)
  BY <1>2, WrittenProjection DEF Project
<1>10. /\ creates => job[c].op \in StartOp
       /\ ~applies => /\ ~creates /\ job[c].op \in StartOp
                      /\ draft[c].status = runs[r].status
  BY <1>2 DEF DraftIsCurrent, StartStatus
<1>11. \A d \in Scope[r] : Explained(d)
  <2> SUFFICES ASSUME NEW d \in Scope[r], ~Explained(d) PROVE FALSE
    OBVIOUS
  <2>1. PICK e \in Client : d \in todo[e]
    BY <1>3 DEF FollowInv, Followed
  <2>2. projectionLocks[d] = e
    BY <2>1, TodoIsHeld
  <2>3. e = c
    BY <1>3, <2>2 DEF HeldBy
  <2> QED BY <1>7, <2>1, <2>3
<1>12. draft[c].status = runs'[r].status
  BY <1>4
<1> HIDE DEF new
<1>a. FollowTypes'
  <2>1. todo' = [e \in Client |-> todo'[e]]
    BY <1>1 DEF FollowInv, FollowTypes
  <2>2. created' \in [Run -> Nat]
    BY <1>1, <1>2, <1>5
  <2> QED BY <1>1, <2>1, <2>2 DEF FollowInv, FollowTypes
<1>b. RanksFit'
  <2>1. /\ IsFiniteSet(Made') /\ Cardinality(Made') \in Nat
        /\ Cardinality(Made) <= Cardinality(Made')
        /\ creates => Cardinality(Made') = 1 + Cardinality(Made)
    <3>1. CASE creates
      <4>1. Made' = Made \union {r} /\ r \notin Made
        BY <1>2, <1>5, <1>6, <3>1 DEF Made
      <4>2. IsFiniteSet(Made') /\ Cardinality(Made') = Cardinality(Made) + 1
        BY <1>5, <4>1, FS_AddElement
      <4> QED BY <1>5, <4>2
    <3>2. CASE ~creates
      <4>1. Made' = Made
        BY <1>2, <1>6, <3>2 DEF Made
      <4> QED BY <1>5, <3>2, <4>1
    <3> QED BY <3>1, <3>2
  <2>2. \A q \in Run : /\ created'[q] <= Cardinality(Made')
                       /\ created'[q] # 0 <=> runs'[q] # NoRecord
    <3> SUFFICES ASSUME NEW q \in Run
                 PROVE  /\ created'[q] <= Cardinality(Made')
                        /\ created'[q] # 0 <=> runs'[q] # NoRecord
      OBVIOUS
    <3> HIDE DEF creates
    <3>1. CASE q = r
      BY <1>4, <1>5, <1>6, <2>1, <3>1
    <3>2. CASE q # r
      BY <1>4, <1>5, <1>6, <2>1, <3>2
    <3> QED BY <3>1, <3>2
  <2>3. \A q \in Run : runs'[q] # NoRecord =>
           \A d \in Scope[q] :
              runs'[q].predecessors[d] # NoRun =>
                 /\ created'[runs'[q].predecessors[d]] # 0
                 /\ created'[runs'[q].predecessors[d]] < created'[q]
    <3> SUFFICES ASSUME NEW q \in Run, runs'[q] # NoRecord, NEW d \in Scope[q],
                        NEW p, p = runs'[q].predecessors[d], p # NoRun
                 PROVE  created'[p] # 0 /\ created'[p] < created'[q]
      OBVIOUS
    <3>1. ASSUME runs[q] # NoRecord, p = runs[q].predecessors[d]
          PROVE  created'[p] # 0 /\ created'[p] < created'[q]
      <4>1. p \in Run /\ created[p] # 0 /\ created[p] < created[q]
        <5>1. runs[q] \in Record(q)
          BY <1>2, <3>1 DEF CallTypes
        <5> QED BY <3>1, <5>1 DEF FollowInv, RanksFit, Record
      <4>2. created'[p] = created[p] /\ created'[q] = created[q]
        <5> HIDE DEF creates
        <5> QED BY <1>5, <1>6, <3>1, <4>1
      <4> QED BY <4>1, <4>2
    <3>2. CASE q # r
      BY <1>4, <3>1, <3>2
    <3>3. CASE q = r /\ ~creates
      <4>1. draft[c].predecessors = runs[r].predecessors
        BY <1>1, <3>3 DEF FollowInv, WritingFits
      <4> QED BY <1>4, <3>1, <3>3, <4>1
    <3>4. CASE q = r /\ creates
      <4>1. p = latest[d].runId
        BY <1>1, <1>4, <3>4 DEF FollowInv, WritingFits
      <4>2. d \in Definition
        BY <1>3, <3>4
      <4>3. latest[d] # NoProjection
        BY <4>1 DEF NoProjection
      <4>4. p \in Run /\ created[p] # 0
        BY <1>2, <4>1, <4>2, <4>3 DEF CallTypes, Projection, FollowInv, RanksFit
      <4>5. p # r
        BY <1>6, <3>4, <4>4
      <4>6. created'[p] = created[p] /\ created[p] <= Cardinality(Made)
            /\ created[p] \in Nat
        BY <1>5, <1>6, <4>4, <4>5
      <4>7. created'[q] = 1 + Cardinality(Made)
        BY <1>6, <3>4
      <4> QED BY <1>5, <4>4, <4>6, <4>7
    <3> QED BY <3>2, <3>3, <3>4
  <2>4. \A d \in Definition : latest'[d] # NoProjection =>
           created'[latest'[d].runId] # 0
    <3> SUFFICES ASSUME NEW d \in Definition, latest[d] # NoProjection
                 PROVE  created'[latest[d].runId] # 0
      BY <1>1
    <3>1. latest[d].runId \in Run /\ created[latest[d].runId] # 0
      BY <1>2 DEF CallTypes, Projection, FollowInv, RanksFit
    <3> HIDE DEF creates
    <3> QED BY <1>5, <1>6, <3>1
  <2> QED BY <2>1, <2>2, <2>3, <2>4 DEF RanksFit
<1>c. ASSUME NEW d \in Definition PROVE IntendedFits(d)'
  <2>0. IntendedFits(d)
    BY DEF FollowInv
  <2>1. CASE d \in Scope[r] /\ applies /\ (creates \/ intended[d].runId = r)
    <3>1. intended'[d] = new(d) /\ new(d) # NoProjection
      BY <1>2, <1>8, <1>9, <2>1, FileMigrationStoreAssumption DEF NoProjection
    <3>2. draft[c].status \notin {"succeeded", "failed"} =>
             new(d).definitionStatus = draft[c].status
      BY <1>1, <1>2, <1>9, DraftStatus
    <3>3. \A q \in Run : d \in Scope[q] /\ created'[q] # 0 =>
             created'[q] <= created'[r]
      <4> SUFFICES ASSUME NEW q \in Run, d \in Scope[q], created'[q] # 0
                   PROVE  created'[q] <= created'[r]
        OBVIOUS
      <4>1. CASE creates
        <5> HIDE DEF creates
        <5>1. CASE q = r
          BY <1>5, <1>6, <4>1, <5>1
        <5>2. CASE q # r
          BY <1>5, <1>6, <4>1, <5>2
        <5> QED BY <5>1, <5>2
      <4>2. CASE ~creates
        <5>1. intended[d].runId = r
          BY <2>1, <4>2
        <5>2. created'[q] = created[q] /\ created'[r] = created[r]
          BY <1>6, <4>2
        <5>3. created[q] <= created[r]
          BY <2>0, <5>1, <5>2 DEF IntendedFits
        <5> QED BY <5>2, <5>3
      <4> QED BY <4>1, <4>2
    <3> QED BY <1>4, <1>9, <2>1, <3>1, <3>2, <3>3 DEF IntendedFits
  <2>2. CASE ~(d \in Scope[r] /\ applies /\ (creates \/ intended[d].runId = r))
    <3>1. intended'[d] = intended[d] /\ latest'[d] = latest[d]
      BY <1>1, <1>8, <2>2
    <3>2. creates => d \notin Scope[r]
      BY <2>2
    <3>3. intended[d] # NoProjection =>
             /\ intended[d].runId \in Run
             /\ created'[intended[d].runId] = created[intended[d].runId]
             /\ runs'[intended[d].runId].status = runs[intended[d].runId].status
      <4> SUFFICES ASSUME intended[d] # NoProjection
                   PROVE  /\ intended[d].runId \in Run
                          /\ created'[intended[d].runId] = created[intended[d].runId]
                          /\ runs'[intended[d].runId].status
                                = runs[intended[d].runId].status
        OBVIOUS
      <4>1. intended[d].runId \in Run /\ d \in Scope[intended[d].runId]
        BY <2>0 DEF IntendedFits, Projection
      <4>2. CASE intended[d].runId = r
        <5>1. ~creates /\ ~applies
          BY <2>2, <3>2, <4>1, <4>2
        <5> QED BY <1>6, <1>10, <1>12, <4>1, <4>2, <5>1
      <4>3. CASE intended[d].runId # r
        BY <1>4, <1>6, <4>1, <4>3
      <4> QED BY <4>2, <4>3
    <3>4. \A q \in Run : d \in Scope[q] /\ created'[q] # 0 => created'[q] = created[q]
      <4> HIDE DEF creates
      <4> QED BY <1>6, <3>2
    <3> QED BY <2>0, <3>1, <3>3, <3>4 DEF IntendedFits
  <2> QED BY <2>1, <2>2
<1>d. ASSUME NEW d \in Definition PROVE Followed(d)'
  <2>1. CASE d \in Scope[r] /\ intended'[d].runId = r
    BY <1>1, <1>7, <2>1 DEF Followed
  <2>2. CASE d \in Scope[r] /\ intended'[d].runId # r
    <3>1. intended'[d] = intended[d]
      BY <1>8, <1>9, <2>2
    <3>2. Explained(d)
      BY <1>11, <2>2
    <3> QED BY <1>1, <3>1, <3>2 DEF Followed, Explained
  <2>3. CASE d \notin Scope[r]
    <3>1. intended'[d] = intended[d] /\ Followed(d)
      BY <1>8, <2>3 DEF FollowInv
    <3>2. \A e \in Client : d \in todo[e] => d \in todo'[e] /\ job'[e] = job[e]
      BY <1>1, <1>7
    <3> QED BY <1>1, <3>1, <3>2 DEF Followed, Explained
  <2> QED BY <2>1, <2>2, <2>3
<1>e. ASSUME NEW e \in Client PROVE StartsFirst(e)'
  <2>1. \A f \in Client : UnderWay(f)' => UnderWay(f)
    BY <1>1, <1>7 DEF UnderWay
  <2> SUFFICES ASSUME UnderWay(e), job[e].op \in StartOp
               PROVE  runs'[job[e].run].status \notin {"succeeded", "failed"}
    BY <1>1, <2>1 DEF FollowInv, StartsFirst
  <2>2. runs[job[e].run].status \notin {"succeeded", "failed"}
    BY DEF FollowInv, StartsFirst
  <2>3. CASE job[e].run = r
    <3>1. UnderWay(c)
      BY <1>1 DEF UnderWay
    <3>2. job[c].op \notin OutcomeOp
      BY <2>3, <3>1 DEF FollowInv, StartsFirst
    <3>3. draft[c].status \notin {"succeeded", "failed"}
      BY <1>1, <1>2, <2>2, <2>3, <3>2, DraftStatus
    <3> QED BY <1>4, <2>3, <3>3
  <2>4. CASE job[e].run # r
    BY <1>1, <2>2, <2>4
  <2> QED BY <2>3, <2>4
<1>f. ASSUME NEW e \in Client PROVE WritingFits(e)'
  <2>1. CASE e = c
    BY <1>7, <2>1 DEF WritingFits
  <2>2. CASE e # c /\ at[e] = "writing"
    <3>1. job[e].run # r /\ job[e].run \in Run
      BY <1>1, <2>2, OneWriter DEF InSection, SectionInv, LockTypes, Calling
    <3> QED BY <1>1, <1>4, <1>7, <2>2, <3>1 DEF FollowInv, WritingFits
  <2>3. CASE e # c /\ at[e] # "writing"
    BY <1>7, <2>3 DEF WritingFits
  <2> QED BY <2>1, <2>2, <2>3
<1>g. ASSUME NEW e \in Client PROVE ProjectingFits(e)'
  <2>0. \A f, d : MayProject(f, d)' <=> MayProject(f, d)
    BY <1>1 DEF MayProject
  <2>1. CASE e = c
    <3>1. ASSUME NEW d \in Scope[r], intended'[d].runId = r
          PROVE  intended'[d] = new(d) /\ (MayProject(c, d) \/ d \in torn[r])
      <4>1. d \in Definition /\ Explained(d) /\ IntendedFits(d)
        BY <1>3, <1>11 DEF FollowInv
      <4>2. intended'[d] = new(d)
        <5>1. CASE applies /\ (creates \/ intended[d].runId = r)
          BY <1>8, <4>1, <5>1
        <5>2. CASE ~(applies /\ (creates \/ intended[d].runId = r))
          <6>1. intended'[d] = intended[d]
            BY <1>8, <4>1, <5>2
          <6>2. intended[d].runId = r /\ ~applies
            BY <3>1, <5>2, <6>1
          <6>3. runs[r].status \notin {"succeeded", "failed"}
            BY <1>1, <1>10, <6>2 DEF FollowInv, StartsFirst, UnderWay
          <6>4. intended[d] # NoProjection
            BY <1>2, <6>2, FileMigrationStoreAssumption DEF NoProjection
          <6>5. /\ intended[d] \in Projection
                /\ intended[d].status = draft[c].status
                /\ intended[d].definitionStatus = draft[c].status
            BY <1>10, <4>1, <6>2, <6>3, <6>4 DEF IntendedFits
          <6>6. job[c].op \notin OutcomeOp
            BY <1>10, <6>2 DEF StartOp, OutcomeOp
          <6>7. new(d).definitionStatus = draft[c].status
            BY <1>1, <1>2, <1>9, <4>1, <6>6, DraftStatus
          <6> QED BY <1>9, <4>1, <6>1, <6>2, <6>5, <6>7 DEF Projection
        <5> QED BY <5>1, <5>2
      <4>3. CASE creates
        <5>1. draft[c].predecessors[d] = latest[d].runId
          BY <1>1, <4>3 DEF FollowInv, WritingFits
        <5> QED BY <1>10, <4>2, <4>3, <5>1
                DEF MayProject, canReplaceLatestMigrationDefinitionRun
      <4>4. CASE ~creates
        <5>1. intended[d].runId = r
          BY <1>8, <3>1, <4>1, <4>4
        <5>2. CASE latest[d] = intended[d]
          BY <4>2, <5>1, <5>2 DEF MayProject, canReplaceLatestMigrationDefinitionRun
        <5>3. CASE d \in torn[r]
          BY <4>2, <5>3
        <5> QED BY <4>1, <5>1, <5>2, <5>3 DEF Explained
      <4> QED BY <4>3, <4>4
    <3> QED BY <1>1, <1>4, <1>7, <2>0, <2>1, <3>1 DEF ProjectingFits, new
  <2>2. CASE e # c
    <3>1. ProjectingFits(e) /\ at'[e] = at[e] /\ todo'[e] = todo[e]
          /\ job'[e] = job[e] /\ draft'[e] = draft[e] /\ torn' = torn
      BY <1>1, <1>7, <2>2 DEF FollowInv
    <3>2. \A d \in todo[e] : intended'[d] = intended[d]
      <4> SUFFICES ASSUME NEW d \in todo[e] PROVE intended'[d] = intended[d]
        OBVIOUS
      <4>1. d \in Definition /\ projectionLocks[d] = e
        BY TodoIsHeld
      <4>2. d \notin Scope[r]
        BY <1>3, <2>2, <4>1 DEF HeldBy
      <4> QED BY <1>8, <4>1, <4>2
    <3>3. at[e] = "projecting" => runs'[job[e].run] = runs[job[e].run]
      <4> SUFFICES ASSUME at[e] = "projecting"
                   PROVE  runs'[job[e].run] = runs[job[e].run]
        OBVIOUS
      <4>1. job[e].run # r /\ job[e].run \in Run
        BY <1>1, <2>2, OneWriter DEF InSection, SectionInv, LockTypes, Calling
      <4> QED BY <1>4, <4>1
    <3> QED BY <2>0, <3>1, <3>2, <3>3 DEF ProjectingFits
  <2> QED BY <2>1, <2>2
<1> QED BY <1>a, <1>b, <1>c, <1>d, <1>e, <1>f, <1>g DEF FollowInv

\* The write of a projection: where the call may write, it is what is
\* intended; where an earlier call left something behind, that stays known.
LEMMA ProjectionFollow ==
    ASSUME SectionInv, CallInv, FollowInv, NEW c \in Client, NEW d \in Definition,
           writeProjection(c, d)
    PROVE  FollowInv'
<1> DEFINE r == job[c].run
           new == Project(r, d, draft[c].status, job[c].outcomes)
<1>1. /\ at[c] = "projecting" /\ d \in todo[c]
      /\ IF MayProject(c, d)
         THEN /\ latest' = [latest EXCEPT ![d] = new]
              /\ torn' = [torn EXCEPT ![r] = torn[r] \ {d}]
         ELSE latest' = latest /\ torn' = torn
      /\ todo' = [todo EXCEPT ![c] = todo[c] \ {d}]
      /\ \/ todo[c] = {d} /\ at' = [at EXCEPT ![c] = "unlocking"]
         \/ todo[c] # {d} /\ at' = at
      /\ UNCHANGED <<runs, job, draft, intended, created>>
  BY DEF writeProjection, Leave
<1>2. /\ JobFits(c) /\ draft[c] \in Record(r) /\ r \in Run /\ d \in Scope[r]
      /\ CallTypes /\ runs[r] = draft[c]
  BY <1>1, TodoIsHeld DEF CallInv, CallFits, Calling, InSection, JobFits, FollowInv,
     ProjectingFits
<1>3. new \in Projection /\ new.runId = r /\ new # NoProjection
  BY <1>2, WrittenProjection, FileMigrationStoreAssumption DEF Project, NoProjection
<1>4. runs[r] # NoRecord /\ created[r] # 0
  <2>1. runs[r] # NoRecord
    BY <1>2 DEF Record, NoRecord, RunStatus, ActiveStatus, TerminalStatus
  <2> QED BY <1>2, <2>1 DEF FollowInv, RanksFit
<1>5. /\ \A e \in Client \ {c} : at'[e] = at[e] /\ todo'[e] = todo[e]
      /\ todo'[c] = todo[c] \ {d}
      /\ at'[c] = IF todo[c] = {d} THEN "unlocking" ELSE "projecting"
  BY <1>1 DEF SectionInv, LockTypes, FollowInv, FollowTypes
<1>6. /\ \A f \in Definition \ {d} : latest'[f] = latest[f]
      /\ IF MayProject(c, d) THEN latest'[d] = new ELSE latest'[d] = latest[d]
  BY <1>1 DEF CallInv, CallTypes
<1>7. /\ torn' \in [Run -> SUBSET Definition]
      /\ \A q \in Run : q # r => torn'[q] = torn[q]
      /\ torn'[r] = IF MayProject(c, d) THEN torn[r] \ {d} ELSE torn[r]
  BY <1>1, <1>2 DEF FollowInv, FollowTypes
<1>8. \A e \in Client : d \in todo[e] => e = c
  BY <1>1, TodoIsHeld
<1> HIDE DEF new
<1>9. intended[d].runId # r =>
         latest[d] # intended[d] \/ ~MayProject(c, d)
  <2> SUFFICES ASSUME intended[d].runId # r, latest[d] = intended[d], MayProject(c, d)
               PROVE  FALSE
    OBVIOUS
  <2>1. IntendedFits(d) /\ created[r] \in Nat /\ latest[d].runId # r
    BY <1>2 DEF FollowInv, FollowTypes
  <2>2. intended[d] # NoProjection /\ created[r] <= created[intended[d].runId]
    BY <1>2, <1>4, <2>1 DEF IntendedFits
  <2>3. intended[d].runId \in Run
    BY <2>1, <2>2 DEF IntendedFits, Projection
  <2>4. latest[d].runId = draft[c].predecessors[d]
    BY <2>1, <2>3, FileMigrationStoreAssumption
       DEF MayProject, canReplaceLatestMigrationDefinitionRun
  <2>5. runs[r].predecessors[d] = intended[d].runId
    BY <1>2, <2>4
  <2>6. intended[d].runId # NoRun
    BY <2>3, FileMigrationStoreAssumption
  <2>7. created[intended[d].runId] < created[r]
    BY <1>2, <1>4, <2>5, <2>6 DEF FollowInv, RanksFit
  <2>8. created[intended[d].runId] \in Nat
    BY <2>3 DEF FollowInv, FollowTypes
  <2> QED BY <2>1, <2>2, <2>7, <2>8
<1>a. FollowTypes'
  <2>1. todo' = [e \in Client |-> todo'[e]]
    BY <1>1 DEF FollowInv, FollowTypes
  <2> QED BY <1>1, <1>7, <2>1 DEF FollowInv, FollowTypes
<1>b. RanksFit'
  <2>1. Made' = Made
    BY <1>1 DEF Made
  <2>2. \A f \in Definition : latest'[f] # NoProjection =>
           created[latest'[f].runId] # 0
    <3>1. \A f \in Definition : latest'[f] = latest[f] \/ latest'[f] = new
      BY <1>6
    <3> QED BY <1>3, <1>4, <3>1 DEF FollowInv, RanksFit
  <2> QED BY <1>1, <2>1, <2>2 DEF FollowInv, RanksFit
<1>c. ASSUME NEW f \in Definition PROVE IntendedFits(f)'
  <2>1. IntendedFits(f) /\ intended' = intended /\ created' = created /\ runs' = runs
    BY <1>1 DEF FollowInv
  <2>2. intended[f] = NoProjection => latest'[f] = NoProjection
    <3>1. intended[d] # NoProjection
      BY <1>2, <1>4 DEF FollowInv, IntendedFits
    <3> QED BY <1>6, <2>1, <3>1 DEF IntendedFits
  <2> QED BY <2>1, <2>2 DEF IntendedFits
<1>d. ASSUME NEW f \in Definition PROVE Followed(f)'
  <2>0. Followed(f) /\ IntendedFits(f)
    BY DEF FollowInv
  <2>1. CASE f = d
    <3>1. intended[d] # NoProjection /\ intended[d].runId \in Run
      <4>1. intended[d] # NoProjection
        BY <1>2, <1>4, <2>0, <2>1 DEF IntendedFits
      <4> QED BY <2>0, <2>1, <4>1 DEF IntendedFits, Projection
    <3>2. CASE intended[d].runId = r
      <4>1. intended[d] = new /\ (MayProject(c, d) \/ d \in torn[r])
        BY <1>1, <3>2 DEF FollowInv, ProjectingFits, new
      <4>2. CASE MayProject(c, d)
        BY <1>1, <1>6, <2>1, <4>1, <4>2 DEF Followed, Explained
      <4>3. CASE ~MayProject(c, d)
        BY <1>1, <1>7, <2>1, <3>1, <3>2, <4>1, <4>3 DEF Followed, Explained
      <4> QED BY <4>2, <4>3
    <3>3. CASE intended[d].runId # r
      <4>1. Explained(d)
        BY <1>8, <2>0, <2>1, <3>3 DEF Followed
      <4>2. CASE latest[d] = intended[d]
        BY <1>1, <1>6, <1>9, <2>1, <3>3, <4>2 DEF Followed, Explained
      <4>3. CASE d \in torn[intended[d].runId]
        BY <1>1, <1>7, <2>1, <3>1, <3>3, <4>3 DEF Followed, Explained
      <4> QED BY <4>1, <4>2, <4>3 DEF Explained
    <3> QED BY <3>2, <3>3
  <2>2. CASE f # d
    <3>1. latest'[f] = latest[f] /\ intended'[f] = intended[f] /\ job' = job
      BY <1>1, <1>6, <2>2
    <3>2. \A e \in Client : f \in todo[e] => f \in todo'[e]
      BY <1>5, <2>2
    <3>3. \A q \in Run : f \in torn[q] => f \in torn'[q]
      BY <1>7, <2>2
    <3>4. intended[f] # NoProjection => intended[f].runId \in Run
      BY <2>0 DEF IntendedFits, Projection
    <3> QED BY <2>0, <3>1, <3>2, <3>3, <3>4 DEF Followed, Explained
  <2> QED BY <2>1, <2>2
<1>e. ASSUME NEW e \in Client PROVE StartsFirst(e)'
  <2>1. \A f \in Client : UnderWay(f)' => UnderWay(f)
    BY <1>1, <1>5 DEF UnderWay
  <2> QED BY <1>1, <2>1, StartsKept DEF FollowInv
<1>f. ASSUME NEW e \in Client PROVE WritingFits(e)'
  <2>1. CASE e = c
    BY <1>5, <2>1 DEF WritingFits
  <2>2. CASE e # c /\ at[e] = "writing"
    <3>1. Scope[job[e].run] \subseteq HeldBy(e) /\ Scope[job[e].run] \subseteq Definition
      BY <2>2, ScopeIsDefined DEF SectionInv, SectionIsLocked, InSection, LockTypes,
         Calling
    <3>2. projectionLocks[d] = c
      BY <1>1, TodoIsHeld
    <3>3. \A f \in Scope[job[e].run] : latest'[f] = latest[f]
      BY <1>6, <2>2, <3>1, <3>2 DEF HeldBy
    <3> QED BY <1>1, <1>5, <2>2, <3>3 DEF FollowInv, WritingFits
  <2>3. CASE e # c /\ at[e] # "writing"
    BY <1>5, <2>3 DEF WritingFits
  <2> QED BY <2>1, <2>2, <2>3
<1>g. ASSUME NEW e \in Client PROVE ProjectingFits(e)'
  <2>0. ProjectingFits(e)
    BY DEF FollowInv
  <2>1. \A f \in todo'[e] : /\ f \in todo[e] /\ f # d
                            /\ MayProject(e, f)' <=> MayProject(e, f)
    <3> SUFFICES ASSUME NEW f \in todo'[e]
                 PROVE  /\ f \in todo[e] /\ f # d
                        /\ MayProject(e, f)' <=> MayProject(e, f)
      OBVIOUS
    <3>1. f \in todo[e] /\ f # d
      BY <1>5, <1>8
    <3>2. latest'[f] = latest[f]
      BY <1>6, <3>1, TodoIsHeld
    <3> QED BY <1>1, <3>1, <3>2 DEF MayProject
  <2>2. \A q \in Run : \A f : f # d /\ f \in torn[q] => f \in torn'[q]
    BY <1>7
  <2>3. at'[e] = "projecting" => at[e] = "projecting" /\ job[e].run \in Run
    <3>1. at'[e] = "projecting" => at[e] = "projecting"
      BY <1>1, <1>5
    <3> QED BY <3>1 DEF SectionInv, LockTypes, Calling, InSection
  <2>4. at'[e] # "projecting" => todo'[e] = {}
    BY <1>1, <1>5, <2>0 DEF ProjectingFits
  <2> QED BY <1>1, <2>0, <2>1, <2>2, <2>3, <2>4 DEF ProjectingFits
<1> QED BY <1>a, <1>b, <1>c, <1>d, <1>e, <1>f, <1>g DEF FollowInv

\* Every step keeps projections, records and calls in step, unless starts
\* are replayed.
LEMMA FollowStep ==
    ASSUME ~ReplayedStarts
    PROVE  SectionInv /\ CallInv /\ FollowInv /\ [Next]_vars => FollowInv'
<1> SUFFICES ASSUME SectionInv, CallInv, FollowInv, [Next]_vars PROVE FollowInv'
  OBVIOUS
<1> DEFINE Others(c) == \A e \in Client \ {c} :
               at'[e] = at[e] /\ job'[e] = job[e] /\ draft'[e] = draft[e]
<1>a. /\ at \in [Client -> Phase] /\ job = [c \in Client |-> job[c]]
      /\ draft = [c \in Client |-> draft[c]] /\ todo = [c \in Client |-> todo[c]]
      /\ torn \in [Run -> SUBSET Definition] /\ CallTypes
  BY DEF SectionInv, LockTypes, CallInv, CallTypes, FollowInv, FollowTypes
<1>b. \A c \in Client : at[c] # "projecting" => todo[c] = {}
  BY DEF FollowInv, ProjectingFits
\* A step that leaves the projections to do, and what is torn, as they are.
<1>c. ASSUME NEW c \in Client, UNCHANGED <<runs, latest, intended, created, torn, todo>>,
             Others(c), at[c] # "projecting", at'[c] # "projecting",
             WritingFits(c)', \A e \in Client : StartsFirst(e)'
      PROVE  FollowInv'
  BY <1>a, <1>b, <1>c, QuietFollow
<1>1. ASSUME NEW c \in Client, NEW r \in Run, NEW op \in Op, NEW outcomes,
             Call(c, op, r, outcomes)
      PROVE  FollowInv'
  <2>1. /\ UNCHANGED <<runs, latest, intended, created, torn, todo, draft>>
        /\ at[c] = "idle" /\ at' = [at EXCEPT ![c] = "locking"]
        /\ job' = [job EXCEPT ![c] = [op |-> op, run |-> r, outcomes |-> outcomes]]
        /\ InOrder(op, r)
    BY <1>1 DEF Call, fileVars, historyVars
  <2>2. /\ Others(c) /\ at'[c] = "locking"
        /\ job'[c].run = r /\ job'[c].op = op
    BY <1>a, <2>1
  <2>3. ASSUME NEW e \in Client PROVE StartsFirst(e)'
    <3> SUFFICES ASSUME UnderWay(e)', job'[e].op \in StartOp
                 PROVE  /\ runs[job'[e].run].status \notin {"succeeded", "failed"}
                        /\ \A f \in Client :
                              UnderWay(f)' /\ job'[f].run = job'[e].run =>
                                 job'[f].op \notin OutcomeOp
      BY <2>1 DEF StartsFirst
    <3>0. \A f \in Client \ {c} : UnderWay(f)' => UnderWay(f)
      BY <2>2 DEF UnderWay
    <3>1. CASE e = c
      <4>1. /\ runs[r].status \notin {"succeeded", "failed"}
            /\ ~InProgress(r, OutcomeOp) /\ op \notin OutcomeOp
        BY <2>1, <2>2, <3>1 DEF InOrder, StartOp, OutcomeOp
      <4> QED BY <2>2, <3>0, <3>1, <4>1 DEF InProgress, UnderWay
    <3>2. CASE e # c
      <4>1. UnderWay(e) /\ job[e].op \in StartOp /\ job'[e] = job[e]
        BY <2>2, <3>0, <3>2
      <4>2. /\ runs[job[e].run].status \notin {"succeeded", "failed"}
            /\ \A f \in Client : UnderWay(f) /\ job[f].run = job[e].run =>
                                    job[f].op \notin OutcomeOp
        BY <4>1 DEF FollowInv, StartsFirst
      <4>3. op \in OutcomeOp => job[e].run # r
        BY <2>1, <4>1 DEF InOrder, InProgress, UnderWay
      <4> QED BY <2>2, <3>0, <4>1, <4>2, <4>3
    <3> QED BY <3>1, <3>2
  <2>4. WritingFits(c)'
    BY <2>2 DEF WritingFits
  <2> QED BY <1>c, <2>1, <2>2, <2>3, <2>4
<1>2. ASSUME NEW c \in Client,
             \/ acquireProjectionLock(c) \/ releaseProjectionLock(c)
             \/ LockTimesOut(c) \/ Return(c) \/ Restart(c)
      PROVE  FollowInv'
  <2>1. /\ UNCHANGED <<runs, latest, intended, created, torn, todo>>
        /\ at[c] # "projecting"
        /\ \/ UNCHANGED <<at, job, draft>> /\ at[c] \in {"locking", "unlocking"}
           \/ /\ at[c] # "crashed" /\ UNCHANGED job /\ UNCHANGED draft
              /\ at' = [at EXCEPT ![c] = "unlocking"] /\ at[c] = "locking"
           \/ /\ at' = [at EXCEPT ![c] = "idle"]
              /\ job' = job \/ job' = [job EXCEPT ![c] = NoJob]
              /\ draft' = draft \/ draft' = [draft EXCEPT ![c] = NoRecord]
    BY <1>2 DEF acquireProjectionLock, releaseProjectionLock, LockTimesOut, Return,
       Restart, fileVars, callVars, historyVars, Leave
  <2>2. /\ Others(c) /\ at'[c] \notin {"writing", "projecting"}
        /\ UnderWay(c)' => UnderWay(c) /\ job'[c] = job[c]
    BY <1>a, <2>1 DEF UnderWay
  <2>3. \A e \in Client : UnderWay(e)' => UnderWay(e) /\ job'[e] = job[e]
    BY <2>2 DEF UnderWay
  <2>4. \A e \in Client : StartsFirst(e)'
    BY <2>1, <2>3, StartsKept DEF FollowInv
  <2>5. WritingFits(c)'
    BY <2>2 DEF WritingFits
  <2> QED BY <1>c, <2>1, <2>2, <2>4, <2>5
<1>3. ASSUME NEW c \in Client, ReadRecord(c) PROVE FollowInv'
  <2>1. /\ UNCHANGED <<runs, latest, intended, created, torn, todo, job>>
        /\ at[c] = "locking" /\ JobFits(c)
    BY <1>3 DEF ReadRecord, fileVars, historyVars, CallInv, CallFits, Calling
  <2>2. PICK phase \in {"writing", "unlocking"} :
            /\ at' = [at EXCEPT ![c] = phase]
            /\ phase = "unlocking" => UNCHANGED draft
            /\ phase = "writing" =>
                \/ /\ job[c].op \in StartOp
                   /\ draft' = [draft EXCEPT ![c] = transitionedRunState(c)]
                \/ /\ job[c].op \notin StartOp
                   /\ runs[job[c].run] # NoRecord
                   /\ draft' = [draft EXCEPT ![c] = updatedRunState(c)]
    BY <1>3 DEF ReadRecord, Leave
  <2>3. Others(c) /\ at'[c] = phase
    BY <1>a, <2>1, <2>2
  <2>4. \A e \in Client : StartsFirst(e)'
    <3>1. \A e \in Client : UnderWay(e)' => UnderWay(e) /\ job'[e] = job[e]
      BY <2>1, <2>3 DEF UnderWay
    <3> QED BY <2>1, <3>1, StartsKept DEF FollowInv
  <2>5. WritingFits(c)'
    <3>1. CASE phase = "unlocking"
      BY <2>3, <3>1 DEF WritingFits
    <3>2. CASE phase = "writing" /\ runs[job[c].run] # NoRecord
      <4>1. draft'[c] \in {transitionedRunState(c), updatedRunState(c)}
        BY <1>a, <2>2, <3>2
      <4>2. draft'[c].predecessors = runs[job[c].run].predecessors
        BY <1>a, <2>1, <3>2, <4>1, DraftPredecessors
      <4> QED BY <2>1, <3>2, <4>2 DEF WritingFits
    <3>3. CASE phase = "writing" /\ runs[job[c].run] = NoRecord
      <4>1. draft'[c] = transitionedRunState(c)
        BY <1>a, <2>2, <3>3
      <4>2. draft'[c].predecessors = projectionPredecessors(job[c].run)
        BY <3>3, <4>1 DEF transitionedRunState
      <4>3. \A d \in Scope[job[c].run] : draft'[c].predecessors[d] = latest[d].runId
        BY <4>2 DEF projectionPredecessors
      <4> QED BY <2>1, <3>3, <4>3 DEF WritingFits
    <3> QED BY <3>1, <3>2, <3>3
  <2> QED BY <1>c, <2>1, <2>3, <2>4, <2>5
<1>4. ASSUME NEW c \in Client, WriteFails(c) \/ Crash(c) PROVE FollowInv'
  <2>1. /\ UNCHANGED <<runs, latest, intended, created>>
        /\ at' = [at EXCEPT ![c] = "unlocking"] \/ at' = [at EXCEPT ![c] = "crashed"]
        /\ todo' = [todo EXCEPT ![c] = {}]
        /\ \/ torn' = [torn EXCEPT ![job[c].run] = torn[job[c].run] \union todo[c]]
           \/ torn' = torn /\ todo[c] = {}
    BY <1>4 DEF WriteFails, Crash, Leave, fileVars
  <2>2. /\ WriteFails(c) /\ UNCHANGED <<job, draft>> /\ UnderWay(c)
        \/ /\ Crash(c) /\ at'[c] = "crashed"
           /\ job' = [job EXCEPT ![c] = NoJob] /\ draft' = [draft EXCEPT ![c] = NoRecord]
    BY <1>a, <1>4 DEF WriteFails, Crash, UnderWay
  <2>3. /\ Others(c) /\ at'[c] \in {"unlocking", "crashed"}
        /\ \A e \in Client \ {c} : todo'[e] = todo[e]
        /\ todo'[c] = {} /\ todo' = [e \in Client |-> todo'[e]]
    BY <1>a, <2>1, <2>2
  <2>4. /\ torn' \in [Run -> SUBSET Definition]
        /\ \A q \in Run : torn[q] \subseteq torn'[q]
        /\ \A d \in todo[c] : d \in torn'[job[c].run]
    <3>1. \A d \in todo[c] : job[c].run \in Run /\ d \in Definition
      BY TodoIsHeld
    <3>2. CASE torn' = torn /\ todo[c] = {}
      BY <1>a, <3>2
    <3>3. CASE torn' = [torn EXCEPT ![job[c].run] = torn[job[c].run] \union todo[c]]
      BY <1>a, <3>1, <3>3
    <3> QED BY <2>1, <3>2, <3>3
  <2>5. \A e \in Client : UnderWay(e)' => UnderWay(e) /\ job'[e] = job[e]
    BY <2>2, <2>3 DEF UnderWay
  <2>6. \A e \in Client : StartsFirst(e)'
    BY <2>1, <2>5, StartsKept DEF FollowInv
  <2>7. WritingFits(c)' /\ at'[c] # "projecting"
    BY <2>3 DEF WritingFits
  <2> QED BY <2>1, <2>3, <2>4, <2>6, <2>7, QuietFollow
<1>5. ASSUME NEW d \in Definition, LockGoesStale(d) PROVE FollowInv'
  <2>1. /\ UNCHANGED <<runs, latest, intended, created, torn, todo, at, job, draft>>
        /\ \E c \in Client : at[c] = "crashed"
    BY <1>5 DEF LockGoesStale, fileVars, callVars, historyVars
  <2>2. \A e \in Client : StartsFirst(e)'
    BY <2>1, StartsKept DEF FollowInv, UnderWay
  <2>3. PICK c \in Client : at[c] = "crashed"
    BY <2>1
  <2>4. WritingFits(c)'
    BY <2>1, <2>3 DEF WritingFits
  <2> QED BY <1>c, <2>1, <2>2, <2>3, <2>4
<1>6. CASE Next
  <2>1. ASSUME NEW c \in Client, NEW r \in Run,
               \/ \E op \in StartOp \union PlainOp : Call(c, op, r, NoOutcomes)
               \/ \E op \in OutcomeOp, outcomes \in Outcomes[r] :
                      Call(c, op, r, outcomes)
        PROVE  FollowInv'
    BY <1>1, <2>1 DEF Op
  <2>2. CASE \E c \in Client : ClientStep(c)
    BY <1>2, <1>3, <2>2, RecordFollow, ProjectionFollow DEF ClientStep
  <2>3. CASE \E c \in Client : LockTimesOut(c) \/ WriteFails(c) \/ Crash(c) \/ Restart(c)
    BY <1>2, <1>4, <2>3
  <2>4. CASE \E d \in Definition : LockGoesStale(d)
    BY <1>5, <2>4
  <2> QED BY <1>6, <2>1, <2>2, <2>3, <2>4 DEF Next
<1> QED BY <1>6, StutterFollow

\* Whatever breaks off where, a projection is behind its run's record only
\* until the call that is writing it, or a repetition of the one that broke
\* off, is through (writeRunState, updateCurrentLatestRunProjections).
THEOREM FileStoreLatestFollows ==
    ASSUME ~ReplayedStarts
    PROVE  Spec => []LatestFollowsRecord
<1>1. FollowInv => LatestFollowsRecord
  BY DEF FollowInv, LatestFollowsRecord, Followed, Explained
<1>2. SectionInv /\ CallInv /\ FollowInv /\ [Next]_vars => FollowInv'
  BY FollowStep
<1> QED BY <1>1, <1>2, InitFollow, CallInvariant, PTL DEF Spec
===============================================================================
