------------------------- MODULE DurableStoresProofs -------------------------
(***************************************************************************)
(* Proofs about the durable stores, for any number of callers, runs,       *)
(* definitions and items, and about the SQL store's schema.                *)
(*                                                                         *)
(* The three families of operations share nothing but the callers, so each *)
(* has an invariant of its own: what its records look like, and what a     *)
(* call that has read something may still rely on when it writes.  StepKinds *)
(* tells the families apart.                                               *)
(***************************************************************************)
EXTENDS DurableStores, SqlMigrationStoreSchema, TLAPS

-----------------------------------------------------------------------------
(* The places of a call, by family *)

RunPc == {"read-run", "read-predecessors", "read-latest", "write-run",
          "read-projection", "write-projection", "write-pointers"}

LockPc == {"delete-lock", "write-lock", "remove-lock"}

ItemPc == {"observe", "read-completion", "delete-completion", "read-cursor",
           "delete-cursor", "delete-item", "remove-completion",
           "remove-cursor", "remove-item", "restore-cursor",
           "restore-completion"}

\* A call is somewhere, and a caller is in one call at a time.
CallShape ==
    /\ call = [c \in Caller |-> call[c]]
    /\ \A c \in Caller :
          "pc" \in DOMAIN call[c] /\ call[c].pc \in {"idle"} \union RunPc
                                        \union LockPc \union ItemPc

-----------------------------------------------------------------------------
(* Locks *)

LockRecord == [ownerRunId : Run \union {NoRun}, token : Nat, version : Nat]

LockTypes ==
    /\ backend \in Backend /\ calls \in Nat
    /\ locks \in [Definition -> LockRecord]
    /\ held \in [Caller -> [Definition -> Nat]]
    /\ broken \in SUBSET Nat

\* Every token was issued, and a lock with a token is there.
TokensAreOld ==
    /\ \A d \in Definition :
          /\ locks[d].token <= calls /\ locks[d].version <= calls
          /\ locks[d].token > 0 => locks[d].version > 0
    /\ \A c \in Caller, d \in Definition : held[c][d] <= calls
    /\ \A t \in broken : t <= calls

\* The stores that remove a lock by something other than its token keep
\* their word while no lock is broken.
Unbroken == backend \in {"commercetools", "file"} => broken = {}

\* Two callers never hold the same token.
TokensDiffer ==
    Unbroken => \A d \in Definition, b, c \in Caller :
                    held[b][d] > 0 /\ held[b][d] = held[c][d] => b = c

\* A release under way is one of a token that the caller still holds.
DeletesOwn(c) ==
    call[c].pc \in {"delete-lock", "remove-lock"} =>
        /\ backend \in {"commercetools", "file"}
        /\ {"definition", "break"} \subseteq DOMAIN call[c]
        /\ call[c].definition \in Definition /\ call[c].break \in BOOLEAN
        /\ ~call[c].break => held[c][call[c].definition] > 0

\* A lock file that was created and is still empty waits for its text.
WritesOwn(c) ==
    call[c].pc = "write-lock" =>
        LET k == call[c]
        IN /\ backend = "file"
           /\ {"definition", "owner", "token"} \subseteq DOMAIN k
           /\ k.definition \in Definition /\ k.owner \in Run
           /\ k.token \in Nat /\ k.token > 0 /\ k.token <= calls
           /\ Unbroken => /\ locks[k.definition].version = k.token
                          /\ locks[k.definition].token = 0

\* Two files are not created under one token.
WritersDiffer ==
    \A b, c \in Caller :
        /\ call[b].pc = "write-lock" /\ call[c].pc = "write-lock"
        /\ call[b].token = call[c].token
        => b = c

LockInv ==
    /\ LockTypes /\ TokensAreOld /\ TokensDiffer /\ WritersDiffer
    /\ LockOutlivesOthers
    /\ \A c \in Caller : DeletesOwn(c) /\ WritesOwn(c)

-----------------------------------------------------------------------------
(* Lifecycle writes *)

RunFields == {"status", "finished", "execution", "predecessors",
              "definitions", "version", "created"}

IsRecord(record) ==
    /\ DOMAIN record = RunFields
    /\ record.status \in RunStatus \union {"none"}
    /\ record.version \in Nat
    /\ Present(record) <=> record.status # "none"

RunTypes ==
    /\ backend \in Backend
    /\ runs = [r \in Run |-> runs[r]]
    /\ \A r \in Run : IsRecord(runs[r])
    /\ latest = [d \in Definition |-> latest[d]]
    /\ \A d \in Definition :
          /\ DOMAIN latest[d] = {"runId", "status", "finished",
                                 "definitionStatus", "version"}
          /\ latest[d].runId \in Run \union {NoRun}

\* A lifecycle write that has read the record: if its version is still that
\* of the record then nothing has changed, and the write keeps a terminal
\* status.
SeenFits(c) ==
    call[c].pc \in {"read-predecessors", "read-latest", "write-run"} =>
        LET k == call[c]
        IN /\ backend = "commercetools"
           /\ {"op", "run", "tries", "seen", "state", "todo"} \subseteq DOMAIN k
           /\ k.run \in Run /\ k.op \in LifecycleOp
           /\ IsRecord(k.seen) /\ DOMAIN k.state = RunFields
           /\ k.state.status \in RunStatus
           /\ k.seen.version <= runs[k.run].version
           /\ k.seen.version = runs[k.run].version =>
                 k.seen.status = runs[k.run].status
           /\ k.seen.status \in TerminalStatus =>
                 k.state.status = k.seen.status

\* The other places of a lifecycle write.
RunCallFits(c) ==
    /\ call[c].pc = "read-run" =>
          /\ backend = "commercetools"
          /\ {"op", "run", "tries"} \subseteq DOMAIN call[c]
          /\ call[c].run \in Run /\ call[c].op \in LifecycleOp
    /\ call[c].pc \in {"read-projection", "write-projection"} =>
          /\ backend = "commercetools"
          /\ {"run", "state", "todo", "tries", "op"} \subseteq DOMAIN call[c]
          /\ call[c].run \in Run /\ Present(runs[call[c].run])
    /\ call[c].pc = "write-pointers" =>
          /\ backend = "files"
          /\ {"run", "todo"} \subseteq DOMAIN call[c]
          /\ call[c].run \in Run /\ Present(runs[call[c].run])

\* A projection names a run that has a record.
LatestNamesRecord ==
    \A d \in Definition : latest[d].runId # NoRun =>
        Present(runs[latest[d].runId])

\* Outcomes that differ from the run's status are those of a run that ended.
OutcomesFit ==
    /\ backend = "sql" =>
          /\ \A r \in Run : Present(runs[r]) =>
                /\ DOMAIN runs[r].definitions = Scope[r]
                /\ \A d \in Scope[r] :
                      runs[r].definitions[d] # runs[r].status =>
                          runs[r].status \in {"succeeded", "failed"}
          /\ \A d \in Definition : latest[d].runId # NoRun =>
                d \in Scope[latest[d].runId]
    /\ backend = "files" =>
          \A r \in Run : DOMAIN runs[r].definitions # {} =>
              runs[r].status \in {"succeeded", "failed", "cancelled"}
    /\ backend = "file" => \A d \in Definition : latest[d].runId = NoRun

RunInv ==
    /\ RunTypes /\ LatestNamesRecord /\ OutcomesFit
    /\ \A c \in Caller : SeenFits(c) /\ RunCallFits(c)

-----------------------------------------------------------------------------
(* Items, completion and cursor *)

ItemRecord == [outcome : Nat, inventory : Run \union {NoRun},
               version : Nat, life : Nat]

Evidence == [covers : SUBSET Item, version : Nat]

\* What is stored was written by a call, and an object that is there has a life.
IsItem(item) ==
    /\ item \in ItemRecord
    /\ item.outcome <= calls /\ item.life <= calls
    /\ Present(item) => item.life > 0

ItemTypes ==
    /\ backend \in Backend /\ calls \in Nat
    /\ items \in [Item -> ItemRecord]
    /\ \A i \in Item : IsItem(items[i])
    /\ completion \in Evidence /\ cursor \in Evidence
    /\ ~Present(completion) => completion.covers = {}
    /\ ~Present(cursor) => cursor.covers = {}

\* An observation of the Commercetools store read an object; while there is
\* still this object in this version, it also has this outcome.
ObservationFits(c) ==
    call[c].pc = "observe" =>
        LET k == call[c]
        IN /\ {"item", "run"} \subseteq DOMAIN k
           /\ k.item \in Item /\ k.run \in Run
           /\ backend \in {"sql", "commercetools", "file"}
           /\ backend \in {"sql", "file"} =>
                 "state" \in DOMAIN k /\ IsItem(k.state) /\ Present(k.state)
           /\ backend = "commercetools" =>
                 /\ "seen" \in DOMAIN k /\ IsItem(k.seen) /\ Present(k.seen)
                 /\ k.seen.life = items[k.item].life =>
                       /\ k.seen.version <= items[k.item].version
                       /\ k.seen.version = items[k.item].version =>
                             k.seen.outcome = items[k.item].outcome

RemovalPc == {"read-completion", "delete-completion", "read-cursor",
              "delete-cursor", "delete-item", "remove-completion",
              "remove-cursor", "remove-item", "restore-cursor",
              "restore-completion"}

\* A removal has deleted what it has passed, and only the caller that works
\* under the lock removes (in the Files SDK store: only one call at a time).
RemovalFits(c) ==
    call[c].pc \in RemovalPc =>
        LET k == call[c]
        IN /\ backend # "sql" /\ "item" \in DOMAIN k
           /\ k.item \in Item
           /\ backend # "files" => c = Holder
           /\ k.pc \in {"read-completion", "delete-completion", "read-cursor",
                        "delete-cursor", "delete-item"} =>
                 /\ backend = "commercetools"
                 /\ "seen" \in DOMAIN k
           /\ k.pc \in {"remove-completion", "remove-cursor", "remove-item"} =>
                 backend \in {"files", "file"}
           /\ k.pc \in {"read-cursor", "delete-cursor", "delete-item",
                        "remove-cursor", "remove-item"} =>
                 completion.covers = {}
           /\ k.pc \in {"delete-item", "remove-item"} => cursor.covers = {}

\* What a broken-off removal of the file store restores is not yet gone.
RestoreFits(c) ==
    /\ call[c].pc \in {"restore-cursor", "restore-completion"} =>
          backend = "file"
    /\ call[c].pc \in RemovalPc /\ backend = "file" =>
          /\ "restore" \in DOMAIN call[c]
          /\ call[c].restore \in [completion : Evidence, cursor : Evidence]
          /\ \A i \in call[c].restore.completion.covers
                      \union call[c].restore.cursor.covers : Present(items[i])
          /\ ~Present(call[c].restore.completion) =>
                call[c].restore.completion.covers = {}

ItemInv ==
    /\ ItemTypes /\ RemovedWorkNotComplete
    /\ \A c \in Caller : ObservationFits(c) /\ RemovalFits(c) /\ RestoreFits(c)

StoresInv == CallShape /\ LockInv /\ RunInv /\ ItemInv

-----------------------------------------------------------------------------
(* The schema *)

SchemaInv ==
    /\ hasHistory \in BOOLEAN /\ applied \in Nat /\ shape \in Nat
    /\ opener = [p \in Opener |-> opener[p]]
    /\ \A p \in Opener : "pc" \in DOMAIN opener[p]
    /\ applied <= Target => shape <= Target
    /\ OpenedStoreIsComplete

-----------------------------------------------------------------------------
(* The families of steps *)

Running(c) ==
    \/ backend = "sql" /\ \E op \in LifecycleOp, r \in Run : SqlLifecycle(c, op, r)
    \/ /\ backend = "commercetools"
       /\ \/ /\ \E op \in LifecycleOp, r \in Run : CtLifecycle(c, op, r)
             /\ UNCHANGED <<lockVars, itemVars>>
          \/ CtLifecycleStep(c)
    \/ /\ backend = "files"
       /\ \/ \E op \in LifecycleOp, r \in Run : FsLifecycle(c, op, r)
          \/ FsLifecycleStep(c)

Locking(c) ==
    \/ backend = "sql" /\ \E d \in Definition : SqlLock(c, d)
    \/ /\ backend = "commercetools"
       /\ (\E d \in Definition : CtLock(c, d)) \/ CtLockStep(c)
    \/ backend = "files" /\ \E d \in Definition : FsLock(c, d)
    \/ /\ backend = "file"
       /\ (\E d \in Definition : FileLock(c, d)) \/ FileLockStep(c)

Working(c) ==
    \/ backend = "sql" /\ SqlItem(c)
    \/ backend = "commercetools" /\ (CtItem(c) \/ CtItemStep(c))
    \/ backend = "files" /\ (FsItem(c) \/ FsItemStep(c))
    \/ backend = "file" /\ (FileItem(c) \/ FileItemStep(c))

LEMMA StepKinds ==
    ASSUME [StoresNext(Families)]_backendVars
    PROVE  \/ UNCHANGED backendVars
           \/ \E c \in Caller :
                 /\ UNCHANGED backend
                 /\ Running(c) \/ Locking(c) \/ Working(c) \/ LoseCall(c)
<1> SUFFICES ASSUME StoresNext(Families)
             PROVE  \E c \in Caller :
                       /\ UNCHANGED backend
                       /\ Running(c) \/ Locking(c) \/ Working(c) \/ LoseCall(c)
  OBVIOUS
<1>1. PICK c \in Caller :
        \/ backend = "sql" /\ Sql(c, Families) /\ UNCHANGED backend
        \/ backend = "commercetools" /\ Commercetools(c, Families)
             /\ UNCHANGED backend
        \/ backend = "files" /\ FilesSdk(c, Families) /\ UNCHANGED backend
        \/ backend = "file" /\ File(c, Families) /\ UNCHANGED backend
        \/ LoseCall(c)
  BY DEF StoresNext
<1>2. CASE LoseCall(c)
  BY <1>2 DEF LoseCall
<1>3. CASE backend = "sql" /\ Sql(c, Families) /\ UNCHANGED backend
  BY <1>3 DEF Sql, Running, Locking, Working
<1>4. CASE /\ backend = "commercetools" /\ Commercetools(c, Families)
           /\ UNCHANGED backend
  BY <1>4 DEF Commercetools, Running, Locking, Working
<1>5. CASE backend = "files" /\ FilesSdk(c, Families) /\ UNCHANGED backend
  BY <1>5 DEF FilesSdk, Running, Locking, Working
<1>6. CASE backend = "file" /\ File(c, Families) /\ UNCHANGED backend
  BY <1>6 DEF File, Running, Locking, Working
<1> QED BY <1>1, <1>2, <1>3, <1>4, <1>5, <1>6

\* The caller's call goes on in the same family or ends; the others' calls
\* stay where they are.
Moves(c, Pc) ==
    /\ call' = [call EXCEPT ![c] = call'[c]]
    /\ "pc" \in DOMAIN call'[c] /\ call'[c].pc \in {"idle"} \union Pc
    /\ calls' \in {calls, calls + 1}

LEMMA CallMoves ==
    ASSUME NEW c \in Caller, NEW fields, CallShape,
           StartCall(c, fields) \/ Continue(c, fields)
    PROVE  /\ call' = [call EXCEPT ![c] = call'[c]] /\ call'[c] = fields
           /\ \A b \in Caller \ {c} : call'[b] = call[b]
           /\ calls' \in {calls, calls + 1}
BY DEF CallShape, StartCall, Continue

LEMMA LoseMoves ==
    ASSUME NEW c \in Caller, CallShape, LoseCall(c)
    PROVE  Moves(c, {}) /\ call'[c] = Idle
BY DEF CallShape, LoseCall, Moves, Idle

LEMMA RunningMoves ==
    ASSUME NEW c \in Caller, CallShape, Running(c)
    PROVE  Moves(c, RunPc) /\ UNCHANGED <<lockVars, itemVars>>
<1>1. CASE /\ backend = "sql"
           /\ \E op \in LifecycleOp, r \in Run : SqlLifecycle(c, op, r)
  BY <1>1 DEF SqlLifecycle, SqlWriteRunState, SqlUpdateRunState, SingleCall,
              StartCall, CallShape, Moves, Idle
<1>2. CASE /\ backend = "commercetools"
           /\ \E op \in LifecycleOp, r \in Run : CtLifecycle(c, op, r)
           /\ UNCHANGED <<lockVars, itemVars>>
  BY <1>2 DEF CtLifecycle, StartCall, CallShape, Moves, RunPc
<1>3. CASE backend = "commercetools" /\ CtLifecycleStep(c)
  <2>0. UNCHANGED <<lockVars, itemVars>>
    BY <1>3 DEF CtLifecycleStep
  <2>1. CASE CtReadForStart(c)
    BY <2>0, <2>1 DEF CtReadForStart, AtCt, Continue, CallShape, Moves, RunPc, Idle
  <2>2. CASE CtReadPredecessor(c)
    BY <2>0, <2>2 DEF CtReadPredecessor, AtCt, Continue, CallShape, Moves, RunPc
  <2>3. CASE CtReadForUpdate(c)
    BY <2>0, <2>3 DEF CtReadForUpdate, AtCt, Continue, CallShape, Moves, RunPc, Idle
  <2>4. CASE CtReadLatest(c)
    BY <2>0, <2>4 DEF CtReadLatest, AtCt, Continue, CallShape, Moves, RunPc, Idle
  <2>5. CASE CtWriteRun(c)
    BY <2>0, <2>5 DEF CtWriteRun, AtCt, Continue, CallShape, Moves, RunPc, Idle
  <2>6. CASE CtReadProjection(c)
    BY <2>0, <2>6 DEF CtReadProjection, CtNextProjection, AtCt, Continue,
                      CallShape, Moves, RunPc, Idle
  <2>7. CASE CtWriteProjection(c)
    BY <2>0, <2>7 DEF CtWriteProjection, CtNextProjection, AtCt, Continue,
                      CallShape, Moves, RunPc, Idle
  <2> QED BY <1>3, <2>1, <2>2, <2>3, <2>4, <2>5, <2>6, <2>7 DEF CtLifecycleStep
<1>4. CASE /\ backend = "files"
           /\ \E op \in LifecycleOp, r \in Run : FsLifecycle(c, op, r)
  <2>1. PICK op \in LifecycleOp, r \in Run : FsLifecycle(c, op, r)
    BY <1>4
  <2>2. CASE FsStart(c, op, r)
    <3>1. StartCall(c, [pc |-> "write-pointers", op |-> op, run |-> r,
                        todo |-> Scope[r]])
      BY <2>2 DEF FsStart
    <3> QED BY <2>1, <3>1, CallMoves DEF FsLifecycle, Moves, RunPc
  <2>3. CASE FsUpdate(c, op, r)
    BY <2>1, <2>3 DEF FsLifecycle, FsUpdate, SingleCall, StartCall, CallShape,
                      Moves, Idle
  <2> QED BY <2>1, <2>2, <2>3 DEF FsLifecycle
<1>5. CASE backend = "files" /\ FsLifecycleStep(c)
  BY <1>5 DEF FsLifecycleStep, FsWritePointer, Continue, CallShape, Moves,
              RunPc, Idle
<1> QED BY <1>1, <1>2, <1>3, <1>4, <1>5 DEF Running

LEMMA LockingMoves ==
    ASSUME NEW c \in Caller, CallShape, Locking(c)
    PROVE  Moves(c, LockPc) /\ UNCHANGED <<runVars, itemVars>>
<1>1. CASE backend = "sql" /\ \E d \in Definition : SqlLock(c, d)
  BY <1>1 DEF SqlLock, SqlAcquire, SqlRelease, SqlBreak, SingleCall,
              StartCall, CallShape, Moves, Idle
<1>2. CASE backend = "commercetools" /\ \E d \in Definition : CtLock(c, d)
  BY <1>2 DEF CtLock, CtAcquire, CtReleaseRead, CtBreakRead, SingleCall,
              StartCall, CallShape, Moves, LockPc, Idle
<1>3. CASE backend = "commercetools" /\ CtLockStep(c)
  BY <1>3 DEF CtLockStep, CtDeleteLock, Return, Continue, CallShape, Moves, Idle
<1>4. CASE backend = "files" /\ \E d \in Definition : FsLock(c, d)
  BY <1>4 DEF FsLock, FsAcquire, FsRelease, FsBreak, SingleCall,
              StartCall, CallShape, Moves, Idle
<1>5. CASE backend = "file" /\ \E d \in Definition : FileLock(c, d)
  BY <1>5 DEF FileLock, FileAcquire, FileReleaseRead, FileBreakRead,
              StartCall, CallShape, Moves, LockPc, Idle
<1>6. CASE backend = "file" /\ FileLockStep(c)
  BY <1>6 DEF FileLockStep, FileWriteLock, FileRemoveLock, Return, Continue,
              CallShape, Moves, Idle
<1> QED BY <1>1, <1>2, <1>3, <1>4, <1>5, <1>6 DEF Locking

LEMMA WorkingMoves ==
    ASSUME NEW c \in Caller, CallShape, Working(c)
    PROVE  Moves(c, ItemPc) /\ UNCHANGED <<runVars, lockVars>>
<1>1. CASE backend = "sql" /\ SqlItem(c)
  BY <1>1 DEF SqlItem, SqlUpsertItemState, SqlRemoveRolledBackItem,
              SqlObserveRead, SqlObserveWrite, SqlRecordCompletion,
              SqlSetSourceCursor, SqlDeleteSourceCursor, SingleCall, StartCall,
              Return, Continue, CallShape, Moves, ItemPc, Idle
<1>2. CASE backend = "commercetools" /\ CtItem(c)
  BY <1>2 DEF CtItem, CtUpsertItemState, CtObserveRead, CtRemoveRead,
              CtRecordCompletion, CtSetSourceCursor, SingleCall, StartCall,
              CallShape, Moves, ItemPc, Idle
<1>3. CASE backend = "commercetools" /\ CtItemStep(c)
  BY <1>3 DEF CtItemStep, CtReadCompletion, CtDeleteCompletion, CtReadCursor,
              CtDeleteCursor, CtDeleteItem, CtObserveWrite, AtCt, Return,
              Continue, CallShape, Moves, ItemPc, Idle
<1>4. CASE backend = "files" /\ FsItem(c)
  BY <1>4 DEF FsItem, FsUpsertItemState, FsRemove, FsObserveItemState,
              FsRecordCompletion, FsSetSourceCursor, FsDeleteSourceCursor,
              SingleCall, StartCall, CallShape, Moves, ItemPc, Idle
<1>5. CASE backend = "files" /\ FsItemStep(c)
  BY <1>5 DEF FsItemStep, FsRemoveStep, Return, Continue, CallShape, Moves,
              ItemPc, Idle
<1>6. CASE backend = "file" /\ FileItem(c)
  BY <1>6 DEF FileItem, FileUpsertItemState, FileObserveRead, FileRemoveRead,
              FileRecordCompletion, FileSetSourceCursor, FileDeleteSourceCursor,
              SingleCall, StartCall, CallShape, Moves, ItemPc, Idle
<1>7. CASE backend = "file" /\ FileItemStep(c)
  BY <1>7 DEF FileItemStep, FileObserveWrite, FileRemoveStep, FileRemoveFails,
              FileRestore, Return, Continue, CallShape, Moves, ItemPc, Idle
<1> QED BY <1>1, <1>2, <1>3, <1>4, <1>5, <1>6, <1>7 DEF Working

\* Whatever the step, callers stay in shape, and all but one in place.
LEMMA ShapeStep ==
    ASSUME CallShape, [StoresNext(Families)]_backendVars
    PROVE  CallShape'
<1>1. CASE UNCHANGED backendVars
  BY <1>1 DEF CallShape, backendVars
<1>2. ASSUME NEW c \in Caller, NEW Pc, Moves(c, Pc),
             Pc \in {{}, RunPc, LockPc, ItemPc}
      PROVE  CallShape'
  BY <1>2 DEF CallShape, Moves
<1> QED BY <1>1, <1>2, StepKinds, RunningMoves, LockingMoves, WorkingMoves,
           LoseMoves

-----------------------------------------------------------------------------
(* Locks *)

LEMMA LockInit ==
    ASSUME StoresInit, NoRun \notin Run
    PROVE  CallShape /\ LockInv
<1>1. CallShape
  BY DEF StoresInit, BackendInit, CallShape, Idle
<1>2. LockTypes
  BY DEF StoresInit, BackendInit, LockTypes, LockRecord, NoLock
<1>3. \A c \in Caller, d \in Definition : held[c][d] = 0
  BY DEF StoresInit, BackendInit
<1>4. \A d \in Definition : locks[d].token = 0 /\ locks[d].version = 0
  BY DEF StoresInit, BackendInit, NoLock
<1>5. \A c \in Caller : call[c].pc = "idle"
  BY DEF StoresInit, BackendInit, Idle
<1>6. calls = 0 /\ broken = {}
  BY DEF StoresInit, BackendInit
<1>7. TokensAreOld
  BY <1>3, <1>4, <1>6 DEF TokensAreOld
<1>8. TokensDiffer /\ LockOutlivesOthers
  BY <1>3 DEF TokensDiffer, LockOutlivesOthers
<1>9. WritersDiffer /\ \A c \in Caller : DeletesOwn(c) /\ WritesOwn(c)
  BY <1>5 DEF WritersDiffer, DeletesOwn, WritesOwn
<1> QED BY <1>1, <1>2, <1>7, <1>8, <1>9 DEF LockInv

\* A step that leaves the locks alone, and whose call is none of theirs.
LEMMA LockQuiet ==
    ASSUME LockInv, UNCHANGED <<backend, lockVars>>, calls' \in {calls, calls + 1},
           \A b \in Caller : call'[b] = call[b] \/ call'[b].pc \notin LockPc
    PROVE  LockInv'
<1> USE DEF LockInv, lockVars
<1>1. LockTypes'
  BY DEF LockTypes
<1>2. calls \in Nat /\ calls <= calls'
  BY DEF LockTypes
<1>3. TokensAreOld'
  <2>1. \A t \in Nat : t <= calls => t <= calls'
    BY <1>1, <1>2 DEF LockTypes
  <2>2. /\ \A d \in Definition : locks[d].token \in Nat /\ locks[d].version \in Nat
        /\ \A c \in Caller, d \in Definition : held[c][d] \in Nat
        /\ \A t \in broken : t \in Nat
    BY DEF LockTypes, LockRecord
  <2> QED BY <2>1, <2>2 DEF TokensAreOld
<1>4. TokensDiffer' /\ LockOutlivesOthers'
  BY DEF TokensDiffer, LockOutlivesOthers, Unbroken
<1>5. WritersDiffer'
  BY DEF WritersDiffer, LockPc
<1>6. ASSUME NEW c \in Caller PROVE DeletesOwn(c)' /\ WritesOwn(c)'
  <2>1. CASE call'[c].pc \notin LockPc
    BY <2>1 DEF DeletesOwn, WritesOwn, LockPc
  <2>2. CASE call'[c] = call[c]
    <3>1. DeletesOwn(c)'
      BY <2>2 DEF DeletesOwn
    <3>2. WritesOwn(c)'
      BY <1>2, <2>2 DEF WritesOwn, Unbroken
    <3> QED BY <3>1, <3>2
  <2> QED BY <2>1, <2>2
<1> QED BY <1>1, <1>3, <1>4, <1>5, <1>6

\* A definition's lock is created with the next token, or found.
LEMMA LockAcquire ==
    ASSUME LockInv, NEW c \in Caller, NEW d \in Definition, NEW r \in Run,
           SqlAcquire(c, d, r) \/ CtAcquire(c, d, r) \/ FsAcquire(c, d, r),
           CallShape, UNCHANGED backend, backend # "file",
           ~Present(locks[d])
    PROVE  LockInv'
<1>0. /\ locks' = [locks EXCEPT ![d] = [ownerRunId |-> r, token |-> calls + 1,
                                        version |-> 1]]
      /\ held' = [held EXCEPT ![c][d] = calls + 1]
      /\ UNCHANGED broken /\ calls' = calls + 1
      /\ call' = [call EXCEPT ![c] = Idle] /\ call[c] = Idle
  BY DEF SqlAcquire, CtAcquire, FsAcquire, SingleCall, StartCall
<1>1. LockTypes'
  BY <1>0 DEF LockInv, LockTypes, LockRecord
<1>2. /\ locks[d].token = 0 /\ locks'[d].token = calls + 1 /\ locks'[d].version = 1
      /\ \A e \in Definition \ {d} : locks'[e] = locks[e]
  BY <1>0 DEF LockInv, LockTypes, LockRecord, TokensAreOld, Present
<1>3. /\ held'[c][d] = calls + 1
      /\ \A b \in Caller, e \in Definition :
            b # c \/ e # d => held'[b][e] = held[b][e]
  BY <1>0 DEF LockInv, LockTypes
<1>4. \A b \in Caller, e \in Definition : held[b][e] \in Nat /\ held[b][e] <= calls
  BY DEF LockInv, LockTypes, TokensAreOld
<1>5. calls \in Nat /\ broken \subseteq Nat
  BY DEF LockInv, LockTypes
<1>6. TokensAreOld'
  <2>1. \A e \in Definition : /\ locks[e].token \in Nat /\ locks[e].version \in Nat
                              /\ locks[e].token <= calls /\ locks[e].version <= calls
    BY DEF LockInv, LockTypes, LockRecord, TokensAreOld
  <2>2. \A e \in Definition :
           /\ locks'[e].token <= calls' /\ locks'[e].version <= calls'
           /\ locks'[e].token > 0 => locks'[e].version > 0
    BY <1>0, <1>2, <1>5, <2>1 DEF LockInv, TokensAreOld
  <2>3. \A b \in Caller, e \in Definition : held'[b][e] <= calls'
    BY <1>0, <1>3, <1>4, <1>5
  <2>4. \A t \in broken' : t <= calls'
    BY <1>0, <1>5 DEF LockInv, TokensAreOld
  <2> QED BY <2>2, <2>3, <2>4 DEF TokensAreOld
<1>7. TokensDiffer'
  BY <1>0, <1>3, <1>4, <1>5 DEF LockInv, TokensDiffer, Unbroken
<1>8. LockOutlivesOthers'
  <2> SUFFICES ASSUME NEW b \in Caller, NEW e \in Definition,
                      held'[b][e] > 0, held'[b][e] \notin broken,
                      backend \in {"commercetools", "file"} => broken = {}
               PROVE  locks'[e].token = held'[b][e]
    BY <1>0 DEF LockOutlivesOthers
  <2>1. CASE b = c /\ e = d
    BY <1>2, <1>3, <2>1
  <2>2. CASE ~(b = c /\ e = d)
    <3>1. locks[e].token = held[b][e]
      BY <1>3, <2>2 DEF LockInv, LockOutlivesOthers
    <3>2. e # d
      BY <1>2, <1>3, <2>2, <3>1
    <3> QED BY <1>2, <1>3, <2>2, <3>1, <3>2
  <2> QED BY <2>1, <2>2
<1>9. \A b \in Caller : (call'[b] = call[b] /\ b # c) \/ call'[b].pc = "idle"
  BY <1>0 DEF CallShape, Idle
<1>10. WritersDiffer'
  BY <1>9 DEF LockInv, WritersDiffer
<1>11. ASSUME NEW b \in Caller PROVE DeletesOwn(b)' /\ WritesOwn(b)'
  BY <1>3, <1>9 DEF LockInv, DeletesOwn, WritesOwn
<1> QED BY <1>1, <1>6, <1>7, <1>8, <1>10, <1>11 DEF LockInv

\* A lock goes, and with it at most the hold of the caller that removes it:
\* either the lock is broken, or the caller held it itself, or it is not one
\* that a store still answers for.
LEMMA LockGoes ==
    ASSUME LockInv, CallShape, NEW c \in Caller, NEW d \in Definition,
           UNCHANGED backend, calls' \in {calls, calls + 1},
           locks' \in {locks, [locks EXCEPT ![d] = NoLock]},
           held' \in {held, [held EXCEPT ![c][d] = 0]},
           broken' \in SUBSET Nat, broken \subseteq broken',
           \A t \in broken' : t <= calls,
           NoRun \notin Run,
           \A b \in Caller : (call'[b] = call[b] /\ b # c) \/ call'[b].pc = "idle",
           \/ locks' = locks
           \/ locks[d].token \in broken' \/ ~Unbroken'
           \/ /\ held[c][d] > 0 /\ held[c][d] = locks[d].token
              /\ held' = [held EXCEPT ![c][d] = 0]
           \/ /\ backend \in {"commercetools", "file"} /\ held[c][d] > 0
              /\ held' = [held EXCEPT ![c][d] = 0]
    PROVE  LockInv'
<1>1. LockTypes'
  <2>1. NoLock \in LockRecord
    BY DEF LockRecord, NoLock
  <2>2. locks' \in [Definition -> LockRecord]
    BY <2>1 DEF LockInv, LockTypes
  <2>3. held' \in [Caller -> [Definition -> Nat]]
    BY DEF LockInv, LockTypes
  <2> QED BY <2>2, <2>3 DEF LockInv, LockTypes
<1>2. \A b \in Caller, e \in Definition :
          /\ held'[b][e] \in Nat /\ held[b][e] \in Nat
          /\ held'[b][e] = held[b][e] \/ (b = c /\ e = d /\ held'[b][e] = 0)
  BY DEF LockInv, LockTypes
<1>3. \A e \in Definition :
          locks'[e] = locks[e] \/ (e = d /\ locks'[e].token = 0 /\ locks'[e].version = 0)
  BY DEF LockInv, LockTypes, NoLock
<1>4. calls \in Nat /\ calls' \in Nat /\ calls <= calls'
  BY DEF LockInv, LockTypes
<1>5. TokensAreOld'
  <2>1. \A e \in Definition : /\ locks[e].token \in Nat /\ locks[e].version \in Nat
                              /\ locks[e].token <= calls /\ locks[e].version <= calls
    BY DEF LockInv, LockTypes, LockRecord, TokensAreOld
  <2>2. \A e \in Definition :
           /\ locks'[e].token <= calls' /\ locks'[e].version <= calls'
           /\ locks'[e].token > 0 => locks'[e].version > 0
    BY <1>3, <1>4, <2>1 DEF LockInv, TokensAreOld
  <2>3. \A b \in Caller, e \in Definition : held'[b][e] <= calls'
    BY <1>2, <1>4 DEF LockInv, TokensAreOld
  <2>4. \A t \in broken' : t <= calls'
    BY <1>4
  <2> QED BY <2>2, <2>3, <2>4 DEF TokensAreOld
<1>6. Unbroken' => Unbroken
  BY DEF Unbroken
<1>7. TokensDiffer'
  BY <1>2, <1>6 DEF LockInv, TokensDiffer
<1>8. LockOutlivesOthers'
  <2> SUFFICES ASSUME NEW b \in Caller, NEW e \in Definition,
                      held'[b][e] > 0, held'[b][e] \notin broken', Unbroken'
               PROVE  locks'[e].token = held'[b][e]
    BY DEF LockOutlivesOthers, Unbroken
  <2>1. held'[b][e] = held[b][e]
    BY <1>2
  <2>2. locks[e].token = held[b][e]
    BY <1>6, <2>1 DEF LockInv, LockOutlivesOthers, Unbroken
  <2>3. CASE locks' = locks \/ e # d
    BY <1>3, <2>1, <2>2, <2>3
  <2>4. CASE e = d /\ locks' # locks
    <3>1. held[c][d] > 0 /\ held'[c][d] = 0
      BY <1>2, <2>1, <2>2, <2>4 DEF LockInv, LockTypes
    <3>2. held[c][d] = locks[d].token
      <4>1. CASE backend \in {"commercetools", "file"}
        BY <1>6, <3>1, <4>1 DEF LockInv, LockOutlivesOthers, Unbroken
      <4>2. CASE backend \notin {"commercetools", "file"}
        BY <2>1, <2>2, <2>4, <4>2
      <4> QED BY <4>1, <4>2
    <3>3. b = c
      BY <1>6, <2>2, <2>4, <3>1, <3>2 DEF LockInv, TokensDiffer
    <3> QED BY <2>4, <3>1, <3>3
  <2> QED BY <2>3, <2>4
<1>9. WritersDiffer'
  BY DEF LockInv, WritersDiffer
<1>10. ASSUME NEW b \in Caller PROVE DeletesOwn(b)'
  BY <1>2 DEF LockInv, DeletesOwn
<1>11. ASSUME NEW b \in Caller PROVE WritesOwn(b)'
  <2> SUFFICES ASSUME call'[b].pc = "write-lock" PROVE WritesOwn(b)'
    BY DEF WritesOwn
  <2>1. call'[b] = call[b] /\ WritesOwn(b) /\ call[b].pc = "write-lock"
    BY DEF LockInv
  <2>2. Unbroken' => locks'[call[b].definition] = locks[call[b].definition]
    <3> SUFFICES ASSUME Unbroken', call[b].definition = d, locks' # locks
                 PROVE  FALSE
      BY <1>3, <2>1 DEF WritesOwn
    <3>1. locks[d].token = 0 /\ backend = "file" /\ Unbroken
      BY <1>6, <2>1 DEF WritesOwn
    <3>2. broken' = {} /\ broken = {}
      BY <3>1 DEF Unbroken
    <3>3. held[c][d] > 0 => held[c][d] = locks[d].token
      BY <3>1, <3>2 DEF LockInv, LockOutlivesOthers
    <3> QED BY <3>1, <3>2, <3>3
  <2> QED BY <1>4, <1>6, <2>1, <2>2 DEF WritesOwn
<1> QED BY <1>1, <1>5, <1>7, <1>8, <1>9, <1>10, <1>11 DEF LockInv

\* The steps on locks, backend by backend.
LEMMA LockStep ==
    ASSUME LockInv, CallShape, NoRun \notin Run, NEW c \in Caller, Locking(c),
           UNCHANGED backend
    PROVE  LockInv'
<1>0. /\ calls \in Nat /\ broken \in SUBSET Nat
      /\ \A t \in broken : t <= calls
      /\ \A d \in Definition : /\ locks[d].token \in Nat /\ locks[d].token <= calls
                               /\ locks[d].version \in Nat
                               /\ locks[d].version <= calls
      /\ \A d \in Definition : held[c][d] \in Nat
  BY DEF LockInv, LockTypes, LockRecord, TokensAreOld
<1>00. \A d \in Definition :
          \A V \in {{locks[d].token}, {locks[d].version}} :
          /\ broken \union V \in SUBSET Nat
          /\ \A t \in broken \union V : t <= calls
  BY <1>0
<1>a. ASSUME NEW fields, StartCall(c, fields) \/ Continue(c, fields)
      PROVE  /\ call'[c] = fields /\ calls' \in {calls, calls + 1}
             /\ \A b \in Caller \ {c} : call'[b] = call[b]
  BY <1>a, CallMoves
<1>b. ASSUME SingleCall(c) \/ Return(c)
      PROVE  /\ calls' \in {calls, calls + 1}
             /\ \A b \in Caller : (call'[b] = call[b] /\ b # c) \/ call'[b].pc = "idle"
  BY <1>b, <1>a DEF SingleCall, Return, Idle
<1>1. ASSUME NEW d \in Definition, NEW r \in Run,
             SqlAcquire(c, d, r) \/ CtAcquire(c, d, r) \/ FsAcquire(c, d, r),
             backend # "file"
      PROVE  LockInv'
  <2>1. CASE ~Present(locks[d])
    BY <1>1, <2>1, LockAcquire
  <2>2. CASE Present(locks[d])
    <3>1. UNCHANGED lockVars /\ SingleCall(c)
      BY <1>1, <2>2 DEF SqlAcquire, CtAcquire, FsAcquire, lockVars
    <3> QED BY <1>b, <3>1, LockQuiet DEF LockPc
  <2> QED BY <2>1, <2>2
<1>2. ASSUME NEW d \in Definition, SqlRelease(c, d) \/ FsRelease(c, d)
      PROVE  LockInv'
  <2>1. /\ SingleCall(c) /\ held[c][d] > 0 /\ UNCHANGED broken
        /\ held' = [held EXCEPT ![c][d] = 0]
        /\ locks' = IF locks[d].token = held[c][d]
                    THEN [locks EXCEPT ![d] = NoLock] ELSE locks
    BY <1>2 DEF SqlRelease, FsRelease
  <2>2. /\ locks' \in {locks, [locks EXCEPT ![d] = NoLock]}
        /\ locks' = locks \/ held[c][d] = locks[d].token
    BY <2>1
  <2> QED BY <1>0, <1>b, <2>1, <2>2, LockGoes
<1>3. ASSUME NEW d \in Definition, SqlBreak(c, d) \/ FsBreak(c, d)
      PROVE  LockInv'
  <2>1. /\ SingleCall(c) /\ UNCHANGED held
        /\ locks' = [locks EXCEPT ![d] = NoLock]
        /\ broken' = broken \union {locks[d].token}
    BY <1>3 DEF SqlBreak, FsBreak
  <2> QED BY <1>0, <1>00, <1>b, <2>1, LockGoes
<1>4. ASSUME NEW d \in Definition, CtReleaseRead(c, d) \/ FileReleaseRead(c, d),
             backend \in {"commercetools", "file"}
      PROVE  LockInv'
  <2>0. held[c][d] > 0 /\ UNCHANGED <<locks, broken>>
    BY <1>4 DEF CtReleaseRead, FileReleaseRead
  <2>1. CASE UNCHANGED held
    <3>1. \/ /\ call'[c].pc \in {"delete-lock", "remove-lock"}
             /\ {"definition", "break"} \subseteq DOMAIN call'[c]
             /\ call'[c].definition = d /\ call'[c].break = FALSE
          \/ call'[c].pc = "idle"
      BY <1>4, <1>a DEF CtReleaseRead, FileReleaseRead, Idle
    <3>2. calls' \in {calls, calls + 1} /\ \A b \in Caller \ {c} : call'[b] = call[b]
      BY <1>4, <1>a DEF CtReleaseRead, FileReleaseRead
    <3>3. LockTypes' /\ LockOutlivesOthers' /\ TokensDiffer'
      BY <2>0, <2>1, <3>2 DEF LockInv, LockTypes, LockOutlivesOthers,
                              TokensDiffer, Unbroken
    <3>4. TokensAreOld'
      <4>1. \A t \in Nat : t <= calls => t <= calls'
        BY <1>0, <3>2
      <4> QED BY <2>0, <2>1, <4>1 DEF LockInv, LockTypes, LockRecord, TokensAreOld
    <3>5. WritersDiffer' /\ \A b \in Caller : WritesOwn(b)'
      <4>1. \A b \in Caller : call'[b].pc = "write-lock" => call'[b] = call[b]
        BY <3>1, <3>2
      <4>2. \A t \in Nat : t <= calls => t <= calls'
        BY <1>0, <3>2
      <4> QED BY <2>0, <4>1, <4>2 DEF LockInv, WritersDiffer, WritesOwn, Unbroken
    <3>6. \A b \in Caller : DeletesOwn(b)'
      BY <1>4, <2>0, <2>1, <3>1, <3>2 DEF LockInv, DeletesOwn
    <3> QED BY <3>3, <3>4, <3>5, <3>6 DEF LockInv
  <2>2. CASE held' = [held EXCEPT ![c][d] = 0] /\ held' # held
    <3>1. StartCall(c, Idle)
      BY <1>4, <2>2 DEF CtReleaseRead, FileReleaseRead
    <3> QED BY <1>0, <1>b, <2>0, <2>2, <3>1, LockGoes DEF SingleCall
  <2>3. UNCHANGED held \/ held' = [held EXCEPT ![c][d] = 0]
    BY <1>4 DEF CtReleaseRead, FileReleaseRead
  <2> QED BY <2>1, <2>2, <2>3
<1>5. ASSUME NEW d \in Definition, CtBreakRead(c, d) \/ FileBreakRead(c, d),
             backend \in {"commercetools", "file"}
      PROVE  LockInv'
  <2>0. UNCHANGED <<locks, held, broken>>
    BY <1>5 DEF CtBreakRead, FileBreakRead, lockVars
  <2>1. \/ /\ call'[c].pc \in {"delete-lock", "remove-lock"}
           /\ {"definition", "break"} \subseteq DOMAIN call'[c]
           /\ call'[c].definition = d /\ call'[c].break = TRUE
        \/ call'[c].pc = "idle"
    BY <1>5, <1>a DEF CtBreakRead, FileBreakRead, Idle
  <2>2. calls' \in {calls, calls + 1} /\ \A b \in Caller \ {c} : call'[b] = call[b]
    BY <1>5, <1>a DEF CtBreakRead, FileBreakRead
  <2>3. LockTypes' /\ LockOutlivesOthers' /\ TokensDiffer'
    BY <2>0, <2>2 DEF LockInv, LockTypes, LockOutlivesOthers,
                            TokensDiffer, Unbroken
  <2>4. TokensAreOld'
    <3>1. \A t \in Nat : t <= calls => t <= calls'
      BY <1>0, <2>2
    <3> QED BY <2>0, <3>1 DEF LockInv, LockTypes, LockRecord, TokensAreOld
  <2>5. WritersDiffer' /\ \A b \in Caller : WritesOwn(b)'
    <3>1. \A b \in Caller : call'[b].pc = "write-lock" => call'[b] = call[b]
      BY <2>1, <2>2
    <3>2. \A t \in Nat : t <= calls => t <= calls'
      BY <1>0, <2>2
    <3> QED BY <2>0, <3>1, <3>2 DEF LockInv, WritersDiffer, WritesOwn, Unbroken
  <2>6. \A b \in Caller : DeletesOwn(b)'
    BY <1>5, <2>0, <2>1, <2>2 DEF LockInv, DeletesOwn
  <2> QED BY <2>3, <2>4, <2>5, <2>6 DEF LockInv
<1>6. ASSUME CtDeleteLock(c), backend = "commercetools"
      PROVE  LockInv'
  <2> DEFINE d == call[c].definition
  <2>0. /\ call[c].pc = "delete-lock" /\ d \in Definition
        /\ call[c].break \in BOOLEAN
        /\ ~call[c].break => held[c][d] > 0
    BY <1>6 DEF CtDeleteLock, AtCt, LockInv, DeletesOwn
  <2>1. /\ Return(c)
        /\ locks' \in {locks, [locks EXCEPT ![d] = NoLock]}
        /\ call[c].break => UNCHANGED held
        /\ ~call[c].break => held' = [held EXCEPT ![c][d] = 0] /\ UNCHANGED broken
        /\ broken' \in {broken, broken \union {locks[d].token}}
        /\ call[c].break /\ locks' # locks => locks[d].token \in broken'
    BY <1>6, <2>0 DEF CtDeleteLock
  <2>2. /\ broken' \in SUBSET Nat /\ broken \subseteq broken'
        /\ \A t \in broken' : t <= calls
        /\ held' \in {held, [held EXCEPT ![c][d] = 0]}
    BY <1>0, <1>00, <2>0, <2>1
  <2> HIDE DEF d
  <2> QED BY <1>6, <1>b, <2>0, <2>1, <2>2, LockGoes
<1>7. ASSUME NEW d \in Definition, NEW r \in Run, FileAcquire(c, d, r),
             backend = "file"
      PROVE  LockInv'
  <2>0. UNCHANGED <<held, broken>> /\ calls' = calls + 1
    BY <1>7 DEF FileAcquire, StartCall
  <2>1. CASE Present(locks[d])
    <3>1. SingleCall(c) /\ UNCHANGED lockVars
      BY <1>7, <2>1 DEF FileAcquire, SingleCall, lockVars
    <3> QED BY <1>b, <3>1, LockQuiet DEF LockPc
  <2>2. CASE ~Present(locks[d])
    <3>1. /\ call'[c] = [pc |-> "write-lock", definition |-> d, owner |-> r,
                         token |-> calls + 1]
          /\ \A b \in Caller \ {c} : call'[b] = call[b]
      BY <1>7, <1>a, <2>2 DEF FileAcquire
    <3>2. locks' = [locks EXCEPT ![d].version = calls + 1]
      BY <1>7, <2>2 DEF FileAcquire
    <3>3. LockTypes'
      <4>1. ASSUME NEW l \in LockRecord, NEW v \in Nat
            PROVE  [l EXCEPT !.version = v] \in LockRecord
        BY <4>1 DEF LockRecord
      <4>2. calls + 1 \in Nat /\ locks[d] \in LockRecord
        BY <1>0 DEF LockInv, LockTypes
      <4>3. locks' \in [Definition -> LockRecord]
        BY <3>2, <4>1, <4>2 DEF LockInv, LockTypes
      <4> QED BY <1>0, <2>0, <4>3 DEF LockInv, LockTypes
    <3>4. /\ locks'[d].token = locks[d].token /\ locks'[d].version = calls + 1
          /\ \A e \in Definition \ {d} : locks'[e] = locks[e]
          /\ locks[d].token = 0 /\ locks[d].version = 0
      BY <1>0, <2>2, <3>2 DEF LockInv, LockTypes, LockRecord, TokensAreOld, Present
    <3>5. TokensAreOld'
      <4>1. \A t \in Nat : t <= calls => t <= calls'
        BY <1>0, <2>0
      <4>2. /\ \A b \in Caller, e \in Definition : held'[b][e] <= calls'
            /\ \A t \in broken' : t <= calls'
        BY <1>0, <2>0, <4>1 DEF LockInv, LockTypes, TokensAreOld
      <4>3. \A e \in Definition :
               /\ locks'[e].token <= calls' /\ locks'[e].version <= calls'
               /\ locks'[e].token > 0 => locks'[e].version > 0
        BY <1>0, <2>0, <3>4, <4>1 DEF LockInv, TokensAreOld
      <4> QED BY <4>2, <4>3 DEF TokensAreOld
    <3>6. \A e \in Definition : locks'[e].token = locks[e].token
      BY <3>4
    <3>7. TokensDiffer' /\ LockOutlivesOthers'
      BY <1>7, <2>0, <3>6 DEF LockInv, TokensDiffer, LockOutlivesOthers, Unbroken
    <3>8. WritersDiffer'
      <4>1. \A b \in Caller : call[b].pc = "write-lock" =>
                call[b].token # calls + 1
        BY <1>0 DEF LockInv, WritesOwn
      <4> QED BY <3>1, <4>1 DEF LockInv, WritersDiffer
    <3>9. ASSUME NEW b \in Caller PROVE DeletesOwn(b)'
      BY <2>0, <3>1 DEF LockInv, DeletesOwn
    <3>10. ASSUME NEW b \in Caller PROVE WritesOwn(b)'
      <4>1. CASE b = c
        BY <1>0, <1>7, <2>0, <3>1, <3>4, <4>1 DEF WritesOwn
      <4>2. CASE b # c
        <5> SUFFICES ASSUME call[b].pc = "write-lock" PROVE WritesOwn(b)'
          BY <3>1, <4>2 DEF WritesOwn
        <5>1. /\ WritesOwn(b) /\ call'[b] = call[b]
              /\ Unbroken => call[b].definition # d
          BY <3>1, <3>4, <4>2 DEF LockInv, WritesOwn
        <5> QED BY <1>0, <2>0, <3>4, <5>1 DEF WritesOwn, Unbroken
      <4> QED BY <4>1, <4>2
    <3> QED BY <3>3, <3>5, <3>7, <3>8, <3>9, <3>10 DEF LockInv
  <2> QED BY <2>1, <2>2
<1>8. ASSUME FileWriteLock(c), backend = "file"
      PROVE  LockInv'
  <2> DEFINE k == call[c]
             d == call[c].definition
  <2>0. /\ k.pc = "write-lock" /\ WritesOwn(c) /\ d \in Definition
        /\ k.owner \in Run /\ k.token \in Nat /\ k.token > 0 /\ k.token <= calls
    BY <1>8 DEF FileWriteLock, LockInv, WritesOwn
  <2>1. /\ locks' = IF locks[d].version = k.token
                    THEN [locks EXCEPT ![d].ownerRunId = k.owner,
                                       ![d].token = k.token]
                    ELSE locks
        /\ held' = [held EXCEPT ![c][d] = k.token]
        /\ Return(c) /\ UNCHANGED broken
    BY <1>8 DEF FileWriteLock
  <2>2. /\ calls' = calls
        /\ \A b \in Caller : (call'[b] = call[b] /\ b # c) \/ call'[b].pc = "idle"
    BY <1>b, <2>1 DEF Return, Continue
  <2> HIDE DEF k, d
  <2>3. LockTypes'
    <3>1. locks' \in [Definition -> LockRecord]
      BY <2>0, <2>1 DEF LockInv, LockTypes, LockRecord
    <3> QED BY <2>0, <2>1, <2>2, <3>1 DEF LockInv, LockTypes
  <2>4. /\ \A e \in Definition \ {d} : locks'[e] = locks[e]
        /\ locks'[d].version = locks[d].version
        /\ locks'[d].token \in {k.token, locks[d].token}
        /\ locks'[d].token # locks[d].token =>
              locks'[d].token = k.token /\ locks[d].version = k.token
        /\ locks[d].version = k.token => locks'[d].token = k.token
    BY <2>0, <2>1 DEF LockInv, LockTypes, LockRecord
  <2>5. \A b \in Caller, e \in Definition :
           /\ held'[b][e] = IF b = c /\ e = d THEN k.token ELSE held[b][e]
           /\ held[b][e] \in Nat
    BY <2>0, <2>1 DEF LockInv, LockTypes
  <2>6. TokensAreOld'
    <3>1. \A b \in Caller, e \in Definition : held'[b][e] <= calls'
      BY <2>0, <2>2, <2>5 DEF LockInv, TokensAreOld
    <3>2. \A e \in Definition :
             /\ locks'[e].token <= calls' /\ locks'[e].version <= calls'
             /\ locks'[e].token > 0 => locks'[e].version > 0
      BY <2>0, <2>2, <2>4 DEF LockInv, TokensAreOld
    <3> QED BY <2>1, <2>2, <3>1, <3>2 DEF LockInv, TokensAreOld
  <2>7. Unbroken => /\ locks[d].version = k.token /\ locks[d].token = 0
                    /\ \A b \in Caller : held[b][d] = 0
    <3>1. Unbroken => /\ locks[d].version = k.token /\ locks[d].token = 0
      BY <2>0 DEF WritesOwn, k, d
    <3>2. Unbroken => broken = {}
      BY <1>8 DEF Unbroken
    <3> QED BY <2>0, <2>5, <3>1, <3>2 DEF LockInv, LockOutlivesOthers
  <2>8. Unbroken' <=> Unbroken
    BY <2>1, <1>8 DEF Unbroken
  <2>9. TokensDiffer'
    BY <2>0, <2>5, <2>7, <2>8 DEF LockInv, TokensDiffer
  <2>10. LockOutlivesOthers'
    <3> SUFFICES ASSUME NEW b \in Caller, NEW e \in Definition,
                        held'[b][e] > 0, broken = {}, Unbroken
                 PROVE  locks'[e].token = held'[b][e]
      BY <1>8, <2>1 DEF LockOutlivesOthers, Unbroken
    <3>1. CASE e = d
      BY <2>4, <2>5, <2>7, <3>1
    <3>2. CASE e # d
      BY <1>8, <2>4, <2>5, <3>2 DEF LockInv, LockOutlivesOthers
    <3> QED BY <3>1, <3>2
  <2>11. WritersDiffer'
    BY <2>2 DEF LockInv, WritersDiffer
  <2>12. ASSUME NEW b \in Caller PROVE DeletesOwn(b)'
    BY <2>0, <2>2, <2>5 DEF LockInv, DeletesOwn
  <2>13. ASSUME NEW b \in Caller PROVE WritesOwn(b)'
    <3> SUFFICES ASSUME call'[b] = call[b], b # c, call[b].pc = "write-lock"
                 PROVE  WritesOwn(b)'
      BY <2>2 DEF WritesOwn
    <3>1. WritesOwn(b) /\ call[b].token # k.token
      BY <2>0 DEF LockInv, WritersDiffer, k
    <3>2. Unbroken => call[b].definition # d
      BY <2>7, <3>1 DEF WritesOwn
    <3> QED BY <2>2, <2>4, <2>8, <3>1, <3>2 DEF WritesOwn
  <2> QED BY <2>3, <2>6, <2>9, <2>10, <2>11, <2>12, <2>13 DEF LockInv
<1>9. ASSUME FileRemoveLock(c), backend = "file"
      PROVE  LockInv'
  <2> DEFINE d == call[c].definition
  <2>0. /\ call[c].pc = "remove-lock" /\ d \in Definition
        /\ call[c].break \in BOOLEAN
        /\ ~call[c].break => held[c][d] > 0
    BY <1>9 DEF FileRemoveLock, LockInv, DeletesOwn
  <2>1. /\ Return(c)
        /\ locks' = [locks EXCEPT ![d] = NoLock]
        /\ call[c].break => /\ UNCHANGED held
                            /\ broken' = broken \union {locks[d].version}
        /\ ~call[c].break => held' = [held EXCEPT ![c][d] = 0] /\ UNCHANGED broken
    BY <1>9, <2>0 DEF FileRemoveLock
  <2>2. /\ broken' \in SUBSET Nat /\ broken \subseteq broken'
        /\ \A t \in broken' : t <= calls
        /\ held' \in {held, [held EXCEPT ![c][d] = 0]}
    BY <1>0, <1>00, <2>0, <2>1
  <2>3. call[c].break => ~Unbroken'
    BY <1>9, <2>1 DEF Unbroken
  <2> HIDE DEF d
  <2> QED BY <1>9, <1>b, <2>0, <2>1, <2>2, <2>3, LockGoes
<1>10. CASE backend = "sql" /\ \E d \in Definition : SqlLock(c, d)
  BY <1>1, <1>2, <1>3, <1>10 DEF SqlLock
<1>11. CASE backend = "commercetools" /\ \E d \in Definition : CtLock(c, d)
  BY <1>1, <1>4, <1>5, <1>11 DEF CtLock
<1>12. CASE backend = "commercetools" /\ CtLockStep(c)
  BY <1>6, <1>12 DEF CtLockStep
<1>13. CASE backend = "files" /\ \E d \in Definition : FsLock(c, d)
  BY <1>1, <1>2, <1>3, <1>13 DEF FsLock
<1>14. CASE backend = "file" /\ \E d \in Definition : FileLock(c, d)
  BY <1>4, <1>5, <1>7, <1>14 DEF FileLock
<1>15. CASE backend = "file" /\ FileLockStep(c)
  BY <1>8, <1>9, <1>15 DEF FileLockStep
<1> QED BY <1>10, <1>11, <1>12, <1>13, <1>14, <1>15 DEF Locking

LEMMA LockNext ==
    ASSUME NoRun \notin Run, CallShape, LockInv, [StoresNext(Families)]_backendVars
    PROVE  LockInv'
<1>1. CASE UNCHANGED backendVars
  BY <1>1 DEF backendVars, LockInv, LockTypes, TokensAreOld, TokensDiffer,
              WritersDiffer, LockOutlivesOthers, DeletesOwn, WritesOwn, Unbroken
<1>2. ASSUME NEW c \in Caller, UNCHANGED backend,
             Running(c) \/ Working(c) \/ LoseCall(c)
      PROVE  LockInv'
  <2>1. UNCHANGED lockVars
    BY <1>2, RunningMoves, WorkingMoves DEF LoseCall
  <2>2. \E Pc \in {{}, RunPc, ItemPc} : Moves(c, Pc)
    BY <1>2, RunningMoves, WorkingMoves, LoseMoves
  <2>3. /\ calls' \in {calls, calls + 1}
        /\ \A b \in Caller : call'[b] = call[b] \/ call'[b].pc \notin LockPc
    BY <2>2 DEF Moves, CallShape, RunPc, ItemPc, LockPc
  <2> QED BY <1>2, <2>1, <2>3, LockQuiet
<1>3. ASSUME NEW c \in Caller, UNCHANGED backend, Locking(c)
      PROVE  LockInv'
  BY <1>3, LockStep
<1> QED BY <1>1, <1>2, <1>3, StepKinds

(***************************************************************************)
(* A lock outlives the other callers: what a caller acquired is what the   *)
(* store holds until it is released or broken (LockOutlivesOthers), in     *)
(* every backend and for any number of callers.                            *)
(***************************************************************************)
THEOREM StoresLockOutlivesOthers == StoresSpec => []LockOutlivesOthers
<1>1. StoresInit => CallShape /\ LockInv
  BY LockInit, StoreBackendAssumption DEF StoreBackendAssumption
<1>2. CallShape /\ LockInv /\ [StoresNext(Families)]_backendVars
        => (CallShape /\ LockInv)'
  BY ShapeStep, LockNext, StoreBackendAssumption DEF StoreBackendAssumption
<1>3. CallShape /\ LockInv => LockOutlivesOthers
  BY DEF LockInv
<1> QED BY <1>1, <1>2, <1>3, PTL DEF StoresSpec

-----------------------------------------------------------------------------
(* Items, completion and cursor *)

LEMMA ItemInit ==
    ASSUME StoresInit, NoRun \notin Run
    PROVE  ItemInv
<1>1. /\ \A i \in Item : items[i] = NoItem
      /\ completion = NoObject /\ cursor = NoObject /\ calls = 0
      /\ items = [i \in Item |-> NoItem] /\ backend \in Backend
  BY DEF StoresInit, BackendInit
<1>2. \A c \in Caller : call[c].pc = "idle"
  BY DEF StoresInit, BackendInit, Idle
<1>3. NoItem \in ItemRecord /\ IsItem(NoItem)
  BY <1>1 DEF NoItem, ItemRecord, IsItem, Present
<1>4. ItemTypes
  BY <1>1, <1>3 DEF ItemTypes, NoObject, Evidence
<1>5. RemovedWorkNotComplete
  BY <1>1 DEF RemovedWorkNotComplete, NoObject
<1>6. \A c \in Caller : ObservationFits(c) /\ RemovalFits(c) /\ RestoreFits(c)
  BY <1>2 DEF ObservationFits, RemovalFits, RestoreFits, RemovalPc
<1> QED BY <1>4, <1>5, <1>6 DEF ItemInv

\* Every item that is stored was, and will be.
LEMMA ItemAges ==
    ASSUME calls \in Nat, calls' \in {calls, calls + 1}, NEW item, IsItem(item)
    PROVE  /\ item \in ItemRecord /\ item.outcome \in Nat /\ item.life \in Nat
           /\ item.version \in Nat /\ item.outcome <= calls'
           /\ item.life <= calls' /\ (Present(item) => item.life > 0)
BY DEF IsItem, ItemRecord

\* No other caller is removing an item.
NoOtherRemoval(c) == \A b \in Caller \ {c} : call[b].pc \notin RemovalPc

LEMMA OthersDoNotRemove ==
    ASSUME ItemInv, NEW c \in Caller, c = Holder, backend # "files"
    PROVE  NoOtherRemoval(c)
BY DEF ItemInv, RemovalFits, NoOtherRemoval

(***************************************************************************)
(* What a step of one caller may do to the items without breaking what the *)
(* calls of the others rely on.                                            *)
(***************************************************************************)
LEMMA ItemFrame ==
    ASSUME ItemInv, NEW c \in Caller, UNCHANGED backend,
           calls' \in {calls, calls + 1},
           \A b \in Caller \ {c} : call'[b] = call[b],
           ItemTypes', RemovedWorkNotComplete',
           backend = "file" =>
               \/ NoOtherRemoval(c)
               \/ \A i \in Item : Present(items[i]) => Present(items'[i]),
           \/ NoOtherRemoval(c)
           \/ /\ completion.covers = {} => completion'.covers = {}
              /\ cursor.covers = {} => cursor'.covers = {},
           backend = "commercetools" => \A i \in Item :
               \/ items'[i] = items[i]
               \/ /\ items'[i].life = items[i].life
                  /\ items'[i].version > items[i].version
               \/ items'[i].life = 0 \/ items'[i].life > calls,
           ObservationFits(c)', RemovalFits(c)', RestoreFits(c)'
    PROVE  ItemInv'
<1>0. calls \in Nat
  BY DEF ItemInv, ItemTypes
<1>1. ASSUME NEW b \in Caller \ {c} PROVE ObservationFits(b)'
  <2> SUFFICES ASSUME call[b].pc = "observe" PROVE ObservationFits(b)'
    BY DEF ObservationFits
  <2>0. ObservationFits(b) /\ call'[b] = call[b]
    BY DEF ItemInv
  <2>1. CASE backend # "commercetools"
    <3>1. backend \in {"sql", "file"} => IsItem(call[b].state)'
      BY <1>0, <2>0, ItemAges DEF ObservationFits, IsItem
    <3> QED BY <2>0, <2>1, <3>1 DEF ObservationFits
  <2>2. CASE backend = "commercetools"
    <3> DEFINE k == call[b]
               i == k.item
    <3>1. /\ {"item", "run"} \subseteq DOMAIN k /\ i \in Item /\ k.run \in Run
          /\ "seen" \in DOMAIN k /\ IsItem(k.seen) /\ Present(k.seen)
          /\ k.seen.life = items[i].life =>
                /\ k.seen.version <= items[i].version
                /\ k.seen.version = items[i].version =>
                      k.seen.outcome = items[i].outcome
      BY <2>0, <2>2 DEF ObservationFits
    <3>2. /\ k.seen.life \in Nat /\ k.seen.life > 0 /\ k.seen.life <= calls
          /\ k.seen.version \in Nat
      BY <3>1 DEF IsItem, ItemRecord
    <3>3. items[i].version \in Nat /\ items'[i].version \in Nat
      BY <3>1 DEF ItemInv, ItemTypes, ItemRecord
    <3>4. IsItem(k.seen)'
      BY <1>0, <2>0, <3>1, ItemAges DEF IsItem
    <3>5. k.seen.life = items'[i].life =>
                /\ k.seen.version <= items'[i].version
                /\ k.seen.version = items'[i].version =>
                      k.seen.outcome = items'[i].outcome
      <4> SUFFICES ASSUME k.seen.life = items'[i].life
                   PROVE  /\ k.seen.version <= items'[i].version
                          /\ k.seen.version = items'[i].version =>
                                k.seen.outcome = items'[i].outcome
        OBVIOUS
      <4>1. CASE items'[i] = items[i]
        BY <3>1, <4>1
      <4>2. CASE /\ items'[i].life = items[i].life
                 /\ items'[i].version > items[i].version
        BY <3>1, <3>2, <3>3, <4>2
      <4>3. ~(items'[i].life = 0 \/ items'[i].life > calls)
        BY <1>0, <3>2
      <4> QED BY <2>2, <3>1, <4>1, <4>2, <4>3
    <3> QED BY <2>0, <2>2, <3>1, <3>4, <3>5 DEF ObservationFits
  <2> QED BY <2>1, <2>2
<1>2. ASSUME NEW b \in Caller \ {c} PROVE RemovalFits(b)'
  <2>1. RemovalFits(b) /\ call'[b] = call[b]
    BY DEF ItemInv
  <2>2. call[b].pc \in RemovalPc =>
           /\ completion.covers = {} => completion'.covers = {}
           /\ cursor.covers = {} => cursor'.covers = {}
    BY DEF NoOtherRemoval
  <2> QED BY <2>1, <2>2 DEF RemovalFits
<1>3. ASSUME NEW b \in Caller \ {c} PROVE RestoreFits(b)'
  <2>1. RestoreFits(b) /\ call'[b] = call[b]
    BY DEF ItemInv
  <2>2. call[b].pc \in RemovalPc /\ backend = "file" =>
           \A i \in Item : Present(items[i]) => Present(items'[i])
    BY DEF NoOtherRemoval
  <2>3. call[b].pc \in RemovalPc /\ backend = "file" =>
           /\ call[b].restore.completion.covers \subseteq Item
           /\ call[b].restore.cursor.covers \subseteq Item
    BY <2>1 DEF RestoreFits, Evidence
  <2> QED BY <2>1, <2>2, <2>3 DEF RestoreFits
<1> QED BY <1>1, <1>2, <1>3 DEF ItemInv

\* An object is written: it is there afterwards, and everything else is as before.
LEMMA ItemPut ==
    ASSUME ItemInv, NEW i \in Item, NEW x, IsItem(x)', Present(x),
           items' = [items EXCEPT ![i] = x],
           UNCHANGED <<backend, completion, cursor>>,
           calls' \in {calls, calls + 1}
    PROVE  /\ ItemTypes' /\ RemovedWorkNotComplete'
           /\ items'[i] = x /\ \A j \in Item \ {i} : items'[j] = items[j]
           /\ \A j \in Item : Present(items[j]) => Present(items'[j])
<1>0. /\ calls \in Nat /\ calls' \in Nat /\ x \in ItemRecord
      /\ items \in [Item -> ItemRecord]
  BY DEF ItemInv, ItemTypes, IsItem
<1>1. /\ items'[i] = x /\ \A j \in Item \ {i} : items'[j] = items[j]
      /\ items' \in [Item -> ItemRecord]
  BY <1>0
<1>2. \A j \in Item : IsItem(items[j])'
  <2> SUFFICES ASSUME NEW j \in Item PROVE IsItem(items[j])'
    OBVIOUS
  <2>1. CASE j = i
    BY <1>1, <2>1 DEF IsItem, Present
  <2>2. CASE j # i
    <3>1. IsItem(items[j]) /\ items'[j] = items[j]
      BY <1>1, <2>2 DEF ItemInv, ItemTypes
    <3> QED BY <1>0, <3>1, ItemAges DEF IsItem
  <2> QED BY <2>1, <2>2
<1>3. ItemTypes'
  BY <1>0, <1>1, <1>2 DEF ItemInv, ItemTypes
<1>4. \A j \in Item : Present(items[j]) => Present(items'[j])
  BY <1>1
<1>5. RemovedWorkNotComplete'
  <2>1. completion.covers \subseteq Item /\ cursor.covers \subseteq Item
    BY DEF ItemInv, ItemTypes, Evidence
  <2> QED BY <1>4, <2>1 DEF ItemInv, RemovedWorkNotComplete
<1> QED BY <1>1, <1>3, <1>4, <1>5

\* An object goes while nothing counts on it.
LEMMA ItemGone ==
    ASSUME ItemInv, NoRun \notin Run, NEW i \in Item,
           items' = [items EXCEPT ![i] = NoItem],
           UNCHANGED backend, calls' \in {calls, calls + 1},
           completion' \in {completion, NoObject}, completion'.covers = {},
           cursor' \in {cursor, NoObject}, cursor'.covers = {}
    PROVE  /\ ItemTypes' /\ RemovedWorkNotComplete'
           /\ items'[i].life = 0 /\ \A j \in Item \ {i} : items'[j] = items[j]
<1>0. calls \in Nat /\ calls' \in Nat /\ items \in [Item -> ItemRecord]
  BY DEF ItemInv, ItemTypes
<1>1. NoItem \in ItemRecord /\ IsItem(NoItem)' /\ NoItem.life = 0
  BY <1>0 DEF NoItem, ItemRecord, IsItem, Present
<1>2. /\ items'[i] = NoItem /\ \A j \in Item \ {i} : items'[j] = items[j]
      /\ items' \in [Item -> ItemRecord]
  BY <1>0, <1>1
<1>3. \A j \in Item : IsItem(items[j])'
  <2> SUFFICES ASSUME NEW j \in Item PROVE IsItem(items[j])'
    OBVIOUS
  <2>1. CASE j = i
    BY <1>1, <1>2, <2>1 DEF IsItem, Present
  <2>2. CASE j # i
    <3>1. IsItem(items[j]) /\ items'[j] = items[j]
      BY <1>2, <2>2 DEF ItemInv, ItemTypes
    <3> QED BY <1>0, <3>1, ItemAges DEF IsItem
  <2> QED BY <2>1, <2>2
<1>4. NoObject \in Evidence /\ NoObject.covers = {}
  BY DEF NoObject, Evidence
<1>5. completion' \in Evidence /\ cursor' \in Evidence
  BY <1>4 DEF ItemInv, ItemTypes
<1>6. ItemTypes'
  BY <1>0, <1>2, <1>3, <1>5 DEF ItemInv, ItemTypes
<1>7. RemovedWorkNotComplete'
  BY DEF RemovedWorkNotComplete
<1> QED BY <1>1, <1>2, <1>6, <1>7

\* Completion and cursor change to what is there, or go.
LEMMA ItemCover ==
    ASSUME ItemInv, UNCHANGED <<backend, items>>, calls' \in {calls, calls + 1},
           \A v \in {completion', cursor'} :
               /\ v \in Evidence
               /\ ~Present(v) => v.covers = {}
               /\ \A i \in v.covers : Present(items[i])
    PROVE  ItemTypes' /\ RemovedWorkNotComplete'
<1>1. calls \in Nat /\ calls' \in Nat
  BY DEF ItemInv, ItemTypes
<1>2. \A i \in Item : IsItem(items[i])'
  <2> SUFFICES ASSUME NEW i \in Item PROVE IsItem(items[i])'
    OBVIOUS
  <2>1. IsItem(items[i])
    BY DEF ItemInv, ItemTypes
  <2> QED BY <1>1, <2>1, ItemAges DEF IsItem
<1>3. ItemTypes'
  BY <1>1, <1>2 DEF ItemInv, ItemTypes
<1> QED BY <1>3 DEF RemovedWorkNotComplete

\* The two pieces of evidence as they are, and gone.
LEMMA EvidenceKinds ==
    ASSUME ItemInv, NEW v \in {completion, cursor, NoObject}
    PROVE  /\ v \in Evidence
           /\ ~Present(v) => v.covers = {}
           /\ \A i \in v.covers : Present(items[i])
<1>1. CASE v = NoObject
  BY <1>1 DEF NoObject, Evidence
<1>2. CASE v \in {completion, cursor}
  BY <1>2 DEF ItemInv, ItemTypes, RemovedWorkNotComplete
<1> QED BY <1>1, <1>2

\* Evidence as it is recorded.
LEMMA EvidenceRecorded ==
    ASSUME NEW n \in Nat \ {0}, NEW v,
           v = [covers |-> {i \in Item : Present(items[i])}, version |-> n]
    PROVE  /\ v \in Evidence
           /\ ~Present(v) => v.covers = {}
           /\ \A i \in v.covers : Present(items[i])
BY DEF Evidence, Present

\* upsertItemState, in each store.
LEMMA ItemUpsert ==
    ASSUME ItemInv, CallShape, NEW c \in Caller, NEW i \in Item, UNCHANGED backend,
           SingleCall(c), items' = [items EXCEPT ![i] = UpsertedItem(items[i], calls + 1)],
           UNCHANGED <<completion, cursor>>
    PROVE  ItemInv'
<1>0. PICK x : x = UpsertedItem(items[i], calls + 1)
  OBVIOUS
<1>1. /\ calls' = calls + 1 /\ call'[c] = Idle
      /\ \A b \in Caller \ {c} : call'[b] = call[b]
  BY CallMoves DEF SingleCall, StartCall
<1>2. /\ calls \in Nat /\ IsItem(items[i]) /\ items[i] \in ItemRecord
      /\ items[i].version \in Nat /\ items[i].life \in Nat
  BY DEF ItemInv, ItemTypes, ItemRecord
<1>3. x = [outcome |-> calls + 1, inventory |-> items[i].inventory,
           version |-> items[i].version + 1,
           life |-> IF items[i].life > 0 THEN items[i].life ELSE calls + 1]
  BY <1>0 DEF UpsertedItem
<1>4. IsItem(x)' /\ Present(x)
  <2>1. items[i].inventory \in Run \union {NoRun}
    BY <1>2 DEF ItemRecord
  <2>2. x \in ItemRecord
    BY <1>2, <1>3, <2>1 DEF ItemRecord
  <2> QED BY <1>1, <1>2, <1>3, <2>2 DEF IsItem, Present
<1>5. /\ x.version > items[i].version
      /\ x.life = items[i].life \/ x.life > calls
  BY <1>2, <1>3
<1>6. /\ ItemTypes' /\ RemovedWorkNotComplete'
      /\ items'[i] = x /\ \A j \in Item \ {i} : items'[j] = items[j]
      /\ \A j \in Item : Present(items[j]) => Present(items'[j])
  BY <1>0, <1>1, <1>4, ItemPut
<1>7. ObservationFits(c)' /\ RemovalFits(c)' /\ RestoreFits(c)'
  BY <1>1 DEF Idle, ObservationFits, RemovalFits, RestoreFits, RemovalPc
<1>8. \A j \in Item :
               \/ items'[j] = items[j]
               \/ /\ items'[j].life = items[j].life
                  /\ items'[j].version > items[j].version
               \/ items'[j].life = 0 \/ items'[j].life > calls
  BY <1>5, <1>6
<1> QED BY <1>1, <1>6, <1>7, <1>8, ItemFrame

\* A call that only reads items, or ends.
LEMMA ItemRead ==
    ASSUME ItemInv, NEW c \in Caller, UNCHANGED <<backend, itemVars>>,
           calls' \in {calls, calls + 1},
           \A b \in Caller \ {c} : call'[b] = call[b],
           ObservationFits(c)', RemovalFits(c)', RestoreFits(c)'
    PROVE  ItemInv'
<1>1. UNCHANGED <<items, completion, cursor>>
  BY DEF itemVars
<1>2. ItemTypes' /\ RemovedWorkNotComplete'
  <2>1. \A v \in {completion', cursor'} :
               /\ v \in Evidence
               /\ ~Present(v) => v.covers = {}
               /\ \A i \in v.covers : Present(items[i])
    BY <1>1, EvidenceKinds
  <2> QED BY <1>1, <2>1, ItemCover
<1> QED BY <1>1, <1>2, ItemFrame

\* An observation begins.
LEMMA ItemObserveRead ==
    ASSUME ItemInv, NEW c \in Caller, NEW i \in Item, NEW r \in Run, CallShape,
           UNCHANGED <<backend, itemVars>>,
           \/ /\ backend \in {"sql", "file"}
              /\ StartCall(c, [pc |-> "observe", item |-> i, run |-> r,
                               state |-> items[i]])
           \/ /\ backend = "commercetools"
              /\ StartCall(c, [pc |-> "observe", item |-> i, run |-> r,
                               seen |-> items[i]]),
           Present(items[i])
    PROVE  ItemInv'
<1>1. /\ calls' \in {calls, calls + 1}
      /\ \A b \in Caller \ {c} : call'[b] = call[b]
      /\ \/ /\ backend \in {"sql", "file"}
            /\ call'[c] = [pc |-> "observe", item |-> i, run |-> r,
                           state |-> items[i]]
         \/ /\ backend = "commercetools"
            /\ call'[c] = [pc |-> "observe", item |-> i, run |-> r,
                           seen |-> items[i]]
  BY CallMoves
<1>2. IsItem(items[i]) /\ calls \in Nat /\ calls' \in Nat /\ items[i].version \in Nat
  BY <1>1 DEF ItemInv, ItemTypes, ItemRecord
<1>3. IsItem(items[i])'
  BY <1>1, <1>2, ItemAges DEF IsItem, itemVars
<1>4. ObservationFits(c)'
  BY <1>1, <1>2, <1>3 DEF ObservationFits, itemVars, IsItem
<1>5. RemovalFits(c)' /\ RestoreFits(c)'
  BY <1>1 DEF RemovalFits, RestoreFits, RemovalPc
<1> QED BY <1>1, <1>4, <1>5, ItemRead

\* The caller's call is over.
LEMMA IdleFits ==
    ASSUME NEW c \in Caller, call'[c] = Idle
    PROVE  ObservationFits(c)' /\ RemovalFits(c)' /\ RestoreFits(c)'
BY DEF Idle, ObservationFits, RemovalFits, RestoreFits, RemovalPc

\* Completion or cursor is recorded, by a single call or a removal's step.
LEMMA ItemEvidence ==
    ASSUME ItemInv, NEW c \in Caller, UNCHANGED <<backend, items>>,
           calls' \in {calls, calls + 1},
           \A b \in Caller \ {c} : call'[b] = call[b],
           \A v \in {completion', cursor'} :
               /\ v \in Evidence
               /\ ~Present(v) => v.covers = {}
               /\ \A i \in v.covers : Present(items[i]),
           \/ NoOtherRemoval(c)
           \/ /\ completion.covers = {} => completion'.covers = {}
              /\ cursor.covers = {} => cursor'.covers = {},
           ObservationFits(c)', RemovalFits(c)', RestoreFits(c)'
    PROVE  ItemInv'
<1>1. ItemTypes' /\ RemovedWorkNotComplete'
  BY ItemCover
<1> QED BY <1>1, ItemFrame

\* recordSourcePassCompletion, setSourceCursor and deleteSourceCursor.
LEMMA ItemRecorded ==
    ASSUME ItemInv, CallShape, NEW c \in Caller, UNCHANGED <<backend, items>>,
           SingleCall(c), NEW n \in Nat \ {0},
           \/ /\ NoOtherRemoval(c) /\ UNCHANGED cursor
              /\ completion' = [covers |-> {i \in Item : Present(items[i])},
                                version |-> n]
           \/ /\ NoOtherRemoval(c) /\ UNCHANGED completion
              /\ cursor' = [covers |-> {i \in Item : Present(items[i])},
                            version |-> n]
           \/ UNCHANGED completion /\ cursor' = NoObject
    PROVE  ItemInv'
<1>1. /\ calls' \in {calls, calls + 1} /\ call'[c] = Idle
      /\ \A b \in Caller \ {c} : call'[b] = call[b]
  BY CallMoves DEF SingleCall
<1>2. PICK v : v = [covers |-> {i \in Item : Present(items[i])}, version |-> n]
  OBVIOUS
<1>3. \A u \in {completion, cursor, NoObject, v} :
               /\ u \in Evidence
               /\ ~Present(u) => u.covers = {}
               /\ \A i \in u.covers : Present(items[i])
  BY <1>2, EvidenceKinds, EvidenceRecorded
<1>4. completion' \in {completion, v} /\ cursor' \in {cursor, NoObject, v}
  BY <1>2
<1>5. \/ NoOtherRemoval(c)
      \/ /\ completion.covers = {} => completion'.covers = {}
         /\ cursor.covers = {} => cursor'.covers = {}
  BY DEF NoObject
<1> QED BY <1>1, <1>3, <1>4, <1>5, ItemEvidence, IdleFits

\* A removal in the file store and the Files SDK store goes on or is undone.
LEMMA ItemRemoveStep ==
    ASSUME ItemInv, CallShape, NoRun \notin Run, NEW c \in Caller,
           UNCHANGED backend, backend \in {"files", "file"},
           \/ FsRemoveStep(c) \/ FileRemoveStep(c)
           \/ backend = "file" /\ (FileRemoveFails(c) \/ FileRestore(c))
    PROVE  ItemInv'
<1> DEFINE k == call[c]
<1>1. /\ RemovalFits(c) /\ RestoreFits(c) /\ call[c].pc \in RemovalPc
      /\ k.item \in Item /\ "item" \in DOMAIN k /\ "pc" \in DOMAIN k
  BY DEF FsRemoveStep, FileRemoveStep, FileRemoveFails, FileRestore, ItemInv,
         RemovalFits, RemovalPc, CallShape
<1>2. backend = "file" => NoOtherRemoval(c)
  BY <1>1, OthersDoNotRemove DEF RemovalFits
<1>3. /\ calls' \in {calls, calls + 1}
      /\ \A b \in Caller \ {c} : call'[b] = call[b]
  BY DEF FsRemoveStep, FileRemoveStep, FileRemoveFails, FileRestore, Return,
         Continue, CallShape
<1>4. NoObject \in Evidence /\ NoObject.covers = {} /\ ~Present(NoObject)
  BY DEF NoObject, Evidence, Present
<1>5. \A u \in {completion, cursor, NoObject} :
               /\ u \in Evidence
               /\ ~Present(u) => u.covers = {}
               /\ \A i \in u.covers : Present(items[i])
  BY EvidenceKinds
<1>6. CASE /\ call[c].pc = "remove-completion"
           /\ completion' = NoObject
           /\ call' = [call EXCEPT ![c] = [call[c] EXCEPT !.pc = "remove-cursor"]]
           /\ UNCHANGED <<items, cursor>>
  <2>1. /\ call'[c].pc = "remove-cursor" /\ DOMAIN call'[c] = DOMAIN k
        /\ call'[c].item = k.item
        /\ "restore" \in DOMAIN k => call'[c].restore = k.restore
    BY <1>1, <1>6 DEF CallShape
  <2>2. ObservationFits(c)' /\ RemovalFits(c)'
    BY <1>1, <1>4, <1>6, <2>1 DEF ObservationFits, RemovalFits, RemovalPc
  <2>3. RestoreFits(c)'
    BY <1>1, <1>6, <2>1 DEF RestoreFits, RemovalPc
  <2> QED BY <1>3, <1>4, <1>5, <1>6, <2>2, <2>3, ItemEvidence
<1>7. CASE /\ call[c].pc = "remove-cursor"
           /\ cursor' = NoObject
           /\ call' = [call EXCEPT ![c] = [call[c] EXCEPT !.pc = "remove-item"]]
           /\ UNCHANGED <<items, completion>>
  <2>1. /\ call'[c].pc = "remove-item" /\ DOMAIN call'[c] = DOMAIN k
        /\ call'[c].item = k.item
        /\ "restore" \in DOMAIN k => call'[c].restore = k.restore
    BY <1>1, <1>7 DEF CallShape
  <2>2. ObservationFits(c)' /\ RemovalFits(c)'
    BY <1>1, <1>4, <1>7, <2>1 DEF ObservationFits, RemovalFits, RemovalPc
  <2>3. RestoreFits(c)'
    BY <1>1, <1>7, <2>1 DEF RestoreFits, RemovalPc
  <2> QED BY <1>3, <1>4, <1>5, <1>7, <2>2, <2>3, ItemEvidence
<1>8. CASE /\ call[c].pc = "remove-item"
           /\ items' = [items EXCEPT ![call[c].item] = NoItem]
           /\ Return(c)
           /\ UNCHANGED <<completion, cursor>>
  <2>0. PICK i \in Item : i = k.item
    BY <1>1
  <2>1. completion.covers = {} /\ cursor.covers = {}
    BY <1>1, <1>8 DEF RemovalFits, RemovalPc
  <2>2. /\ ItemTypes' /\ RemovedWorkNotComplete'
        /\ items'[i].life = 0 /\ \A j \in Item \ {i} : items'[j] = items[j]
    BY <1>3, <1>8, <2>0, <2>1, ItemGone
  <2>3. call'[c] = Idle
    BY <1>8, CallMoves DEF Return
  <2> QED BY <1>2, <1>3, <1>8, <2>2, <2>3, ItemFrame, IdleFits
<1>9. CASE backend = "file" /\ FileRemoveFails(c)
  <2>1. /\ UNCHANGED itemVars
        /\ call'[c].pc = "restore-cursor" /\ DOMAIN call'[c] = DOMAIN k
        /\ call'[c].item = k.item
        /\ "restore" \in DOMAIN k => call'[c].restore = k.restore
    BY <1>1, <1>9 DEF CallShape, FileRemoveFails, itemVars
  <2>2. ObservationFits(c)' /\ RemovalFits(c)'
    BY <1>1, <1>9, <2>1 DEF ObservationFits, RemovalFits, RemovalPc
  <2>3. RestoreFits(c)'
    BY <1>1, <1>9, <2>1 DEF RestoreFits, RemovalPc, itemVars
  <2> QED BY <1>3, <2>1, <2>2, <2>3, ItemRead
<1>10. CASE backend = "file" /\ FileRestore(c)
  <2>0. /\ "restore" \in DOMAIN k
        /\ k.restore \in [completion : Evidence, cursor : Evidence]
        /\ \A i \in k.restore.completion.covers
                      \union k.restore.cursor.covers : Present(items[i])
    BY <1>1, <1>10 DEF RestoreFits
  <2>1. CASE /\ call[c].pc = "restore-cursor"
             /\ cursor' = IF Present(k.restore.cursor) THEN k.restore.cursor
                          ELSE cursor
             /\ call' = [call EXCEPT ![c] = [k EXCEPT !.pc = "restore-completion"]]
             /\ UNCHANGED <<items, completion>>
    <3>1. /\ call'[c].pc = "restore-completion" /\ DOMAIN call'[c] = DOMAIN k
          /\ call'[c].item = k.item /\ call'[c].restore = k.restore
      BY <1>1, <2>0, <2>1 DEF CallShape
    <3>2. ObservationFits(c)' /\ RemovalFits(c)'
      BY <1>1, <1>10, <2>1, <3>1 DEF ObservationFits, RemovalFits, RemovalPc
    <3>3. RestoreFits(c)'
      BY <1>1, <1>10, <2>1, <3>1 DEF RestoreFits, RemovalPc
    <3>4. /\ cursor' \in Evidence
          /\ ~Present(cursor)' => cursor'.covers = {}
          /\ \A i \in cursor'.covers : Present(items[i])
      BY <1>5, <2>0, <2>1 DEF Present
    <3>5. ~Present(cursor') => cursor'.covers = {}
      BY <3>4 DEF Present
    <3> QED BY <1>2, <1>3, <1>5, <1>10, <2>1, <3>2, <3>3, <3>4, <3>5, ItemEvidence
  <2>2. CASE /\ call[c].pc = "restore-completion"
             /\ completion' = IF Present(k.restore.completion)
                              THEN k.restore.completion ELSE completion
             /\ Return(c)
             /\ UNCHANGED <<items, cursor>>
    <3>1. call'[c] = Idle
      BY <2>2, CallMoves DEF Return
    <3>2. /\ completion' \in Evidence
          /\ ~Present(completion') => completion'.covers = {}
          /\ \A i \in completion'.covers : Present(items[i])
      BY <1>5, <2>0, <2>2 DEF Present
    <3> QED BY <1>2, <1>3, <1>5, <1>10, <2>2, <3>1, <3>2, ItemEvidence, IdleFits
  <2> QED BY <1>10, <2>1, <2>2 DEF FileRestore, Continue
<1> QED BY <1>6, <1>7, <1>8, <1>9, <1>10 DEF FsRemoveStep, FileRemoveStep, Continue

\* A removal of the Commercetools store goes on.
LEMMA ItemCtRemoval ==
    ASSUME ItemInv, CallShape, NoRun \notin Run, NEW c \in Caller,
           UNCHANGED backend, backend = "commercetools",
           \/ CtReadCompletion(c) \/ CtDeleteCompletion(c)
           \/ CtReadCursor(c) \/ CtDeleteCursor(c) \/ CtDeleteItem(c)
    PROVE  ItemInv'
<1> DEFINE k == call[c]
<1>1. /\ RemovalFits(c) /\ RestoreFits(c) /\ call[c].pc \in RemovalPc
      /\ k.item \in Item /\ "item" \in DOMAIN k /\ "pc" \in DOMAIN k
      /\ "seen" \in DOMAIN k
  BY DEF CtReadCompletion, CtDeleteCompletion, CtReadCursor, CtDeleteCursor,
         CtDeleteItem, AtCt, ItemInv, RemovalFits, RemovalPc, CallShape
<1>2. NoOtherRemoval(c)
  BY <1>1, OthersDoNotRemove DEF RemovalFits
<1>3. /\ calls' \in {calls, calls + 1}
      /\ \A b \in Caller \ {c} : call'[b] = call[b]
  BY DEF CtReadCompletion, CtDeleteCompletion, CtReadCursor, CtDeleteCursor,
         CtDeleteItem, Return, Continue, CallShape
<1>4. NoObject \in Evidence /\ NoObject.covers = {} /\ ~Present(NoObject)
  BY DEF NoObject, Evidence, Present
<1>5. \A u \in {completion, cursor, NoObject} :
               /\ u \in Evidence
               /\ ~Present(u) => u.covers = {}
               /\ \A i \in u.covers : Present(items[i])
  BY EvidenceKinds
<1>6. ASSUME NEW pc \in {"delete-completion", "read-cursor", "delete-cursor",
                         "delete-item"},
             call' = [call EXCEPT ![c] = [call[c] EXCEPT !.pc = pc]],
             pc \in {"read-cursor", "delete-cursor", "delete-item"} =>
                 completion'.covers = {},
             pc = "delete-item" => cursor'.covers = {}
      PROVE  ObservationFits(c)' /\ RemovalFits(c)' /\ RestoreFits(c)'
  <2>1. /\ call'[c].pc = pc /\ DOMAIN call'[c] = DOMAIN k
        /\ call'[c].item = k.item
    BY <1>1, <1>6 DEF CallShape
  <2>2. ObservationFits(c)' /\ RemovalFits(c)'
    BY <1>1, <1>6, <2>1 DEF ObservationFits, RemovalFits, RemovalPc
  <2>3. RestoreFits(c)'
    BY <2>1 DEF RestoreFits, RemovalPc
  <2> QED BY <2>2, <2>3
<1>7. CASE CtReadCompletion(c)
  <2>1. PICK pc \in {"delete-completion", "read-cursor"} :
           /\ call' = [call EXCEPT ![c] = [call[c] EXCEPT !.pc = pc]]
           /\ pc = "read-cursor" => ~Present(completion)
    BY <1>7 DEF CtReadCompletion, Continue
  <2>2. UNCHANGED itemVars
    BY <1>7 DEF CtReadCompletion
  <2>3. ObservationFits(c)' /\ RemovalFits(c)' /\ RestoreFits(c)'
    BY <1>5, <1>6, <2>1, <2>2 DEF itemVars
  <2> QED BY <1>3, <2>2, <2>3, ItemRead
<1>8. CASE CtDeleteCompletion(c)
  <2>1. /\ call' = [call EXCEPT ![c] = [call[c] EXCEPT !.pc = "read-cursor"]]
        /\ completion' = NoObject /\ UNCHANGED <<items, cursor>>
    BY <1>8 DEF CtDeleteCompletion, Continue
  <2>2. ObservationFits(c)' /\ RemovalFits(c)' /\ RestoreFits(c)'
    BY <1>4, <1>6, <2>1
  <2> QED BY <1>2, <1>3, <1>5, <2>1, <2>2, ItemEvidence
<1>9. CASE CtReadCursor(c)
  <2>1. PICK pc \in {"delete-cursor", "delete-item"} :
           /\ call' = [call EXCEPT ![c] = [call[c] EXCEPT !.pc = pc]]
           /\ pc = "delete-item" => ~Present(cursor)
    BY <1>9 DEF CtReadCursor, Continue
  <2>2. UNCHANGED itemVars /\ k.pc = "read-cursor"
    BY <1>9 DEF CtReadCursor, AtCt
  <2>3. completion.covers = {}
    BY <1>1, <2>2 DEF RemovalFits
  <2>4. ObservationFits(c)' /\ RemovalFits(c)' /\ RestoreFits(c)'
    BY <1>5, <1>6, <2>1, <2>2, <2>3 DEF itemVars
  <2> QED BY <1>3, <2>2, <2>4, ItemRead
<1>10. CASE CtDeleteCursor(c)
  <2>1. /\ call' = [call EXCEPT ![c] = [call[c] EXCEPT !.pc = "delete-item"]]
        /\ cursor' = NoObject /\ UNCHANGED <<items, completion>>
        /\ k.pc = "delete-cursor"
    BY <1>10 DEF CtDeleteCursor, AtCt, Continue
  <2>2. completion.covers = {}
    BY <1>1, <2>1 DEF RemovalFits
  <2>3. ObservationFits(c)' /\ RemovalFits(c)' /\ RestoreFits(c)'
    BY <1>4, <1>6, <2>1, <2>2
  <2> QED BY <1>2, <1>3, <1>5, <2>1, <2>3, ItemEvidence
<1>11. CASE CtDeleteItem(c)
  <2>0. PICK i \in Item : i = k.item
    BY <1>1
  <2>1. /\ k.pc = "delete-item" /\ UNCHANGED <<completion, cursor>>
        /\ items' \in {items, [items EXCEPT ![i] = NoItem]}
        /\ Return(c)
    BY <1>11, <2>0 DEF CtDeleteItem, AtCt
  <2>2. completion.covers = {} /\ cursor.covers = {}
    BY <1>1, <2>1 DEF RemovalFits
  <2>3. call'[c] = Idle
    BY <2>1, CallMoves DEF Return
  <2>4. CASE items' = items
    BY <1>3, <2>1, <2>3, <2>4, ItemRead, IdleFits DEF itemVars
  <2>5. CASE items' = [items EXCEPT ![i] = NoItem]
    <3>1. /\ ItemTypes' /\ RemovedWorkNotComplete'
          /\ items'[i].life = 0 /\ \A j \in Item \ {i} : items'[j] = items[j]
      BY <1>3, <2>1, <2>2, <2>5, ItemGone
    <3> QED BY <1>2, <1>3, <2>1, <2>3, <3>1, ItemFrame, IdleFits
  <2> QED BY <2>1, <2>4, <2>5
<1> QED BY <1>7, <1>8, <1>9, <1>10, <1>11

\* The object an observation stores.
LEMMA ObservedKinds ==
    ASSUME NEW seen \in ItemRecord, NEW r \in Run, NEW object \in ItemRecord,
           NEW x, x = Written(Observed(seen, r, object), object)
    PROVE  /\ x \in ItemRecord /\ x.outcome = seen.outcome
           /\ x.version = object.version + 1 /\ x.life = object.life
<1>1. PICK y : y = Observed(seen, r, object)
  OBVIOUS
<1>2. y = [outcome |-> seen.outcome, inventory |-> r,
           version |-> seen.version, life |-> object.life]
  BY <1>1 DEF ItemRecord, Observed
<1>3. x = [y EXCEPT !.version = object.version + 1]
  BY <1>1 DEF Written
<1>4. x = [outcome |-> seen.outcome, inventory |-> r,
           version |-> object.version + 1, life |-> object.life]
  BY <1>2, <1>3
<1>5. /\ seen.outcome \in Nat /\ object.life \in Nat
      /\ object.version + 1 \in Nat
  BY DEF ItemRecord
<1> QED BY <1>4, <1>5 DEF ItemRecord

\* An observation writes: what it read, or nothing.
LEMMA ItemObserveWrite ==
    ASSUME ItemInv, CallShape, NEW c \in Caller, UNCHANGED backend,
           \/ backend = "sql" /\ SqlObserveWrite(c)
           \/ backend = "file" /\ FileObserveWrite(c)
           \/ backend = "commercetools" /\ CtObserveWrite(c)
    PROVE  ItemInv'
<1> DEFINE k == call[c]
<1>1. /\ k.pc = "observe" /\ ObservationFits(c)
      /\ Return(c) /\ UNCHANGED <<completion, cursor>>
  BY DEF SqlObserveWrite, FileObserveWrite, CtObserveWrite, AtCt, ItemInv
<1>2. PICK i \in Item : i = k.item
  BY <1>1 DEF ObservationFits
<1>3. /\ calls' = calls /\ call'[c] = Idle
      /\ \A b \in Caller \ {c} : call'[b] = call[b]
  BY <1>1, CallMoves DEF Return, Continue
<1>4. items \in [Item -> ItemRecord] /\ calls \in Nat /\ IsItem(items[i])
  BY DEF ItemInv, ItemTypes
<1>5. CASE backend \in {"sql", "file"}
  <2>1. PICK x : x = [k.state EXCEPT !.inventory = k.run]
    OBVIOUS
  <2>2. items' = [items EXCEPT ![i] = x]
    BY <1>2, <1>5, <2>1 DEF SqlObserveWrite, FileObserveWrite
  <2>3. IsItem(k.state) /\ Present(k.state) /\ k.run \in Run
    BY <1>1, <1>5 DEF ObservationFits
  <2>4. /\ x \in ItemRecord /\ x.outcome = k.state.outcome
        /\ x.version = k.state.version /\ x.life = k.state.life
    BY <2>1, <2>3 DEF IsItem, ItemRecord
  <2>5. IsItem(x)' /\ Present(x)
    BY <1>3, <2>3, <2>4 DEF IsItem, Present
  <2>6. /\ ItemTypes' /\ RemovedWorkNotComplete'
        /\ \A j \in Item : Present(items[j]) => Present(items'[j])
    BY <1>1, <1>3, <2>2, <2>5, ItemPut
  <2> QED BY <1>1, <1>3, <1>5, <2>6, ItemFrame, IdleFits
<1>6. CASE backend = "commercetools" /\ ~SameVersion(items[i], k.seen)
  <2>1. UNCHANGED itemVars
    BY <1>1, <1>2, <1>6 DEF CtObserveWrite, itemVars
  <2> QED BY <1>3, <2>1, ItemRead, IdleFits
<1>7. CASE backend = "commercetools" /\ SameVersion(items[i], k.seen)
  <2>1. PICK x : x = Written(Observed(k.seen, k.run, items[i]), items[i])
    OBVIOUS
  <2>2. items' = [items EXCEPT ![i] = x]
    BY <1>2, <1>7, <2>1 DEF CtObserveWrite
  <2>3. IsItem(k.seen) /\ Present(k.seen) /\ k.run \in Run
    BY <1>1, <1>7 DEF ObservationFits
  <2>4. /\ items[i].life \in Nat /\ items[i].version \in Nat
        /\ items[i].version > 0 /\ items[i].life > 0
    BY <1>4, <1>7, <2>3 DEF IsItem, ItemRecord, SameVersion, Present
  <2>5. /\ x \in ItemRecord /\ x.outcome = k.seen.outcome
        /\ x.version = items[i].version + 1 /\ x.life = items[i].life
    BY <1>4, <2>1, <2>3, ObservedKinds DEF IsItem
  <2>6. IsItem(x)' /\ Present(x)
    BY <1>3, <1>4, <2>3, <2>4, <2>5 DEF IsItem, Present
  <2>7. /\ ItemTypes' /\ RemovedWorkNotComplete'
        /\ items'[i] = x /\ \A j \in Item \ {i} : items'[j] = items[j]
        /\ \A j \in Item : Present(items[j]) => Present(items'[j])
    BY <1>1, <1>3, <2>2, <2>6, ItemPut
  <2>8. x.version > items[i].version
    BY <2>4, <2>5
  <2> QED BY <1>1, <1>3, <2>5, <2>7, <2>8, ItemFrame, IdleFits
<1> QED BY <1>1, <1>5, <1>6, <1>7 DEF ObservationFits

\* A removal begins.
LEMMA ItemRemoveRead ==
    ASSUME ItemInv, CallShape, NEW c \in Caller, NEW i \in Item, UNCHANGED backend,
           \/ backend = "commercetools" /\ c = Holder /\ CtRemoveRead(c, i)
           \/ backend = "files" /\ FsRemove(c, i)
           \/ backend = "file" /\ c = Holder /\ FileRemoveRead(c, i)
    PROVE  ItemInv'
<1>1. UNCHANGED itemVars
  BY DEF CtRemoveRead, FsRemove, FileRemoveRead
<1>2. /\ calls' \in {calls, calls + 1}
      /\ \A b \in Caller \ {c} : call'[b] = call[b]
  BY CallMoves DEF CtRemoveRead, FsRemove, FileRemoveRead
<1>3. \/ call'[c] = Idle
      \/ /\ backend = "commercetools" /\ c = Holder
         /\ call'[c] = [pc |-> "read-completion", item |-> i, seen |-> items[i]]
      \/ /\ backend = "files"
         /\ call'[c] = [pc |-> "remove-completion", item |-> i]
      \/ /\ backend = "file" /\ c = Holder
         /\ call'[c] = [pc |-> "remove-completion", item |-> i,
                        restore |-> [completion |-> completion,
                                     cursor |-> cursor]]
  BY CallMoves DEF CtRemoveRead, FsRemove, FileRemoveRead
<1>4. \A v \in {completion, cursor} :
           /\ v \in Evidence
           /\ ~Present(v) => v.covers = {}
           /\ \A j \in v.covers : Present(items[j])
  BY EvidenceKinds
<1>5. ObservationFits(c)' /\ RemovalFits(c)'
  BY <1>3, IdleFits DEF ObservationFits, RemovalFits, RemovalPc
<1>6. RestoreFits(c)'
  <2>1. CASE backend = "file" /\ call'[c] # Idle
    <3>1. /\ call'[c].pc = "remove-completion" /\ "restore" \in DOMAIN call'[c]
          /\ call'[c].restore = [completion |-> completion, cursor |-> cursor]
      BY <1>3, <2>1
    <3>2. /\ call'[c].restore \in [completion : Evidence, cursor : Evidence]
          /\ call'[c].restore.completion = completion
          /\ call'[c].restore.cursor = cursor
      BY <1>4, <3>1
    <3> QED BY <1>1, <1>4, <3>1, <3>2 DEF RestoreFits, Present, itemVars
  <2>2. CASE backend # "file" \/ call'[c] = Idle
    BY <1>3, <2>2, IdleFits DEF RestoreFits
  <2> QED BY <2>1, <2>2
<1> QED BY <1>1, <1>2, <1>5, <1>6, ItemRead

\* The observation of the Files SDK store, under its mutex.
LEMMA ItemObserved ==
    ASSUME ItemInv, CallShape, NEW c \in Caller, NEW i \in Item, NEW r \in Run,
           UNCHANGED backend, backend = "files", FsObserveItemState(c, i, r)
    PROVE  ItemInv'
<1>1. /\ calls' \in {calls, calls + 1} /\ call'[c] = Idle
      /\ \A b \in Caller \ {c} : call'[b] = call[b]
  BY CallMoves DEF FsObserveItemState, SingleCall
<1>2. PICK x : x = [items[i] EXCEPT !.inventory = r]
  OBVIOUS
<1>3. /\ items' = [items EXCEPT ![i] = x] /\ Present(items[i])
      /\ UNCHANGED <<completion, cursor>>
  BY <1>2 DEF FsObserveItemState
<1>4. calls \in Nat /\ IsItem(items[i])
  BY DEF ItemInv, ItemTypes
<1>5. /\ x \in ItemRecord /\ x.outcome = items[i].outcome
      /\ x.version = items[i].version /\ x.life = items[i].life
  BY <1>2, <1>4 DEF IsItem, ItemRecord
<1>6. IsItem(x)' /\ Present(x)
  BY <1>1, <1>3, <1>4, <1>5, ItemAges DEF IsItem, Present
<1>7. /\ ItemTypes' /\ RemovedWorkNotComplete'
      /\ \A j \in Item : Present(items[j]) => Present(items'[j])
  BY <1>1, <1>3, <1>6, ItemPut
<1> QED BY <1>1, <1>3, <1>7, ItemFrame, IdleFits

\* The SQL store removes the item and its evidence in one transaction.
LEMMA ItemSqlRemove ==
    ASSUME ItemInv, CallShape, NoRun \notin Run, NEW c \in Caller, NEW i \in Item,
           UNCHANGED backend, backend = "sql", SqlRemoveRolledBackItem(c, i)
    PROVE  ItemInv'
<1>1. /\ calls' \in {calls, calls + 1} /\ call'[c] = Idle
      /\ \A b \in Caller \ {c} : call'[b] = call[b]
  BY CallMoves DEF SqlRemoveRolledBackItem, SingleCall
<1>2. CASE ~Present(items[i])
  <2>1. UNCHANGED itemVars
    BY <1>2 DEF SqlRemoveRolledBackItem
  <2> QED BY <1>1, <2>1, ItemRead, IdleFits
<1>3. CASE Present(items[i])
  <2>1. /\ items' = [items EXCEPT ![i] = NoItem]
        /\ completion' = NoObject /\ cursor' = NoObject /\ NoObject.covers = {}
    BY <1>3 DEF SqlRemoveRolledBackItem, NoObject
  <2>2. ItemTypes' /\ RemovedWorkNotComplete'
    BY <1>1, <2>1, ItemGone
  <2> QED BY <1>1, <2>1, <2>2, ItemFrame, IdleFits
<1> QED BY <1>2, <1>3

\* The steps on items, backend by backend.
LEMMA ItemStep ==
    ASSUME ItemInv, CallShape, NoRun \notin Run, NEW c \in Caller, Working(c),
           UNCHANGED backend
    PROVE  ItemInv'
<1>1. ASSUME SingleCall(c), UNCHANGED itemVars PROVE ItemInv'
  <2>1. /\ calls' \in {calls, calls + 1} /\ call'[c] = Idle
        /\ \A b \in Caller \ {c} : call'[b] = call[b]
    BY <1>1, CallMoves DEF SingleCall
  <2> QED BY <1>1, <2>1, ItemRead, IdleFits
<1>2. 1 \in Nat \ {0} /\ completion.version + 1 \in Nat \ {0}
                      /\ cursor.version + 1 \in Nat \ {0}
  BY DEF ItemInv, ItemTypes, Evidence
<1>3. CASE backend = "sql" /\ SqlItem(c)
  <2>0. NoOtherRemoval(c)
    BY <1>3 DEF ItemInv, RemovalFits, NoOtherRemoval
  <2>1. ASSUME NEW i \in Item, SqlUpsertItemState(c, i) PROVE ItemInv'
    BY <2>1, ItemUpsert DEF SqlUpsertItemState
  <2>2. ASSUME NEW i \in Item, SqlRemoveRolledBackItem(c, i) PROVE ItemInv'
    BY <1>3, <2>2, ItemSqlRemove
  <2>3. ASSUME NEW i \in Item, NEW r \in Run, SqlObserveRead(c, i, r) PROVE ItemInv'
    <3>1. CASE Present(items[i]) /\ items[i].inventory # r
      BY <1>3, <2>3, <3>1, ItemObserveRead DEF SqlObserveRead
    <3>2. CASE ~(Present(items[i]) /\ items[i].inventory # r)
      BY <1>1, <2>3, <3>2 DEF SqlObserveRead, SingleCall
    <3> QED BY <3>1, <3>2
  <2>4. CASE SqlObserveWrite(c)
    BY <1>3, <2>4, ItemObserveWrite
  <2>5. CASE SqlRecordCompletion(c) \/ SqlSetSourceCursor(c) \/ SqlDeleteSourceCursor(c)
    BY <1>2, <2>0, <2>5, ItemRecorded
       DEF SqlRecordCompletion, SqlSetSourceCursor, SqlDeleteSourceCursor
  <2> QED BY <1>3, <2>1, <2>2, <2>3, <2>4, <2>5 DEF SqlItem
<1>4. CASE backend = "commercetools" /\ CtItem(c)
  <2>1. ASSUME NEW i \in Item, CtUpsertItemState(c, i) PROVE ItemInv'
    BY <2>1, ItemUpsert DEF CtUpsertItemState
  <2>2. ASSUME NEW i \in Item, NEW r \in Run, CtObserveRead(c, i, r) PROVE ItemInv'
    <3>1. CASE Present(items[i]) /\ items[i].inventory # r
      BY <1>4, <2>2, <3>1, ItemObserveRead DEF CtObserveRead
    <3>2. CASE ~(Present(items[i]) /\ items[i].inventory # r)
      BY <1>1, <2>2, <3>2 DEF CtObserveRead, SingleCall
    <3> QED BY <3>1, <3>2
  <2>3. ASSUME NEW i \in Item, c = Holder, CtRemoveRead(c, i) PROVE ItemInv'
    BY <1>4, <2>3, ItemRemoveRead
  <2>4. CASE c = Holder /\ (CtRecordCompletion(c) \/ CtSetSourceCursor(c))
    <3>1. NoOtherRemoval(c)
      BY <1>4, <2>4, OthersDoNotRemove
    <3>2. CASE CtRecordCompletion(c)
      BY <1>2, <3>1, <3>2, ItemRecorded DEF CtRecordCompletion
    <3>3. CASE CtSetSourceCursor(c)
      BY <1>2, <3>1, <3>3, ItemRecorded DEF CtSetSourceCursor
    <3> QED BY <2>4, <3>2, <3>3
  <2> QED BY <1>4, <2>1, <2>2, <2>3, <2>4 DEF CtItem
<1>5. CASE backend = "commercetools" /\ CtItemStep(c)
  BY <1>5, ItemCtRemoval, ItemObserveWrite DEF CtItemStep
<1>6. CASE backend = "files" /\ FsItem(c)
  <2>0. MutexFree => NoOtherRemoval(c)
    BY DEF MutexFree, NoOtherRemoval, Idle, RemovalPc
  <2>1. ASSUME NEW i \in Item, FsUpsertItemState(c, i) PROVE ItemInv'
    BY <2>1, ItemUpsert DEF FsUpsertItemState
  <2>2. ASSUME NEW i \in Item, FsRemove(c, i) PROVE ItemInv'
    BY <1>6, <2>2, ItemRemoveRead
  <2>3. ASSUME NEW i \in Item, NEW r \in Run, FsObserveItemState(c, i, r)
        PROVE ItemInv'
    BY <1>6, <2>3, ItemObserved
  <2>4. CASE FsRecordCompletion(c) \/ FsSetSourceCursor(c) \/ FsDeleteSourceCursor(c)
    BY <1>2, <2>0, <2>4, ItemRecorded
       DEF FsRecordCompletion, FsSetSourceCursor, FsDeleteSourceCursor
  <2> QED BY <1>6, <2>1, <2>2, <2>3, <2>4 DEF FsItem
<1>7. CASE backend = "files" /\ FsItemStep(c)
  BY <1>7, ItemRemoveStep DEF FsItemStep
<1>8. CASE backend = "file" /\ FileItem(c)
  <2>1. ASSUME NEW i \in Item, FileUpsertItemState(c, i) PROVE ItemInv'
    BY <2>1, ItemUpsert DEF FileUpsertItemState
  <2>2. ASSUME NEW i \in Item, NEW r \in Run, FileObserveRead(c, i, r) PROVE ItemInv'
    <3>1. CASE Present(items[i]) /\ items[i].inventory # r
      BY <1>8, <2>2, <3>1, ItemObserveRead DEF FileObserveRead
    <3>2. CASE ~(Present(items[i]) /\ items[i].inventory # r)
      BY <1>1, <2>2, <3>2 DEF FileObserveRead, SingleCall
    <3> QED BY <3>1, <3>2
  <2>3. ASSUME NEW i \in Item, c = Holder, FileRemoveRead(c, i) PROVE ItemInv'
    BY <1>8, <2>3, ItemRemoveRead
  <2>4. CASE /\ c = Holder
             /\ FileRecordCompletion(c) \/ FileSetSourceCursor(c)
                  \/ FileDeleteSourceCursor(c)
    <3>1. NoOtherRemoval(c)
      BY <1>8, <2>4, OthersDoNotRemove
    <3> QED BY <1>2, <2>4, <3>1, ItemRecorded
            DEF FileRecordCompletion, FileSetSourceCursor, FileDeleteSourceCursor
  <2> QED BY <1>8, <2>1, <2>2, <2>3, <2>4 DEF FileItem
<1>9. CASE backend = "file" /\ FileItemStep(c)
  BY <1>9, ItemRemoveStep, ItemObserveWrite DEF FileItemStep
<1> QED BY <1>3, <1>4, <1>5, <1>6, <1>7, <1>8, <1>9 DEF Working

LEMMA ItemNext ==
    ASSUME NoRun \notin Run, CallShape, ItemInv, [StoresNext(Families)]_backendVars
    PROVE  ItemInv'
<1>1. CASE UNCHANGED backendVars
  <2>1. /\ ItemTypes' /\ RemovedWorkNotComplete'
    BY <1>1 DEF backendVars, ItemInv, ItemTypes, RemovedWorkNotComplete, IsItem
  <2>2. ASSUME NEW c \in Caller
        PROVE  ObservationFits(c)' /\ RemovalFits(c)' /\ RestoreFits(c)'
    BY <1>1 DEF backendVars, ItemInv, ObservationFits, RemovalFits, RestoreFits,
                IsItem
  <2> QED BY <2>1, <2>2 DEF ItemInv
<1>2. ASSUME NEW c \in Caller, UNCHANGED backend,
             Running(c) \/ Locking(c) \/ LoseCall(c)
      PROVE  ItemInv'
  <2>1. UNCHANGED itemVars
    BY <1>2, RunningMoves, LockingMoves DEF LoseCall
  <2>2. \E Pc \in {{}, RunPc, LockPc} : Moves(c, Pc)
    BY <1>2, RunningMoves, LockingMoves, LoseMoves
  <2>3. /\ calls' \in {calls, calls + 1}
        /\ \A b \in Caller \ {c} : call'[b] = call[b]
        /\ call'[c].pc \in {"idle"} \union RunPc \union LockPc
    BY <2>2 DEF Moves, CallShape
  <2>4. ObservationFits(c)' /\ RemovalFits(c)' /\ RestoreFits(c)'
    BY <2>3 DEF ObservationFits, RemovalFits, RestoreFits, RemovalPc, RunPc, LockPc
  <2> QED BY <1>2, <2>1, <2>3, <2>4, ItemRead
<1>3. ASSUME NEW c \in Caller, UNCHANGED backend, Working(c)
      PROVE  ItemInv'
  BY <1>3, ItemStep
<1> QED BY <1>1, <1>2, <1>3, StepKinds

LEMMA ItemsInvariant == StoresSpec => [](CallShape /\ ItemInv)
<1>1. StoresInit => CallShape /\ ItemInv
  BY ItemInit, LockInit, StoreBackendAssumption DEF StoreBackendAssumption
<1>2. CallShape /\ ItemInv /\ [StoresNext(Families)]_backendVars
        => (CallShape /\ ItemInv)'
  BY ShapeStep, ItemNext, StoreBackendAssumption DEF StoreBackendAssumption
<1> QED BY <1>1, <1>2, PTL DEF StoresSpec

(***************************************************************************)
(* No moment of a removal leaves a completion or a cursor that counts an   *)
(* item that is gone (RemovedWorkNotComplete), wherever it breaks off, in  *)
(* every backend.                                                          *)
(***************************************************************************)
THEOREM StoresRemovedWorkNotComplete == StoresSpec => []RemovedWorkNotComplete
<1>1. CallShape /\ ItemInv => RemovedWorkNotComplete
  BY DEF ItemInv
<1> QED BY <1>1, ItemsInvariant, PTL

\* What a step may do to the outcome of an item.
KeepsOutcome(i) ==
    \/ ~Present(items[i]) \/ ~Present(items'[i])
    \/ items'[i].outcome >= items[i].outcome
    \/ \E c \in Caller :
          /\ call[c].pc = "observe" /\ call[c].item = i
          /\ call[c].seen.life # items[i].life

LEMMA OutcomeKept ==
    ASSUME CallShape, ItemInv, [StoresNext(Families)]_backendVars,
           backend \notin {"sql", "file"}, NEW i \in Item
    PROVE  KeepsOutcome(i)
<1>0. /\ items \in [Item -> ItemRecord] /\ calls \in Nat
      /\ items[i].outcome \in Nat /\ items[i].outcome <= calls
      /\ items[i].outcome >= items[i].outcome
  BY DEF ItemInv, ItemTypes, IsItem, ItemRecord
<1>1. CASE UNCHANGED items
  BY <1>0, <1>1 DEF KeepsOutcome
<1>2. ASSUME NEW c \in Caller, Working(c) PROVE KeepsOutcome(i)
  <2>1. ASSUME NEW j \in Item,
               items' = [items EXCEPT ![j] = UpsertedItem(items[j], calls + 1)]
        PROVE  KeepsOutcome(i)
    <3>1. CASE j = i
      <4>1. items'[i].outcome = calls + 1
        BY <1>0, <2>1, <3>1 DEF UpsertedItem
      <4> QED BY <1>0, <4>1 DEF KeepsOutcome
    <3>2. CASE j # i
      BY <1>0, <2>1, <3>2 DEF KeepsOutcome
    <3> QED BY <3>1, <3>2
  <2>2. ASSUME NEW j \in Item, items' = [items EXCEPT ![j] = NoItem]
        PROVE  KeepsOutcome(i)
    <3>1. CASE j = i
      <4>1. ~Present(items'[i])
        BY <1>0, <2>2, <3>1 DEF NoItem, Present
      <4> QED BY <4>1 DEF KeepsOutcome
    <3>2. CASE j # i
      BY <1>0, <2>2, <3>2 DEF KeepsOutcome
    <3> QED BY <3>1, <3>2
  <2>3. ASSUME NEW j \in Item, NEW r \in Run,
               items' = [items EXCEPT ![j].inventory = r]
        PROVE  KeepsOutcome(i)
    <3>1. \A item \in ItemRecord : [item EXCEPT !.inventory = r].outcome = item.outcome
      BY DEF ItemRecord
    <3>2. items'[i].outcome = items[i].outcome
      BY <1>0, <2>3, <3>1
    <3> QED BY <1>0, <3>2 DEF KeepsOutcome
  <2>4. CASE backend = "commercetools" /\ CtObserveWrite(c)
    <3> DEFINE k == call[c]
    <3>1. k.pc = "observe" /\ ObservationFits(c)
      BY <2>4 DEF CtObserveWrite, AtCt, ItemInv
    <3>2. CASE items' # items /\ k.item = i /\ k.seen.life = items[i].life
      <4>1. SameVersion(items[i], k.seen)
        BY <2>4, <3>2 DEF CtObserveWrite
      <4>2. k.seen.outcome = items[i].outcome /\ IsItem(k.seen)
        BY <2>4, <3>1, <3>2, <4>1 DEF ObservationFits, SameVersion
      <4>3. items'[i] = Written(Observed(k.seen, k.run, items[i]), items[i])
        BY <1>0, <2>4, <3>2, <4>1 DEF CtObserveWrite
      <4>4. items'[i].outcome = k.seen.outcome
        BY <4>2, <4>3 DEF Written, Observed, IsItem, ItemRecord
      <4> QED BY <1>0, <4>2, <4>4 DEF KeepsOutcome
    <3>3. CASE items' # items /\ k.item = i /\ k.seen.life # items[i].life
      BY <3>1, <3>3 DEF KeepsOutcome
    <3>4. CASE items' = items \/ k.item # i
      <4>1. items'[i] = items[i]
        BY <1>0, <2>4, <3>1, <3>4 DEF CtObserveWrite, ObservationFits
      <4> QED BY <1>0, <4>1 DEF KeepsOutcome
    <3> QED BY <3>2, <3>3, <3>4
  <2>5. CASE backend = "commercetools" /\ CtItem(c)
    <3>1. \/ UNCHANGED items
          \/ \E j \in Item :
                items' = [items EXCEPT ![j] = UpsertedItem(items[j], calls + 1)]
      BY <2>5 DEF CtItem, CtUpsertItemState, CtObserveRead, CtRemoveRead,
                  CtRecordCompletion, CtSetSourceCursor, itemVars
    <3> QED BY <1>1, <2>1, <3>1
  <2>6. CASE backend = "commercetools" /\ CtItemStep(c)
    <3>1. CASE CtDeleteItem(c)
      <4>1. call[c].item \in Item
        BY <3>1 DEF CtDeleteItem, AtCt, ItemInv, RemovalFits, RemovalPc
      <4> QED BY <1>1, <2>2, <3>1, <4>1 DEF CtDeleteItem
    <3>2. CASE CtReadCompletion(c) \/ CtDeleteCompletion(c) \/ CtReadCursor(c)
                 \/ CtDeleteCursor(c)
      BY <1>1, <3>2 DEF CtReadCompletion, CtDeleteCompletion, CtReadCursor,
                        CtDeleteCursor, itemVars
    <3> QED BY <2>4, <2>6, <3>1, <3>2 DEF CtItemStep
  <2>7. CASE backend = "files" /\ FsItem(c)
    <3>1. \/ UNCHANGED items
          \/ \E j \in Item :
                \/ items' = [items EXCEPT ![j] = UpsertedItem(items[j], calls + 1)]
                \/ \E r \in Run : items' = [items EXCEPT ![j].inventory = r]
      BY <2>7 DEF FsItem, FsUpsertItemState, FsRemove, FsObserveItemState,
                  FsRecordCompletion, FsSetSourceCursor, FsDeleteSourceCursor,
                  itemVars
    <3> QED BY <1>1, <2>1, <2>3, <3>1
  <2>8. CASE backend = "files" /\ FsItemStep(c)
    <3>1. call[c].pc = "remove-item" => call[c].item \in Item
      BY DEF ItemInv, RemovalFits, RemovalPc
    <3> QED BY <1>1, <2>2, <2>8, <3>1 DEF FsItemStep, FsRemoveStep
  <2> QED BY <1>2, <2>5, <2>6, <2>7, <2>8 DEF Working
<1>3. ASSUME NEW c \in Caller, Running(c) \/ Locking(c) \/ LoseCall(c)
      PROVE  UNCHANGED items
  BY <1>3, RunningMoves, LockingMoves DEF LoseCall, itemVars
<1> QED BY <1>1, <1>2, <1>3, StepKinds DEF backendVars

(***************************************************************************)
(* An observation keeps the outcome that another caller stored meanwhile,  *)
(* unless it took an object that was removed and stored again for the one  *)
(* it had read (ObservationKeepsOutcome), for any number of callers.       *)
(***************************************************************************)
THEOREM StoresObservationKeepsOutcome == StoresSpec => ObservationKeepsOutcome
<1>1. CallShape /\ ItemInv /\ [StoresNext(Families)]_backendVars =>
        [backend \notin {"sql", "file"} =>
            \A i \in Item :
            \/ ~Present(items[i]) \/ ~Present(items'[i])
            \/ items'[i].outcome >= items[i].outcome
            \/ \E c \in Caller :
                  /\ call[c].pc = "observe" /\ call[c].item = i
                  /\ call[c].seen.life # items[i].life]_backendVars
  BY OutcomeKept DEF KeepsOutcome
<1> QED BY <1>1, ItemsInvariant, PTL DEF StoresSpec, ObservationKeepsOutcome

-----------------------------------------------------------------------------
(* Lifecycle writes *)

LEMMA TransitionType ==
    ASSUME NEW current \in RunStatus \union {"none"}, NEW op \in LifecycleOp,
           current # "none" \/ op \in StartOp
    PROVE  Transition(current, op).status \in RunStatus
BY DEF Transition, Requested, LifecycleOp, StartOp, UpdateOp, Decision,
       resolveMigrationRunTransition, OrCurrent, RunStatus, ActiveStatus,
       TerminalStatus

LEMMA TransitionTerminal ==
    ASSUME NEW current \in TerminalStatus, NEW op
    PROVE  Transition(current, op).status = current
BY DEF Transition, Decision, resolveMigrationRunTransition, TerminalStatus

\* Writes with outcomes end the run; the others have none, and keep the status
\* when they request none.
LEMMA TransitionOutcome ==
    ASSUME NEW current \in RunStatus, NEW op \in UpdateOp,
           Transition(current, op).accepted
    PROVE  /\ op \in {"completeRun", "failRun"} =>
                 Transition(current, op).status \in {"succeeded", "failed", "cancelled"}
           /\ Requested(op) = "none" => Transition(current, op).status = current
BY DEF Transition, Requested, UpdateOp, Decision,
       resolveMigrationRunTransition, OrCurrent, RunStatus, ActiveStatus,
       TerminalStatus

LEMMA RunInit ==
    ASSUME StoresInit, NoRun \notin Run
    PROVE  RunInv
<1>1. /\ runs = [r \in Run |-> NoRecord] /\ latest = [d \in Definition |-> NoLatest]
      /\ backend \in Backend
  BY DEF StoresInit, BackendInit
<1>2. \A c \in Caller : call[c].pc = "idle"
  BY DEF StoresInit, BackendInit, Idle
<1>3. IsRecord(NoRecord) /\ ~Present(NoRecord)
  BY DEF IsRecord, NoRecord, RunFields, Present
<1>4. RunTypes
  BY <1>1, <1>3 DEF RunTypes, NoLatest
<1>5. LatestNamesRecord
  BY <1>1 DEF LatestNamesRecord, NoLatest
<1>6. NoRecord.definitions = <<>> /\ DOMAIN <<>> = {}
  BY DEF NoRecord
<1>7. OutcomesFit
  BY <1>1, <1>3, <1>6 DEF OutcomesFit, NoLatest
<1>8. \A c \in Caller : SeenFits(c) /\ RunCallFits(c)
  BY <1>2 DEF SeenFits, RunCallFits
<1> QED BY <1>4, <1>5, <1>7, <1>8 DEF RunInv

(***************************************************************************)
(* What a step of one caller may do to the records without breaking what   *)
(* the calls of the others rely on: a record keeps its version only as it  *)
(* is.                                                                     *)
(***************************************************************************)
LEMMA RunFrame ==
    ASSUME RunInv, NEW c \in Caller, UNCHANGED backend,
           \A b \in Caller \ {c} : call'[b] = call[b],
           RunTypes', LatestNamesRecord', OutcomesFit',
           \A r \in Run : Present(runs[r]) => Present(runs'[r]),
           backend = "commercetools" => \A r \in Run :
               runs'[r] = runs[r] \/ runs'[r].version > runs[r].version,
           SeenFits(c)', RunCallFits(c)'
    PROVE  RunInv'
<1>1. ASSUME NEW b \in Caller \ {c} PROVE SeenFits(b)' /\ RunCallFits(b)'
  <2>1. SeenFits(b) /\ RunCallFits(b) /\ call'[b] = call[b]
    BY DEF RunInv
  <2>2. RunCallFits(b)'
    BY <2>1 DEF RunCallFits, Present
  <2>3. SeenFits(b)'
    <3> SUFFICES ASSUME call[b].pc \in {"read-predecessors", "read-latest", "write-run"}
                 PROVE  SeenFits(b)'
      BY <2>1 DEF SeenFits
    <3> DEFINE k == call[b]
    <3>1. /\ backend = "commercetools"
          /\ {"op", "run", "tries", "seen", "state", "todo"} \subseteq DOMAIN k
          /\ k.run \in Run /\ k.op \in LifecycleOp
          /\ IsRecord(k.seen) /\ DOMAIN k.state = RunFields
          /\ k.state.status \in RunStatus
          /\ k.seen.version <= runs[k.run].version
          /\ k.seen.version = runs[k.run].version =>
                 k.seen.status = runs[k.run].status
          /\ k.seen.status \in TerminalStatus =>
                 k.state.status = k.seen.status
      BY <2>1 DEF SeenFits
    <3>2. k.seen.version \in Nat /\ runs[k.run].version \in Nat /\ runs'[k.run].version \in Nat
      BY <3>1 DEF RunInv, RunTypes, IsRecord
    <3>3. /\ k.seen.version <= runs'[k.run].version
          /\ k.seen.version = runs'[k.run].version =>
                 k.seen.status = runs'[k.run].status
      BY <3>1, <3>2
    <3> QED BY <2>1, <3>1, <3>3 DEF SeenFits
  <2> QED BY <2>2, <2>3
<1> QED BY <1>1 DEF RunInv

\* A step that leaves the records alone.
LEMMA RunQuiet ==
    ASSUME RunInv, NEW c \in Caller, UNCHANGED <<backend, runVars>>,
           \A b \in Caller \ {c} : call'[b] = call[b],
           SeenFits(c)', RunCallFits(c)'
    PROVE  RunInv'
<1>0. UNCHANGED <<runs, latest, backend>>
  BY DEF runVars
<1>1. RunTypes'
  BY <1>0 DEF RunInv, RunTypes
<1>2. LatestNamesRecord' /\ OutcomesFit'
  BY <1>0 DEF RunInv, LatestNamesRecord, OutcomesFit
<1> QED BY <1>0, <1>1, <1>2, RunFrame

LEMMA RunIdle ==
    ASSUME NEW c \in Caller, call'[c].pc \notin RunPc
    PROVE  SeenFits(c)' /\ RunCallFits(c)'
BY DEF SeenFits, RunCallFits, RunPc

\* The record of a run is written.
LEMMA RunWritten ==
    ASSUME RunInv, NEW r \in Run, NEW x, runs' = [runs EXCEPT ![r] = x],
           UNCHANGED backend, IsRecord(x), Present(x),
           UNCHANGED latest
    PROVE  /\ RunTypes' /\ LatestNamesRecord'
           /\ runs'[r] = x /\ \A q \in Run \ {r} : runs'[q] = runs[q]
           /\ \A q \in Run : Present(runs[q]) => Present(runs'[q])
<1>1. runs = [q \in Run |-> runs[q]]
  BY DEF RunInv, RunTypes
<1>2. runs'[r] = x /\ \A q \in Run \ {r} : runs'[q] = runs[q]
  BY <1>1
<1>3. \A q \in Run : Present(runs[q]) => Present(runs'[q])
  BY <1>2
<1>4. RunTypes'
  <2>1. runs' = [q \in Run |-> runs'[q]]
    BY <1>1
  <2>2. \A q \in Run : IsRecord(runs'[q])
    BY <1>2 DEF RunInv, RunTypes
  <2> QED BY <2>1, <2>2 DEF RunInv, RunTypes, IsRecord
<1>5. LatestNamesRecord'
  BY <1>3 DEF RunInv, RunTypes, LatestNamesRecord, Present
<1> QED BY <1>2, <1>3, <1>4, <1>5

-----------------------------------------------------------------------------
(* The lifecycle writes, backend by backend *)

\* The steps of a lifecycle write keep its fields, and what it read and what
\* it is going to write still fit.
LEMMA SeenStays ==
    ASSUME NEW c \in Caller, SeenFits(c), UNCHANGED <<backend, runs>>,
           call[c].pc \in {"read-predecessors", "read-latest", "write-run"},
           call'[c].pc \in {"read-predecessors", "read-latest", "write-run"},
           DOMAIN call'[c] = DOMAIN call[c],
           call'[c].op = call[c].op, call'[c].run = call[c].run,
           call'[c].seen = call[c].seen,
           DOMAIN call'[c].state = DOMAIN call[c].state,
           call'[c].state.status = call[c].state.status
    PROVE  SeenFits(c)' /\ RunCallFits(c)'
BY DEF SeenFits, RunCallFits

\* A lifecycle write that has just read the record.
LEMMA SeenFresh ==
    ASSUME RunInv, NEW c \in Caller, NEW op \in LifecycleOp, NEW r \in Run,
           backend = "commercetools", UNCHANGED <<backend, runs>>,
           call'[c].pc \in {"read-predecessors", "read-latest", "write-run"},
           {"op", "run", "tries", "seen", "state", "todo"} \subseteq DOMAIN call'[c],
           call'[c].op = op, call'[c].run = r, call'[c].seen = runs[r],
           DOMAIN call'[c].state = RunFields,
           call'[c].state.status = Transition(runs[r].status, op).status,
           Present(runs[r]) \/ op \in StartOp
    PROVE  SeenFits(c)' /\ RunCallFits(c)'
<1>1. IsRecord(runs[r]) /\ runs[r].version \in Nat
  BY DEF RunInv, RunTypes, IsRecord
<1>2. call'[c].state.status \in RunStatus
  BY <1>1, TransitionType DEF IsRecord
<1>3. runs[r].status \in TerminalStatus =>
          call'[c].state.status = runs[r].status
  BY TransitionTerminal
<1>4. runs[r].version <= runs[r].version
  BY <1>1
<1>5. SeenFits(c)'
  BY <1>1, <1>2, <1>3, <1>4 DEF SeenFits, IsRecord, Present
<1> QED BY <1>5 DEF RunCallFits

LEMMA UpdatedRecord ==
    ASSUME NEW record, IsRecord(record), NEW op, NEW r
    PROVE  /\ DOMAIN Updated(record, op, r) = RunFields
           /\ Updated(record, op, r).status = Transition(record.status, op).status
           /\ Updated(record, op, r).version = record.version
           /\ Updated(record, op, r).definitions = record.definitions
BY DEF IsRecord, RunFields, Updated

\* Requests of the Commercetools store that read.
LEMMA RunCtReads ==
    ASSUME RunInv, CallShape, NEW c \in Caller, UNCHANGED backend,
           backend = "commercetools",
           \/ \E op \in LifecycleOp, r \in Run : CtLifecycle(c, op, r)
           \/ CtReadForStart(c) \/ CtReadPredecessor(c)
           \/ CtReadForUpdate(c) \/ CtReadLatest(c) \/ CtReadProjection(c)
    PROVE  RunInv'
<1> DEFINE k == call[c]
<1>1. UNCHANGED <<runs, latest, runVars>>
  BY DEF CtLifecycle, CtReadForStart, CtReadPredecessor, CtReadForUpdate,
         CtReadLatest, CtReadProjection, runVars
<1>2. SeenFits(c) /\ RunCallFits(c)
  BY DEF RunInv
<1>3. call = [b \in Caller |-> call[b]]
  BY DEF CallShape
<1>4. \A b \in Caller \ {c} : call'[b] = call[b]
  BY CallMoves DEF CtLifecycle, CtReadForStart, CtReadPredecessor,
         CtReadForUpdate, CtReadLatest, CtReadProjection
<1>5. SUFFICES SeenFits(c)' /\ RunCallFits(c)'
  BY <1>1, <1>4, RunQuiet
<1>6. ASSUME NEW op \in LifecycleOp, NEW r \in Run, CtLifecycle(c, op, r)
      PROVE  SeenFits(c)' /\ RunCallFits(c)'
  <2>1. call'[c] = [pc |-> "read-run", op |-> op, run |-> r, tries |-> MaxTries]
    BY <1>6, CallMoves DEF CtLifecycle
  <2> QED BY <2>1 DEF SeenFits, RunCallFits
<1>7. CASE CtReadForStart(c)
  <2>1. k.pc = "read-run" /\ k.run \in Run /\ k.op \in StartOp /\ k.op \in LifecycleOp
    BY <1>2, <1>7 DEF CtReadForStart, AtCt, RunCallFits
  <2>2. PICK r \in Run : r = k.run
    BY <2>1
  <2>3. PICK state : state = [runs[r] EXCEPT
                                !.status = Transition(runs[r].status, k.op).status]
    OBVIOUS
  <2>4. IsRecord(runs[r])
    BY DEF RunInv, RunTypes
  <2>5. /\ DOMAIN state = RunFields
        /\ state.status = Transition(runs[r].status, k.op).status
    BY <2>3, <2>4 DEF IsRecord, RunFields
  <2>6. \/ call'[c] = Idle
        \/ \E pc \in {"write-run", "read-predecessors"} :
               call'[c] = [pc |-> pc, op |-> k.op, run |-> r,
                           tries |-> k.tries, seen |-> runs[r],
                           state |-> state, todo |-> Scope[r]]
    BY <1>3, <1>7, <2>2, <2>3 DEF CtReadForStart, Continue
  <2>7. CASE call'[c] = Idle
    BY <2>7, RunIdle DEF Idle, RunPc
  <2>8. CASE call'[c] # Idle
    BY <1>1, <2>1, <2>5, <2>6, <2>8, SeenFresh
  <2> QED BY <2>7, <2>8
<1>8. CASE CtReadPredecessor(c)
  <2>1. k.pc = "read-predecessors" /\ DOMAIN k.state = RunFields
        /\ {"op", "run", "tries", "seen", "state", "todo", "pc"} \subseteq DOMAIN k
    BY <1>2, <1>8 DEF CtReadPredecessor, AtCt, SeenFits, CallShape
  <2>2. PICK predecessors, todo, pc :
           /\ call'[c] = [k EXCEPT !.state.predecessors = predecessors,
                                   !.todo = todo, !.pc = pc]
           /\ pc \in {"read-predecessors", "write-run"}
    BY <1>3, <1>8, <2>1 DEF CtReadPredecessor, AtCt, Continue
  <2>3. /\ call'[c].pc = pc /\ DOMAIN call'[c] = DOMAIN k
        /\ call'[c].op = k.op /\ call'[c].run = k.run /\ call'[c].seen = k.seen
        /\ call'[c].state = [k.state EXCEPT !.predecessors = predecessors]
    BY <2>1, <2>2
  <2>4. DOMAIN call'[c].state = DOMAIN k.state /\ call'[c].state.status = k.state.status
    BY <2>1, <2>3 DEF RunFields
  <2> QED BY <1>1, <1>2, <2>1, <2>2, <2>3, <2>4, SeenStays
<1>9. CASE CtReadForUpdate(c)
  <2>1. k.pc = "read-run" /\ k.run \in Run /\ k.op \in LifecycleOp
    BY <1>2, <1>9 DEF CtReadForUpdate, AtCt, RunCallFits
  <2>2. PICK r \in Run : r = k.run
    BY <2>1
  <2>3. PICK state : state = Updated(runs[r], k.op, r)
    OBVIOUS
  <2>4. /\ DOMAIN state = RunFields
        /\ state.status = Transition(runs[r].status, k.op).status
    BY <2>3, UpdatedRecord DEF RunInv, RunTypes
  <2>5. \/ call'[c] = Idle
        \/ /\ call'[c] = [pc |-> "read-latest", op |-> k.op, run |-> r,
                          tries |-> k.tries, seen |-> runs[r],
                          state |-> state,
                          unread |-> Scope[r], todo |-> {}]
           /\ Present(runs[r])
    BY <1>3, <1>9, <2>2, <2>3 DEF CtReadForUpdate, Continue
  <2>6. CASE call'[c] = Idle
    BY <2>6, RunIdle DEF Idle, RunPc
  <2>7. CASE call'[c] # Idle
    BY <1>1, <2>1, <2>4, <2>5, <2>7, SeenFresh
  <2> QED BY <2>6, <2>7
<1>10. CASE CtReadLatest(c)
  <2>1. k.pc = "read-latest"
        /\ {"op", "run", "tries", "seen", "state", "todo", "pc"} \subseteq DOMAIN k
    BY <1>2, <1>10 DEF CtReadLatest, AtCt, SeenFits, CallShape
  <2>2. \/ call'[c] = Idle
        \/ \E unread, todo, pc :
              /\ call'[c] = [k EXCEPT !.unread = unread, !.todo = todo, !.pc = pc]
              /\ pc \in {"read-latest", "write-run"}
    BY <1>3, <1>10, <2>1 DEF CtReadLatest, AtCt, Continue
  <2>3. CASE call'[c] = Idle
    BY <2>3, RunIdle DEF Idle, RunPc
  <2>4. CASE call'[c] # Idle
    <3>1. PICK unread, todo, pc :
              /\ call'[c] = [k EXCEPT !.unread = unread, !.todo = todo, !.pc = pc]
              /\ pc \in {"read-latest", "write-run"}
      BY <2>2, <2>4
    <3>2. /\ call'[c].pc = pc /\ DOMAIN call'[c] = DOMAIN k
          /\ call'[c].op = k.op /\ call'[c].run = k.run /\ call'[c].seen = k.seen
          /\ call'[c].state = k.state
      BY <2>1, <3>1
    <3> QED BY <1>1, <1>2, <2>1, <3>1, <3>2, SeenStays
  <2> QED BY <2>3, <2>4
<1>11. CASE CtReadProjection(c)
  <2>1. /\ k.pc = "read-projection" /\ k.run \in Run /\ Present(runs[k.run])
    BY <1>2, <1>11 DEF CtReadProjection, AtCt, RunCallFits
  <2>2. \/ call'[c] = Idle
        \/ /\ call'[c].pc \in {"read-projection", "write-projection"}
           /\ {"run", "state", "todo", "tries", "op"} \subseteq DOMAIN call'[c]
           /\ call'[c].run = k.run
    BY <1>3, <1>11 DEF CtReadProjection, CtNextProjection, Continue
  <2>3. CASE call'[c] = Idle
    BY <2>3, RunIdle DEF Idle, RunPc
  <2>4. CASE call'[c] # Idle
    BY <1>1, <2>1, <2>2, <2>4 DEF SeenFits, RunCallFits
  <2> QED BY <2>3, <2>4
<1> QED BY <1>6, <1>7, <1>8, <1>9, <1>10, <1>11

\* A write replaces one record, and keeps a terminal status.
Wrote(r) ==
    /\ runs' = [runs EXCEPT ![r] = runs'[r]]
    /\ IsRecord(runs'[r]) /\ Present(runs'[r])
    /\ runs[r].status \in TerminalStatus => runs'[r].status = runs[r].status

LEMMA WroteOthers ==
    ASSUME RunInv, NEW r \in Run, Wrote(r), UNCHANGED backend
    PROVE  /\ \A q \in Run \ {r} : runs'[q] = runs[q]
           /\ \A q \in Run : Present(runs[q]) => Present(runs'[q])
           /\ \A q \in Run : runs[q].status \in TerminalStatus =>
                  runs'[q].status = runs[q].status
           /\ UNCHANGED latest => RunTypes' /\ LatestNamesRecord'
<1>1. PICK x : x = runs'[r]
  OBVIOUS
<1>2. runs' = [runs EXCEPT ![r] = x] /\ IsRecord(x) /\ Present(x)
  BY <1>1 DEF Wrote
<1>3. runs = [q \in Run |-> runs[q]]
  BY DEF RunInv, RunTypes
<1>4. \A q \in Run \ {r} : runs'[q] = runs[q]
  BY <1>2, <1>3
<1>5. \A q \in Run : Present(runs[q]) => Present(runs'[q])
  BY <1>2, <1>3
<1>6. \A q \in Run : runs[q].status \in TerminalStatus =>
                  runs'[q].status = runs[q].status
  BY <1>4 DEF Wrote
<1>7. UNCHANGED latest => RunTypes' /\ LatestNamesRecord'
  BY <1>2, RunWritten
<1> QED BY <1>4, <1>5, <1>6, <1>7

\* What a start write of the SQL and Files SDK stores does to a record.
LEMMA StartedRecord ==
    ASSUME NEW record, IsRecord(record), NEW op \in StartOp, NEW status,
           status = Transition(record.status, op).status,
           NEW x, DOMAIN x = RunFields, x.status = status, x.version = 1
    PROVE  /\ IsRecord(x) /\ Present(x) /\ x.status \in RunStatus
           /\ record.status \in TerminalStatus => x.status = record.status
<1>1. status \in RunStatus
  BY TransitionType DEF IsRecord, LifecycleOp
<1>2. record.status \in TerminalStatus => status = record.status
  BY TransitionTerminal
<1>3. status # "none"
  BY <1>1 DEF RunStatus, ActiveStatus, TerminalStatus
<1> QED BY <1>1, <1>2, <1>3 DEF IsRecord, Present

\* What an update does to a record.
LEMMA UpdateWrites ==
    ASSUME NEW record, IsRecord(record), Present(record), NEW op \in UpdateOp,
           NEW x, DOMAIN x = RunFields, x.version = record.version,
           x.status = Transition(record.status, op).status
    PROVE  /\ IsRecord(x) /\ Present(x) /\ x.status \in RunStatus
           /\ record.status \in TerminalStatus => x.status = record.status
<1>1. record.status \in RunStatus \union {"none"} /\ record.status # "none"
  BY DEF IsRecord
<1>2. x.status \in RunStatus
  BY <1>1, TransitionType DEF LifecycleOp
<1>3. record.status \in TerminalStatus => x.status = record.status
  BY TransitionTerminal
<1>4. x.status # "none"
  BY <1>2 DEF RunStatus, ActiveStatus, TerminalStatus
<1> QED BY <1>2, <1>3, <1>4 DEF IsRecord, Present

LEMMA RunSqlStart ==
    ASSUME RunInv, CallShape, NEW c \in Caller, NEW op \in StartOp, NEW r \in Run,
           UNCHANGED backend, backend = "sql", SqlWriteRunState(c, op, r),
           Transition(runs[r].status, op).accepted
    PROVE  Wrote(r) /\ RunInv'
<1>0. /\ call'[c] = Idle /\ \A b \in Caller \ {c} : call'[b] = call[b]
  BY CallMoves DEF SqlWriteRunState, SingleCall
<1>1. /\ runs = [q \in Run |-> runs[q]] /\ \A q \in Run : IsRecord(runs[q])
      /\ latest = [d \in Definition |-> latest[d]]
  BY DEF RunInv, RunTypes
<1>2. PICK status, definitions, created :
        /\ status = Transition(runs[r].status, op).status
        /\ definitions = [d \in Scope[r] |-> status]
        /\ runs' = [runs EXCEPT ![r] = [runs[r] EXCEPT
                        !.status = status, !.definitions = definitions,
                        !.version = 1, !.created = created]]
  BY DEF SqlWriteRunState, runVars
<1>3. /\ DOMAIN runs'[r] = RunFields /\ runs'[r].status = status
      /\ runs'[r].definitions = definitions /\ runs'[r].version = 1
      /\ \A q \in Run \ {r} : runs'[q] = runs[q]
      /\ runs' = [runs EXCEPT ![r] = runs'[r]]
  <2>1. PICK x : x = [runs[r] EXCEPT !.status = status,
                        !.definitions = definitions,
                        !.version = 1, !.created = created]
    OBVIOUS
  <2>2. /\ runs' = [runs EXCEPT ![r] = x] /\ runs'[r] = x
        /\ \A q \in Run \ {r} : runs'[q] = runs[q]
    BY <1>1, <1>2, <2>1
  <2>3. /\ DOMAIN x = RunFields /\ x.status = status
        /\ x.definitions = definitions /\ x.version = 1
    BY <1>1, <2>1 DEF IsRecord, RunFields
  <2> QED BY <2>2, <2>3
<1>4. Wrote(r)
  <2>1. PICK x : x = runs'[r]
    OBVIOUS
  <2>2. DOMAIN x = RunFields /\ x.status = status /\ x.version = 1
    BY <1>3, <2>1
  <2>3. /\ IsRecord(x) /\ Present(x)
        /\ runs[r].status \in TerminalStatus => x.status = runs[r].status
    BY <1>1, <1>2, <2>2, StartedRecord
  <2> QED BY <1>3, <2>1, <2>3 DEF Wrote
<1>5. \A d \in Definition :
        /\ latest'[d].runId \in {latest[d].runId, r}
        /\ latest'[d].runId = latest[d].runId \/ d \in Scope[r]
        /\ DOMAIN latest'[d] = DOMAIN latest[d]
  <2>1. latest' = [d \in Definition |->
                    IF d \in Scope[r] THEN [latest[d] EXCEPT !.runId = r]
                    ELSE latest[d]]
    BY DEF SqlWriteRunState, runVars
  <2>2. \A d \in Definition : DOMAIN latest[d] = {"runId", "status", "finished",
                                 "definitionStatus", "version"}
    BY DEF RunInv, RunTypes
  <2> QED BY <2>1, <2>2
<1>6. RunTypes'
  <2>1. latest' = [d \in Definition |-> latest'[d]]
    BY DEF SqlWriteRunState, runVars
  <2>2. runs' = [q \in Run |-> runs'[q]] /\ \A q \in Run : IsRecord(runs'[q])
    BY <1>1, <1>3, <1>4 DEF Wrote
  <2> QED BY <1>5, <2>1, <2>2 DEF RunInv, RunTypes, IsRecord
<1>7. \A q \in Run : Present(runs[q]) => Present(runs'[q])
  BY <1>4, WroteOthers
<1>8. LatestNamesRecord'
  <2>1. Present(runs'[r])
    BY <1>4 DEF Wrote
  <2> QED BY <1>5, <1>7, <2>1 DEF RunInv, RunTypes, LatestNamesRecord, Present
<1>9. OutcomesFit'
  <2>1. ASSUME NEW q \in Run, Present(runs'[q])
        PROVE  /\ DOMAIN runs'[q].definitions = Scope[q]
               /\ \A d \in Scope[q] :
                      runs'[q].definitions[d] # runs'[q].status =>
                          runs'[q].status \in {"succeeded", "failed"}
    <3>1. CASE q = r
      BY <1>2, <1>3, <3>1
    <3>2. CASE q # r
      BY <1>3, <2>1, <3>2 DEF RunInv, OutcomesFit
    <3> QED BY <3>1, <3>2
  <2>2. \A d \in Definition : latest'[d].runId # NoRun =>
                d \in Scope[latest'[d].runId]
    BY <1>5 DEF RunInv, OutcomesFit
  <2> QED BY <2>1, <2>2 DEF OutcomesFit, Present
<1>10. SeenFits(c)' /\ RunCallFits(c)'
  BY <1>0, RunIdle DEF Idle, RunPc
<1> QED BY <1>0, <1>4, <1>6, <1>7, <1>8, <1>9, <1>10, RunFrame

LEMMA RunSqlUpdate ==
    ASSUME RunInv, CallShape, NEW c \in Caller, NEW op \in UpdateOp, NEW r \in Run,
           UNCHANGED backend, backend = "sql", SqlUpdateRunState(c, op, r),
           ~Refused(runs[r].status, op)
    PROVE  Wrote(r) /\ RunInv'
<1>0. /\ call'[c] = Idle /\ \A b \in Caller \ {c} : call'[b] = call[b]
      /\ UNCHANGED latest /\ Present(runs[r])
  BY CallMoves DEF SqlUpdateRunState, SingleCall
<1>1. /\ runs = [q \in Run |-> runs[q]] /\ \A q \in Run : IsRecord(runs[q])
  BY DEF RunInv, RunTypes
<1>2. PICK updated, definitions :
        /\ updated = Updated(runs[r], op, r)
        /\ definitions = [d \in Scope[r] |->
                            IF Requested(op) = "none" THEN runs[r].definitions[d]
                            ELSE migrationDefinitionRunStatus(d,
                                    Transition(runs[r].status, op).status,
                                    Outcomes(op, r))]
        /\ runs' = [runs EXCEPT ![r] = [updated EXCEPT !.definitions = definitions]]
        /\ ~Refused(runs[r].status, op)
  <2> DEFINE u == Updated(runs[r], op, r)
  <2>1. u.definitions = runs[r].definitions
    BY <1>1, UpdatedRecord
  <2> HIDE DEF u
  <2>2. runs' = [runs EXCEPT ![r] = [u EXCEPT
                    !.definitions = [d \in Scope[r] |->
                        IF Requested(op) = "none" THEN u.definitions[d]
                        ELSE migrationDefinitionRunStatus(d,
                                Transition(runs[r].status, op).status,
                                Outcomes(op, r))]]]
        /\ ~Refused(runs[r].status, op)
    BY DEF SqlUpdateRunState, u
  <2> QED BY <2>1, <2>2 DEF u
<1>3. /\ DOMAIN runs'[r] = RunFields
      /\ runs'[r].status = Transition(runs[r].status, op).status
      /\ runs'[r].definitions = definitions /\ runs'[r].version = runs[r].version
      /\ \A q \in Run \ {r} : runs'[q] = runs[q]
      /\ runs' = [runs EXCEPT ![r] = runs'[r]]
  BY <1>1, <1>2, UpdatedRecord DEF RunFields
<1>4. Wrote(r)
  BY <1>0, <1>1, <1>3, UpdateWrites DEF Wrote
<1>5. \A q \in Run : Present(runs[q]) => Present(runs'[q])
  BY <1>4, WroteOthers
<1>6. RunTypes' /\ LatestNamesRecord'
  BY <1>0, <1>4, WroteOthers
<1>7. OutcomesFit'
  <2>1. ASSUME NEW q \in Run, Present(runs'[q])
        PROVE  /\ DOMAIN runs'[q].definitions = Scope[q]
               /\ \A d \in Scope[q] :
                      runs'[q].definitions[d] # runs'[q].status =>
                          runs'[q].status \in {"succeeded", "failed"}
    <3>1. CASE q = r
      <4>1. /\ runs[r].status \in RunStatus
            /\ Transition(runs[r].status, op).accepted
        BY <1>0, <1>1, <1>2 DEF IsRecord, Refused
      <4>2. /\ op \in {"completeRun", "failRun"} =>
                 runs'[r].status \in {"succeeded", "failed", "cancelled"}
            /\ Requested(op) = "none" => runs'[r].status = runs[r].status
        BY <1>3, <4>1, TransitionOutcome
      <4>3. ASSUME NEW d \in Scope[r], runs'[r].definitions[d] # runs'[r].status
            PROVE  runs'[r].status \in {"succeeded", "failed"}
        <5>1. CASE Requested(op) = "none"
          <6>1. runs[r].definitions[d] # runs[r].status
            BY <1>2, <1>3, <4>2, <4>3, <5>1
          <6> QED BY <1>0, <4>2, <5>1, <6>1 DEF RunInv, OutcomesFit
        <5>2. CASE Requested(op) # "none"
          <6>1. migrationDefinitionRunStatus(d, runs'[r].status, Outcomes(op, r))
                    # runs'[r].status
            BY <1>2, <1>3, <4>3, <5>2
          <6>2. /\ runs'[r].status # "cancelled"
                /\ op \in {"completeRun", "failRun"}
            BY <6>1 DEF migrationDefinitionRunStatus, Outcomes
          <6> QED BY <4>2, <6>2
        <5> QED BY <5>1, <5>2
      <4> QED BY <1>2, <1>3, <3>1, <4>3
    <3>2. CASE q # r
      BY <1>3, <2>1, <3>2 DEF RunInv, OutcomesFit
    <3> QED BY <3>1, <3>2
  <2> QED BY <1>0, <2>1 DEF RunInv, OutcomesFit, Present
<1>8. SeenFits(c)' /\ RunCallFits(c)'
  BY <1>0, RunIdle DEF Idle, RunPc
<1> QED BY <1>0, <1>4, <1>5, <1>6, <1>7, <1>8, RunFrame

\* The Files SDK store writes the record, and the pointers after it.
LEMMA RunFsStart ==
    ASSUME RunInv, CallShape, NEW c \in Caller, NEW op \in StartOp, NEW r \in Run,
           UNCHANGED backend, backend = "files", FsStart(c, op, r)
    PROVE  Wrote(r) /\ RunInv'
<1>0. /\ call'[c] = [pc |-> "write-pointers", op |-> op, run |-> r,
                     todo |-> Scope[r]]
      /\ \A b \in Caller \ {c} : call'[b] = call[b]
      /\ UNCHANGED latest
  BY CallMoves DEF FsStart
<1>1. /\ runs = [q \in Run |-> runs[q]] /\ \A q \in Run : IsRecord(runs[q])
  BY DEF RunInv, RunTypes
<1>2. PICK x, status, predecessors, created :
        /\ status = Transition(runs[r].status, op).status
        /\ x = [runs[r] EXCEPT !.status = status,
                        !.predecessors = predecessors,
                        !.version = 1, !.created = created]
        /\ runs' = [runs EXCEPT ![r] = x]
  BY DEF FsStart
<1>3. /\ DOMAIN x = RunFields /\ x.status = status /\ x.version = 1
      /\ x.definitions = runs[r].definitions
  BY <1>1, <1>2 DEF IsRecord, RunFields
<1>4. /\ IsRecord(x) /\ Present(x)
      /\ runs[r].status \in TerminalStatus => x.status = runs[r].status
  <2>1. IsRecord(runs[r]) /\ status = Transition(runs[r].status, op).status
    BY <1>1, <1>2
  <2>2. DOMAIN x = RunFields /\ x.status = status /\ x.version = 1
    BY <1>3
  <2> QED BY <2>1, <2>2, StartedRecord
<1>5. runs'[r] = x /\ \A q \in Run \ {r} : runs'[q] = runs[q]
  BY <1>1, <1>2
<1>6. Wrote(r)
  BY <1>2, <1>4, <1>5 DEF Wrote
<1>7. \A q \in Run : Present(runs[q]) => Present(runs'[q])
  BY <1>6, WroteOthers
<1>8. RunTypes' /\ LatestNamesRecord'
  BY <1>0, <1>6, WroteOthers
<1>9. OutcomesFit'
  <2>1. runs[r].definitions # {} => runs[r].definitions = x.definitions
    BY <1>3
  <2>2. DOMAIN x.definitions # {} => x.status \in {"succeeded", "failed", "cancelled"}
    BY <1>3, <1>4 DEF RunInv, OutcomesFit, TerminalStatus
  <2>3. \A q \in Run : DOMAIN runs'[q].definitions # {} =>
              runs'[q].status \in {"succeeded", "failed", "cancelled"}
    BY <1>5, <2>2 DEF RunInv, OutcomesFit
  <2> QED BY <2>3 DEF OutcomesFit
<1>10. SeenFits(c)' /\ RunCallFits(c)'
  BY <1>0, <1>4, <1>5 DEF SeenFits, RunCallFits
<1> QED BY <1>0, <1>6, <1>7, <1>8, <1>9, <1>10, RunFrame

LEMMA RunFsPointer ==
    ASSUME RunInv, CallShape, NEW c \in Caller, UNCHANGED backend,
           backend = "files", FsWritePointer(c)
    PROVE  RunInv'
<1> DEFINE k == call[c]
<1>1. /\ k.pc = "write-pointers" /\ k.run \in Run /\ Present(runs[k.run])
      /\ {"run", "todo", "pc"} \subseteq DOMAIN k
  BY DEF FsWritePointer, RunInv, RunCallFits, CallShape
<1>2. PICK todo : call'[c] \in {Idle, [k EXCEPT !.todo = todo]}
  <2>1. Continue(c, IF k.todo = {Min(k.todo)} THEN Idle
                    ELSE [k EXCEPT !.todo = @ \ {Min(k.todo)}])
    BY DEF FsWritePointer
  <2>2. call'[c] = IF k.todo = {Min(k.todo)} THEN Idle
                    ELSE [k EXCEPT !.todo = @ \ {Min(k.todo)}]
    BY <2>1, CallMoves
  <2> QED BY <2>2
<1>3. /\ \A b \in Caller \ {c} : call'[b] = call[b]
      /\ UNCHANGED runs
  BY CallMoves DEF FsWritePointer
<1>4. \A d \in Definition : latest'[d].runId \in {latest[d].runId, k.run}
                            /\ DOMAIN latest'[d] = DOMAIN latest[d]
  BY DEF FsWritePointer, RunInv, RunTypes
<1>5. latest' = [d \in Definition |-> latest'[d]]
  BY DEF FsWritePointer, RunInv, RunTypes
<1>6. RunTypes'
  BY <1>1, <1>3, <1>4, <1>5 DEF RunInv, RunTypes
<1>7. LatestNamesRecord'
  BY <1>1, <1>3, <1>4 DEF RunInv, LatestNamesRecord
<1>8. OutcomesFit'
  BY <1>3 DEF RunInv, OutcomesFit
<1>9. SeenFits(c)' /\ RunCallFits(c)'
  <2>1. CASE call'[c] = Idle
    BY <2>1, RunIdle DEF Idle, RunPc
  <2>2. CASE call'[c] = [k EXCEPT !.todo = todo]
    BY <1>1, <1>3, <2>2 DEF SeenFits, RunCallFits
  <2> QED BY <1>2, <2>1, <2>2
<1> QED BY <1>3, <1>6, <1>7, <1>8, <1>9, RunFrame

LEMMA RunFsUpdate ==
    ASSUME RunInv, CallShape, NEW c \in Caller, NEW op \in UpdateOp, NEW r \in Run,
           UNCHANGED backend, backend = "files", FsUpdate(c, op, r),
           ~Refused(runs[r].status, op)
    PROVE  Wrote(r) /\ RunInv'
<1>0. /\ call'[c] = Idle /\ \A b \in Caller \ {c} : call'[b] = call[b]
      /\ UNCHANGED latest /\ Present(runs[r])
  BY CallMoves DEF FsUpdate, SingleCall
<1>1. /\ runs = [q \in Run |-> runs[q]] /\ \A q \in Run : IsRecord(runs[q])
  BY DEF RunInv, RunTypes
<1>2. PICK x, definitions :
        /\ definitions = IF op \in {"completeRun", "failRun"}
                         THEN Outcomes(op, r) ELSE runs[r].definitions
        /\ x = [Updated(runs[r], op, r) EXCEPT !.definitions = definitions]
        /\ runs' = [runs EXCEPT ![r] = x]
        /\ ~Refused(runs[r].status, op)
  <2> DEFINE u == Updated(runs[r], op, r)
  <2>1. u.definitions = runs[r].definitions
    BY <1>1, UpdatedRecord
  <2> HIDE DEF u
  <2>2. runs' = [runs EXCEPT ![r] = [u EXCEPT
                    !.definitions = IF op \in {"completeRun", "failRun"}
                                    THEN Outcomes(op, r) ELSE u.definitions]]
        /\ ~Refused(runs[r].status, op)
    BY DEF FsUpdate, u
  <2> QED BY <2>1, <2>2 DEF u
<1>3. /\ DOMAIN x = RunFields
      /\ x.status = Transition(runs[r].status, op).status
      /\ x.definitions = definitions /\ x.version = runs[r].version
  BY <1>1, <1>2, UpdatedRecord DEF RunFields
<1>4. /\ IsRecord(x) /\ Present(x)
      /\ runs[r].status \in TerminalStatus => x.status = runs[r].status
  BY <1>0, <1>1, <1>3, UpdateWrites
<1>5. runs'[r] = x /\ \A q \in Run \ {r} : runs'[q] = runs[q]
  BY <1>1, <1>2
<1>6. Wrote(r)
  BY <1>2, <1>4, <1>5 DEF Wrote
<1>7. \A q \in Run : Present(runs[q]) => Present(runs'[q])
  BY <1>6, WroteOthers
<1>8. RunTypes' /\ LatestNamesRecord'
  BY <1>0, <1>6, WroteOthers
<1>9. OutcomesFit'
  <2>1. /\ runs[r].status \in RunStatus
        /\ Transition(runs[r].status, op).accepted
    BY <1>0, <1>1, <1>2 DEF IsRecord, Refused
  <2>2. op \in {"completeRun", "failRun"} =>
            x.status \in {"succeeded", "failed", "cancelled"}
    BY <1>3, <2>1, TransitionOutcome
  <2>3. op \notin {"completeRun", "failRun"} /\ DOMAIN x.definitions # {} =>
            x.status \in {"succeeded", "failed", "cancelled"}
    BY <1>2, <1>3, <1>4 DEF RunInv, OutcomesFit, TerminalStatus
  <2>4. \A q \in Run : DOMAIN runs'[q].definitions # {} =>
              runs'[q].status \in {"succeeded", "failed", "cancelled"}
    BY <1>5, <2>2, <2>3 DEF RunInv, OutcomesFit
  <2> QED BY <2>4 DEF OutcomesFit
<1>10. SeenFits(c)' /\ RunCallFits(c)'
  BY <1>0, RunIdle DEF Idle, RunPc
<1> QED BY <1>0, <1>6, <1>7, <1>8, <1>9, <1>10, RunFrame

\* The Commercetools store writes the record under the version it read.
LEMMA RunCtWrite ==
    ASSUME RunInv, CallShape, NEW c \in Caller, UNCHANGED backend,
           backend = "commercetools", CtWriteRun(c)
    PROVE  /\ RunInv'
           /\ runs' # runs => \E r \in Run : Wrote(r)
<1> DEFINE k == call[c]
<1>1. /\ k.pc = "write-run" /\ SeenFits(c) /\ k.run \in Run
      /\ UNCHANGED latest
      /\ {"op", "run", "tries", "seen", "state", "todo"} \subseteq DOMAIN k
  BY DEF CtWriteRun, AtCt, RunInv, SeenFits
<1>2. PICK r \in Run : r = k.run
  BY <1>1
<1>3. \A b \in Caller \ {c} : call'[b] = call[b]
  BY CallMoves DEF CtWriteRun
<1>4. /\ runs = [q \in Run |-> runs[q]] /\ \A q \in Run : IsRecord(runs[q])
  BY DEF RunInv, RunTypes
<1>5. CASE ~SameVersion(runs[r], k.seen)
  <2>1. UNCHANGED <<runs, runVars>>
    BY <1>1, <1>2, <1>5 DEF CtWriteRun, runVars
  <2>2. \/ call'[c] = Idle
        \/ call'[c] = [pc |-> "read-run", op |-> k.op, run |-> r,
                       tries |-> k.tries - 1]
    <3>1. call = [b \in Caller |-> call[b]]
      BY DEF CallShape
    <3> QED BY <1>2, <1>5, <3>1 DEF CtWriteRun, Continue
  <2>3. k.op \in LifecycleOp
    BY <1>1 DEF SeenFits
  <2>4. SeenFits(c)' /\ RunCallFits(c)'
    BY <2>2, <2>3, RunIdle DEF SeenFits, RunCallFits, Idle, RunPc
  <2> QED BY <1>3, <2>1, <2>4, RunQuiet
<1>6. CASE SameVersion(runs[r], k.seen)
  <2>1. /\ k.seen.status = runs[r].status /\ k.state.status \in RunStatus
        /\ runs[r].status \in TerminalStatus => k.state.status = runs[r].status
        /\ DOMAIN k.state = RunFields
    BY <1>1, <1>2, <1>6 DEF SeenFits, SameVersion
  <2>2. PICK w : w = Written(k.state, runs[r])
    OBVIOUS
  <2>3. PICK x, created :
          /\ x = [w EXCEPT !.created = created]
          /\ runs' = [runs EXCEPT ![r] = x]
    BY <1>2, <1>6, <2>2 DEF CtWriteRun
  <2>4. runs[r].version \in Nat
    BY <1>4 DEF IsRecord
  <2>5. /\ DOMAIN x = RunFields /\ x.status = k.state.status
        /\ x.version = runs[r].version + 1
    BY <2>1, <2>2, <2>3 DEF Written, RunFields
  <2>6. x.status # "none" /\ x.status \in RunStatus
    BY <2>1, <2>5 DEF RunStatus, ActiveStatus, TerminalStatus
  <2>7. IsRecord(x) /\ Present(x) /\ x.version > runs[r].version
    BY <2>4, <2>5, <2>6 DEF IsRecord, Present
  <2>8. runs'[r] = x /\ \A q \in Run \ {r} : runs'[q] = runs[q]
    BY <1>4, <2>3
  <2>9. Wrote(r)
    BY <2>1, <2>3, <2>5, <2>7, <2>8 DEF Wrote
  <2>10. /\ \A q \in Run : Present(runs[q]) => Present(runs'[q])
         /\ RunTypes' /\ LatestNamesRecord'
    BY <1>1, <2>9, WroteOthers
  <2>11. OutcomesFit'
    BY DEF OutcomesFit
  <2>12. \/ call'[c] = Idle
         \/ call'[c] = [pc |-> "read-projection", op |-> k.op, run |-> r,
                        state |-> k.state, todo |-> k.todo, tries |-> MaxTries]
    <3>1. call = [b \in Caller |-> call[b]]
      BY DEF CallShape
    <3> QED BY <1>2, <1>6, <3>1 DEF CtWriteRun, Continue
  <2>13. SeenFits(c)' /\ RunCallFits(c)'
    <3>1. CASE call'[c] = Idle
      BY <3>1, RunIdle DEF Idle, RunPc
    <3>2. CASE call'[c] # Idle
      BY <2>7, <2>8, <2>12, <3>2 DEF SeenFits, RunCallFits
    <3> QED BY <3>1, <3>2
  <2> QED BY <1>3, <2>7, <2>8, <2>9, <2>10, <2>11, <2>13, RunFrame
<1> QED BY <1>5, <1>6

LEMMA RunCtProject ==
    ASSUME RunInv, CallShape, NEW c \in Caller, UNCHANGED backend,
           backend = "commercetools", CtWriteProjection(c)
    PROVE  RunInv' /\ UNCHANGED runs
<1> DEFINE k == call[c]
<1>1. /\ k.pc = "write-projection" /\ k.run \in Run /\ Present(runs[k.run])
      /\ UNCHANGED runs
  BY DEF CtWriteProjection, AtCt, RunInv, RunCallFits
<1>2. \A b \in Caller \ {c} : call'[b] = call[b]
  BY CallMoves DEF CtWriteProjection
<1>3. /\ latest' = [d \in Definition |-> latest'[d]]
      /\ \A d \in Definition :
           \/ latest'[d] = latest[d]
           \/ /\ DOMAIN latest'[d] = {"runId", "status", "finished",
                                 "definitionStatus", "version"}
              /\ latest'[d].runId = k.run
  BY DEF CtWriteProjection, RunInv, RunTypes
<1>4. RunTypes' /\ LatestNamesRecord'
  BY <1>1, <1>3 DEF RunInv, RunTypes, LatestNamesRecord
<1>5. OutcomesFit'
  BY DEF OutcomesFit
<1>6. \/ call'[c] = Idle
      \/ /\ call'[c].pc = "read-projection" /\ call'[c].run = k.run
         /\ {"run", "state", "todo", "tries", "op"} \subseteq DOMAIN call'[c]
  <2>1. call = [b \in Caller |-> call[b]]
    BY DEF CallShape
  <2> QED BY <2>1 DEF CtWriteProjection, CtNextProjection, Continue
<1>7. SeenFits(c)' /\ RunCallFits(c)'
  <2>1. CASE call'[c] = Idle
    BY <2>1, RunIdle DEF Idle, RunPc
  <2>2. CASE call'[c] # Idle
    BY <1>1, <1>6, <2>2 DEF SeenFits, RunCallFits
  <2> QED BY <2>1, <2>2
<1> QED BY <1>1, <1>2, <1>4, <1>5, <1>7, RunFrame

\* A write that the status algebra refuses.
LEMMA RunRefused ==
    ASSUME RunInv, CallShape, NEW c \in Caller, UNCHANGED <<backend, runVars>>,
           SingleCall(c)
    PROVE  RunInv' /\ UNCHANGED runs
<1>1. call'[c] = Idle /\ \A b \in Caller \ {c} : call'[b] = call[b]
  BY CallMoves DEF SingleCall
<1>2. SeenFits(c)' /\ RunCallFits(c)'
  BY <1>1, RunIdle DEF Idle, RunPc
<1> QED BY <1>1, <1>2, RunQuiet DEF runVars

\* Every lifecycle step, and what it writes.
LEMMA RunStep ==
    ASSUME RunInv, CallShape, NEW c \in Caller, Running(c), UNCHANGED backend
    PROVE  /\ RunInv'
           /\ runs' # runs => \E r \in Run : Wrote(r)
<1>1. ASSUME NEW op \in LifecycleOp, NEW r \in Run, backend = "sql",
             SqlLifecycle(c, op, r)
      PROVE  RunInv' /\ (runs' # runs => Wrote(r))
  <2>1. CASE op \in StartOp /\ SqlWriteRunState(c, op, r)
    <3>1. CASE Transition(runs[r].status, op).accepted
      BY <1>1, <2>1, <3>1, RunSqlStart
    <3>2. CASE ~Transition(runs[r].status, op).accepted
      BY <2>1, <3>2, RunRefused DEF SqlWriteRunState
    <3> QED BY <3>1, <3>2
  <2>2. CASE op \in UpdateOp /\ SqlUpdateRunState(c, op, r)
    <3>1. CASE ~Refused(runs[r].status, op)
      BY <1>1, <2>2, <3>1, RunSqlUpdate
    <3>2. CASE Refused(runs[r].status, op)
      BY <2>2, <3>2, RunRefused DEF SqlUpdateRunState, runVars
    <3> QED BY <3>1, <3>2
  <2> QED BY <1>1, <2>1, <2>2 DEF SqlLifecycle
<1>2. CASE /\ backend = "commercetools"
           /\ \/ \E op \in LifecycleOp, r \in Run : CtLifecycle(c, op, r)
              \/ CtReadForStart(c) \/ CtReadPredecessor(c)
              \/ CtReadForUpdate(c) \/ CtReadLatest(c) \/ CtReadProjection(c)
  <2>1. UNCHANGED runs
    BY <1>2 DEF CtLifecycle, CtReadForStart, CtReadPredecessor, CtReadForUpdate,
                CtReadLatest, CtReadProjection, runVars
  <2> QED BY <1>2, <2>1, RunCtReads
<1>3. CASE backend = "commercetools" /\ CtWriteRun(c)
  BY <1>3, RunCtWrite
<1>4. CASE backend = "commercetools" /\ CtWriteProjection(c)
  BY <1>4, RunCtProject
<1>5. ASSUME NEW op \in LifecycleOp, NEW r \in Run, backend = "files",
             FsLifecycle(c, op, r)
      PROVE  RunInv' /\ (runs' # runs => Wrote(r))
  <2>1. CASE op \in StartOp /\ FsStart(c, op, r)
    BY <1>5, <2>1, RunFsStart
  <2>2. CASE op \in UpdateOp /\ FsUpdate(c, op, r)
    <3>1. CASE ~Refused(runs[r].status, op)
      BY <1>5, <2>2, <3>1, RunFsUpdate
    <3>2. CASE Refused(runs[r].status, op)
      BY <2>2, <3>2, RunRefused DEF FsUpdate, runVars
    <3> QED BY <3>1, <3>2
  <2> QED BY <1>5, <2>1, <2>2 DEF FsLifecycle
<1>6. CASE backend = "files" /\ FsLifecycleStep(c)
  BY <1>6, RunFsPointer DEF FsLifecycleStep, FsWritePointer
<1>7. \/ \E op \in LifecycleOp, r \in Run : backend = "sql" /\ SqlLifecycle(c, op, r)
      \/ /\ backend = "commercetools"
         /\ \/ \E op \in LifecycleOp, r \in Run : CtLifecycle(c, op, r)
            \/ CtReadForStart(c) \/ CtReadPredecessor(c)
            \/ CtReadForUpdate(c) \/ CtReadLatest(c) \/ CtReadProjection(c)
      \/ backend = "commercetools" /\ (CtWriteRun(c) \/ CtWriteProjection(c))
      \/ \E op \in LifecycleOp, r \in Run : backend = "files" /\ FsLifecycle(c, op, r)
      \/ backend = "files" /\ FsLifecycleStep(c)
  BY DEF Running, CtLifecycleStep
<1> QED BY <1>1, <1>2, <1>3, <1>4, <1>5, <1>6, <1>7

\* The other families leave the records alone.
LEMMA RunElsewhere ==
    ASSUME RunInv, CallShape, NEW c \in Caller, UNCHANGED backend,
           Locking(c) \/ Working(c) \/ LoseCall(c)
    PROVE  RunInv' /\ UNCHANGED runs
<1>1. UNCHANGED <<runs, runVars>>
  BY LockingMoves, WorkingMoves DEF LoseCall, runVars
<1>2. \E Pc \in {{}, LockPc, ItemPc} : Moves(c, Pc)
  BY LockingMoves, WorkingMoves, LoseMoves
<1>3. /\ \A b \in Caller \ {c} : call'[b] = call[b]
      /\ call'[c].pc \notin RunPc
  BY <1>2 DEF Moves, CallShape, RunPc, LockPc, ItemPc
<1>4. SeenFits(c)' /\ RunCallFits(c)'
  BY <1>3, RunIdle
<1> QED BY <1>1, <1>3, <1>4, RunQuiet

LEMMA RunNext ==
    ASSUME CallShape, RunInv, [StoresNext(Families)]_backendVars
    PROVE  RunInv' /\ (runs' = runs \/ \E r \in Run : UNCHANGED backend /\ Wrote(r))
<1>1. CASE UNCHANGED backendVars
  <2>1. UNCHANGED <<backend, runs, latest, call>>
    BY <1>1 DEF backendVars
  <2>2. RunTypes' /\ LatestNamesRecord' /\ OutcomesFit'
    BY <2>1 DEF RunInv, RunTypes, LatestNamesRecord, OutcomesFit
  <2>3. \A c \in Caller : SeenFits(c)' /\ RunCallFits(c)'
    BY <2>1 DEF RunInv, SeenFits, RunCallFits
  <2> QED BY <2>1, <2>2, <2>3 DEF RunInv
<1>2. ASSUME NEW c \in Caller, UNCHANGED backend, Running(c)
      PROVE  RunInv' /\ (runs' = runs \/ \E r \in Run : Wrote(r))
  BY <1>2, RunStep
<1> QED BY <1>1, <1>2, StepKinds, RunElsewhere

LEMMA RunsInvariant == StoresSpec => [](CallShape /\ RunInv)
<1>1. StoresInit => CallShape /\ RunInv
  BY RunInit, LockInit, StoreBackendAssumption DEF StoreBackendAssumption
<1>2. CallShape /\ RunInv /\ [StoresNext(Families)]_backendVars
        => (CallShape /\ RunInv)'
  BY ShapeStep, RunNext
<1> QED BY <1>1, <1>2, PTL DEF StoresSpec

(***************************************************************************)
(* Whatever the requests of other callers did between the read and the     *)
(* write of a lifecycle operation, a finished run keeps the status it      *)
(* ended with (TerminalNeverRevived), in every backend.                    *)
(***************************************************************************)
THEOREM StoresTerminalNeverRevived == StoresSpec => TerminalNeverRevived
<1>1. CallShape /\ RunInv /\ [StoresNext(Families)]_backendVars =>
        [\A r \in Run : runs[r].status \in TerminalStatus =>
            runs'[r].status = runs[r].status]_backendVars
  BY RunNext, WroteOthers
<1> QED BY <1>1, RunsInvariant, PTL DEF StoresSpec, TerminalNeverRevived

\* The first half of LatestShowsRecord in every backend: the latest run of a
\* definition has a record.
THEOREM StoresLatestHasRecord == StoresSpec => []LatestNamesRecord
<1>1. CallShape /\ RunInv => LatestNamesRecord
  BY DEF RunInv
<1> QED BY <1>1, RunsInvariant, PTL

(***************************************************************************)
(* In the SQL and Files SDK stores a projection names a run that has a     *)
(* record, shows its status, and an outcome of its own only of a run that  *)
(* ended without being stopped (LatestShowsRecord): even while calls are   *)
(* under way, and whichever of them were lost.                             *)
(***************************************************************************)
THEOREM StoresLatestShowsRecord ==
    StoresSpec => [](backend # "commercetools" => LatestShowsRecord)
<1>1. ASSUME RunInv, backend # "commercetools" PROVE LatestShowsRecord
  <2> SUFFICES ASSUME NEW d \in Definition, latest[d].runId # NoRun
               PROVE  LET record == runs[latest[d].runId]
                          shown == getLatestRunState(d)
                      IN /\ record.status # "none"
                         /\ shown.status = record.status
                         /\ shown.definitionStatus # record.status =>
                                record.status \in {"succeeded", "failed"}
    BY <1>1 DEF LatestShowsRecord
  <2>1. PICK r \in Run : r = latest[d].runId
    BY <1>1 DEF RunInv, RunTypes
  <2>2. /\ Present(runs[r]) /\ IsRecord(runs[r]) /\ runs[r].status # "none"
    BY <1>1, <2>1 DEF RunInv, RunTypes, LatestNamesRecord, IsRecord
  <2>3. backend \in {"sql", "files"}
    BY <1>1 DEF RunInv, RunTypes, Backend, OutcomesFit
  <2>4. CASE backend = "sql"
    <3>1. getLatestRunState(d) = [status |-> runs[r].status,
                                  definitionStatus |-> runs[r].definitions[d]]
      BY <2>1, <2>4 DEF getLatestRunState
    <3>2. d \in Scope[r]
      BY <1>1, <2>1, <2>4 DEF RunInv, OutcomesFit
    <3>3. runs[r].definitions[d] # runs[r].status =>
              runs[r].status \in {"succeeded", "failed"}
      BY <1>1, <2>2, <2>4, <3>2 DEF RunInv, OutcomesFit
    <3> QED BY <2>1, <2>2, <3>1, <3>3
  <2>5. CASE backend = "files"
    <3>1. getLatestRunState(d) =
              [status |-> runs[r].status,
               definitionStatus |-> migrationDefinitionRunStatus(
                                d, runs[r].status, runs[r].definitions)]
      BY <2>1, <2>5 DEF getLatestRunState
    <3>2. migrationDefinitionRunStatus(d, runs[r].status, runs[r].definitions)
              # runs[r].status =>
                  runs[r].status \in {"succeeded", "failed"}
      BY <1>1, <2>5 DEF RunInv, OutcomesFit, migrationDefinitionRunStatus
    <3> QED BY <2>1, <2>2, <3>1, <3>2
  <2> QED BY <2>3, <2>4, <2>5
<1>2. CallShape /\ RunInv => (backend # "commercetools" => LatestShowsRecord)
  BY <1>1
<1> QED BY <1>2, RunsInvariant, PTL

-----------------------------------------------------------------------------
(* The schema *)

LEMMA CurrentPlan ==
    ASSUME Target \in Nat \ {0}, SchemaInv, planSchema = "current"
    PROVE  hasHistory /\ applied = Target /\ shape = Target
BY DEF SchemaInv, planSchema, shapeIssues

\* A process moves, and the database stays.
LEMMA OpenerMoves ==
    ASSUME Target \in Nat \ {0}, SchemaInv, NEW p \in Opener, NEW x,
           "pc" \in DOMAIN x, UNCHANGED databaseVars,
           opener' = [opener EXCEPT ![p] = x],
           x.pc = "opened" => planSchema = "current"
    PROVE  SchemaInv'
BY CurrentPlan DEF SchemaInv, databaseVars, OpenedStoreIsComplete

LEMMA GoMoves ==
    ASSUME SchemaInv, NEW p \in Opener, NEW pc, Go(p, pc)
    PROVE  \E x : /\ "pc" \in DOMAIN x /\ x.pc = pc
                  /\ opener' = [opener EXCEPT ![p] = x]
<1>1. PICK x : x = [opener[p] EXCEPT !.pc = pc]
  OBVIOUS
<1>2. /\ "pc" \in DOMAIN x /\ x.pc = pc
      /\ opener' = [opener EXCEPT ![p] = x]
  BY <1>1 DEF SchemaInv, Go
<1> QED BY <1>2

\* A process changes the database: it leaves a complete schema complete.
LEMMA DatabaseMoves ==
    ASSUME SchemaInv, NEW p \in Opener, NEW pc, Go(p, pc), pc # "opened",
           hasHistory' \in BOOLEAN, applied' \in Nat, shape' \in Nat,
           applied' <= Target => shape' <= Target,
           hasHistory /\ applied = Target /\ shape = Target =>
               hasHistory' /\ applied' = Target /\ shape' = Target
    PROVE  SchemaInv'
<1>1. PICK x : /\ "pc" \in DOMAIN x /\ x.pc = pc
               /\ opener' = [opener EXCEPT ![p] = x]
  BY GoMoves
<1> QED BY <1>1 DEF SchemaInv, OpenedStoreIsComplete

LEMMA SchemaStep ==
    ASSUME Target \in Nat \ {0}, SchemaInv, [SchemaNext]_schemaVars
    PROVE  SchemaInv'
<1>1. CASE UNCHANGED schemaVars
  BY <1>1 DEF schemaVars, SchemaInv, OpenedStoreIsComplete
<1>2. ASSUME NEW p \in Opener,
             \/ PrepareStore(p) \/ PlanUpgrade(p) \/ ApplyPlan(p)
             \/ Postflight(p) \/ OpenerDies(p)
      PROVE  SchemaInv'
  <2>1. CASE PrepareStore(p)
    <3> DEFINE pc == CASE planSchema = "not-installed"
                            /\ opener[p].initialize -> "apply"
                        [] planSchema = "current" -> "opened"
                        [] OTHER -> "refused"
    <3>1. pc = "opened" => planSchema = "current"
      OBVIOUS
    <3>2. PICK x : x = [opener[p] EXCEPT !.pc = pc, !.plan = PlanId]
      OBVIOUS
    <3>3. /\ "pc" \in DOMAIN x /\ x.pc = pc
          /\ opener' = [opener EXCEPT ![p] = x]
      BY <2>1, <3>2 DEF PrepareStore, SchemaInv
    <3> HIDE DEF pc
    <3> QED BY <2>1, <3>1, <3>3, OpenerMoves DEF PrepareStore
  <2>2. CASE PlanUpgrade(p)
    <3>1. PICK x : x = [opener[p] EXCEPT !.pc = "apply", !.plan = PlanId]
      OBVIOUS
    <3>2. /\ "pc" \in DOMAIN x /\ x.pc = "apply"
          /\ opener' = [opener EXCEPT ![p] = x]
      BY <2>2, <3>1 DEF PlanUpgrade, SchemaInv
    <3> QED BY <2>2, <3>2, OpenerMoves DEF PlanUpgrade
  <2>3. CASE ApplyPlan(p) \/ Postflight(p) \/ OpenerDies(p)
    <3>1. PICK pc : Go(p, pc) /\ (pc = "opened" => planSchema = "current")
      BY <2>3 DEF ApplyPlan, Postflight, OpenerDies
    <3>2. PICK x : /\ "pc" \in DOMAIN x /\ x.pc = pc
                   /\ opener' = [opener EXCEPT ![p] = x]
      BY <3>1, GoMoves
    <3>3. UNCHANGED databaseVars
      BY <2>3 DEF ApplyPlan, Postflight, OpenerDies
    <3> QED BY <3>1, <3>2, <3>3, OpenerMoves
  <2> QED BY <1>2, <2>1, <2>2, <2>3
<1>3. ASSUME NEW p \in Opener, EnsureHistory(p) PROVE SchemaInv'
  <2>1. Go(p, "run-migrations") /\ hasHistory' /\ UNCHANGED <<applied, shape>>
    BY <1>3 DEF EnsureHistory
  <2> QED BY <1>3, <2>1, DatabaseMoves DEF EnsureHistory, SchemaInv
<1>4. ASSUME NEW p \in Opener, RunMigrations(p) PROVE SchemaInv'
  <2>1. /\ Go(p, "postflight") \/ Go(p, "changes")
        /\ UNCHANGED hasHistory /\ hasHistory' \in BOOLEAN
        /\ \/ UNCHANGED <<applied, shape>>
           \/ applied < Target /\ applied' = Target /\ shape' \in {shape, Target}
    BY <1>4 DEF RunMigrations, SchemaInv
  <2>2. /\ applied' \in Nat /\ shape' \in Nat
        /\ applied' <= Target => shape' <= Target
        /\ applied = Target /\ shape = Target => applied' = Target /\ shape' = Target
    BY <2>1 DEF SchemaInv
  <2> QED BY <2>1, <2>2, DatabaseMoves
<1>5. ASSUME NEW p \in Opener, CommitChange(p) PROVE SchemaInv'
  <2>1. /\ Go(p, "postflight") \/ Go(p, "changes")
        /\ UNCHANGED <<hasHistory, applied>> /\ hasHistory' \in BOOLEAN
        /\ shape' = IF shape < Target THEN shape + 1 ELSE shape
    BY <1>5 DEF CommitChange, SchemaInv
  <2>2. /\ applied' \in Nat /\ shape' \in Nat
        /\ applied' <= Target => shape' <= Target
        /\ applied = Target /\ shape = Target => applied' = Target /\ shape' = Target
    BY <2>1 DEF SchemaInv
  <2> QED BY <2>1, <2>2, DatabaseMoves
<1> QED BY <1>1, <1>2, <1>3, <1>4, <1>5 DEF SchemaNext

(***************************************************************************)
(* However many processes open the database of a SQL store, and wherever   *)
(* they die, one that opened has found every table, column and index of    *)
(* this SDK's schema, and nobody takes one away (OpenedStoreIsComplete).   *)
(***************************************************************************)
THEOREM SchemaOpenedStoreIsComplete == SchemaSpec => []OpenedStoreIsComplete
<1>1. SchemaInit => SchemaInv
  <2> SUFFICES ASSUME SchemaInit PROVE SchemaInv
    OBVIOUS
  <2>1. /\ opener = [p \in Opener |-> opener[p]]
        /\ \A p \in Opener : "pc" \in DOMAIN opener[p] /\ opener[p].pc = "start"
    BY DEF SchemaInit
  <2>2. hasHistory \in BOOLEAN
    BY DEF SchemaInit
  <2>3. /\ applied \in Nat /\ shape \in Nat
        /\ applied <= Target => shape <= Target
    <3>1. CASE applied = 0 /\ shape \in {0, 1}
      BY <3>1, SchemaAssumption DEF SchemaAssumption
    <3>2. CASE applied \in 1 .. Target + 1 /\ shape = applied
      BY <3>2, SchemaAssumption DEF SchemaAssumption
    <3> QED BY <3>1, <3>2 DEF SchemaInit
  <2> QED BY <2>1, <2>2, <2>3 DEF SchemaInv, OpenedStoreIsComplete
<1>2. SchemaInv /\ [SchemaNext]_schemaVars => SchemaInv'
  BY SchemaStep, SchemaAssumption DEF SchemaAssumption
<1>3. SchemaInv => OpenedStoreIsComplete
  BY DEF SchemaInv
<1> QED BY <1>1, <1>2, <1>3, PTL DEF SchemaSpec
=============================================================================
