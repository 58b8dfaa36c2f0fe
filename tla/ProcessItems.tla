----------------------------- MODULE ProcessItems -----------------------------
(***************************************************************************)
(* One group of source items between its scheduling and its recorded       *)
(* outcomes: admission, the item or batch pipeline, its tracking scope,    *)
(* reference lookups with their stubs, and the stub run scope that leases  *)
(* a definition outside the run (runtime/process-source-item.ts,           *)
(* services/tracking.ts, runtime/migration-reference-lookup-layer.ts and   *)
(* makeStubRunScope of services/migration-run-executor.ts).  The items of  *)
(* the group run in fibers of their own; each read and each write of the   *)
(* store is a step.  A pipeline is the migration author's code: it may     *)
(* record changes, stage records, look up references and end in any way.   *)
(***************************************************************************)
EXTENDS Naturals, Sequences, FiniteSets

CONSTANTS
    GroupSizeOf,    \* source items of the group are 1 .. GroupSizeOf
    Other,          \* identities of a referenced definition outside the run
    OwnReferences   \* identities of the group that its pipelines look up

Member == 1 .. GroupSizeOf

ASSUME ItemsAssumption ==
    GroupSizeOf \in Nat /\ OwnReferences \subseteq Member

\* Identities a lookup may name.
Reference == Other \cup OwnReferences

VARIABLES
    tracked,    \* tracked[x]: the stored Migration Item State of identity x
    declared,   \* the definition declares a Tracking Record Contract
    batched,    \* the definition has processBatch instead of process
    group,      \* where the group is
    fiber,      \* fiber[i]: where the fiber of item i is
    previous,   \* previous[i]: the state admitSourceItem read
    admission,  \* admission[i]: the outcome of an item admission completed
    reported,   \* reported[i]: the outcome recorded for item i
    written,    \* history: what the settlement of item i stored
    asking,     \* asking[i]: the reference item i waits for
    stubs,      \* stubs[x]: stubRequests, and who owns a pending one
    stubRead,   \* stubRead[x]: the state the stub of x was started from
    stubRuns,   \* history: stub pipelines run for x
    lease,      \* the lease of the referenced definition, and its owner
    otherLock,  \* who holds the referenced definition's lock
    otherRun,   \* the run begun for the lease
    contract    \* the stored Migration Contract of the referenced definition

pipelineVars == <<fiber, previous, admission, reported, written>>
stubVars == <<asking, stubs, stubRead, stubRuns, lease, otherLock, otherRun,
             contract>>
fixedVars == <<declared, batched>>
itemsVars == <<tracked, group, pipelineVars, stubVars, fixedVars>>

-----------------------------------------------------------------------------
(* Item states and tracking scopes *)

Outcome == {"migrated", "skipped", "failed"}

\* journal: the state carries a journal with a process segment.
\* extended: its journal carries extensions.  record: it carries a tracking
\* record.
TrackedState == [status : {"none", "needs-update"} \cup Outcome,
                 journal : BOOLEAN, extended : BOOLEAN, record : BOOLEAN]

Untracked == [status |-> "none", journal |-> FALSE, extended |-> FALSE,
              record |-> FALSE]

\* A state an earlier run left.
MigratedBefore == [Untracked EXCEPT !.status = "migrated", !.journal = TRUE,
                                    !.extended = TRUE, !.record = TRUE]

\* TrackingState: entries, extensions, and the number of staged records (two
\* stands for more than one).
makeProcessScope(before) ==
    [entries |-> FALSE, extended |-> before.extended, records |-> 0]

\* applyJournalExtensions: extensions bring a journal with an empty process
\* segment with them.
applyJournalExtensions(journal, extended) ==
    [journal |-> journal \/ extended, extended |-> extended]

\* MUTANT of KeptItemState: the journal of this attempt replaces the previous.
KeptItemStateForgets(status, before, scope) ==
    LET j == applyJournalExtensions(scope.entries, scope.extended)
    IN [status |-> status, journal |-> j.journal, extended |-> j.extended,
        record |-> before.record]

\* makeFailedItemState and makeSkippedItemState: the previous journal wins over
\* the new one, the previous tracking record stays.
KeptItemState(status, before, scope) ==
    LET j == applyJournalExtensions(before.journal \/ scope.entries,
                                    scope.extended)
    IN [status |-> status, journal |-> j.journal, extended |-> j.extended,
        record |-> before.record]

\* makeMigratedItemState: only what this attempt recorded.
makeMigratedItemState(scope, record) ==
    LET j == applyJournalExtensions(scope.entries, scope.extended)
    IN [status |-> "migrated", journal |-> j.journal, extended |-> j.extended,
        record |-> record]

\* validateStagedTrackingRecord; fits: the record encodes and decodes.
ValidRecords(records, fits) ==
    IF declared THEN records = 1 /\ fits ELSE records = 0

-----------------------------------------------------------------------------
(* Initial states *)

Answered == [kind |-> "answered", ref |-> 0]
NotAsking == [kind |-> "no", ref |-> 0]
NoStub == [kind |-> "none", owner |-> 0]

ItemsInit ==
    /\ tracked \in [Member \cup Other -> {Untracked, MigratedBefore}]
    /\ declared \in BOOLEAN /\ batched \in BOOLEAN
    /\ contract \in {"absent", "current", "changed"}
    /\ group = "open"
    /\ fiber = [i \in Member |-> "new"]
    /\ previous = [i \in Member |-> Untracked]
    /\ admission = [i \in Member |-> "none"]
    /\ reported = [i \in Member |-> "none"]
    /\ written = [i \in Member |-> "none"]
    /\ asking = [i \in Member |-> NotAsking]
    /\ stubs = [x \in Reference |-> NoStub]
    /\ stubRead = [x \in Reference |-> Untracked]
    /\ stubRuns = [x \in Reference |-> 0]
    /\ lease = [state |-> "none", owner |-> 0, failed |-> FALSE]
    /\ otherLock = "free"
    /\ otherRun = "none"

-----------------------------------------------------------------------------
(* Admission *)

At(i, pc) == group = "open" /\ fiber[i] = pc
Goto(i, pc) == fiber' = [fiber EXCEPT ![i] = pc]
\* The fiber of i is over.
Leave(i, pc) == Goto(i, pc) /\ previous' = [previous EXCEPT ![i] = Untracked]
\* The fibers of the whole group are interrupted.
Interrupt ==
    /\ group' = "failing"
    /\ previous' = [i \in Member |-> Untracked]
    /\ asking' = [i \in Member |-> NotAsking]
    /\ UNCHANGED fiber
Store(i, state) ==
    /\ tracked' = [tracked EXCEPT ![i] = state]
    /\ written' = [written EXCEPT ![i] = state.status]

\* store.getItemState of admitSourceItem.
ReadPreviousState(i) ==
    /\ At(i, "new")
    /\ previous' = [previous EXCEPT ![i] = tracked[i]]
    /\ Goto(i, "read")
    /\ UNCHANGED <<tracked, group, admission, reported, written, stubVars,
                   fixedVars>>

\* decodeSourceItemOrPersistFailure, and the stored state that does not decode
\* for the tracking contract: failed, with the previous evidence.
AdmissionFails(i) ==
    /\ At(i, "read")
    /\ Store(i, KeptItemState("failed", previous[i],
                              makeProcessScope(previous[i])))
    /\ admission' = [admission EXCEPT ![i] = "failed"]
    /\ Leave(i, "completed")
    /\ UNCHANGED <<group, reported, stubVars, fixedVars>>

\* isUnchangedTerminalState: the version still is the one that was migrated.
AdmittedUnchanged(i) ==
    /\ At(i, "read")
    /\ previous[i].status = "migrated"
    /\ admission' = [admission EXCEPT ![i] = "unchanged"]
    /\ Leave(i, "completed")
    /\ UNCHANGED <<tracked, group, reported, written, stubVars, fixedVars>>

\* The item is admitted; without a batch its pipeline starts at once.
Admitted(i) ==
    /\ At(i, "read")
    /\ Goto(i, IF batched THEN "admitted" ELSE "running")
    /\ UNCHANGED <<tracked, group, previous, admission, reported, written,
                   stubVars, fixedVars>>

-----------------------------------------------------------------------------
(* The batch pipeline *)

AdmissionsDone == \A i \in Member : fiber[i] \in {"admitted", "completed"}
AdmittedItems == {i \in Member : fiber[i] = "admitted"}

\* Settlements processBatch may return: one per admitted item in any order,
\* or a list with a foreign settlement (0), a duplicate or a missing one.
Settlements == UNION {[1 .. n -> {0} \cup Member] :
                      n \in 0 .. Cardinality(AdmittedItems) + 1}

\* validateProcessBatchSettlements
ValidSettlements(s) ==
    /\ \A n \in DOMAIN s : s[n] \in AdmittedItems
    /\ \A m, n \in DOMAIN s : s[m] = s[n] => m = n
    /\ \A i \in AdmittedItems : \E n \in DOMAIN s : s[n] = i

\* runProcessBatch answered with settlements that match: every settlement's
\* effect runs, under the tracking scope of its item.
BatchSettles(s) ==
    /\ group = "open" /\ batched /\ AdmissionsDone /\ AdmittedItems # {}
    /\ s \in Settlements /\ ValidSettlements(s)
    /\ fiber' = [i \in Member |-> IF i \in AdmittedItems THEN "running"
                                  ELSE fiber[i]]
    /\ UNCHANGED <<tracked, group, previous, admission, reported, written,
                   stubVars, fixedVars>>

\* Settlements that do not match, or an error of the store or of the contract
\* raised by processBatch: the group fails before any item is settled.
BatchRejected(s) ==
    /\ group = "open" /\ batched /\ AdmissionsDone /\ AdmittedItems # {}
    /\ s \in Settlements /\ ~ValidSettlements(s)
    /\ Interrupt
    /\ UNCHANGED <<tracked, admission, reported, written, stubs, stubRead,
                   stubRuns, lease, otherLock, otherRun, contract, fixedVars>>

\* recoverProcessBatchError: any other error fails every admitted item.
BatchThrows ==
    /\ group = "open" /\ batched /\ AdmissionsDone /\ AdmittedItems # {}
    /\ fiber' = [i \in Member |-> IF i \in AdmittedItems THEN "throwing"
                                  ELSE fiber[i]]
    /\ UNCHANGED <<tracked, group, previous, admission, reported, written,
                   stubVars, fixedVars>>

-----------------------------------------------------------------------------
(* The pipeline of an item, and its Tracking service *)

Running(i) == At(i, "running") /\ asking[i].kind \in {"no", "answered"}

\* What the calls of a pipeline on its Tracking service (recordChange and
\* logDiagnostic, setExtension and removeExtension, setRecord) may leave in its
\* scope; no other fiber sees the scope.
TrackingCalls == [entries : BOOLEAN, extended : BOOLEAN, records : 0 .. 2]

\* The pipeline returns, skips, or fails with an error other than the store's
\* (runProcess, recoverProcessError), and settleAdmittedSourceItem stores the
\* outcome: skipped and failed keep the previous evidence, a success whose
\* staged record does not fit the contract fails.
SettledState(i, how, scope, fits) ==
    IF how = "migrated" /\ ValidRecords(scope.records, fits)
    THEN makeMigratedItemState(scope, declared)
    ELSE KeptItemState(IF how = "skipped" THEN "skipped" ELSE "failed",
                       previous[i], scope)

SettleAdmitted(i, how, scope, fits) ==
    /\ \/ Running(i)
       \/ /\ At(i, "throwing")
          /\ how = "failed" /\ scope = makeProcessScope(previous[i])
    /\ Store(i, SettledState(i, how, scope, fits))
    /\ Leave(i, "settled")
    /\ UNCHANGED <<group, admission, reported, stubVars, fixedVars>>

\* A store error of any call of item i fails the group; the fibers of the
\* other items are interrupted.
StoreErrorIn(i) ==
    /\ group = "open" /\ fiber[i] \notin {"new", "completed", "settled"}
    /\ Interrupt
    /\ UNCHANGED <<tracked, admission, reported, written, stubs, stubRead,
                   stubRuns, lease, otherLock, otherRun, contract, fixedVars>>

\* MUTANT of SettledOutcomes: in the order the batch returned the settlements
\* (last item first), not in the order of the admitted items.
SettledOutcomesAsReturned ==
    LET done == {i \in Member : fiber[i] = "settled"}
    IN [k \in 1 .. Cardinality(done) |->
          written[CHOOSE i \in done :
                    Cardinality({j \in done : j >= i}) = k]]

\* The outcome the k-th admitted item settled with.
SettledOutcomes ==
    LET done == {i \in Member : fiber[i] = "settled"}
    IN [k \in 1 .. Cardinality(done) |->
          written[CHOOSE i \in done :
                    Cardinality({j \in done : j <= i}) = k]]

\* processSourceItemsBatch hands the outcomes back in the order of the items:
\* settledIndex counts the admitted ones.
OutcomesInOrder ==
    [i \in Member |->
       IF fiber[i] = "completed" THEN admission[i]
       ELSE SettledOutcomes[Cardinality({j \in Member : /\ fiber[j] = "settled"
                                                        /\ j <= i})]]

\* recordMigrationOutcome of an item outside a batch, as soon as it settled.
RecordOutcome(i) ==
    /\ group = "open" /\ ~batched
    /\ fiber[i] \in {"completed", "settled"} /\ reported[i] = "none"
    /\ reported' = [reported EXCEPT ![i] = IF fiber[i] = "completed"
                                          THEN admission[i] ELSE written[i]]
    /\ group' = IF \A j \in Member : reported'[j] # "none"
                THEN "recorded" ELSE group
    /\ UNCHANGED <<tracked, fiber, previous, admission, written, stubVars,
                   fixedVars>>

\* recordMigrationOutcome for every item of a batch.
RecordOutcomes ==
    /\ group = "open" /\ batched
    /\ \A i \in Member : fiber[i] \in {"completed", "settled"}
    /\ reported' = OutcomesInOrder
    /\ group' = "recorded"
    /\ UNCHANGED <<tracked, fiber, previous, admission, written, stubVars,
                   fixedVars>>

-----------------------------------------------------------------------------
(* Reference lookup *)

\* validateMigrationContract: a definition without item states takes the
\* current contract; otherwise a stored one must match.
ContractFits ==
    contract = "current" \/ \A x \in Other : tracked[x].status = "none"

\* MigrationReferenceLookup.lookup validates the contract of a target outside
\* the run first (validateLookupTargetContracts caches what it finds); the
\* definitions of the run were validated when it started.
Lookup(i, x) ==
    /\ At(i, "running") /\ asking[i].kind = "no"
    /\ contract' = IF x \in Other /\ ContractFits THEN "current" ELSE contract
    /\ asking' = [asking EXCEPT ![i] =
           IF x \in Other /\ ~ContractFits THEN Answered
           ELSE [kind |-> "find", ref |-> x]]
    /\ UNCHANGED <<tracked, group, pipelineVars, stubs, stubRead, stubRuns,
                   lease, otherLock, otherRun, fixedVars>>

isLookupableState(s) == s.status \in {"migrated", "needs-update"}

\* findExistingReference: a lookupable state answers, with its record or with
\* an error; so does an absent one when no stub was asked for.
ReferenceFound(i) ==
    /\ group = "open" /\ asking[i].kind = "find"
    /\ asking' = [asking EXCEPT ![i] = Answered]
    /\ UNCHANGED <<tracked, group, pipelineVars, stubs, stubRead, stubRuns, lease,
                   otherLock, otherRun, contract, fixedVars>>

\* MUTANT of RequestStub: every request runs the stub.
RequestStubAlways(i) ==
    LET x == asking[i].ref
    IN /\ group = "open" /\ asking[i].kind = "find"
       /\ ~isLookupableState(tracked[x])
       /\ stubs' = [stubs EXCEPT ![x] = [kind |-> "pending", owner |-> i]]
       /\ asking' = [asking EXCEPT ![i].kind = "lease"]
       /\ UNCHANGED <<tracked, group, pipelineVars, stubRead, stubRuns, lease,
                      otherLock, otherRun, contract, fixedVars>>

\* createStubReference: the first request of an identity owns it, the others
\* await its answer.
RequestStub(i) ==
    LET x == asking[i].ref
    IN /\ group = "open" /\ asking[i].kind = "find"
       /\ ~isLookupableState(tracked[x])
       /\ IF stubs[x].kind = "none"
          THEN /\ stubs' = [stubs EXCEPT ![x] = [kind |-> "pending", owner |-> i]]
               /\ asking' = [asking EXCEPT ![i].kind = "lease"]
          ELSE /\ asking' = [asking EXCEPT ![i].kind = "await"]
               /\ UNCHANGED stubs
       /\ UNCHANGED <<tracked, group, pipelineVars, stubRead, stubRuns, lease,
                      otherLock, otherRun, contract, fixedVars>>

\* Deferred.await of a request that was answered.
StubAwaited(i) ==
    /\ group = "open" /\ asking[i].kind = "await"
    /\ stubs[asking[i].ref].kind \in {"made", "refused"}
    /\ asking' = [asking EXCEPT ![i] = Answered]
    /\ UNCHANGED <<tracked, group, pipelineVars, stubs, stubRead, stubRuns, lease,
                   otherLock, otherRun, contract, fixedVars>>

-----------------------------------------------------------------------------
(* The lease of the referenced definition *)

\* getStubDefinitionRun: definitions of the run need no lease of their own;
\* the first request of another one owns the start of its lease.
GetLease(i) ==
    /\ group = "open" /\ asking[i].kind = "lease"
    /\ \/ /\ asking[i].ref \in Member \/ lease.state = "held"
          /\ asking' = [asking EXCEPT ![i].kind = "stub"]
          /\ UNCHANGED lease
       \/ /\ asking[i].ref \in Other /\ lease.state = "none"
          /\ lease' = [lease EXCEPT !.state = "acquire", !.owner = i]
          /\ UNCHANGED asking
    /\ UNCHANGED <<tracked, group, pipelineVars, stubs, stubRead, stubRuns,
                   otherLock, otherRun, contract, fixedVars>>

\* The request is answered with an error; no stub was run.
StubRefused(i) ==
    /\ stubs' = [stubs EXCEPT ![asking[i].ref].kind = "refused"]
    /\ asking' = [asking EXCEPT ![i] = Answered]

\* A lease that could not be started fails every later request.
LeaseRefused(i) ==
    /\ group = "open" /\ asking[i].kind = "lease" /\ asking[i].ref \in Other
    /\ lease.state = "refused"
    /\ StubRefused(i)
    /\ UNCHANGED <<tracked, group, pipelineVars, stubRead, stubRuns, lease,
                   otherLock, otherRun, contract, fixedVars>>

\* startStubDefinitionRun is uninterruptible: it goes on when the group fails.
\* The lock may be refused: another process holds it, or the store errs.
AcquireLease ==
    /\ group \in {"open", "failing"} /\ lease.state = "acquire"
    /\ \/ /\ otherLock = "free" /\ otherLock' = "ours"
          /\ lease' = [lease EXCEPT !.state = "validate"]
       \/ /\ lease' = [lease EXCEPT !.state = "refused"]
          /\ UNCHANGED otherLock
    /\ UNCHANGED <<tracked, group, pipelineVars, asking, stubs, stubRead, stubRuns,
                   otherRun, contract, fixedVars>>

\* MUTANT of BeginLease: a failed validation keeps the lock.
BeginLeaseLeaks ==
    /\ group \in {"open", "failing"} /\ lease.state = "validate"
    /\ \/ /\ ContractFits
          /\ lease' = [lease EXCEPT !.state = "held"]
          /\ otherRun' = "running"
       \/ /\ lease' = [lease EXCEPT !.state = "refused"]
          /\ UNCHANGED otherRun
    /\ UNCHANGED <<tracked, group, pipelineVars, asking, stubs, stubRead, stubRuns,
                   otherLock, contract, fixedVars>>

\* validateStubMigrationContract and beginRun; a failure of either releases
\* the lock again.
BeginLease ==
    /\ group \in {"open", "failing"} /\ lease.state = "validate"
    /\ \/ /\ ContractFits
          /\ lease' = [lease EXCEPT !.state = "held"]
          /\ otherRun' = "running"
          /\ UNCHANGED otherLock
       \/ /\ lease' = [lease EXCEPT !.state = "refused"]
          /\ otherLock' = "free"
          /\ UNCHANGED otherRun
    /\ UNCHANGED <<tracked, group, pipelineVars, asking, stubs, stubRead, stubRuns,
                   contract, fixedVars>>

\* makeNeedsUpdateStubReferenceState and makeFailedStubReferenceState.
StubState(before, ok, entries) ==
    LET scope == [makeProcessScope(before) EXCEPT !.entries = entries]
        j == applyJournalExtensions(entries, scope.extended)
    IN IF ok THEN [status |-> "needs-update", journal |-> j.journal,
                   extended |-> j.extended, record |-> TRUE]
       ELSE KeptItemState("failed", before, scope)

\* processStubSourceIdentity reads the state and executeTrackingStub runs the
\* stub pipeline, which has no lookups of its own.
StartStub(i) ==
    LET x == asking[i].ref
    IN /\ group = "open" /\ asking[i].kind = "stub"
       /\ asking' = [asking EXCEPT ![i].kind = "stubbing"]
       /\ stubRead' = [stubRead EXCEPT ![x] = tracked[x]]
       /\ stubRuns' = [stubRuns EXCEPT ![x] = @ + 1]
       /\ UNCHANGED <<tracked, group, pipelineVars, stubs, lease, otherLock,
                      otherRun, contract, fixedVars>>

\* A stub that staged one record that fits leaves needs-update, any other one
\* failed; the request is answered either way.
FinishStub(i, ok, entries) ==
    LET x == asking[i].ref
    IN /\ group = "open" /\ asking[i].kind = "stubbing"
       /\ tracked' = [tracked EXCEPT ![x] = StubState(stubRead[x], ok, entries)]
       /\ stubRead' = [stubRead EXCEPT ![x] = Untracked]
       /\ stubs' = [stubs EXCEPT ![x].kind = IF ok THEN "made" ELSE "refused"]
       /\ lease' = [lease EXCEPT !.failed = @ \/ (x \in Other /\ ~ok)]
       /\ asking' = [asking EXCEPT ![i] = Answered]
       /\ UNCHANGED <<group, pipelineVars, stubRuns, otherLock, otherRun,
                      contract, fixedVars>>

\* A definition without a stub or a contract, and a store that refuses a call,
\* answer the request with an error and store nothing.
StubErrs(i) ==
    /\ group = "open" /\ asking[i].kind \in {"stub", "stubbing"}
    /\ StubRefused(i)
    /\ lease' = [lease EXCEPT !.failed = @ \/ asking[i].ref \in Other]
    /\ UNCHANGED <<tracked, group, pipelineVars, stubRead, stubRuns, otherLock,
                   otherRun, contract, fixedVars>>

\* withStubRunScope, once the body is over and no lease is being started:
\* finishStubDefinitionRun writes the terminal state of the lease's run;
\* taken: whether the store took the write.
FinishLease(taken) ==
    /\ group \in {"recorded", "failing"} /\ lease.state = "held"
    /\ otherRun' = IF ~taken THEN otherRun
                   ELSE IF lease.failed \/ group = "failing" THEN "failed"
                   ELSE "succeeded"
    /\ lease' = [lease EXCEPT !.state = "finished"]
    /\ UNCHANGED <<tracked, group, pipelineVars, asking, stubs, stubRead,
                   stubRuns, otherLock, contract, fixedVars>>

\* ... and releases its lock whether or not that write succeeded.
ReleaseLease ==
    /\ group \in {"recorded", "failing"} /\ lease.state = "finished"
    /\ otherLock' = "free"
    /\ lease' = [lease EXCEPT !.state = "released"]
    /\ UNCHANGED <<tracked, group, pipelineVars, asking, stubs, stubRead,
                   stubRuns, otherRun, contract, fixedVars>>

CloseScope ==
    /\ group \in {"recorded", "failing"}
    /\ lease.state \in {"none", "refused", "released"}
    /\ group' = IF group = "recorded" THEN "done" ELSE "failed"
    /\ UNCHANGED <<tracked, pipelineVars, stubVars, fixedVars>>

-----------------------------------------------------------------------------
(* Next *)

ItemStep(i) ==
    \/ ReadPreviousState(i)
    \/ AdmissionFails(i)
    \/ AdmittedUnchanged(i)
    \/ Admitted(i)
    \/ \E how \in Outcome, scope \in TrackingCalls, fits \in BOOLEAN :
          SettleAdmitted(i, how, scope, fits)
    \/ RecordOutcome(i)
    \/ StoreErrorIn(i)
    \/ \E x \in Reference : Lookup(i, x)
    \/ ReferenceFound(i)
    \/ RequestStub(i)
    \/ StubAwaited(i)
    \/ GetLease(i)
    \/ LeaseRefused(i)
    \/ StartStub(i)
    \/ \E ok \in BOOLEAN, entries \in BOOLEAN : FinishStub(i, ok, entries)
    \/ StubErrs(i)

ItemsNext ==
    \/ \E i \in Member : ItemStep(i)
    \/ \E s \in Settlements : BatchSettles(s) \/ BatchRejected(s)
    \/ BatchThrows
    \/ RecordOutcomes
    \/ AcquireLease
    \/ BeginLease
    \/ \E taken \in BOOLEAN : FinishLease(taken)
    \/ ReleaseLease
    \/ CloseScope

ItemsSpec == ItemsInit /\ [][ItemsNext]_itemsVars

-----------------------------------------------------------------------------
(* Properties *)

\* Every outcome the run counts is the one its item was settled with: neither
\* the order of settlements nor items that admission completed shift outcomes
\* between items, and a batch whose settlements do not match its items settles
\* none of them.
OutcomesAreOwn ==
    /\ group \in {"recorded", "done"} =>
          \A i \in Member : reported[i] # "unchanged" => reported[i] = written[i]
    /\ group = "open" \/ \A i \in Member :
          fiber[i] = "admitted" => written[i] = "none"

\* However many items look an identity up at once, its stub pipeline runs at
\* most once in a run; an item that awaits the answer of another item's request
\* always has an owner at work on it (Deferred of stubRequests).
StubsShared ==
    \A x \in Reference :
       /\ stubRuns[x] <= 1
       /\ \A i \in Member :
            group = "open" /\ asking[i] = [kind |-> "await", ref |-> x]
              /\ stubs[x].kind = "pending" =>
                asking[stubs[x].owner] \in [kind : {"lease", "stub", "stubbing"},
                                            ref : {x}]

\* The lease of a referenced definition never outlives the group: its lock is
\* free again, its run ended unless the store refused the write, and a run is
\* recorded as succeeded only if all its stubs and the group succeeded.
StubLeaseEnds ==
    /\ group \in {"done", "failed"} => otherLock # "ours"
    /\ otherRun = "running" => otherLock = "ours" \/ lease.state = "released"
    /\ otherRun = "succeeded" => ~lease.failed /\ group \in {"recorded", "done"}

\* What is known of an item's effects on the destination (its journal, its
\* tracking record) is only given up when the item is migrated or stubbed anew:
\* neither a failed nor a skipped attempt loses it, unless the item's pipeline
\* and a stub of the same item overlapped and the later write starts from a
\* state read before the earlier one.
ReadFresh(x) ==
    IF x \in Member /\ fiber'[x] # fiber[x] THEN previous[x] = tracked[x]
    ELSE stubRead[x] = tracked[x]

EvidenceKept ==
    [][\A x \in Member \cup Other :
          /\ tracked'[x] # tracked[x]
          /\ tracked'[x].status \in {"failed", "skipped"}
          /\ ReadFresh(x)
          => /\ tracked[x].journal => tracked'[x].journal
             /\ tracked[x].record => tracked'[x].record]_itemsVars
=============================================================================
