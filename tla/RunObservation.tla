---------------------------- MODULE RunObservation ----------------------------
(***************************************************************************)
(* One Migration Run started through the Migrate Server and followed by an *)
(* HTTP client: server/service.ts (start, stop, execution records, leases), *)
(* server/registry-runtime.ts (execution and progress fibers, provider     *)
(* observation) and the leased observation of client/index.ts.             *)
(*                                                                         *)
(* The store and the worker are environment: they change durable.  A       *)
(* progress snapshot is what getDurableDefinitionStatus reads, the run     *)
(* status first and the item counts later.  The server may be restarted;   *)
(* an answer may be lost, and the client then repeats its request.         *)
(***************************************************************************)
EXTENDS Naturals, Sequences, FiniteSets

CONSTANTS
    MaxCount,     \* items the run processes
    MaxPolls,     \* reads of the fallback fiber that change anything
    MaxReplays    \* lost answers, server restarts and stops

ASSUME ObservationAssumption == MaxCount \in Nat

VARIABLES
    durable,      \* run status and item count in the store
    owner,        \* who executes: "server" (inline) or "provider"
    worker,       \* the worker: "none", "working", "ended" or "dead"
    provider,     \* what the provider answers about its execution
    exec,         \* the server's execution fiber
    fallback,     \* what the fallback fiber has read and not published
    polls,        \* how often it has read
    record,       \* the ExecutionRecord of the run
    stop,         \* the stop request of an operator
    lease,        \* the observeRunLease call being served
    client,       \* the client that concatenates leases
    mishaps       \* lost answers, restarts and stops so far

obsVars == <<durable, owner, worker, provider, exec, fallback, polls, record,
             stop, lease, client, mishaps>>
serverVars == <<exec, fallback, polls, record>>
worldVars == <<durable, owner, worker, provider>>

Active == {"running", "cancelling"}
Snapshot == [status : Active \cup {"ended"}, count : 0 .. MaxCount]
NoSnapshot == [status |-> "unread", count |-> 0]

\* A resume token: where in a record (or in no record) the reader is, and the
\* last event it has seen.
Unresumed == [kind |-> "none", pos |-> 0, seen |-> NoSnapshot]

NoRecord == [events |-> <<>>, closed |-> FALSE, registered |-> FALSE]
NoLease == [pc |-> "none", owned |-> FALSE, from |-> 1, status |-> "unread"]
Answer(pc) == [NoLease EXCEPT !.pc = pc]

now == [status |-> durable.status, count |-> durable.count]

ObsInit ==
    /\ durable = [status |-> "running", count |-> 0]
    /\ owner \in {"server", "provider"}
    /\ worker = "none" /\ provider = "running"
    /\ exec = "prepared" /\ fallback = NoSnapshot /\ polls = 0
    /\ record = NoRecord /\ stop = "none"
    /\ lease = NoLease
    /\ client = [pc |-> "starting", token |-> Unresumed, last |-> NoSnapshot]
    /\ mishaps = 0

-----------------------------------------------------------------------------
\* Publishing into the record.

State(s) == [kind |-> "state", snap |-> [NoSnapshot EXCEPT !.status = s]]
Progress(s) == [kind |-> "progress", snap |-> s]
Terminal == [kind |-> "terminal", snap |-> NoSnapshot]

publish(event) == record' = [record EXCEPT !.events = Append(@, event)]

\* terminal and detached events complete an observation; progress is the other
\* checkpoint a lease waits for.
isObservationCheckpoint(event) == event.kind \in {"progress", "terminal"}

-----------------------------------------------------------------------------
\* Starting: the plan is prepared again and compared with the accepted one.

PlanChanged ==
    /\ exec = "prepared" /\ client.pc = "starting"
    /\ exec' = "rejected" /\ client' = [client EXCEPT !.pc = "failed"]
    /\ UNCHANGED <<worldVars, fallback, polls, record, stop, lease, mishaps>>

\* The execution fiber announces itself and asks the executable to start.
StartOperation ==
    /\ exec = "prepared" /\ client.pc = "starting"
    /\ exec' = "starting"
    /\ publish(State("starting"))
    /\ UNCHANGED <<worldVars, fallback, polls, stop, lease, client, mishaps>>

\* startExecution: the executable answered with a handle or a provider
\* execution; the record becomes findable and the client has its run id.
ExecutionRuns ==
    /\ exec = "starting"
    /\ exec' = "waiting" /\ worker' = "working"
    /\ record' = [record EXCEPT !.events = Append(@, State("running")),
                                !.registered = TRUE]
    /\ client' = [client EXCEPT !.pc = "idle"]
    /\ UNCHANGED <<durable, owner, provider, fallback, polls, stop, lease, mishaps>>

\* The executable completed the run before it answered: the record is never
\* registered and the client is told "completed".
ExecutionCompletes ==
    /\ exec = "starting" /\ owner = "server"
    /\ exec' = "removed" /\ worker' = "ended"
    /\ durable' = [status |-> "ended", count |-> MaxCount]
    /\ record' = [record EXCEPT !.closed = TRUE,
          !.events = @ \o <<Progress([status |-> "ended", count |-> MaxCount]),
                            Terminal>>]
    /\ client' = [client EXCEPT !.pc = "idle"]
    /\ UNCHANGED <<owner, provider, fallback, polls, stop, lease, mishaps>>

ExecutionStartFails ==
    /\ exec = "starting"
    /\ exec' = "removed" /\ client' = [client EXCEPT !.pc = "failed"]
    /\ UNCHANGED <<worldVars, fallback, polls, record, stop, lease, mishaps>>

-----------------------------------------------------------------------------
\* The worker and its reports.

\* A checkpoint of the worker: its progress listener reads the store and
\* publishes before the worker goes on.  A provider's checkpoint may get lost.
WorkerCheckpoint ==
    /\ worker = "working" /\ durable.status = "running"
    /\ durable.count < MaxCount
    /\ durable' = [durable EXCEPT !.count = @ + 1]
    /\ \/ exec = "waiting" /\ publish(Progress(now'))
       \/ (owner = "provider" \/ exec # "waiting") /\ UNCHANGED record
    /\ UNCHANGED <<owner, worker, provider, exec, fallback, polls, stop, lease, client,
                   mishaps>>

\* The worker writes the terminal status; a provider settles afterwards.
WorkerEnds ==
    /\ worker = "working"
    /\ durable.count = MaxCount \/ durable.status = "cancelling"
    /\ durable' = [durable EXCEPT !.status = "ended"]
    /\ worker' = "ended"
    /\ UNCHANGED <<owner, provider, serverVars, stop, lease, client, mishaps>>

ProviderSettles ==
    /\ owner = "provider" /\ worker = "ended" /\ provider = "running"
    /\ provider' = "succeeded"
    /\ UNCHANGED <<durable, owner, worker, serverVars, stop, lease, client,
                   mishaps>>

\* The provider gives up on the execution without a durable end.
ProviderFails ==
    /\ owner = "provider" /\ worker = "working"
    /\ provider' = "failed" /\ worker' = "dead"
    /\ UNCHANGED <<durable, owner, serverVars, stop, lease, client, mishaps>>

\* The fallback fiber reads every few seconds and publishes what it read; it
\* lives until the scope of the execution is closed.
fallbackLives == exec \in {"waiting", "publishing", "settling"}

FallbackReads ==
    /\ fallbackLives /\ fallback = NoSnapshot
    /\ polls < MaxPolls /\ polls' = polls + 1
    /\ fallback' = now
    /\ UNCHANGED <<worldVars, exec, record, stop, lease, client, mishaps>>

FallbackPublishes ==
    /\ fallbackLives /\ fallback # NoSnapshot
    /\ publish(Progress(fallback)) /\ fallback' = NoSnapshot
    /\ UNCHANGED <<worldVars, exec, polls, stop, lease, client, mishaps>>

-----------------------------------------------------------------------------
\* The end of the execution as the server learns it.

\* handle.wait of an inline run, or the durable poll of a provider run.
ExecutionEnds ==
    /\ exec = "waiting" /\ durable.status = "ended"
    /\ exec' = "publishing"
    /\ UNCHANGED <<worldVars, fallback, polls, record, stop, lease, client, mishaps>>

\* The provider failed or was cancelled and the run is still not terminal
\* after the grace period: the execution fails, which ends the record.
ExecutionGivesUp ==
    /\ exec = "waiting" /\ provider = "failed" /\ durable.status # "ended"
    /\ exec' = "closed" /\ fallback' = NoSnapshot
    /\ record' = [record EXCEPT !.events = Append(@, Terminal), !.closed = TRUE]
    /\ UNCHANGED <<worldVars, polls, stop, lease, client, mishaps>>

\* A last progress read is published; a snapshot the fallback read earlier may
\* still overtake the terminal event.
FinalProgress ==
    /\ exec = "publishing"
    /\ exec' = "settling" /\ publish(Progress(now))
    /\ UNCHANGED <<worldVars, fallback, polls, stop, lease, client, mishaps>>

\* The scope ends the fallback; the terminal event closes the record.
FinalTerminal ==
    /\ exec = "settling"
    /\ exec' = "closed" /\ fallback' = NoSnapshot
    /\ record' = [record EXCEPT !.closed = TRUE, !.events = Append(@, Terminal)]
    /\ UNCHANGED <<worldVars, polls, stop, lease, client, mishaps>>

removeExecution ==
    /\ exec = "closed"
    /\ exec' = "removed"
    /\ record' = [record EXCEPT !.registered = FALSE]
    /\ UNCHANGED <<worldVars, fallback, polls, stop, lease, client, mishaps>>

-----------------------------------------------------------------------------
\* Stopping: the durable request first, then the news to the observers.

StopRun ==
    /\ stop = "none" /\ mishaps < MaxReplays
    /\ worker = "working" /\ durable.status = "running"
    /\ durable' = [durable EXCEPT !.status = "cancelling"]
    /\ stop' = "persisted" /\ mishaps' = mishaps + 1
    /\ UNCHANGED <<owner, worker, provider, serverVars, lease, client>>

\* publishProviderCancellation, and the stop fiber of an inline execution.
StopPublished ==
    /\ stop = "persisted"
    /\ stop' = "requested"
    /\ IF exec = "waiting" /\ ~record.closed
         THEN publish(State("cancelling"))
         ELSE UNCHANGED record
    /\ UNCHANGED <<worldVars, exec, fallback, polls, lease, client, mishaps>>

-----------------------------------------------------------------------------
\* Serving a lease.

ObserveRunLease ==
    /\ client.pc = "idle" /\ lease = NoLease
    /\ client' = [client EXCEPT !.pc = "asking"]
    /\ lease' = [Answer("initial") EXCEPT !.owned = record.registered]
    /\ UNCHANGED <<worldVars, serverVars, stop, mishaps>>

\* getRunProgress reads the run status, then the item counts.
ReadRunStatus ==
    /\ lease.pc \in {"initial", "reconcile"} /\ lease.status = "unread"
    /\ lease' = [lease EXCEPT !.status = durable.status]
    /\ UNCHANGED <<worldVars, serverVars, stop, client, mishaps>>

snapshotRead == [status |-> lease.status, count |-> durable.count]
haveRead(pc) == lease.pc = pc /\ lease.status # "unread"

\* initialProgressEnvelope: the token of a snapshot the server read itself
\* keeps the position in the record.
ownToken(snap) ==
    IF lease.owned
      THEN [kind |-> "execution", seen |-> snap,
            pos |-> IF client.token.kind = "execution" THEN client.token.pos ELSE 0]
      ELSE [kind |-> "backend", pos |-> 0, seen |-> snap]

\* A lease that delivers a snapshot and says where to go on.
continuingLease(snap, token) ==
    lease' = [pc |-> "continuing", snap |-> snap, token |-> token]

\* Where the observation of a record begins.
ownedObservationStartIndex ==
    IF client.token.kind = "execution" /\ client.token.pos <= Len(record.events)
      THEN client.token.pos + 1
      ELSE IF record.closed THEN Len(record.events) ELSE Len(record.events) + 1

\* The first progress read answers the lease unless the client has seen it.
InitialProgress ==
    /\ haveRead("initial")
    /\ IF snapshotRead # client.token.seen
         THEN continuingLease(snapshotRead, ownToken(snapshotRead))
         ELSE lease' = [lease EXCEPT
                          !.pc = IF lease.owned THEN "record" ELSE "locate",
                          !.from = ownedObservationStartIndex]
    /\ UNCHANGED <<worldVars, serverVars, stop, client, mishaps>>

checkpoints == {k \in lease.from .. Len(record.events) :
                    isObservationCheckpoint(record.events[k])}

\* The events of the record up to the next checkpoint.
ObserveRecord ==
    /\ lease.pc = "record" /\ checkpoints # {}
    /\ LET k == CHOOSE k \in checkpoints : \A j \in checkpoints : k <= j
           event == record.events[k]
       IN IF event.kind = "terminal"
            THEN lease' = [lease EXCEPT !.pc = "reconcile", !.status = "unread"]
            ELSE continuingLease(event.snap,
                   [kind |-> "execution", pos |-> k, seen |-> event.snap])
    /\ UNCHANGED <<worldVars, serverVars, stop, client, mishaps>>

\* locateRunForObservation: a terminal run is answered at once; a run without
\* an execution identity cannot be followed from the store.
LocateRun ==
    /\ lease.pc = "locate"
    /\ lease' = CASE durable.status = "ended" ->
                       [lease EXCEPT !.pc = "reconcile", !.status = "unread"]
                  [] durable.status # "ended" /\ owner = "server" -> Answer("error")
                  [] OTHER -> [lease EXCEPT !.pc = "backend"]
    /\ UNCHANGED <<worldVars, serverVars, stop, client, mishaps>>

\* A checkpoint of the provider, or the fallback of this observation.
ObserveBackendProgress ==
    /\ lease.pc = "backend"
    /\ [kind |-> "backend", pos |-> 0, seen |-> now] # client.token
    /\ continuingLease(now, [kind |-> "backend", pos |-> 0, seen |-> now])
    /\ UNCHANGED <<worldVars, serverVars, stop, client, mishaps>>

\* observeDetachedRunEffect: the durable end, or the provider's answer.
ObserveBackendEnd ==
    /\ lease.pc = "backend"
    /\ lease' = CASE durable.status = "ended" ->
                       IF [kind |-> "backend", pos |-> 0, seen |-> now] # client.token
                         THEN [pc |-> "continuing", snap |-> now,
                               token |-> [kind |-> "backend", pos |-> 0, seen |-> now]]
                         ELSE [lease EXCEPT !.pc = "reconcile", !.status = "unread"]
                  [] durable.status # "ended" /\ provider = "failed" ->
                       Answer("error")
                  [] OTHER -> lease
    /\ lease' # lease
    /\ UNCHANGED <<worldVars, serverVars, stop, client, mishaps>>

\* The lease duration passes without a checkpoint: states and warnings seen
\* so far are dropped and the client keeps its token.
LeaseExpires ==
    /\ \/ lease.pc = "record" /\ checkpoints = {}
       \/ lease.pc = "backend"
    /\ lease' = Answer("heartbeat")
    /\ UNCHANGED <<worldVars, serverVars, stop, client, mishaps>>

\* MUTANT: the terminal event is enough.
ReconcileNothing ==
    /\ haveRead("reconcile")
    /\ lease' = Answer("terminal")
    /\ UNCHANGED <<worldVars, serverVars, stop, client, mishaps>>

\* reconcileTerminalObservationLease: a client that has not seen the final
\* progress gets it first and asks again.
Reconcile ==
    /\ haveRead("reconcile")
    /\ IF snapshotRead = client.token.seen
         THEN lease' = Answer("terminal")
         ELSE continuingLease(snapshotRead, ownToken(snapshotRead))
    /\ UNCHANGED <<worldVars, serverVars, stop, client, mishaps>>

-----------------------------------------------------------------------------
\* The client.

\* MUTANT: a continuing lease does not move the token.
TakeLeaseKeepsToken ==
    /\ lease.pc \in {"continuing", "heartbeat", "terminal", "error"}
    /\ lease' = NoLease
    /\ client' = CASE lease.pc = "continuing" ->
                        [client EXCEPT !.pc = "idle", !.last = lease.snap]
                   [] lease.pc = "heartbeat" -> [client EXCEPT !.pc = "idle"]
                   [] lease.pc = "terminal" -> [client EXCEPT !.pc = "done"]
                   [] OTHER -> [client EXCEPT !.pc = "failed"]
    /\ UNCHANGED <<worldVars, serverVars, stop, mishaps>>

\* leasedObservation: every lease but a terminal one is followed by another.
TakeLease ==
    /\ lease.pc \in {"continuing", "heartbeat", "terminal", "error"}
    /\ lease' = NoLease
    /\ client' = CASE lease.pc = "continuing" ->
                        [pc |-> "idle", last |-> lease.snap, token |-> lease.token]
                   [] lease.pc = "heartbeat" -> [client EXCEPT !.pc = "idle"]
                   [] lease.pc = "terminal" -> [client EXCEPT !.pc = "done"]
                   [] OTHER -> [client EXCEPT !.pc = "failed"]
    /\ UNCHANGED <<worldVars, serverVars, stop, mishaps>>

\* A transient HTTP failure: the client asks again with the same token.
LoseLease ==
    /\ lease # NoLease /\ mishaps < MaxReplays
    /\ mishaps' = mishaps + 1
    /\ lease' = NoLease /\ client' = [client EXCEPT !.pc = "idle"]
    /\ UNCHANGED <<worldVars, serverVars, stop>>

\* A restarted server has no records; an inline worker dies with it.
ServerRestart ==
    /\ exec \in {"waiting", "publishing", "settling", "closed"} /\ mishaps < MaxReplays
    /\ mishaps' = mishaps + 1
    /\ exec' = "lost" /\ fallback' = NoSnapshot /\ record' = NoRecord
    /\ worker' = IF owner = "server" /\ worker = "working" THEN "dead" ELSE worker
    /\ lease' = NoLease
    /\ client' = IF lease # NoLease THEN [client EXCEPT !.pc = "idle"] ELSE client
    /\ UNCHANGED <<durable, owner, provider, polls, stop>>

\* The client is through, or its run was never started.
Observed ==
    /\ client.pc \in {"done", "failed"} /\ worker \in {"none", "ended", "dead"}
    /\ UNCHANGED obsVars

Serve ==
    \/ ObserveRunLease \/ ReadRunStatus \/ InitialProgress \/ ObserveRecord
    \/ LocateRun \/ ObserveBackendProgress \/ ObserveBackendEnd
    \/ Reconcile \/ TakeLease

Execute ==
    \/ PlanChanged \/ StartOperation \/ ExecutionRuns \/ ExecutionCompletes
    \/ ExecutionStartFails \/ ExecutionEnds \/ ExecutionGivesUp
    \/ FinalProgress \/ FinalTerminal \/ removeExecution

ObsNext ==
    \/ Execute \/ Serve \/ LeaseExpires
    \/ WorkerCheckpoint \/ WorkerEnds \/ ProviderSettles \/ ProviderFails
    \/ FallbackReads \/ FallbackPublishes
    \/ StopRun \/ StopPublished
    \/ LoseLease \/ ServerRestart \/ Observed

ObsSpec == ObsInit /\ [][ObsNext]_obsVars

-----------------------------------------------------------------------------
(***************************************************************************)
(* A client is told that the run is over only after it was given the final *)
(* durable progress, whatever it missed, saw twice or saw in a snapshot    *)
(* read halfway through the end (reconcileTerminalObservationLease).  The  *)
(* one exception is a provider that gave up before the run ended.          *)
(***************************************************************************)
CompletionAfterFinalProgress ==
    client.pc = "done" /\ provider # "failed" =>
        durable.status = "ended" /\ client.last = now

(***************************************************************************)
(* Once the run has ended in the store, a client that follows it is told,  *)
(* or its observation fails visibly: leases that expire, answers that are  *)
(* lost, replayed events and a restarted server do not keep it waiting.    *)
(***************************************************************************)
ObserverHearsTheEnd ==
    durable.status = "ended" ~> client.pc \in {"done", "failed"}
=============================================================================
