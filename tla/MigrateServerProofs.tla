-------------------------- MODULE MigrateServerProofs --------------------------
(***************************************************************************)
(* Proofs about the Migrate Server and its connections: the observation of *)
(* a run, for any number of items, polls and mishaps; the dashboard        *)
(* projection, for any readers and contents; the local endpoint, for any   *)
(* clients, servers and inodes.  Each part has an inductive invariant and  *)
(* one lemma for each group of actions.                                    *)
(***************************************************************************)
EXTENDS RunObservation, DashboardProjection, LocalEndpoint, FiniteSetTheorems, TLAPS

\* Sets of numbers have a least element: it has the fewest numbers below it.
LEMMA LeastNumber ==
    ASSUME NEW T \in SUBSET Nat, T # {}
    PROVE  \E n \in T : \A m \in T : n <= m
<1> DEFINE Below(n) == 0..n
           Belows == {Below(n) : n \in T}
           R == StrictSubsetOrdering(Nat)
<1>1. IsWellFoundedOn(R, FiniteSubsetsOf(Nat))
  BY FS_StrictSubsetOrderingWellFounded
<1>2. \A n \in T : Below(n) \in FiniteSubsetsOf(Nat)
  BY FS_Interval DEF FiniteSubsetsOf
<1>3. Belows \subseteq FiniteSubsetsOf(Nat) /\ Belows # {}
  BY <1>2
<1> HIDE DEF R
<1>4. \E U \in Belows : \A V \in Belows : <<V, U>> \notin R
  <2> HIDE DEF Belows
  <2> QED BY <1>1, <1>3, WFMin
<1>5. PICK n \in T : \A V \in Belows : <<V, Below(n)>> \notin R
  BY <1>4
<1>6. ASSUME NEW m \in T PROVE n <= m
  <2> SUFFICES ASSUME m < n PROVE FALSE
    OBVIOUS
  <2>1. Below(m) \subseteq Below(n) /\ Below(m) # Below(n)
    OBVIOUS
  <2>2. <<Below(m), Below(n)>> \in R
    BY <2>1 DEF StrictSubsetOrdering, R
  <2> QED
    BY <2>2, <1>5
<1> QED
  BY <1>6

-----------------------------------------------------------------------------
(* The observation of a run *)

Status == Active \cup {"ended"}
Snap == [status : Status \cup {"unread", "starting"}, count : 0 .. MaxCount]
Event == [kind : {"state", "progress", "terminal"}, snap : Snap]
Token == [kind : {"none", "execution", "backend"}, pos : Nat, seen : Snap]
Waiting == [pc : {"none", "initial", "record", "locate", "backend", "reconcile",
                  "heartbeat", "terminal", "error"},
            owned : BOOLEAN, from : Nat \ {0}, status : Status \cup {"unread"}]
Continuing == [pc : {"continuing"}, snap : Snap, token : Token]

ObsTypeOK ==
    /\ durable \in [status : Status, count : 0 .. MaxCount]
    /\ exec \in {"prepared", "starting", "waiting", "publishing", "settling",
                 "closed", "removed", "rejected", "lost"}
    /\ fallback \in Snap
    /\ record \in [events : Seq(Event), closed : BOOLEAN, registered : BOOLEAN]
    /\ record.closed => record.events # <<>>
    /\ lease \in Waiting \cup Continuing
    /\ client \in [pc : {"starting", "idle", "asking", "done", "failed"},
                   token : Token, last : Snap]

\* What ends an observation: the end of the run, or a provider that gave up.
Over == durable.status = "ended" \/ provider = "failed"

\* Until the executable has answered nobody observes the run, and it has not
\* ended; the last progress is published after its end.
StartsUnobserved ==
    /\ exec \in {"prepared", "starting"} =>
         /\ client.pc = "starting" /\ lease = NoLease
         /\ durable.status = "running" /\ worker = "none"
    /\ exec \in {"publishing", "settling"} => durable.status = "ended"

\* A terminal event stands in a record only after the end.
TerminalIsOver ==
    \A k \in 1 .. Len(record.events) : record.events[k].kind = "terminal" => Over

\* The token names what the client was shown last.
TokenIsLast ==
    /\ client.token.seen = client.last
    /\ lease.pc = "continuing" => lease.token.seen = lease.snap

\* A reconciliation has begun after the end, so what it reads is final.
ReconcilesTheEnd ==
    /\ lease.pc = "reconcile" =>
         /\ Over
         /\ lease.status = "unread" \/ provider = "failed" \/ lease.status = "ended"
    /\ lease.pc = "terminal" /\ provider # "failed" =>
         durable.status = "ended" /\ client.last = now

ObsInv ==
    /\ ObsTypeOK /\ StartsUnobserved /\ TerminalIsOver /\ TokenIsLast
    /\ ReconcilesTheEnd /\ CompletionAfterFinalProgress

\* What the run has come to stays: its end, its counts then, and a provider
\* that gave up.
EndStays ==
    /\ durable.status = "ended" => durable' = durable
    /\ provider = "failed" => provider' = "failed"

LEMMA EndIsFinal ==
    ASSUME ObsInv, [ObsNext]_obsVars
    PROVE  EndStays
<1> USE DEF EndStays, worldVars, serverVars
<1>1. CASE Serve \/ LeaseExpires \/ LoseLease \/ Observed
  BY <1>1 DEF Serve, ObserveRunLease, ReadRunStatus, InitialProgress, ObserveRecord,
     LocateRun, ObserveBackendProgress, ObserveBackendEnd, Reconcile, TakeLease,
     LeaseExpires, LoseLease, Observed, obsVars
<1>2. CASE ExecutionCompletes
  BY <1>2 DEF ExecutionCompletes, ObsInv, StartsUnobserved
<1>3. CASE Execute /\ ~ExecutionCompletes
  BY <1>3 DEF Execute, PlanChanged, StartOperation, ExecutionRuns,
     ExecutionStartFails, ExecutionEnds, ExecutionGivesUp, FinalProgress,
     FinalTerminal, removeExecution
<1>4. CASE \/ WorkerCheckpoint \/ ProviderSettles \/ ProviderFails
           \/ FallbackReads \/ FallbackPublishes \/ StopRun \/ StopPublished
           \/ ServerRestart
  BY <1>4 DEF WorkerCheckpoint, ProviderSettles, ProviderFails, FallbackReads,
     FallbackPublishes, StopRun, StopPublished, ServerRestart
<1>5. CASE WorkerEnds
  BY <1>5 DEF WorkerEnds, ObsInv, ObsTypeOK
<1>6. CASE UNCHANGED obsVars
  BY <1>6 DEF obsVars
<1> QED
  BY <1>1, <1>2, <1>3, <1>4, <1>5, <1>6 DEF ObsNext

\* The durable state, the execution fiber and what the fallback has read.
LEMMA ObservedWorldStep ==
    ASSUME ObsInv, [ObsNext]_obsVars
    PROVE  /\ durable' \in [status : Status, count : 0 .. MaxCount]
           /\ exec' \in {"prepared", "starting", "waiting", "publishing",
                         "settling", "closed", "removed", "rejected", "lost"}
           /\ fallback' \in Snap
<1> USE ObservationAssumption
    DEF ObsInv, ObsTypeOK, Status, Active, Snap, NoSnapshot, worldVars, serverVars
<1>1. CASE Serve \/ LeaseExpires \/ LoseLease \/ Observed
  BY <1>1 DEF Serve, ObserveRunLease, ReadRunStatus, InitialProgress, ObserveRecord,
     LocateRun, ObserveBackendProgress, ObserveBackendEnd, Reconcile, TakeLease,
     LeaseExpires, LoseLease, Observed, obsVars
<1>2. CASE Execute
  BY <1>2 DEF Execute, PlanChanged, StartOperation, ExecutionRuns, ExecutionCompletes,
     ExecutionStartFails, ExecutionEnds, ExecutionGivesUp, FinalProgress,
     FinalTerminal, removeExecution
<1>3. CASE WorkerCheckpoint
  BY <1>3 DEF WorkerCheckpoint
<1>4. CASE WorkerEnds
  BY <1>4 DEF WorkerEnds
<1>5. CASE FallbackReads
  BY <1>5 DEF FallbackReads, now
<1>6. CASE StopRun
  BY <1>6 DEF StopRun
<1>7. CASE \/ ProviderSettles \/ ProviderFails \/ FallbackPublishes
           \/ StopPublished \/ ServerRestart
  BY <1>7 DEF ProviderSettles, ProviderFails, FallbackPublishes, StopPublished,
     ServerRestart
<1>8. CASE UNCHANGED obsVars
  BY <1>8 DEF obsVars
<1> QED
  BY <1>1, <1>2, <1>3, <1>4, <1>5, <1>6, <1>7, <1>8 DEF ObsNext

RecordFits ==
    /\ record \in [events : Seq(Event), closed : BOOLEAN, registered : BOOLEAN]
    /\ record.closed => record.events # <<>>
    /\ TerminalIsOver

\* An event joins the record; a terminal one after the end.
LEMMA RecordGrows ==
    ASSUME ObsInv, EndStays, NEW event \in Event,
           NEW closed \in BOOLEAN, NEW registered \in BOOLEAN,
           record' = [events |-> Append(record.events, event), closed |-> closed,
                      registered |-> registered],
           event.kind = "terminal" => Over'
    PROVE  RecordFits'
<1> DEFINE events == record.events
<1>1. events \in Seq(Event) /\ (Over => Over')
  BY DEF ObsInv, ObsTypeOK, EndStays, Over
<1>2. record'.events = Append(events, event)
  OBVIOUS
<1>3. \A k \in 1 .. Len(events) : events[k].kind = "terminal" => Over
  BY DEF ObsInv, TerminalIsOver
<1> HIDE DEF events
<1>4. /\ Append(events, event) \in Seq(Event) /\ Append(events, event) # <<>>
      /\ Len(Append(events, event)) = Len(events) + 1
      /\ \A k \in 1 .. Len(events) : Append(events, event)[k] = events[k]
      /\ Append(events, event)[Len(events) + 1] = event
  BY <1>1
<1>5. TerminalIsOver'
  <2> SUFFICES ASSUME NEW k \in 1 .. Len(events) + 1,
                      Append(events, event)[k].kind = "terminal"
               PROVE  Over'
    BY <1>2, <1>4 DEF TerminalIsOver
  <2>1. CASE k = Len(events) + 1
    BY <2>1, <1>4
  <2>2. CASE k \in 1 .. Len(events)
    BY <2>2, <1>1, <1>3, <1>4
  <2> QED
    BY <2>1, <2>2, <1>1
<1> QED
  BY <1>2, <1>4, <1>5 DEF RecordFits, events

\* Closing or registering leaves the events alone.
LEMMA RecordKeepsEvents ==
    ASSUME ObsInv, EndStays, record'.events = record.events,
           record' \in [events : Seq(Event), closed : BOOLEAN, registered : BOOLEAN],
           record'.closed => record.closed
    PROVE  RecordFits'
  BY DEF ObsInv, ObsTypeOK, EndStays, Over, RecordFits, TerminalIsOver

LEMMA EventTypes ==
    /\ Terminal \in Event
    /\ \A status \in Status \cup {"starting"} :
          State(status) \in Event /\ State(status).kind = "state"
    /\ \A snap \in Snap : Progress(snap) \in Event /\ Progress(snap).kind = "progress"
<1>1. NoSnapshot \in Snap
  BY ObservationAssumption DEF NoSnapshot, Snap
<1>2. \A status \in Status \cup {"starting"} : [NoSnapshot EXCEPT !.status = status] \in Snap
  BY ObservationAssumption DEF NoSnapshot, Snap
<1> QED
  BY <1>1, <1>2 DEF Terminal, State, Progress, Event

LEMMA RecordStep ==
    ASSUME ObsInv, [ObsNext]_obsVars, EndStays
    PROVE  RecordFits'
<1> DEFINE Appends(event, closed, registered) ==
             record' = [events |-> Append(record.events, event), closed |-> closed,
                        registered |-> registered]
<1>1. record \in [events : Seq(Event), closed : BOOLEAN, registered : BOOLEAN]
  BY DEF ObsInv, ObsTypeOK
<1>2. CASE UNCHANGED record
  BY <1>1, <1>2, RecordKeepsEvents
<1>3. CASE StartOperation
  <2>1. /\ Appends(State("starting"), record.closed, record.registered)
        /\ State("starting") \in Event /\ State("starting").kind # "terminal"
    BY <1>3, <1>1, EventTypes DEF StartOperation, publish
  <2> QED
    BY <2>1, <1>1, RecordGrows
<1>4. CASE ExecutionRuns
  <2>1. /\ Appends(State("running"), record.closed, TRUE)
        /\ State("running") \in Event /\ State("running").kind # "terminal"
    BY <1>4, <1>1, EventTypes DEF ExecutionRuns, Status, Active
  <2> QED
    BY <2>1, <1>1, RecordGrows
<1>5. CASE ExecutionCompletes
  <2> DEFINE final == Progress([status |-> "ended", count |-> MaxCount])
  <2>1. final \in Event /\ Terminal \in Event
    BY EventTypes, ObservationAssumption DEF Snap, Status
  <2>2. record' = [events |-> record.events \o <<final, Terminal>>, closed |-> TRUE,
                   registered |-> record.registered]
    BY <1>5, <1>1 DEF ExecutionCompletes
  <2>3. Over'
    BY <1>5 DEF ExecutionCompletes, Over
  <2> HIDE DEF final
  <2>4. /\ record.events \o <<final, Terminal>> # <<>>
        /\ record.events \o <<final, Terminal>> \in Seq(Event)
    BY <1>1, <2>1
  <2> QED
    BY <1>1, <2>2, <2>3, <2>4 DEF RecordFits, TerminalIsOver
<1>6. CASE ExecutionGivesUp \/ FinalTerminal
  <2>1. /\ Appends(Terminal, TRUE, record.registered)
        /\ Terminal \in Event
    BY <1>6, <1>1, EventTypes DEF ExecutionGivesUp, FinalTerminal
  <2>2. Over'
    BY <1>6 DEF ExecutionGivesUp, FinalTerminal, Over, ObsInv, StartsUnobserved,
                worldVars
  <2> QED
    BY <2>1, <2>2, <1>1, RecordGrows
<1>7. CASE removeExecution
  <2>1. /\ record'.events = record.events /\ record'.closed = record.closed
        /\ record' \in [events : Seq(Event), closed : BOOLEAN, registered : BOOLEAN]
    BY <1>7, <1>1 DEF removeExecution
  <2> QED
    BY <2>1, RecordKeepsEvents
<1>8. CASE ServerRestart
  <2>1. record' = NoRecord
    BY <1>8 DEF ServerRestart
  <2> QED
    BY <2>1 DEF NoRecord, RecordFits, TerminalIsOver
<1>9. ASSUME NEW snap \in Snap, publish(Progress(snap))
      PROVE  RecordFits'
  <2>1. /\ Appends(Progress(snap), record.closed, record.registered)
        /\ Progress(snap) \in Event /\ Progress(snap).kind # "terminal"
    BY <1>9, <1>1 DEF publish, Progress, Event
  <2> QED
    BY <2>1, <1>1, RecordGrows
<1>10. now \in Snap /\ now' \in Snap /\ fallback \in Snap
  BY ObservedWorldStep DEF now, Snap, ObsInv, ObsTypeOK
<1>11. CASE WorkerCheckpoint
  BY <1>2, <1>9, <1>10, <1>11 DEF WorkerCheckpoint
<1>12. CASE FallbackPublishes
  BY <1>9, <1>10, <1>12 DEF FallbackPublishes
<1>13. CASE FinalProgress
  BY <1>9, <1>10, <1>13 DEF FinalProgress
<1>14. CASE StopPublished
  <2>1. CASE publish(State("cancelling"))
    <3>1. /\ Appends(State("cancelling"), record.closed, record.registered)
          /\ State("cancelling") \in Event /\ State("cancelling").kind # "terminal"
      BY <2>1, <1>1, EventTypes DEF publish, Status, Active
    <3> QED
      BY <3>1, <1>1, RecordGrows
  <2> QED
    BY <2>1, <1>2, <1>14 DEF StopPublished
<1>15. CASE Serve \/ LeaseExpires \/ LoseLease \/ Observed
  <2>1. UNCHANGED record
    BY <1>15 DEF Serve, ObserveRunLease, ReadRunStatus, InitialProgress, ObserveRecord,
       LocateRun, ObserveBackendProgress, ObserveBackendEnd, Reconcile, TakeLease,
       LeaseExpires, LoseLease, Observed, obsVars, serverVars
  <2> QED
    BY <2>1, <1>2
<1>16. CASE \/ PlanChanged \/ ExecutionStartFails \/ ExecutionEnds \/ WorkerEnds
            \/ ProviderSettles \/ ProviderFails \/ FallbackReads \/ StopRun
  <2>1. UNCHANGED record
    BY <1>16 DEF PlanChanged, ExecutionStartFails, ExecutionEnds, WorkerEnds,
       ProviderSettles, ProviderFails, FallbackReads, StopRun, serverVars
  <2> QED
    BY <2>1, <1>2
<1>17. CASE UNCHANGED obsVars
  BY <1>2, <1>17 DEF obsVars
<1> QED
  BY <1>3, <1>4, <1>5, <1>6, <1>7, <1>8, <1>11, <1>12, <1>13, <1>14, <1>15, <1>16,
     <1>17 DEF ObsNext, Execute

-----------------------------------------------------------------------------
\* The lease and the client.

LeaseFits ==
    /\ lease \in Waiting \cup Continuing
    /\ client \in [pc : {"starting", "idle", "asking", "done", "failed"},
                   token : Token, last : Snap]
    /\ TokenIsLast /\ ReconcilesTheEnd /\ CompletionAfterFinalProgress

\* Steps of the world do not touch what was read: the end stays as it is.
LEMMA LeaseUntouched ==
    ASSUME ObsInv, EndStays, UNCHANGED lease,
           UNCHANGED client \/ /\ client'.token = client.token
                               /\ client'.last = client.last
                               /\ client'.pc \in {"idle", "asking", "failed"}
                               /\ client' \in [pc : {"starting", "idle", "asking",
                                     "done", "failed"}, token : Token, last : Snap]
    PROVE  LeaseFits'
  BY DEF ObsInv, ObsTypeOK, EndStays, LeaseFits, TokenIsLast, ReconcilesTheEnd,
     CompletionAfterFinalProgress, Over, now

\* A lease that delivers a snapshot with a token that names it.
LEMMA LeaseContinues ==
    ASSUME ObsInv, EndStays, UNCHANGED client, NEW snap \in Snap, NEW token \in Token,
           token.seen = snap,
           lease' = [pc |-> "continuing", snap |-> snap, token |-> token]
    PROVE  LeaseFits'
<1>1. lease' \in Continuing /\ lease'.pc = "continuing"
  BY DEF Continuing
<1> QED
  BY <1>1 DEF ObsInv, ObsTypeOK, EndStays, LeaseFits, TokenIsLast, ReconcilesTheEnd,
     CompletionAfterFinalProgress, Over, now

\* The other leases: a read, a heartbeat, an error, or a reconciliation after
\* the end.
LEMMA LeaseWaits ==
    ASSUME ObsInv, EndStays, UNCHANGED client, lease' \in Waiting,
           lease'.pc # "terminal",
           lease'.pc = "reconcile" =>
               /\ Over
               /\ lease'.status \in {"unread", durable.status}
    PROVE  LeaseFits'
<1>1. lease' \notin Continuing /\ lease'.pc # "continuing"
  BY DEF Waiting, Continuing
<1>2. durable.status \in {"ended"} \/ provider = "failed" => Over'
  BY DEF EndStays, Over
<1> QED
  BY <1>1, <1>2 DEF ObsInv, ObsTypeOK, EndStays, LeaseFits, TokenIsLast,
     ReconcilesTheEnd, CompletionAfterFinalProgress, Over, now, Waiting

LEMMA AnswersWait ==
    \A pc \in {"none", "initial", "heartbeat", "error", "terminal"} :
        Answer(pc) \in Waiting /\ Answer(pc).pc = pc
<1>1. NoLease \in Waiting
  BY DEF NoLease, Waiting
<1>2. \A empty \in Waiting :
         \A pc \in {"none", "initial", "heartbeat", "error", "terminal"} :
            [empty EXCEPT !.pc = pc] \in Waiting /\ [empty EXCEPT !.pc = pc].pc = pc
  BY DEF Waiting
<1> QED
  BY <1>1, <1>2 DEF Answer

\* Where a record is read from, and the next checkpoint in it.
LEMMA CheckpointIsEvent ==
    ASSUME ObsInv, lease.pc = "record", checkpoints # {}
    PROVE  LET k == CHOOSE k \in checkpoints : \A j \in checkpoints : k <= j
           IN k \in 1 .. Len(record.events) /\ isObservationCheckpoint(record.events[k])
<1>1. lease \in Waiting /\ Len(record.events) \in Nat
  BY DEF ObsInv, ObsTypeOK, Continuing
<1>2. lease.from \in Nat \ {0}
  BY <1>1 DEF Waiting
<1>3. checkpoints \in SUBSET Nat
  BY <1>1, <1>2 DEF checkpoints
<1>4. \E k \in checkpoints : \A j \in checkpoints : k <= j
  BY <1>3, LeastNumber
<1>5. \A k \in checkpoints : k \in 1 .. Len(record.events)
                             /\ isObservationCheckpoint(record.events[k])
  BY <1>1, <1>2 DEF checkpoints
<1> QED
  BY <1>4, <1>5

LEMMA ObserveRecordStep ==
    ASSUME ObsInv, EndStays, ObserveRecord
    PROVE  LeaseFits'
<1> DEFINE k == CHOOSE k \in checkpoints : \A j \in checkpoints : k <= j
           event == record.events[k]
<1>1. /\ lease.pc = "record" /\ UNCHANGED client
      /\ IF event.kind = "terminal"
           THEN lease' = [lease EXCEPT !.pc = "reconcile", !.status = "unread"]
           ELSE continuingLease(event.snap,
                  [kind |-> "execution", pos |-> k, seen |-> event.snap])
  BY DEF ObserveRecord
<1>2. k \in 1 .. Len(record.events)
  BY CheckpointIsEvent DEF ObserveRecord
<1> HIDE DEF k
<1>3. event \in Event /\ (event.kind = "terminal" => Over)
  BY <1>2 DEF ObsInv, ObsTypeOK, TerminalIsOver
<1> HIDE DEF event
<1>4. CASE event.kind = "terminal"
  <2>1. lease \in Waiting
    BY <1>1 DEF ObsInv, ObsTypeOK, Continuing
  <2>2. lease' \in Waiting /\ lease'.pc = "reconcile" /\ lease'.status = "unread"
    BY <1>1, <1>4, <2>1 DEF Waiting
  <2> QED
    BY <1>1, <1>3, <1>4, <2>2, LeaseWaits
<1>5. CASE event.kind # "terminal"
  <2> DEFINE token == [kind |-> "execution", pos |-> k, seen |-> event.snap]
  <2>1. event.snap \in Snap /\ token \in Token /\ token.seen = event.snap
    BY <1>2, <1>3 DEF Event, Token
  <2>2. lease' = [pc |-> "continuing", snap |-> event.snap, token |-> token]
    BY <1>1, <1>5 DEF continuingLease
  <2> HIDE DEF token
  <2> QED
    BY <1>1, <2>1, <2>2, LeaseContinues
<1> QED
  BY <1>4, <1>5

\* Snapshots the server has read, and the tokens it makes of them.
LEMMA SnapshotsRead ==
    ASSUME ObsInv, lease \in Waiting
    PROVE  /\ snapshotRead \in Snap
           /\ \A snap \in Snap : ownToken(snap) \in Token /\ ownToken(snap).seen = snap
           /\ ownedObservationStartIndex \in Nat \ {0}
<1>1. client.token \in Token /\ record.events \in Seq(Event)
      /\ (record.closed => record.events # <<>>)
  BY DEF ObsInv, ObsTypeOK
<1>2. snapshotRead \in Snap
  BY DEF ObsInv, ObsTypeOK, snapshotRead, Snap, Waiting
<1>3. \A snap \in Snap : ownToken(snap) \in Token /\ ownToken(snap).seen = snap
  BY <1>1 DEF ownToken, Token
<1>4. ownedObservationStartIndex \in Nat \ {0}
  BY <1>1 DEF ownedObservationStartIndex, Token
<1> QED
  BY <1>2, <1>3, <1>4

LEMMA ServeStep ==
    ASSUME ObsInv, EndStays, Serve \/ LeaseExpires
    PROVE  LeaseFits'
<1>1. lease.pc # "continuing" => lease \in Waiting
  BY DEF ObsInv, ObsTypeOK, Continuing
<1>2. CASE ObserveRunLease
  <2>1. lease' \in Waiting /\ lease'.pc = "initial"
    <3>1. record.registered \in BOOLEAN
      BY DEF ObsInv, ObsTypeOK
    <3>2. \A start \in Waiting : \A owned \in BOOLEAN :
             LET asked == [start EXCEPT !.owned = owned]
             IN asked \in Waiting /\ asked.pc = start.pc
      BY DEF Waiting
    <3>3. lease' = [Answer("initial") EXCEPT !.owned = record.registered]
      BY <1>2 DEF ObserveRunLease
    <3> QED
      BY <3>1, <3>2, <3>3, AnswersWait
  <2>2. lease' \notin Continuing
    BY <2>1 DEF Continuing
  <2>3. /\ client'.token = client.token /\ client'.last = client.last
        /\ client'.pc = "asking"
        /\ client' \in [pc : {"starting", "idle", "asking", "done", "failed"},
                        token : Token, last : Snap]
    BY <1>2 DEF ObserveRunLease, ObsInv, ObsTypeOK
  <2> QED
    BY <2>1, <2>2, <2>3 DEF LeaseFits, ObsInv, TokenIsLast, ReconcilesTheEnd,
       CompletionAfterFinalProgress
<1>3. CASE ReadRunStatus
  <2>1. /\ UNCHANGED client /\ lease.pc \in {"initial", "reconcile"}
        /\ lease' = [lease EXCEPT !.status = durable.status]
    BY <1>3 DEF ReadRunStatus
  <2>2. lease' \in Waiting /\ lease'.pc = lease.pc /\ lease'.status = durable.status
    BY <1>1, <2>1 DEF Waiting, ObsInv, ObsTypeOK
  <2> QED
    BY <2>1, <2>2, LeaseWaits DEF ObsInv, ReconcilesTheEnd
<1>4. CASE InitialProgress
  <2>1. lease \in Waiting /\ UNCHANGED client
    BY <1>1, <1>4 DEF InitialProgress, haveRead
  <2>2. CASE snapshotRead # client.token.seen
    BY <1>4, <2>1, <2>2, SnapshotsRead, LeaseContinues DEF InitialProgress, continuingLease
  <2>3. CASE snapshotRead = client.token.seen
    <3>1. lease' \in Waiting /\ lease'.pc \in {"record", "locate"}
      BY <1>4, <2>1, <2>3, SnapshotsRead, ZenonT(40) DEF InitialProgress, Waiting
    <3> QED
      BY <2>1, <3>1, LeaseWaits
  <2> QED
    BY <2>2, <2>3
<1>5. CASE ObserveRecord
  BY <1>5, ObserveRecordStep
<1>6. CASE LocateRun
  <2>1. lease \in Waiting /\ UNCHANGED client
    BY <1>1, <1>6 DEF LocateRun
  <2>2. /\ lease' \in Waiting /\ lease'.pc \in {"reconcile", "error", "backend"}
        /\ lease'.pc = "reconcile" => Over /\ lease'.status = "unread"
    BY <1>6, <2>1, AnswersWait DEF LocateRun, Waiting, Over
  <2> QED
    BY <2>1, <2>2, LeaseWaits
<1>7. now \in Snap
  BY DEF now, Snap, ObsInv, ObsTypeOK
<1> DEFINE token == [kind |-> "backend", pos |-> 0, seen |-> now]
<1>8. token \in Token /\ token.seen = now
  BY <1>7 DEF Token
<1>9. CASE ObserveBackendProgress
  <2>1. UNCHANGED client /\ lease' = [pc |-> "continuing", snap |-> now, token |-> token]
    BY <1>9 DEF ObserveBackendProgress, continuingLease
  <2> HIDE DEF token
  <2> QED
    BY <2>1, <1>7, <1>8, LeaseContinues
<1>10. CASE ObserveBackendEnd
  <2>1. lease \in Waiting /\ UNCHANGED client
    BY <1>1, <1>10 DEF ObserveBackendEnd
  <2>2. CASE lease' = [pc |-> "continuing", snap |-> now, token |-> token]
    <3> HIDE DEF token
    <3> QED
      BY <2>1, <2>2, <1>7, <1>8, LeaseContinues
  <2>3. CASE /\ lease' = [lease EXCEPT !.pc = "reconcile", !.status = "unread"]
             /\ durable.status = "ended"
    <3>1. lease' \in Waiting /\ lease'.status = "unread"
      BY <2>1, <2>3 DEF Waiting
    <3> QED
      BY <2>1, <2>3, <3>1, LeaseWaits DEF Over
  <2>4. CASE lease' = Answer("error")
    BY <2>1, <2>4, AnswersWait, LeaseWaits
  <2> QED
    BY <1>10, <2>2, <2>3, <2>4 DEF ObserveBackendEnd
<1>11. CASE Reconcile
  <2>1. lease \in Waiting /\ UNCHANGED client
    BY <1>1, <1>11 DEF Reconcile, haveRead
  <2>2. CASE snapshotRead = client.token.seen
    <3>1. lease' = Answer("terminal")
      BY <1>11, <2>2 DEF Reconcile
    <3>2. lease' \in Waiting \ Continuing /\ lease'.pc = "terminal"
      BY <3>1, AnswersWait DEF Continuing
    <3>3. provider # "failed" => durable.status = "ended" /\ client.last = now
      BY <1>11, <2>2 DEF Reconcile, haveRead, snapshotRead, now, ObsInv, TokenIsLast,
         ReconcilesTheEnd, Over
    <3> QED
      BY <2>1, <3>2, <3>3 DEF ObsInv, ObsTypeOK, EndStays, LeaseFits, TokenIsLast,
         ReconcilesTheEnd, CompletionAfterFinalProgress, now
  <2>3. CASE snapshotRead # client.token.seen
    BY <1>11, <2>1, <2>3, SnapshotsRead, LeaseContinues DEF Reconcile, continuingLease
  <2> QED
    BY <2>2, <2>3
<1>12. CASE TakeLease
  <2>1. lease' = NoLease /\ NoLease \in Waiting /\ NoLease.pc = "none"
    BY <1>12 DEF TakeLease, NoLease, Waiting
  <2>2. lease' \notin Continuing
    BY <2>1 DEF Continuing, NoLease
  <2>3. CASE lease.pc = "continuing"
    <3>1. lease \in Continuing
      BY <2>3 DEF ObsInv, ObsTypeOK, Waiting
    <3>2. client' = [pc |-> "idle", last |-> lease.snap, token |-> lease.token]
      BY <1>12, <2>3 DEF TakeLease
    <3>3. /\ client' \in [pc : {"starting", "idle", "asking", "done", "failed"},
                          token : Token, last : Snap]
          /\ client'.token.seen = client'.last /\ client'.pc = "idle"
      BY <3>1, <3>2, <2>3 DEF Continuing, ObsInv, TokenIsLast
    <3> QED
      BY <2>1, <2>2, <3>3 DEF LeaseFits, TokenIsLast, ReconcilesTheEnd,
         CompletionAfterFinalProgress
  <2>4. CASE lease.pc # "continuing"
    <3>1. /\ client' \in [pc : {"starting", "idle", "asking", "done", "failed"},
                          token : Token, last : Snap]
          /\ client'.token = client.token /\ client'.last = client.last
          /\ client'.pc \in {"idle", "done", "failed"}
          /\ client'.pc = "done" => lease.pc = "terminal"
      BY <1>12, <2>4 DEF TakeLease, ObsInv, ObsTypeOK
    <3> QED
      BY <2>1, <2>2, <3>1 DEF LeaseFits, ObsInv, TokenIsLast, ReconcilesTheEnd,
         CompletionAfterFinalProgress, EndStays, now
  <2> QED
    BY <2>3, <2>4
<1>13. CASE LeaseExpires
  BY <1>13, AnswersWait, LeaseWaits DEF LeaseExpires
<1> QED
  BY <1>2, <1>3, <1>4, <1>5, <1>6, <1>9, <1>10, <1>11, <1>12, <1>13 DEF Serve

\* Every step, for the lease and the client.
LEMMA LeaseStep ==
    ASSUME ObsInv, EndStays, [ObsNext]_obsVars
    PROVE  LeaseFits'
<1>1. CASE Serve \/ LeaseExpires
  BY <1>1, ServeStep
<1>2. CASE LoseLease \/ ServerRestart
  <2>1. lease' = NoLease /\ NoLease \in Waiting /\ NoLease.pc = "none"
    BY <1>2 DEF LoseLease, ServerRestart, NoLease, Waiting
  <2>2. lease' \notin Continuing
    BY <2>1 DEF Continuing, NoLease
  <2>3. /\ client' \in [pc : {"starting", "idle", "asking", "done", "failed"},
                        token : Token, last : Snap]
        /\ client'.token = client.token /\ client'.last = client.last
        /\ client'.pc \in {"idle", client.pc}
    BY <1>2 DEF LoseLease, ServerRestart, ObsInv, ObsTypeOK
  <2> QED
    BY <2>1, <2>2, <2>3 DEF LeaseFits, ObsInv, TokenIsLast, ReconcilesTheEnd,
       CompletionAfterFinalProgress, EndStays, now
<1>3. CASE PlanChanged \/ ExecutionStartFails
  <2>1. UNCHANGED lease /\ client' = [client EXCEPT !.pc = "failed"]
    BY <1>3 DEF PlanChanged, ExecutionStartFails
  <2> QED
    BY <2>1, LeaseUntouched DEF ObsInv, ObsTypeOK
<1>4. CASE ExecutionRuns \/ ExecutionCompletes
  <2>1. UNCHANGED lease /\ client' = [client EXCEPT !.pc = "idle"]
    BY <1>4 DEF ExecutionRuns, ExecutionCompletes
  <2> QED
    BY <2>1, LeaseUntouched DEF ObsInv, ObsTypeOK
<1>5. CASE UNCHANGED <<lease, client>>
  BY <1>5, LeaseUntouched
<1>6. CASE \/ StartOperation \/ ExecutionEnds \/ ExecutionGivesUp \/ FinalProgress
           \/ FinalTerminal \/ removeExecution \/ WorkerCheckpoint \/ WorkerEnds
           \/ ProviderSettles \/ ProviderFails \/ FallbackReads \/ FallbackPublishes
           \/ StopRun \/ StopPublished \/ Observed
  <2>1. UNCHANGED <<lease, client>>
    BY <1>6 DEF StartOperation, ExecutionEnds, ExecutionGivesUp, FinalProgress,
       FinalTerminal, removeExecution, WorkerCheckpoint, WorkerEnds, ProviderSettles,
       ProviderFails, FallbackReads, FallbackPublishes, StopRun, StopPublished,
       Observed, obsVars
  <2> QED
    BY <2>1, <1>5
<1>7. CASE UNCHANGED obsVars
  BY <1>5, <1>7 DEF obsVars
<1> QED
  BY <1>1, <1>2, <1>3, <1>4, <1>6, <1>7 DEF ObsNext, Execute

LEMMA StartStep ==
    ASSUME ObsInv, EndStays, [ObsNext]_obsVars
    PROVE  StartsUnobserved'
<1> USE DEF ObsInv, StartsUnobserved, worldVars, serverVars
<1>1. CASE Serve
  BY <1>1 DEF Serve, ObserveRunLease, ReadRunStatus, InitialProgress, ObserveRecord,
     LocateRun, ObserveBackendProgress, ObserveBackendEnd, Reconcile, TakeLease,
     haveRead, NoLease
<1>2. CASE Execute
  BY <1>2 DEF Execute, PlanChanged, StartOperation, ExecutionRuns, ExecutionCompletes,
     ExecutionStartFails, ExecutionEnds, ExecutionGivesUp, FinalProgress,
     FinalTerminal, removeExecution
<1>3. CASE WorkerCheckpoint \/ WorkerEnds \/ StopRun
  <2>1. worker = "working" /\ exec' = exec
    BY <1>3 DEF WorkerCheckpoint, WorkerEnds, StopRun
  <2> QED
    BY <2>1 DEF EndStays
<1>4. CASE \/ LeaseExpires \/ LoseLease \/ ProviderSettles \/ ProviderFails
           \/ FallbackReads \/ FallbackPublishes \/ StopPublished \/ ServerRestart
           \/ Observed
  BY <1>4 DEF LeaseExpires, LoseLease, ProviderSettles, ProviderFails,
     FallbackReads, FallbackPublishes, StopPublished, ServerRestart, Observed,
     NoLease, obsVars
<1>5. CASE UNCHANGED obsVars
  BY <1>5 DEF obsVars
<1> QED
  BY <1>1, <1>2, <1>3, <1>4, <1>5 DEF ObsNext

LEMMA ObsInvInitially == ObsInit => ObsInv
<1> SUFFICES ASSUME ObsInit PROVE ObsInv
  OBVIOUS
<1>1. NoSnapshot \in Snap
  BY ObservationAssumption DEF NoSnapshot, Snap
<1>2. Unresumed \in Token /\ Unresumed.seen = NoSnapshot
  BY <1>1 DEF Unresumed, Token
<1>3. NoLease \in Waiting /\ NoLease.pc = "none"
  BY DEF NoLease, Waiting
<1> QED
  BY <1>1, <1>2, <1>3, ObservationAssumption
  DEF ObsInit, ObsInv, ObsTypeOK, StartsUnobserved, TerminalIsOver, TokenIsLast,
      ReconcilesTheEnd, CompletionAfterFinalProgress, NoRecord, Status, Active

\* A client that is told the run is over has been shown its final progress, for
\* any number of items, polls, lost answers and restarts
\* (reconcileTerminalObservationLease).
THEOREM ObservationCompletesAfterFinalProgress ==
    ObsSpec => []CompletionAfterFinalProgress
<1>1. ObsInv /\ [ObsNext]_obsVars => ObsInv'
  <2> SUFFICES ASSUME ObsInv, [ObsNext]_obsVars PROVE ObsInv'
    OBVIOUS
  <2>1. EndStays
    BY EndIsFinal
  <2> QED
    BY <2>1, ObservedWorldStep, RecordStep, LeaseStep, StartStep
    DEF ObsInv, ObsTypeOK, RecordFits, LeaseFits
<1>2. ObsInv => CompletionAfterFinalProgress
  BY DEF ObsInv
<1> QED
  BY ObsInvInitially, <1>1, <1>2, PTL DEF ObsSpec

-----------------------------------------------------------------------------
(* The shared dashboard *)

Projection == [print : Fingerprint, predates : BOOLEAN]
Queue == Seq(Projection)
Shown == Fingerprint \cup {NoFingerprint}
Reader == [on : BOOLEAN, previous : Shown, queue : Queue, shown : Shown,
           leased : BOOLEAN]

DashTypeOK ==
    /\ content \in Fingerprint /\ owed \in Nat
    /\ loop \in [pc : {"off", "initial", "wait", "delay", "read", "publish"},
                 read : Shown, sawRun : BOOLEAN, last : Shown]
    /\ providerRun \in BOOLEAN
    /\ loop.pc = "publish" => loop.read \in Fingerprint
    /\ subscriber \in [Subscriber -> Reader]

\* What a reader names as its own is what it shows.
NamesWhatItShows ==
    \A s \in Subscriber : subscriber[s].on =>
        subscriber[s].previous \in {subscriber[s].shown, NoFingerprint}

\* The loop runs while there is a subscriber.
LoopServes == anySubscribed => loop.pc # "off"

\* Every change was signalled, and every signal answered by a read.
Answered ==
    /\ ~unsignalled /\ owed = 0 /\ ~signal
    /\ loop.pc \notin {"initial", "delay", "read"}

\* Then a read about to be published is the content; else what is queued is the
\* content, and a reader that does not show it has it queued.
ReadsAreCurrent ==
    Answered =>
      IF loop.pc = "publish"
        THEN loop.read = content
        ELSE \A s \in Subscriber : subscriber[s].on =>
               LET queue == subscriber[s].queue
                   fresh == queue # <<>> /\ ~Head(queue).predates
               IN /\ fresh => Head(queue).print = content
                  /\ fresh \/ subscriber[s].shown = content

DashInv == DashTypeOK /\ NamesWhatItShows /\ LoopServes /\ ReadsAreCurrent

\* The replayed projection, or the one that is offered, is all a queue holds.
LEMMA OneProjection ==
    ASSUME NEW print \in Fingerprint, NEW predates \in BOOLEAN
    PROVE  LET queue == <<[print |-> print, predates |-> predates]>>
           IN /\ queue \in Queue /\ queue # <<>>
              /\ Head(queue).print = print /\ Head(queue).predates = predates
<1> DEFINE p == [print |-> print, predates |-> predates]
<1>1. p \in Projection /\ p.print = print /\ p.predates = predates
  BY DEF Projection
<1> HIDE DEF p
<1>2. <<p>> \in Queue /\ <<p>> # <<>> /\ Head(<<p>>) = p
  BY <1>1 DEF Queue
<1> QED
  BY <1>1, <1>2 DEF p

\* Steps that leave the subscribers alone.
LEMMA DashWorldStep ==
    ASSUME DashInv,
           \/ LocalChange \/ invalidateDashboard \/ ProviderChange \/ OtherHostChange
           \/ WaitForTrigger \/ DrainSignals \/ ReadDashboard
           \/ UNCHANGED dashVars
    PROVE  DashInv'
<1> USE DEF DashInv, storeSide, Shown
<1>1. UNCHANGED subscriber
  BY DEF LocalChange, invalidateDashboard, ProviderChange, OtherHostChange,
     WaitForTrigger, DrainSignals, ReadDashboard, dashVars
<1>2. CASE \/ LocalChange \/ invalidateDashboard \/ ProviderChange
           \/ OtherHostChange
  <2>1. UNCHANGED loop
    BY <1>2 DEF LocalChange, invalidateDashboard, ProviderChange, OtherHostChange
  <2>2. content' \in Fingerprint /\ providerRun' \in BOOLEAN
    BY <1>2 DEF LocalChange, invalidateDashboard, ProviderChange, OtherHostChange,
       Changes, DashTypeOK
  <2>3. \/ owed' = owed + 1
        \/ owed' = owed /\ unsignalled'
        \/ owed > 0 /\ owed' = owed - 1 /\ signal'
    BY <1>2 DEF LocalChange, invalidateDashboard, ProviderChange, OtherHostChange
  <2>4. owed' \in Nat /\ ~Answered'
    <3>1. owed \in Nat
      BY DEF DashTypeOK
    <3>2. owed' \in Nat /\ (owed' = owed + 1 => owed' # 0)
      BY <2>3, <3>1
    <3> QED
      BY <2>3, <3>2 DEF Answered
  <2>5. DashTypeOK'
    BY <1>1, <2>1, <2>2, <2>4 DEF DashTypeOK
  <2> QED
    BY <1>1, <2>1, <2>4, <2>5
    DEF NamesWhatItShows, LoopServes, anySubscribed, ReadsAreCurrent
<1>3. CASE WaitForTrigger \/ DrainSignals
  <2>1. /\ loop'.pc \in {"delay", "read"} /\ loop' = [loop EXCEPT !.pc = loop'.pc]
        /\ UNCHANGED <<content, owed, unsignalled, providerRun>>
    BY <1>3 DEF WaitForTrigger, DrainSignals, DashTypeOK
  <2>2. DashTypeOK' /\ ~Answered'
    BY <1>1, <2>1 DEF DashTypeOK, Answered
  <2> QED
    BY <1>1, <2>1, <2>2
    DEF NamesWhatItShows, LoopServes, anySubscribed, ReadsAreCurrent
<1>4. CASE ReadDashboard
  <2>1. /\ loop' = [loop EXCEPT !.pc = "publish", !.read = content, !.sawRun = providerRun]
        /\ UNCHANGED <<content, owed, providerRun>>
    BY <1>4 DEF ReadDashboard
  <2>2. loop'.pc = "publish" /\ loop'.read = content
    BY <2>1 DEF DashTypeOK
  <2>3. DashTypeOK'
    BY <1>1, <2>1, <2>2 DEF DashTypeOK
  <2> QED
    BY <1>1, <2>1, <2>2, <2>3
    DEF NamesWhatItShows, LoopServes, anySubscribed, ReadsAreCurrent
<1>5. CASE UNCHANGED dashVars
  BY <1>5 DEF dashVars, DashTypeOK, NamesWhatItShows, LoopServes, anySubscribed,
     ReadsAreCurrent, Answered
<1> QED
  BY <1>2, <1>3, <1>4, <1>5

LEMMA ProjectStep ==
    ASSUME DashInv, Project
    PROVE  DashInv'
<1> USE DEF DashInv, storeSide, Shown
<1>1. /\ loop.pc = "publish" /\ loop.read \in Fingerprint
      /\ loop' = [loop EXCEPT !.pc = "wait", !.read = NoFingerprint, !.last = loop.read]
      /\ UNCHANGED <<content, owed, unsignalled, signal, providerRun>>
  BY DEF Project, Projected, DashTypeOK
<1> DEFINE queue == <<[print |-> loop.read, predates |-> FALSE]>>
<1>2. /\ queue \in Queue /\ queue # <<>>
      /\ Head(queue).print = loop.read /\ Head(queue).predates = FALSE
  BY <1>1, OneProjection
<1>3. /\ DOMAIN subscriber' = Subscriber
      /\ \A s \in Subscriber :
           subscriber'[s] = IF subscriber[s].on THEN [subscriber[s] EXCEPT !.queue = queue]
                                                ELSE subscriber[s]
      /\ subscriber' = [s \in Subscriber |-> subscriber'[s]]
  BY DEF Project, Projected, offered
<1> HIDE DEF queue
<1>4. \A s \in Subscriber :
        /\ subscriber'[s] \in Reader
        /\ subscriber'[s].on = subscriber[s].on
        /\ subscriber'[s].previous = subscriber[s].previous
        /\ subscriber'[s].shown = subscriber[s].shown
        /\ subscriber[s].on => subscriber'[s].queue = queue
  <2>1. \A s \in Subscriber : subscriber[s] \in Reader
    BY DEF DashTypeOK
  <2> TAKE s \in Subscriber
  <2>2. CASE ~subscriber[s].on
    BY <2>1, <2>2, <1>3
  <2>3. CASE subscriber[s].on
    <3> DEFINE sub == subscriber[s]
               offer == subscriber'[s]
    <3>1. offer = [sub EXCEPT !.queue = queue] /\ sub \in Reader /\ queue \in Queue
      BY <2>1, <2>3, <1>2, <1>3
    <3> HIDE DEF sub, offer
    <3>2. /\ offer \in Reader /\ offer.on = sub.on /\ offer.queue = queue
          /\ offer.previous = sub.previous /\ offer.shown = sub.shown
      BY <3>1 DEF Reader
    <3> QED
      BY <3>2 DEF sub, offer
  <2> QED
    BY <2>2, <2>3
<1>5. DashTypeOK'
  BY <1>1, <1>3, <1>4 DEF DashTypeOK
<1>6. loop'.pc = "wait"
  BY <1>1 DEF DashTypeOK
<1>7. Answered' => loop.read = content
  BY <1>1, <1>6 DEF Answered, ReadsAreCurrent
<1>8. ReadsAreCurrent'
  BY <1>1, <1>2, <1>4, <1>6, <1>7 DEF ReadsAreCurrent
<1> QED
  BY <1>4, <1>5, <1>6, <1>8 DEF NamesWhatItShows, LoopServes

LEMMA SubscribeStep ==
    ASSUME DashInv, NEW s \in Subscriber, Subscribe(s)
    PROVE  DashInv'
<1> USE DEF DashInv, storeSide
<1>1. PICK print \in {subscriber[s].shown, NoFingerprint} :
        subscriber' = [subscriber EXCEPT
          ![s].on = TRUE, ![s].previous = print,
          ![s].queue = IF loop.last = NoFingerprint THEN <<>>
                       ELSE <<[print |-> loop.last, predates |-> TRUE]>>]
  BY DEF Subscribe
<1> DEFINE queue == IF loop.last = NoFingerprint THEN <<>>
                    ELSE <<[print |-> loop.last, predates |-> TRUE]>>
<1>2. queue \in Queue
  <2>1. loop.last \in Fingerprint \/ loop.last = NoFingerprint
    BY DEF DashTypeOK, Shown
  <2>2. <<>> \in Queue
    BY DEF Queue
  <2> QED
    BY <2>1, <2>2, OneProjection
<1>3. subscriber' = [subscriber EXCEPT ![s] =
        [subscriber[s] EXCEPT !.on = TRUE, !.previous = print, !.queue = queue]]
  BY <1>1
<1> HIDE DEF queue
<1>4. subscriber[s] \in Reader /\ DOMAIN subscriber = Subscriber
  BY DEF DashTypeOK
<1>5. /\ subscriber'[s] \in Reader
      /\ subscriber'[s].previous \in {subscriber'[s].shown, NoFingerprint}
      /\ \A t \in Subscriber : t # s => subscriber'[t] = subscriber[t]
      /\ DOMAIN subscriber' = Subscriber
      /\ subscriber' = [t \in Subscriber |-> subscriber'[t]]
  BY <1>2, <1>3, <1>4 DEF Reader, Shown
<1>6. subscriber' \in [Subscriber -> Reader]
  BY <1>5 DEF DashTypeOK
<1>7. /\ signal' = TRUE /\ UNCHANGED <<content, owed, unsignalled, providerRun>>
      /\ \/ loop' = loop /\ anySubscribed
         \/ loop' = [Off EXCEPT !.pc = "initial"]
  BY DEF Subscribe
<1>8. /\ loop' \in [pc : {"off", "initial", "wait", "delay", "read", "publish"},
                    read : Shown, sawRun : BOOLEAN, last : Shown]
      /\ loop'.pc = "publish" => loop'.read \in Fingerprint
      /\ loop'.pc # "off"
  BY <1>7 DEF DashTypeOK, Off, Shown, LoopServes
<1>9. DashTypeOK' /\ ~Answered'
  BY <1>6, <1>7, <1>8 DEF DashTypeOK, Answered
<1> QED
  BY <1>5, <1>8, <1>9 DEF NamesWhatItShows, LoopServes, ReadsAreCurrent

\* A reader leaves, or is given what it has queued.
LEMMA ReaderSteps ==
    ASSUME DashInv, NEW s \in Subscriber, NEW reader \in Reader,
           subscriber' = [subscriber EXCEPT ![s] = reader],
           reader.on => subscriber[s].on,
           reader.on => reader.previous \in {reader.shown, NoFingerprint},
           reader.on => reader.queue = <<>>,
           reader.on => LET queue == subscriber[s].queue
                            fresh == queue # <<>> /\ ~Head(queue).predates
                        IN reader.shown = IF fresh THEN Head(queue).print
                                          ELSE subscriber[s].shown,
           stopUnused(subscriber'),
           UNCHANGED <<storeSide, unsignalled, signal>>
    PROVE  DashInv'
<1> USE DEF DashInv, storeSide
<1>1. /\ subscriber'[s] = reader
      /\ \A t \in Subscriber : t # s => subscriber'[t] = subscriber[t]
      /\ subscriber' \in [Subscriber -> Reader]
  BY DEF DashTypeOK
<1>2. CASE anySubscribed'
  <2>1. UNCHANGED <<loop, content, owed, unsignalled, signal, providerRun>>
    BY <1>2 DEF anySubscribed, stopUnused
  <2>2. anySubscribed
    BY <1>1, <1>2 DEF anySubscribed
  <2>3. DashTypeOK' /\ (Answered' <=> Answered)
    BY <1>1, <2>1 DEF DashTypeOK, Answered
  <2>4. ReadsAreCurrent'
    <3> SUFFICES ASSUME Answered, loop.pc # "publish", NEW t \in Subscriber,
                        subscriber'[t].on
                 PROVE  LET queue == subscriber'[t].queue
                            fresh == queue # <<>> /\ ~Head(queue).predates
                        IN /\ fresh => Head(queue).print = content
                           /\ fresh \/ subscriber'[t].shown = content
      BY <2>1, <2>3 DEF ReadsAreCurrent
    <3>1. CASE t # s
      BY <1>1, <3>1 DEF ReadsAreCurrent
    <3>2. CASE t = s
      BY <1>1, <3>2 DEF ReadsAreCurrent
    <3> QED
      BY <3>1, <3>2
  <2>5. NamesWhatItShows'
    BY <1>1 DEF NamesWhatItShows
  <2> QED
    BY <2>1, <2>2, <2>3, <2>4, <2>5 DEF LoopServes
<1>3. CASE ~anySubscribed'
  <2>1. /\ loop' = Off /\ UNCHANGED <<content, owed, unsignalled, signal, providerRun>>
        /\ \A t \in Subscriber : ~subscriber'[t].on
    BY <1>3 DEF anySubscribed, stopUnused
  <2>2. DashTypeOK'
    BY <1>1, <2>1 DEF DashTypeOK, Off, Shown
  <2> QED
    BY <1>3, <2>1, <2>2 DEF NamesWhatItShows, LoopServes, ReadsAreCurrent, Off
<1> QED
  BY <1>2, <1>3

LEMMA DeliverStep ==
    ASSUME DashInv, NEW s \in Subscriber, Deliver(s) \/ Unsubscribe(s)
    PROVE  DashInv'
<1> DEFINE sub == subscriber[s]
           projection == Head(sub.queue)
           news == ~projection.predates /\ projection.print # sub.previous
<1>1. sub \in Reader /\ sub.on
  BY DEF DashInv, DashTypeOK, Deliver, Unsubscribe
<1>2. sub.previous \in {sub.shown, NoFingerprint}
  BY <1>1 DEF DashInv, NamesWhatItShows
<1>3. CASE Deliver(s)
  <2> DEFINE reader == [sub EXCEPT !.queue = <<>>,
                 !.previous = IF projection.predates THEN @ ELSE projection.print,
                 !.shown = IF news THEN projection.print ELSE @,
                 !.on = ~(news /\ sub.leased)]
  <2>1. /\ subscriber' = [subscriber EXCEPT ![s] = reader]
        /\ sub.queue # <<>> /\ stopUnused(subscriber')
        /\ UNCHANGED <<storeSide, unsignalled, signal>>
    BY <1>3 DEF Deliver
  <2>2. projection \in Projection
    BY <1>1, <2>1 DEF Reader, Queue
  <2> HIDE DEF sub, projection
  <2>3. projection.print \in Fingerprint /\ projection.predates \in BOOLEAN
    BY <2>2 DEF Projection
  <2>4. /\ reader \in Reader /\ reader.queue = <<>>
        /\ reader.previous = (IF projection.predates THEN sub.previous ELSE projection.print)
        /\ reader.shown = (IF news THEN projection.print ELSE sub.shown)
    <3> DEFINE previous == IF projection.predates THEN sub.previous ELSE projection.print
               shown == IF news THEN projection.print ELSE sub.shown
               on == ~(news /\ sub.leased)
    <3>1. sub.previous \in Shown /\ sub.shown \in Shown /\ <<>> \in Queue
      BY <1>1 DEF Reader, Queue
    <3>2. previous \in Shown /\ shown \in Shown /\ on \in BOOLEAN
      BY <2>3, <3>1 DEF Shown
    <3>3. reader = [sub EXCEPT !.queue = <<>>, !.previous = previous, !.shown = shown,
                               !.on = on]
      OBVIOUS
    <3> HIDE DEF previous, shown, on, reader
    <3>4. reader \in Reader /\ reader.queue = <<>> /\ reader.previous = previous
          /\ reader.shown = shown
      BY <1>1, <3>1, <3>2, <3>3 DEF Reader
    <3> QED
      BY <3>4 DEF previous, shown
  <2> HIDE DEF reader
  <2>5. reader.shown = IF ~projection.predates THEN projection.print ELSE sub.shown
    BY <2>3, <2>4, <1>2, FingerprintAssumption
  <2>6. reader.previous \in {reader.shown, NoFingerprint}
    BY <2>4, <2>5, <1>2
  <2> QED
    BY <1>1, <2>1, <2>4, <2>5, <2>6, ReaderSteps DEF sub, projection
<1>4. CASE Unsubscribe(s)
  <2> DEFINE reader == [sub EXCEPT !.on = FALSE, !.queue = <<>>]
  <2>1. reader \in Reader /\ ~reader.on
    <3>1. \A r \in Reader : LET gone == [r EXCEPT !.on = FALSE, !.queue = <<>>]
                           IN gone \in Reader /\ gone.on = FALSE
      <4>1. <<>> \in Queue
        BY DEF Queue
      <4> QED
        BY <4>1 DEF Reader
    <3> HIDE DEF sub
    <3> QED
      BY <1>1, <3>1
  <2>2. /\ subscriber' = [subscriber EXCEPT ![s] = reader]
        /\ stopUnused(subscriber')
        /\ UNCHANGED <<storeSide, unsignalled, signal>>
    BY <1>4 DEF Unsubscribe
  <2> HIDE DEF reader, sub
  <2> QED
    BY <2>1, <2>2, ReaderSteps
<1> QED
  BY <1>3, <1>4

LEMMA DashInvInitially == DashInit => DashInv
<1> SUFFICES ASSUME DashInit PROVE DashInv
  OBVIOUS
<1>1. \A b \in BOOLEAN : [Unsubscribed EXCEPT !.leased = b] \in Reader
                        /\ ~[Unsubscribed EXCEPT !.leased = b].on
  <2>1. Unsubscribed \in Reader /\ Unsubscribed.on = FALSE
    BY DEF Unsubscribed, Reader, Shown, Queue
  <2>2. \A r \in Reader : \A b \in BOOLEAN :
           [r EXCEPT !.leased = b] \in Reader /\ [r EXCEPT !.leased = b].on = r.on
    BY DEF Reader
  <2> QED
    BY <2>1, <2>2
<1>2. subscriber \in [Subscriber -> Reader] /\ \A s \in Subscriber : ~subscriber[s].on
  BY <1>1 DEF DashInit
<1>3. /\ Off \in [pc : {"off", "initial", "wait", "delay", "read", "publish"},
                  read : Shown, sawRun : BOOLEAN, last : Shown]
      /\ Off.pc = "off"
  BY DEF Off, Shown
<1> QED
  BY <1>2, <1>3 DEF DashInit, DashInv, DashTypeOK, NamesWhatItShows, LoopServes,
     anySubscribed, ReadsAreCurrent

\* No signal is lost, for any number of readers, contents and changes: a reader
\* that is behind has the content queued, or a read of it is under way or asked
\* for (the projection loop of server/service.ts).
THEOREM DashboardCatchesUp == DashSpec => []SignalledChangeUnderway
<1>1. DashInv /\ [DashNext]_dashVars => DashInv'
  <2> SUFFICES ASSUME DashInv, [DashNext]_dashVars PROVE DashInv'
    OBVIOUS
  <2>1. ASSUME NEW s \in Subscriber, Subscribe(s) \/ Deliver(s) \/ Unsubscribe(s)
        PROVE  DashInv'
    BY <2>1, SubscribeStep, DeliverStep
  <2> QED
    BY <2>1, DashWorldStep, ProjectStep DEF DashNext
<1>2. DashInv => SignalledChangeUnderway
  <2> SUFFICES ASSUME DashInv, NEW s \in Subscriber, subscriber[s].on,
                      subscriber[s].shown # content, ~unsignalled, owed = 0
               PROVE  \/ signal
                      \/ loop.pc \in {"initial", "delay", "read"}
                      \/ loop.pc = "publish" /\ loop.read = content
                      \/ /\ subscriber[s].queue # <<>>
                         /\ Head(subscriber[s].queue).print = content
                         /\ ~Head(subscriber[s].queue).predates
    BY DEF SignalledChangeUnderway
  <2> QED
    BY DEF DashInv, ReadsAreCurrent, Answered
<1> QED
  BY DashInvInitially, <1>1, <1>2, PTL DEF DashSpec

-----------------------------------------------------------------------------
(* The local endpoint *)

Lives == {"unborn", "loading", "bound", "serving", "checking", "leaving",
          "closing", "gone"}
Clients == {"reading", "connecting", "attempting", "removing", "repolling",
            "starting", "polling", "connected", "disconnected", "failed"}

EndpointTypeOK ==
    /\ file \in [Instance -> {"none", "listener", "public", "claimed"}]
    /\ DOMAIN inode = Instance
    /\ instance \in [Instance -> [pc : Lives, accepted : BOOLEAN]]
    /\ process \in [Process -> [pc : Clients, server : Instance \cup {Nobody},
                                child : Instance \cup {Nobody}]]
    /\ DOMAIN claim = Claimer
    /\ \A x \in Claimer : claim[x].of \in Instance \/ claim[x] = Unclaimed

\* A server has no file before it listens, and its own name until it publishes.
FilesByLife ==
    \A s \in Instance :
        /\ instance[s].pc \in {"unborn", "loading"} => file[s] = "none"
        /\ instance[s].pc = "bound" => file[s] = "listener"

\* A claimed file is held by one claimer, which has renamed it away.
ClaimsAreOwn ==
    /\ \A x \in Claimer : claim[x].of \in Instance => file[claim[x].of] = "claimed"
    /\ \A x, y \in Claimer : claim[x].of \in Instance /\ claim[y].of = claim[x].of => x = y
    /\ \A c \in Process : claim[c] # Unclaimed => process[c].pc \in {"removing", "repolling"}

\* Servers that have had an endpoint are told apart by it.
IdentitiesDiffer ==
    platform = "win32" \/ ~reused =>
        \A s, t \in Instance :
            /\ s # t
            /\ instance[s].pc \in {"bound", "serving", "checking", "leaving"}
            => identity(s) # identity(t)

\* Whoever holds the file of a serving server will put it back.
ClaimsOfServing ==
    platform = "win32" \/ ~reused =>
        \A x \in Claimer : \A s \in Instance :
            claim[x].of = s /\ listening(s) => claim[x].expects # identity(s)

EndpointInv ==
    /\ EndpointTypeOK /\ FilesByLife /\ ClaimsAreOwn
    /\ IdentitiesDiffer /\ ClaimsOfServing /\ EndpointNotLost

InstanceType == [Instance -> [pc : Lives, accepted : BOOLEAN]]
ProcessType == [Process -> [pc : Clients, server : Instance \cup {Nobody},
                            child : Instance \cup {Nobody}]]
HasEndpoint(s) == instance[s].pc \in {"bound", "serving", "checking", "leaving"}

\* Clients and servers go on.  Nobody becomes a listener; who is started has not
\* been alive.
Proceeds ==
    /\ instance' \in InstanceType /\ process' \in ProcessType
    /\ \A s \in Instance :
         /\ listening(s)' => listening(s)
         /\ HasEndpoint(s)' => HasEndpoint(s)
         /\ instance'[s].pc \in {"unborn", "loading"} =>
              instance[s].pc \in {"unborn", "loading"}
         /\ instance'[s].pc = "bound" => instance[s].pc = "bound"
ClaimersStay ==
    \A c \in Process : process'[c].pc \in {"removing", "repolling"} \/ claim[c] = Unclaimed

LEMMA Deaths ==
    ASSUME EndpointInv, NEW s \in Instance, Dies(s)
    PROVE  Proceeds /\ ClaimersStay
<1>1. Gone \in [pc : Lives, accepted : BOOLEAN] /\ Gone.pc = "gone"
  BY DEF Gone, Unborn, Lives
<1>2. /\ Disconnected \in [pc : Clients, server : Instance \cup {Nobody},
                           child : Instance \cup {Nobody}]
  BY DEF Disconnected, Outside, Clients
<1>3. instance' \in InstanceType /\ instance'[s] = Gone
      /\ \A t \in Instance \ {s} : instance'[t] = instance[t]
  BY <1>1 DEF Dies, EndpointInv, EndpointTypeOK, InstanceType
<1>4. process' \in ProcessType /\ \A c \in Process :
        process'[c] = process[c] \/ process[c].pc = "connected"
  BY <1>2 DEF Dies, EndpointInv, EndpointTypeOK, ProcessType, connected
<1> QED
  BY <1>1, <1>3, <1>4 DEF Proceeds, ClaimersStay, listening, HasEndpoint, EndpointInv,
     ClaimsAreOwn

\* The server's looks around, and a crash.
LEMMA ServerProceeds ==
    ASSUME EndpointInv, NEW s \in Instance,
           LookAtClients(s) \/ LookAtRuns(s) \/ Crash(s)
    PROVE  Proceeds /\ ClaimersStay
<1>1. CASE Crash(s)
  BY <1>1, Deaths DEF Crash
<1>2. CASE LookAtClients(s) \/ LookAtRuns(s)
  <2> DEFINE old == instance[s]
             new == instance'[s]
  <2>1. /\ instance \in InstanceType /\ process \in ProcessType
        /\ old \in [pc : Lives, accepted : BOOLEAN]
    BY DEF EndpointInv, EndpointTypeOK, InstanceType, ProcessType
  <2>2. /\ \/ instance' = [instance EXCEPT ![s] = [old EXCEPT !.accepted = TRUE]]
           \/ \E pc \in {"checking", "leaving", "serving"} :
                instance' = [instance EXCEPT ![s] = [old EXCEPT !.pc = pc]]
        /\ old.pc \in {"serving", "checking"} /\ UNCHANGED process
    BY <1>2 DEF LookAtClients, LookAtRuns
  <2>3. /\ new \in [pc : Lives, accepted : BOOLEAN]
        /\ new.pc \in {"serving", "checking", "leaving"}
        /\ instance' = [instance EXCEPT ![s] = new]
    <3> HIDE DEF old
    <3> QED
      BY <2>1, <2>2, ZenonT(40) DEF InstanceType, Lives
  <2> HIDE DEF new
  <2>4. instance' \in InstanceType /\ instance'[s] = new
        /\ \A t \in Instance \ {s} : instance'[t] = instance[t]
    BY <2>1, <2>3 DEF InstanceType
  <2> QED
    BY <2>1, <2>2, <2>3, <2>4 DEF Proceeds, ClaimersStay, listening, HasEndpoint, EndpointInv,
       ClaimsAreOwn
<1> QED
  BY <1>1, <1>2

\* What one client does next, if it holds no claim.
LEMMA ClientMoves ==
    ASSUME EndpointInv, UNCHANGED instance, NEW c \in Process,
           claim[c] = Unclaimed,
           process' = [process EXCEPT ![c] = process'[c]],
           process'[c] \in [pc : Clients, server : Instance \cup {Nobody},
                            child : Instance \cup {Nobody}]
    PROVE  Proceeds /\ ClaimersStay
<1>1. process' \in ProcessType /\ \A d \in Process \ {c} : process'[d] = process[d]
  BY DEF EndpointInv, EndpointTypeOK, ProcessType
<1> QED
  BY <1>1 DEF Proceeds, ClaimersStay, listening, HasEndpoint, EndpointInv,
     EndpointTypeOK, InstanceType, ClaimsAreOwn

LEMMA ClientProceeds ==
    ASSUME EndpointInv, NEW c \in Process,
           \/ ReadTarget(c) \/ NoTarget(c) \/ Connect(c) \/ Spawn(c)
           \/ StartupFails(c) \/ Disconnect(c) \/ Return(c)
    PROVE  Proceeds /\ ClaimersStay
<1> DEFINE Client == [pc : Clients, server : Instance \cup {Nobody},
                      child : Instance \cup {Nobody}]
           old == process[c]
<1>1. /\ process \in [Process -> Client] /\ old \in Client
      /\ instance \in InstanceType
      /\ old.pc \notin {"removing", "repolling"} => claim[c] = Unclaimed
  BY DEF EndpointInv, EndpointTypeOK, ClaimsAreOwn, InstanceType
<1>2. \A s \in published : s \in Instance
  BY DEF published
<1>3. /\ \A r \in Client : \A pc \in Clients : [r EXCEPT !.pc = pc] \in Client
      /\ \A r \in Client : \A pc \in Clients : \A s \in Instance :
           /\ [r EXCEPT !.server = s, !.pc = pc] \in Client
           /\ [r EXCEPT !.pc = pc, !.child = s] \in Client
  OBVIOUS
<1>4. CASE ReadTarget(c)
  <2>1. PICK s \in published : process' = [process EXCEPT ![c].server = s,
           ![c].pc = IF @ = "reading" THEN "connecting" ELSE "attempting"]
    BY <1>4 DEF ReadTarget
  <2> DEFINE pc == IF old.pc = "reading" THEN "connecting" ELSE "attempting"
  <2>2. process' = [process EXCEPT ![c] = [old EXCEPT !.server = s, !.pc = pc]]
    BY <1>1, <2>1
  <2>3. pc \in Clients
    BY DEF Clients
  <2> HIDE DEF pc
  <2>4. [old EXCEPT !.server = s, !.pc = pc] \in Client
    BY <1>1, <1>2, <1>3, <2>3
  <2>5. process'[c] \in Client /\ process' = [process EXCEPT ![c] = process'[c]]
    BY <1>1, <2>2, <2>4
  <2> QED
    BY <1>1, <1>4, <2>5, ClientMoves DEF ReadTarget
<1>5. CASE NoTarget(c)
  <2>1. process' = [process EXCEPT ![c] = [old EXCEPT !.pc = "starting"]]
    BY <1>1, <1>5 DEF NoTarget
  <2>2. [old EXCEPT !.pc = "starting"] \in Client
    <3>1. "starting" \in Clients
      BY DEF Clients
    <3> HIDE DEF old, Client
    <3> QED
      BY <1>1, <1>3, <3>1
  <2>3. process'[c] \in Client /\ process' = [process EXCEPT ![c] = process'[c]]
    BY <1>1, <2>1, <2>2
  <2> QED
    BY <1>1, <1>5, <2>3, ClientMoves DEF NoTarget
<1>6. CASE Connect(c)
  <2>1. PICK s \in IF platform = "win32" THEN {process[c].server} ELSE published :
          process' = [process EXCEPT ![c] =
              [pc |-> "connected", server |-> s, child |-> Nobody]]
    BY <1>6 DEF Connect
  <2>2. s \in Instance \cup {Nobody}
    BY <1>1, <1>2, <2>1
  <2>3. process'[c] \in Client /\ process' = [process EXCEPT ![c] = process'[c]]
    BY <1>1, <2>1, <2>2 DEF Clients
  <2> QED
    BY <1>1, <1>6, <2>3, ClientMoves DEF Connect
<1>7. CASE Disconnect(c) \/ Return(c)
  <2>1. Disconnected \in Client /\ Outside \in Client
    BY DEF Disconnected, Outside, Clients
  <2>2. process'[c] \in Client /\ process' = [process EXCEPT ![c] = process'[c]]
    BY <1>1, <1>7, <2>1 DEF Disconnect, Return
  <2> QED
    BY <1>1, <1>7, <2>2, ClientMoves DEF Disconnect, Return
<1>8. CASE Spawn(c)
  <2>1. PICK s \in Instance :
          /\ instance[s].pc = "unborn"
          /\ instance' = [instance EXCEPT ![s].pc = "loading"]
          /\ process' = [process EXCEPT ![c].pc = "polling", ![c].child = s]
          /\ old.pc = "starting"
    BY <1>8 DEF Spawn
  <2>2. /\ instance' \in InstanceType /\ instance'[s].pc = "loading"
        /\ \A t \in Instance \ {s} : instance'[t] = instance[t]
    <3>1. \A r \in [pc : Lives, accepted : BOOLEAN] :
             [r EXCEPT !.pc = "loading"] \in [pc : Lives, accepted : BOOLEAN]
             /\ [r EXCEPT !.pc = "loading"].pc = "loading"
      BY DEF Lives
    <3>2. instance' = [instance EXCEPT ![s] = [instance[s] EXCEPT !.pc = "loading"]]
      BY <1>1, <2>1
    <3> QED
      BY <1>1, <3>1, <3>2 DEF InstanceType
  <2>3. process' = [process EXCEPT ![c] = [old EXCEPT !.pc = "polling", !.child = s]]
    BY <1>1, <2>1
  <2>4. [old EXCEPT !.pc = "polling", !.child = s] \in Client
    <3>1. "polling" \in Clients
      BY DEF Clients
    <3> HIDE DEF old, Client
    <3> QED
      BY <1>1, <1>3, <3>1
  <2>5. process' \in ProcessType /\ \A d \in Process \ {c} : process'[d] = process[d]
    BY <1>1, <2>3, <2>4 DEF ProcessType
  <2> QED
    BY <1>1, <2>1, <2>2, <2>5 DEF Proceeds, ClaimersStay, listening, HasEndpoint,
       EndpointInv, ClaimsAreOwn
<1>9. CASE StartupFails(c)
  <2> DEFINE failed == [Outside EXCEPT !.pc = "failed"]
  <2>1. failed \in Client /\ Disconnected \in Client
    BY DEF Outside, Disconnected, Clients
  <2>2. Gone \in [pc : Lives, accepted : BOOLEAN] /\ Gone.pc = "gone"
    BY DEF Gone, Unborn, Lives
  <2>3. /\ instance' = instance \/ instance' = [instance EXCEPT ![old.child] = Gone]
        /\ \/ process' = [process EXCEPT ![c] = failed]
           \/ process' = [d \in Process |-> IF d \in connected(old.child)
                            THEN Disconnected ELSE [process EXCEPT ![c] = failed][d]]
        /\ old.pc = "polling"
    BY <1>9 DEF StartupFails
  <2> HIDE DEF failed
  <2>4. /\ instance' \in InstanceType
        /\ \A t \in Instance : instance'[t] = instance[t] \/ instance'[t] = Gone
    BY <1>1, <2>2, <2>3 DEF InstanceType
  <2>5. /\ process' \in ProcessType
        /\ \A d \in Process \ {c} : process'[d] = process[d] \/ process[d].pc = "connected"
    BY <1>1, <2>1, <2>3 DEF ProcessType, connected
  <2> QED
    BY <1>1, <2>2, <2>3, <2>4, <2>5 DEF Proceeds, ClaimersStay, listening, HasEndpoint,
       EndpointInv, ClaimsAreOwn
<1> QED
  BY <1>4, <1>5, <1>6, <1>7, <1>8, <1>9

\* Steps that leave the files alone.
LEMMA FilesUntouched ==
    ASSUME EndpointInv, Proceeds, ClaimersStay,
           UNCHANGED <<platform, file, inode, claim, displaced, reused>>
    PROVE  EndpointInv'
<1>1. EndpointTypeOK' /\ FilesByLife' /\ ClaimsAreOwn'
  BY DEF Proceeds, ClaimersStay, InstanceType, ProcessType, EndpointInv, EndpointTypeOK,
     FilesByLife, ClaimsAreOwn
<1>2. IdentitiesDiffer'
  BY DEF Proceeds, HasEndpoint, EndpointInv, IdentitiesDiffer, identity
<1>3. ClaimsOfServing' /\ EndpointNotLost'
  BY DEF Proceeds, EndpointInv, ClaimsOfServing, EndpointNotLost, identity
<1> QED
  BY <1>1, <1>2, <1>3 DEF EndpointInv

\* A file is renamed away.
LEMMA ClaimTaken ==
    ASSUME EndpointInv, Proceeds, NEW x \in Claimer, NEW expected,
           claim[x] = Unclaimed, claimed(x, expected),
           \A c \in Process : process'[c].pc \in {"removing", "repolling"}
                             \/ (claim[c] = Unclaimed /\ c # x),
           platform = "win32" \/ ~reused =>
               \A s \in published : listening(s)' => expected # identity(s),
           UNCHANGED <<platform, inode, displaced, reused>>
    PROVE  EndpointInv'
<1>1. CASE ~exists
  BY <1>1, FilesUntouched DEF claimed, ClaimersStay
<1>2. CASE exists
  <2>1. PICK s \in published :
          /\ file' = [file EXCEPT ![s] = "claimed"]
          /\ claim' = [claim EXCEPT ![x] = [of |-> s, expects |-> expected]]
    BY <1>2 DEF claimed, exists
  <2>2. s \in Instance /\ file[s] = "public"
    BY DEF published
  <2>3. /\ file' \in [Instance -> {"none", "listener", "public", "claimed"}]
        /\ file'[s] = "claimed" /\ \A t \in Instance \ {s} : file'[t] = file[t]
        /\ DOMAIN claim' = Claimer /\ claim'[x].of = s /\ claim'[x].expects = expected
        /\ \A y \in Claimer \ {x} : claim'[y] = claim[y]
    BY <2>1, <2>2 DEF EndpointInv, EndpointTypeOK
  <2>4. EndpointTypeOK'
    BY <2>2, <2>3 DEF EndpointInv, EndpointTypeOK, Proceeds, InstanceType, ProcessType
  <2>5. FilesByLife'
    BY <2>2, <2>3 DEF EndpointInv, FilesByLife, Proceeds
  <2>6. ClaimsAreOwn'
    <3>1. \A y \in Claimer : claim[y].of # s
      BY <2>2 DEF EndpointInv, ClaimsAreOwn
    <3>2. \A c \in Process : c \in Claimer
      BY DEF Claimer
    <3> QED
      BY <2>2, <2>3, <3>1, <3>2 DEF EndpointInv, ClaimsAreOwn
  <2>7. IdentitiesDiffer'
    BY DEF Proceeds, HasEndpoint, EndpointInv, IdentitiesDiffer, identity
  <2>8. ClaimsOfServing'
    <3> SUFFICES ASSUME platform = "win32" \/ ~reused, NEW y \in Claimer,
                        NEW t \in Instance, claim'[y].of = t, listening(t)'
                 PROVE  claim'[y].expects # identity(t)'
      BY DEF ClaimsOfServing
    <3>1. identity(t)' = identity(t) /\ listening(t)
      BY DEF identity, Proceeds
    <3>2. CASE y = x
      BY <2>1, <2>3, <3>1, <3>2
    <3>3. CASE y # x
      BY <2>3, <3>1, <3>3 DEF EndpointInv, ClaimsOfServing
    <3> QED
      BY <3>2, <3>3
  <2>9. EndpointNotLost'
    <3> SUFFICES ASSUME platform = "win32" \/ ~reused, NEW t \in Instance, listening(t)'
                 PROVE  \/ file'[t] = "public"
                        \/ \E y \in Claimer : claim'[y].of = t
                        \/ t \in displaced'
      BY DEF EndpointNotLost
    <3>1. CASE t = s
      BY <2>3, <3>1
    <3>2. CASE t # s
      <4>1. \/ file[t] = "public" \/ \E y \in Claimer : claim[y].of = t
            \/ t \in displaced
        BY DEF Proceeds, EndpointInv, EndpointNotLost
      <4>2. claim[x].of # t
        BY ClaimerAssumption DEF Unclaimed
      <4> QED
        BY <2>3, <3>2, <4>1, <4>2
    <3> QED
      BY <3>1, <3>2
  <2> QED
    BY <2>4, <2>5, <2>6, <2>7, <2>8, <2>9 DEF EndpointInv
<1> QED
  BY <1>1, <1>2

\* A claimed file goes, or goes back.
LEMMA ClaimSettled ==
    ASSUME EndpointInv, Proceeds, NEW x \in Claimer,
           IF claim[x] # Unclaimed THEN settled(x)
                                   ELSE UNCHANGED <<file, claim, displaced>>,
           \A c \in Process : process'[c].pc \in {"removing", "repolling"}
                             \/ claim[c] = Unclaimed \/ c = x,
           UNCHANGED <<platform, inode, reused>>
    PROVE  EndpointInv'
<1>1. CASE claim[x] = Unclaimed
  BY <1>1, FilesUntouched DEF ClaimersStay
<1>2. CASE claim[x] # Unclaimed
  <2> DEFINE s == claim[x].of
             restore == identity(s) # claim[x].expects
  <2>1. s \in Instance /\ file[s] = "claimed"
    BY <1>2 DEF EndpointInv, EndpointTypeOK, ClaimsAreOwn
  <2>2. /\ claim' = [claim EXCEPT ![x] = Unclaimed]
        /\ file' = [file EXCEPT ![s] = IF restore /\ ~exists THEN "public" ELSE "none"]
        /\ displaced' = IF restore /\ exists THEN displaced \cup {s} ELSE displaced
    BY <1>2 DEF settled
  <2>3. (platform = "win32" \/ ~reused) /\ listening(s) => restore
    BY <2>1 DEF EndpointInv, ClaimsOfServing
  <2>4. \A y \in Claimer \ {x} : claim[y].of # s
    BY <2>1 DEF EndpointInv, ClaimsAreOwn
  <2> HIDE DEF s, restore
  <2>5. /\ file' \in [Instance -> {"none", "listener", "public", "claimed"}]
        /\ file'[s] = (IF restore /\ ~exists THEN "public" ELSE "none")
        /\ \A t \in Instance \ {s} : file'[t] = file[t]
        /\ DOMAIN claim' = Claimer /\ claim'[x] = Unclaimed
        /\ \A y \in Claimer \ {x} : claim'[y] = claim[y]
    BY <2>1, <2>2 DEF EndpointInv, EndpointTypeOK
  <2>6. EndpointTypeOK'
    BY <2>5 DEF EndpointInv, EndpointTypeOK, Proceeds, InstanceType, ProcessType
  <2>7. FilesByLife'
    BY <2>1, <2>5 DEF EndpointInv, FilesByLife, Proceeds
  <2>8. Unclaimed.of \notin Instance
    BY ClaimerAssumption DEF Unclaimed
  <2>9. ClaimsAreOwn'
    <3>1. \A c \in Process : c \in Claimer
      BY DEF Claimer
    <3> QED
      BY <2>4, <2>5, <2>8, <3>1 DEF EndpointInv, ClaimsAreOwn
  <2>10. IdentitiesDiffer'
    BY DEF Proceeds, HasEndpoint, EndpointInv, IdentitiesDiffer, identity
  <2>11. \A t \in Instance : identity(t)' = identity(t)
    BY DEF identity
  <2>12. ClaimsOfServing'
    BY <2>5, <2>8, <2>11 DEF Proceeds, EndpointInv, ClaimsOfServing
  <2>13. EndpointNotLost'
    <3> SUFFICES ASSUME platform = "win32" \/ ~reused, NEW t \in Instance, listening(t)
                 PROVE  \/ file'[t] = "public"
                        \/ \E y \in Claimer : claim'[y].of = t
                        \/ t \in displaced'
      BY DEF EndpointNotLost, Proceeds
    <3>1. CASE t = s
      BY <2>1, <2>2, <2>3, <2>5, <3>1
    <3>2. CASE t # s
      BY <2>2, <2>5, <3>2 DEF EndpointInv, EndpointNotLost, s
    <3> QED
      BY <3>1, <3>2
  <2> QED
    BY <2>6, <2>7, <2>9, <2>10, <2>12, <2>13 DEF EndpointInv
<1> QED
  BY <1>1, <1>2

LEMMA LeavesAndFailures ==
    ASSUME EndpointInv,
           \/ \E s \in Instance : Leave(s) \/ LeaveSettles(s)
           \/ \E c \in Process : ConnectFails(c) \/ RemoveSettles(c)
    PROVE  EndpointInv'
<1> DEFINE Client == [pc : Clients, server : Instance \cup {Nobody},
                      child : Instance \cup {Nobody}]
<1>1. /\ instance \in InstanceType /\ process \in [Process -> Client]
      /\ \A c \in Process : process[c].pc \in {"removing", "repolling"}
                            \/ claim[c] = Unclaimed
  BY DEF EndpointInv, EndpointTypeOK, InstanceType, ClaimsAreOwn
<1>2. Process \cup Instance = Claimer /\ \A s \in Instance : s \notin Process
  BY ClaimerAssumption DEF Claimer
<1>3. ASSUME NEW s \in Instance, Leave(s) PROVE EndpointInv'
  <2>1. /\ instance[s].pc = "leaving" /\ claim[s] = Unclaimed
        /\ claimed(s, identity(s))
        /\ instance' = [instance EXCEPT ![s] = [instance[s] EXCEPT !.pc = "closing"]]
        /\ UNCHANGED <<platform, inode, process, displaced, reused, crashes>>
    BY <1>1, <1>3 DEF Leave
  <2>2. /\ instance' \in InstanceType /\ instance'[s].pc = "closing"
        /\ \A t \in Instance \ {s} : instance'[t] = instance[t]
    <3>1. \A r \in [pc : Lives, accepted : BOOLEAN] :
             [r EXCEPT !.pc = "closing"] \in [pc : Lives, accepted : BOOLEAN]
             /\ [r EXCEPT !.pc = "closing"].pc = "closing"
      BY DEF Lives
    <3> QED
      BY <1>1, <2>1, <3>1 DEF InstanceType
  <2>3. Proceeds
    BY <1>1, <2>1, <2>2 DEF Proceeds, ProcessType, listening, HasEndpoint
  <2>4. platform = "win32" \/ ~reused =>
          \A t \in published : listening(t)' => identity(s) # identity(t)
    <3> SUFFICES ASSUME platform = "win32" \/ ~reused, NEW t \in published, listening(t)'
                 PROVE  identity(s) # identity(t)
      OBVIOUS
    <3>1. t \in Instance /\ t # s
      BY <2>2 DEF published, listening
    <3> QED
      BY <2>1, <3>1 DEF EndpointInv, IdentitiesDiffer
  <2> QED
    BY <1>1, <1>2, <2>1, <2>3, <2>4, ClaimTaken
<1>4. ASSUME NEW s \in Instance, LeaveSettles(s) PROVE EndpointInv'
  <2>1. Proceeds /\ ClaimersStay
    BY <1>4, Deaths DEF LeaveSettles
  <2> QED
    BY <1>2, <1>4, <2>1, ClaimSettled DEF LeaveSettles, ClaimersStay
<1>5. ASSUME NEW c \in Process, ConnectFails(c) \/ RemoveSettles(c)
      PROVE  /\ process' \in ProcessType
             /\ \A d \in Process \ {c} : process'[d] = process[d]
             /\ ConnectFails(c) => process'[c].pc \in {"removing", "repolling"}
  <2>1. process[c] \in Client
    BY <1>1
  <2>2. \A r \in Client : \A pc \in {"removing", "repolling", "starting", "polling"} :
           /\ [r EXCEPT !.pc = pc] \in Client
           /\ [r EXCEPT !.pc = pc].pc = pc
           /\ [r EXCEPT !.server = Nobody, !.pc = pc] \in Client
    BY DEF Clients
  <2>3. CASE ConnectFails(c)
    <3>1. PICK pc \in {"removing", "repolling"} :
            process' = [process EXCEPT ![c] = [process[c] EXCEPT !.pc = pc]]
      BY <1>1, <2>3 DEF ConnectFails
    <3> QED
      BY <1>1, <2>1, <2>2, <3>1 DEF ProcessType
  <2>4. CASE RemoveSettles(c)
    <3>1. PICK pc \in {"starting", "polling"} : process' =
             [process EXCEPT ![c] = [process[c] EXCEPT !.server = Nobody, !.pc = pc]]
      BY <1>1, <2>4 DEF RemoveSettles
    <3>2. ~ConnectFails(c)
      BY <2>4 DEF RemoveSettles, ConnectFails
    <3> QED
      BY <1>1, <2>1, <2>2, <3>1, <3>2 DEF ProcessType
  <2> QED
    BY <1>5, <2>3, <2>4
<1>6. ASSUME NEW c \in Process, ConnectFails(c) PROVE EndpointInv'
  <2>1. /\ process[c].pc \in {"connecting", "attempting"}
        /\ \A s \in IF platform = "win32" THEN {process[c].server} ELSE published :
              ~listening(s)
        /\ claimed(c, identity(process[c].server))
        /\ UNCHANGED <<platform, inode, instance, displaced, reused, crashes>>
    BY <1>6 DEF ConnectFails
  <2>2. Proceeds
    BY <1>1, <1>5, <1>6, <2>1 DEF Proceeds, listening, HasEndpoint
  <2>3. \A s \in published : listening(s)' => identity(process[c].server) # identity(s)
    BY <2>1 DEF listening, identity
  <2>4. claim[c] = Unclaimed
    BY <1>1, <2>1
  <2>5. \A d \in Process : process'[d].pc \in {"removing", "repolling"}
                             \/ (claim[d] = Unclaimed /\ d # c)
    <3>1. process'[c].pc \in {"removing", "repolling"}
      BY <1>5, <1>6
    <3>2. \A d \in Process \ {c} : process'[d] = process[d]
      BY <1>5, <1>6
    <3> QED
      BY <1>1, <3>1, <3>2
  <2> QED
    BY <1>2, <2>1, <2>2, <2>3, <2>4, <2>5, ClaimTaken
<1>7. ASSUME NEW c \in Process, RemoveSettles(c) PROVE EndpointInv'
  <2>1. Proceeds
    BY <1>1, <1>5, <1>7 DEF RemoveSettles, Proceeds, listening, HasEndpoint
  <2>2. \A d \in Process : process'[d].pc \in {"removing", "repolling"}
                             \/ claim[d] = Unclaimed \/ d = c
    BY <1>1, <1>5, <1>7
  <2> QED
    BY <1>2, <1>7, <2>1, <2>2, ClaimSettled DEF RemoveSettles
<1> QED
  BY <1>3, <1>4, <1>6, <1>7

\* A server gets its name, and publishes it.
LEMMA Appears ==
    ASSUME EndpointInv, NEW s \in Instance, Listen(s) \/ Publish(s)
    PROVE  EndpointInv'
<1> DEFINE Server == [pc : Lives, accepted : BOOLEAN]
<1>1. /\ instance \in [Instance -> Server] /\ instance[s] \in Server
      /\ file \in [Instance -> {"none", "listener", "public", "claimed"}]
      /\ instance[s].pc \in {"loading", "bound"}
      /\ file[s] \in {"none", "listener"}
  BY DEF EndpointInv, EndpointTypeOK, FilesByLife, Listen, Publish
<1>2. /\ instance'[s] \in Server /\ instance' = [instance EXCEPT ![s] = instance'[s]]
      /\ Listen(s) => instance'[s].pc = "bound" /\ file'[s] = "listener"
      /\ Publish(s) => \/ instance'[s].pc = "serving" /\ file'[s] = "public"
                       \/ instance'[s].pc = "gone" /\ file'[s] = "none"
  <2>1. \A r \in Server : \A pc \in Lives :
           [r EXCEPT !.pc = pc] \in Server /\ [r EXCEPT !.pc = pc].pc = pc
    OBVIOUS
  <2>2. Gone \in Server /\ Gone.pc = "gone"
    BY DEF Gone, Unborn, Lives
  <2>3. CASE Listen(s)
    <3>1. instance' = [instance EXCEPT ![s] = [instance[s] EXCEPT !.pc = "bound"]]
          /\ file'[s] = "listener" /\ ~Publish(s)
      BY <1>1, <2>3 DEF Listen, Publish
    <3> QED
      BY <1>1, <2>1, <3>1 DEF Lives
  <2>4. CASE Publish(s)
    <3>1. /\ \/ /\ instance' = [instance EXCEPT ![s] =
                                  [instance[s] EXCEPT !.pc = "serving"]]
                /\ file'[s] = "public"
             \/ instance' = [instance EXCEPT ![s] = Gone] /\ file'[s] = "none"
          /\ ~Listen(s)
      BY <1>1, <2>4 DEF Publish, Listen
    <3>2. CASE /\ instance' = [instance EXCEPT ![s] =
                                  [instance[s] EXCEPT !.pc = "serving"]]
               /\ file'[s] = "public"
      BY <1>1, <2>1, <3>1, <3>2 DEF Lives
    <3>3. CASE instance' = [instance EXCEPT ![s] = Gone] /\ file'[s] = "none"
      BY <1>1, <2>2, <3>1, <3>3
    <3> QED
      BY <3>1, <3>2, <3>3
  <2> QED
    BY <2>3, <2>4
<1>3. /\ instance' \in [Instance -> Server]
      /\ file' \in [Instance -> {"none", "listener", "public", "claimed"}]
      /\ \A t \in Instance \ {s} : file'[t] = file[t] /\ instance'[t] = instance[t]
      /\ UNCHANGED <<platform, process, claim, displaced>>
  BY <1>1, <1>2 DEF Listen, Publish
<1>4. /\ DOMAIN inode' = Instance
      /\ \A t \in Instance \ {s} : inode'[t] = inode[t]
      /\ Publish(s) => UNCHANGED <<inode, reused>>
      /\ reused => reused'
      /\ platform # "win32" /\ ~reused' /\ Listen(s) =>
           \A t \in Instance : inode[t] # inode'[s]
  <2>1. DOMAIN inode = Instance
    BY DEF EndpointInv, EndpointTypeOK
  <2>2. CASE Publish(s)
    BY <2>1, <2>2 DEF Publish, Listen
  <2>3. CASE Listen(s) /\ platform = "win32"
    BY <2>1, <2>3 DEF Listen, Publish
  <2>4. CASE Listen(s) /\ platform # "win32"
    <3>1. PICK i \in Inode :
            /\ reused' = (reused \/ \E t \in Instance : inode[t] = i)
            /\ inode' = [inode EXCEPT ![s] = i]
      BY <2>4 DEF Listen
    <3>2. ~Publish(s)
      BY <2>4 DEF Listen, Publish
    <3> QED
      BY <2>1, <3>1, <3>2
  <2> QED
    BY <2>2, <2>3, <2>4
<1>5. \A x \in Claimer : claim[x].of # s
  BY <1>1 DEF EndpointInv, ClaimsAreOwn
<1>6. EndpointTypeOK' /\ FilesByLife' /\ ClaimsAreOwn'
  BY <1>2, <1>3, <1>4, <1>5 DEF EndpointInv, EndpointTypeOK, FilesByLife, ClaimsAreOwn
<1>7. \A t \in Instance \ {s} : identity(t)' = identity(t)
  BY <1>3, <1>4 DEF identity
<1>8. IdentitiesDiffer'
  <2> SUFFICES ASSUME platform = "win32" \/ ~reused', NEW t \in Instance,
                      NEW u \in Instance, t # u,
                      instance'[t].pc \in {"bound", "serving", "checking", "leaving"}
               PROVE  identity(t)' # identity(u)'
    BY <1>3 DEF IdentitiesDiffer
  <2>1. CASE platform = "win32"
    BY <1>3, <2>1 DEF identity
  <2>2. CASE platform # "win32" /\ Listen(s)
    <3>1. CASE s \notin {t, u}
      BY <1>3, <1>4, <1>7, <2>2, <3>1 DEF EndpointInv, IdentitiesDiffer
    <3>2. CASE s \in {t, u}
      BY <1>3, <1>4, <2>2, <3>2 DEF identity
    <3> QED
      BY <3>1, <3>2
  <2>3. CASE platform # "win32" /\ Publish(s)
    <3>1. instance[t].pc \in {"bound", "serving", "checking", "leaving"}
      BY <1>3, <2>3 DEF Publish
    <3> QED
      BY <1>3, <1>4, <2>3, <3>1 DEF EndpointInv, IdentitiesDiffer, identity
  <2> QED
    BY <2>1, <2>2, <2>3
<1>9. ClaimsOfServing'
  BY <1>3, <1>4, <1>5, <1>7 DEF EndpointInv, ClaimsOfServing, listening
<1>10. EndpointNotLost'
  BY <1>2, <1>3, <1>4 DEF EndpointInv, EndpointNotLost, listening
<1> QED
  BY <1>6, <1>8, <1>9, <1>10 DEF EndpointInv

LEMMA EndpointInvInitially == EndpointInit => EndpointInv
<1> SUFFICES ASSUME EndpointInit PROVE EndpointInv
  OBVIOUS
<1>1. Unborn \in [pc : Lives, accepted : BOOLEAN] /\ Unborn.pc = "unborn"
      /\ Gone \in [pc : Lives, accepted : BOOLEAN] /\ Gone.pc = "gone"
  BY DEF Unborn, Gone, Lives
<1>2. /\ instance \in [Instance -> [pc : Lives, accepted : BOOLEAN]]
      /\ \A s \in Instance : instance[s].pc \in {"unborn", "gone"}
                            /\ (instance[s].pc = "gone" <=> instance[s] = Gone)
  BY <1>1 DEF EndpointInit
<1>3. PICK left \in SUBSET {s \in Instance : instance[s] = Gone}, i \in Inode :
        /\ file = [s \in Instance |-> IF s \in left THEN "public" ELSE "none"]
        /\ inode = [s \in Instance |-> IF s \in left THEN i ELSE Nobody]
  BY DEF EndpointInit
<1>4. Outside \in [pc : Clients, server : Instance \cup {Nobody},
                  child : Instance \cup {Nobody}]
  BY DEF Outside, Clients
<1>5. EndpointTypeOK
  BY <1>2, <1>3, <1>4 DEF EndpointInit, EndpointTypeOK
<1>6. FilesByLife
  BY <1>1, <1>2, <1>3 DEF FilesByLife
<1>7. Unclaimed.of \notin Instance /\ \A c \in Process : c \in Claimer
  BY ClaimerAssumption DEF Unclaimed, Claimer
<1>8. ClaimsAreOwn /\ ClaimsOfServing
  BY <1>7 DEF EndpointInit, ClaimsAreOwn, ClaimsOfServing
<1> QED
  BY <1>2, <1>5, <1>6, <1>8
  DEF EndpointInv, IdentitiesDiffer, EndpointNotLost, listening

\* A serving server stays reachable, for any number of clients and servers,
\* deaths and claims: no client that met a dead predecessor, and no predecessor
\* that is leaving, removes its endpoint
\* (settleLocalMigrateServerEndpointClaim).
THEOREM ServingServersStayReachable == EndpointSpec => []EndpointNotLost
<1>1. EndpointInv /\ [EndpointNext]_endpointVars => EndpointInv'
  <2> SUFFICES ASSUME EndpointInv, [EndpointNext]_endpointVars PROVE EndpointInv'
    OBVIOUS
  <2>1. CASE \E s \in Instance : Listen(s) \/ Publish(s)
    BY <2>1, Appears
  <2>2. CASE \E s \in Instance : LookAtClients(s) \/ LookAtRuns(s) \/ Crash(s)
    <3> PICK s \in Instance : LookAtClients(s) \/ LookAtRuns(s) \/ Crash(s)
      BY <2>2
    <3>1. Proceeds /\ ClaimersStay
      BY ServerProceeds
    <3> QED
      BY <3>1, FilesUntouched DEF LookAtClients, LookAtRuns, Crash
  <2>3. CASE \/ \E s \in Instance : Leave(s) \/ LeaveSettles(s)
             \/ \E c \in Process : ConnectFails(c) \/ RemoveSettles(c)
    BY <2>3, LeavesAndFailures
  <2>4. ASSUME NEW c \in Process,
               \/ ReadTarget(c) \/ NoTarget(c) \/ Connect(c) \/ Spawn(c)
               \/ StartupFails(c) \/ Disconnect(c) \/ Return(c)
        PROVE  EndpointInv'
    <3>1. Proceeds /\ ClaimersStay
      BY <2>4, ClientProceeds
    <3>2. UNCHANGED <<platform, file, inode, claim, displaced, reused>>
      BY <2>4 DEF ReadTarget, NoTarget, Connect, Spawn, StartupFails, Disconnect, Return
    <3> QED
      BY <3>1, <3>2, FilesUntouched
  <2>5. CASE UNCHANGED endpointVars
    <3>1. Proceeds /\ ClaimersStay
      BY <2>5 DEF endpointVars, Proceeds, ClaimersStay, listening, HasEndpoint, EndpointInv,
         EndpointTypeOK, InstanceType, ProcessType, ClaimsAreOwn
    <3> QED
      BY <2>5, <3>1, FilesUntouched DEF endpointVars
  <2> QED
    BY <2>1, <2>2, <2>3, <2>4, <2>5 DEF EndpointNext
<1>2. EndpointInv => EndpointNotLost
  BY DEF EndpointInv
<1> QED
  BY EndpointInvInitially, <1>1, <1>2, PTL DEF EndpointSpec
=============================================================================
