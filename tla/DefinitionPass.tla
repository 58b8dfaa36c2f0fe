----------------------------- MODULE DefinitionPass -----------------------------
(***************************************************************************)
(* What the runs of one Migration Definition do to its durable item        *)
(* states, source cursor and completion (runMigrationDefinition,           *)
(* processNextCursorWindow, processSourceItem, rollbackOrphans and         *)
(* runRollbackMigrationDefinition of services/migration-run-executor.ts    *)
(* and runtime/process-source-item.ts).  Runs of the definition follow one *)
(* another (its lock sees to that, see InlineRun); the items of a window   *)
(* are processed concurrently, the source changes at any time, a stop may  *)
(* be requested at any time, and a run may break off at any point: by an   *)
(* error of the store or the source, or because the process dies.          *)
(***************************************************************************)
EXTENDS Naturals, FiniteSets

CONSTANTS
    MaxItem,        \* source identities are 1 .. MaxItem, in source order
    WindowSize,     \* identities a cursor window spans
    PageSize,       \* orphanItemStatePageSize
    FullDiscovery,  \* the source's discovery is "full"
    Requests,       \* run and rollback requests callers make
    MaxLimit,       \* bound: largest limit of a request
    MaxRuns,        \* bound: runs of the definition
    MaxChanges      \* bound: changes of the source

Item == 1 .. MaxItem

Mode == {"normal", "failed", "skipped", "item", "rollback"}

\* A request of a caller; limit 0 stands for none.
RequestRecord == [mode : Mode, limit : Nat, rescan : BOOLEAN,
                  rollbackOrphans : BOOLEAN, update : BOOLEAN]

\* runLimitValidationMessage, validateUpdateRunRequest,
\* validateRescanRunRequest and validateRollbackOrphansRunRequest; a rollback
\* takes none of the run options.
IsValidRequest(q) ==
    /\ q.limit > 0 => q.mode = "normal" /\ ~q.update /\ ~q.rollbackOrphans
    /\ q.update => q.mode \in {"normal", "item"}
    /\ q.rescan => q.mode = "normal" /\ ~q.update
    /\ q.rollbackOrphans => q.mode = "normal" /\ ~q.update

ASSUME DefinitionPassAssumption ==
    /\ {MaxItem, WindowSize, PageSize} \subseteq Nat \ {0}
    /\ {MaxLimit, MaxRuns, MaxChanges} \subseteq Nat
    /\ FullDiscovery \in BOOLEAN
    /\ \A q \in Requests : /\ q \in RequestRecord
                           /\ IsValidRequest(q)
                           /\ q.limit <= MaxLimit

VARIABLES
    source,       \* source[i]: version of item i in the source, 0 for none
    changes,      \* changes of the source so far
    item,         \* item[i]: Migration Item State
    cursor,       \* the Source Cursor, 0 for none
    completion,   \* the Migration Definition Completion
    run,          \* number of the current or last run
    request,      \* its request
    phase,        \* where runMigrationDefinition is
    window,       \* the cursor window that was read
    todo,         \* identities still to be scheduled (or listed)
    work,         \* work[i]: progress of a scheduled identity
    counts,       \* attempts and failures of the run
    stopped,      \* canScheduleRunWork has turned false
    scanned,      \* history: versions read since the cursor was last absent
    seen          \* history: versions read by the current run

durableVars == <<item, cursor, completion>>
sourceVars == <<source, changes>>
vars == <<source, changes, item, cursor, completion, run, request, phase,
          window, todo, work, counts, stopped, scanned, seen>>

-----------------------------------------------------------------------------
(* Types *)

ItemStatus == {"none", "migrated", "skipped", "failed", "needs-update"}

\* inventory: lastSourceInventoryRunId, 0 for none.
ItemState == [status : ItemStatus, version : Nat, inventory : Nat]
NoItem == [status |-> "none", version |-> 0, inventory |-> 0]

\* reads is history: what the pass had read when it was recorded.
Completion == [run : Nat, reads : [Item -> Nat]]
NothingRead == [i \in Item |-> 0]
NoCompletion == [run |-> 0, reads |-> NothingRead]

\* versions[i]: the version that was read, 0 for none; next: the next cursor,
\* 0 for none.
Window == [versions : [Item -> Nat], next : Nat]
NoWindow == [versions |-> NothingRead, next |-> 0]

Phase == {"idle", "preparing", "resetting", "scan", "observing",
          "processing", "recording", "clearing", "targeted", "listing",
          "rollingBack", "recordingAgain", "clearingAgain"}
Work == {"idle", "scheduled", "processing", "done", "refused"}
NoWork == [i \in Item |-> "idle"]
NoCounts == [attempts |-> 0, failed |-> 0]
NoRequest == [mode |-> "normal", limit |-> 0, rescan |-> FALSE,
              rollbackOrphans |-> FALSE, update |-> FALSE]

TypeOK ==
    /\ source \in [Item -> Nat]
    /\ changes \in Nat
    /\ item \in [Item -> ItemState]
    /\ cursor \in Nat
    /\ completion \in Completion
    /\ run \in Nat
    /\ request \in RequestRecord
    /\ phase \in Phase
    /\ window \in Window
    /\ todo \subseteq Item
    /\ work \in [Item -> Work]
    /\ counts \in [attempts : Nat, failed : Nat]
    /\ stopped \in BOOLEAN
    /\ scanned \in [Item -> Nat]
    /\ seen \in [Item -> Nat]

Init ==
    /\ source \in [Item -> {0, 1}]
    /\ changes = 0
    /\ item = [i \in Item |-> NoItem]
    /\ cursor = 0
    /\ completion = NoCompletion
    /\ run = 0
    /\ request = NoRequest
    /\ phase = "idle"
    /\ window = NoWindow
    /\ todo = {}
    /\ work = NoWork
    /\ counts = NoCounts
    /\ stopped = FALSE
    /\ scanned = NothingRead
    /\ seen = NothingRead

-----------------------------------------------------------------------------
(* Helpers *)

Known(i) == item[i].status # "none"
InFlight == {i \in Item : work[i] \in {"scheduled", "processing"}}
Refused == {i \in Item : work[i] = "refused"}
Schedule(S) == [i \in Item |-> IF i \in S THEN "scheduled" ELSE "idle"]

\* The first n members of a set of identities, in source order.
FirstOf(S, n) == {i \in S : Cardinality({j \in S : j < i}) < n}

\* remainingAttempts, for a request with a limit.
Remaining == request.limit - counts.attempts
LimitReached == request.limit > 0 /\ counts.attempts >= request.limit

\* The run is over for this definition; nothing of it is durable.
Over ==
    /\ phase' = "idle"
    /\ request' = NoRequest
    /\ window' = NoWindow
    /\ todo' = {}
    /\ work' = NoWork
    /\ counts' = NoCounts
    /\ stopped' = FALSE
    /\ seen' = NothingRead
    /\ UNCHANGED run

runVars == <<run, request, counts, stopped, seen>>

\* removeRolledBackItem: the item's state, the completion and the cursor.
removeRolledBackItem(i) ==
    /\ item' = [item EXCEPT ![i] = NoItem]
    /\ completion' = NoCompletion
    /\ cursor' = 0
    /\ scanned' = NothingRead

deleteSourceCursor == cursor' = 0 /\ scanned' = NothingRead

-----------------------------------------------------------------------------
(* The source, the operator, failures *)

\* An item appears, gets a new version or disappears; the n-th change makes
\* version n + 1.
SourceChanges(i) ==
    /\ changes < MaxChanges
    /\ changes' = changes + 1
    /\ \E v \in {0, changes + 2} :
        /\ v # source[i]
        /\ source' = [source EXCEPT ![i] = v]
    /\ UNCHANGED <<durableVars, runVars, phase, window, todo, work, scanned>>

RequestStop ==
    /\ phase # "idle" /\ ~stopped
    /\ stopped' = TRUE
    /\ UNCHANGED <<sourceVars, durableVars, run, request, phase, window, todo,
                   work, counts, scanned, seen>>

\* An error of the store or the source ends the run, or the process dies.
BreakOff ==
    /\ phase # "idle"
    /\ Over
    /\ UNCHANGED <<sourceVars, durableVars, scanned>>

-----------------------------------------------------------------------------
(* runMigrationDefinition and runRollbackMigrationDefinition: the start *)

\* The identities a targeted run selects (selectBacklogStates,
\* sourceIdentitiesForMode); item mode and rollback name theirs.
Selected(q, T) ==
    IF q.mode \in {"failed", "skipped"}
    THEN {i \in Item : item[i].status = q.mode}
    ELSE T

StartRun(q, T) ==
    /\ phase = "idle" /\ run < MaxRuns
    /\ run' = run + 1
    /\ request' = q
    /\ phase' = CASE q.mode = "rollback" -> "rollingBack"
                  [] q.update -> "preparing"
                  [] q.rescan \/ q.rollbackOrphans -> "resetting"
                  [] OTHER -> IF q.mode = "normal" THEN "scan" ELSE "targeted"
    /\ work' = IF q.mode = "normal" THEN NoWork ELSE Schedule(Selected(q, T))
    /\ todo' = IF q.update
               THEN {i \in Item : /\ item[i].status = "migrated"
                                  /\ q.mode = "item" => i \in T}
               ELSE {}
    /\ UNCHANGED <<sourceVars, durableVars, window, counts, stopped, scanned,
                   seen>>

\* prepareUpdateRunDefinition, one migrated item.
MarkNeedsUpdate(i) ==
    /\ phase = "preparing" /\ i \in todo
    /\ item' = [item EXCEPT ![i].status = "needs-update",
                            ![i].inventory = 0]
    /\ todo' = todo \ {i}
    /\ UNCHANGED <<sourceVars, cursor, completion, runVars, phase, window,
                   work, scanned>>

UpdatePrepared ==
    /\ phase = "preparing" /\ todo = {}
    /\ phase' = IF request.mode = "normal" THEN "resetting" ELSE "targeted"
    /\ UNCHANGED <<sourceVars, durableVars, runVars, window, todo, work,
                   scanned>>

\* A rescan, a rollbackOrphans run and an update start from the beginning.
ResetCursor ==
    /\ phase = "resetting"
    /\ deleteSourceCursor
    /\ phase' = "scan"
    /\ UNCHANGED <<sourceVars, item, completion, runVars, window, todo, work>>

-----------------------------------------------------------------------------
(* processCursorDiscovery and processNextCursorWindow *)

\* MUTANT of ScanEnds: a scan that ends at its limit is finalised as complete.
ScanEndsComplete ==
    /\ phase = "scan"
    /\ stopped \/ LimitReached
    /\ phase' = "recording"
    /\ UNCHANGED <<sourceVars, durableVars, runVars, window, todo, work,
                   scanned>>

\* No more windows: the run was stopped, or its limit is reached.
ScanEnds ==
    /\ phase = "scan"
    /\ stopped \/ LimitReached
    /\ Over
    /\ UNCHANGED <<sourceVars, durableVars, scanned>>

\* External: the source reads WindowSize identities from the cursor on.
InWindow(i) == cursor < i /\ i <= cursor + WindowSize

ReadWindow ==
    /\ phase = "scan" /\ ~stopped /\ ~LimitReached
    /\ window' = [versions |-> [i \in Item |-> IF InWindow(i) THEN source[i]
                                               ELSE 0],
                  next |-> IF cursor + WindowSize < MaxItem
                           THEN cursor + WindowSize ELSE 0]
    /\ scanned' = [i \in Item |-> IF InWindow(i) THEN source[i]
                                  ELSE scanned[i]]
    /\ seen' = [i \in Item |-> IF InWindow(i) THEN source[i] ELSE seen[i]]
    /\ todo' = {i \in Item : InWindow(i) /\ source[i] # 0}
    /\ work' = NoWork
    /\ phase' = IF request.rollbackOrphans THEN "observing" ELSE "processing"
    /\ UNCHANGED <<sourceVars, durableVars, run, request, counts, stopped>>

\* MUTANT of ObserveItem: items are marked only when they are processed.
ObserveItemIgnored(i) ==
    /\ phase = "observing" /\ i \in todo /\ work[i] = "idle"
    /\ work' = [work EXCEPT ![i] = "done"]
    /\ UNCHANGED <<sourceVars, durableVars, runVars, phase, window, todo,
                   scanned>>

\* observeItemState: an item that is known is marked as seen by this run.
ObserveItem(i) ==
    /\ phase = "observing" /\ i \in todo /\ work[i] = "idle"
    /\ item' = IF Known(i) THEN [item EXCEPT ![i].inventory = run] ELSE item
    /\ work' = [work EXCEPT ![i] = "done"]
    /\ UNCHANGED <<sourceVars, cursor, completion, runVars, phase, window,
                   todo, scanned>>

WindowObserved ==
    /\ phase = "observing" /\ \A i \in todo : work[i] = "done"
    /\ phase' = "processing"
    /\ work' = NoWork
    /\ UNCHANGED <<sourceVars, durableVars, runVars, window, todo, scanned>>

\* A group never exceeds the remaining attempts.
GroupSize == IF request.limit = 0 THEN MaxItem ELSE Remaining

ScheduleGroup ==
    /\ phase = "processing" /\ InFlight = {} /\ Refused = {}
    /\ todo # {} /\ ~LimitReached
    /\ work' = Schedule(FirstOf(todo, GroupSize))
    /\ todo' = todo \ FirstOf(todo, GroupSize)
    /\ UNCHANGED <<sourceVars, durableVars, runVars, phase, window, scanned>>

\* The window stays uncommitted: an item was not scheduled any more, or the
\* limit is reached before its end.
WindowAbandoned ==
    /\ phase = "processing" /\ InFlight = {}
    /\ Refused # {} \/ (todo # {} /\ LimitReached)
    /\ Over
    /\ UNCHANGED <<sourceVars, durableVars, scanned>>

-----------------------------------------------------------------------------
(* processSourceItem *)

Processing == phase \in {"processing", "targeted"}

reprocessUnchangedTerminal == request.update \/ request.mode = "skipped"

isUnchangedTerminalState(i, version) ==
    item[i].status = "migrated" /\ item[i].version = version

\* makeMigratedItemState, makeSkippedItemState and makeFailedItemState
\* (ProcessItems has their tracking).
ItemOutcome(i, outcome, version) ==
    [status |-> outcome, version |-> version,
     inventory |-> IF request.rollbackOrphans THEN run ELSE item[i].inventory]

\* upsertItemState and recordMigrationOutcome.
Settle(i, state) ==
    /\ item' = [item EXCEPT ![i] = state]
    /\ work' = [work EXCEPT ![i] = "done"]
    /\ counts' = [attempts |-> counts.attempts + 1,
                  failed |-> counts.failed
                                + (IF state.status = "failed" THEN 1 ELSE 0)]

itemFrame == <<sourceVars, cursor, completion, run, request, phase, todo,
               stopped, scanned, seen>>

\* canScheduleRunWork is asked before every item.
RefuseItem(i) ==
    /\ Processing /\ work[i] = "scheduled" /\ stopped
    /\ work' = [work EXCEPT ![i] = "refused"]
    /\ UNCHANGED <<itemFrame, item, window, counts>>

\* A targeted identity is looked up (readByIdentity).
LookedUp(i) ==
    IF phase = "targeted"
    THEN source[i] # 0 /\ window' = [window EXCEPT !.versions[i] = source[i]]
    ELSE UNCHANGED window

\* The lookup fails or finds nothing.  (For an identity without a state that
\* is an error of the run: BreakOff.)
LookupFails(i) ==
    /\ phase = "targeted" /\ work[i] = "scheduled" /\ ~stopped /\ Known(i)
    /\ Settle(i, [item[i] EXCEPT !.status = "failed", !.inventory = 0])
    /\ UNCHANGED <<itemFrame, window>>

\* admitSourceItem: the item is admitted, is unchanged, or fails to decode.
AdmitItem(i) ==
    /\ Processing /\ work[i] = "scheduled" /\ ~stopped
    /\ LookedUp(i)
    /\ LET version == window'.versions[i]
       IN \/ Settle(i, ItemOutcome(i, "failed", version))
          \/ /\ ~reprocessUnchangedTerminal
             /\ isUnchangedTerminalState(i, version)
             /\ work' = [work EXCEPT ![i] = "done"]
             /\ UNCHANGED <<item, counts>>
          \/ /\ reprocessUnchangedTerminal
                    \/ ~isUnchangedTerminalState(i, version)
             /\ work' = [work EXCEPT ![i] = "processing"]
             /\ UNCHANGED <<item, counts>>
    /\ UNCHANGED itemFrame

\* settleAdmittedSourceItem, after the process pipeline.
SettleItem(i, outcome) ==
    /\ Processing /\ work[i] = "processing"
    /\ Settle(i, ItemOutcome(i, outcome, window.versions[i]))
    /\ UNCHANGED <<itemFrame, window>>

TargetedDone ==
    /\ phase = "targeted" /\ InFlight = {}
    /\ Over
    /\ UNCHANGED <<sourceVars, durableVars, scanned>>

-----------------------------------------------------------------------------
(* The end of a window and of the pass *)

WindowSettled == phase = "processing" /\ todo = {} /\ InFlight = {} /\ Refused = {}

\* MUTANT of CommitCursor: the cursor is committed while items are in flight.
CommitCursorEarly ==
    /\ phase = "processing" /\ todo = {} /\ Refused = {} /\ window.next # 0
    /\ cursor' = window.next
    /\ phase' = "scan"
    /\ work' = NoWork
    /\ UNCHANGED <<sourceVars, item, completion, runVars, window, todo,
                   scanned>>

\* setSourceCursor, once every item of the window has a durable outcome.
CommitCursor ==
    /\ WindowSettled /\ window.next # 0
    /\ cursor' = window.next
    /\ phase' = "scan"
    /\ work' = NoWork
    /\ UNCHANGED <<sourceVars, item, completion, runVars, window, todo,
                   scanned>>

LastWindowDone ==
    /\ WindowSettled /\ window.next = 0
    /\ phase' = "recording"
    /\ work' = NoWork
    /\ UNCHANGED <<sourceVars, durableVars, runVars, window, todo, scanned>>

\* finalizeCompletedSourceDiscovery, first recordSourcePassCompletion ...
RecordCompletion ==
    /\ phase \in {"recording", "recordingAgain"}
    /\ completion' = [run |-> run,
                      reads |-> IF request.rollbackOrphans THEN seen
                                ELSE scanned]
    /\ phase' = IF phase = "recording" THEN "clearing" ELSE "clearingAgain"
    /\ UNCHANGED <<sourceVars, item, cursor, runVars, window, todo, work,
                   scanned>>

\* rollbackOrphansForDefinitions goes on only after a scan without failures.
OrphansNext == request.rollbackOrphans /\ counts.failed = 0

\* ... then, for full discovery, deleteSourceCursor.
ClearCursor ==
    /\ phase \in {"clearing", "clearingAgain"}
    /\ IF FullDiscovery THEN deleteSourceCursor ELSE UNCHANGED <<cursor, scanned>>
    /\ IF phase = "clearing" /\ OrphansNext
       THEN /\ phase' = "listing"
            /\ todo' = Item
            /\ work' = NoWork
            /\ UNCHANGED <<runVars, window>>
       ELSE Over
    /\ UNCHANGED <<sourceVars, item, completion>>

-----------------------------------------------------------------------------
(* Rollback: of orphans, page by page, and of selected items *)

\* The run's scan has not come across the item.
IsOrphan(i) == Known(i) /\ item[i].inventory # run

\* listOrphanItemStates, after the last identity of the previous page; todo
\* holds the identities that are still to be listed.
ListOrphans ==
    /\ phase = "listing" /\ ~stopped
    /\ LET candidates == {i \in todo : IsOrphan(i)}
           page == FirstOf(candidates, PageSize)
       IN /\ work' = Schedule(page)
          /\ todo' = IF candidates = page THEN {}
                     ELSE {i \in todo : \A j \in page : i > j}
    /\ phase' = "rollingBack"
    /\ UNCHANGED <<sourceVars, durableVars, runVars, window, scanned>>

ListingStopped ==
    /\ phase = "listing" /\ stopped
    /\ Over
    /\ UNCHANGED <<sourceVars, durableVars, scanned>>

rollbackFrame == <<sourceVars, run, request, phase, window, todo, stopped,
                   seen>>

\* rollbackItemState: the rollback pipeline succeeds and the item is removed,
\* or it fails and the state only gets another journal entry.
RollbackItem(i) ==
    /\ phase = "rollingBack" /\ work[i] = "scheduled"
    /\ \/ /\ stopped
          /\ work' = [work EXCEPT ![i] = "refused"]
          /\ UNCHANGED <<durableVars, counts, scanned>>
       \/ /\ ~stopped /\ ~Known(i)
          /\ work' = [work EXCEPT ![i] = "done"]
          /\ UNCHANGED <<durableVars, counts, scanned>>
       \/ /\ ~stopped /\ Known(i)
          /\ removeRolledBackItem(i)
          /\ work' = [work EXCEPT ![i] = "done"]
          /\ UNCHANGED counts
       \/ /\ ~stopped /\ Known(i)
          /\ work' = [work EXCEPT ![i] = "done"]
          /\ counts' = [counts EXCEPT !.failed = @ + 1]
          /\ UNCHANGED <<durableVars, scanned>>
    /\ UNCHANGED rollbackFrame

\* The items of the page, or of the rollback run, have been dealt with.
RollbackPageDone ==
    /\ phase = "rollingBack" /\ InFlight = {}
    /\ \/ /\ Refused # {} \/ request.mode = "rollback"
          /\ Over
       \/ /\ Refused = {} /\ request.mode # "rollback"
          /\ todo = {} /\ counts.failed > 0
          /\ Over
       \/ /\ Refused = {} /\ request.mode # "rollback"
          /\ todo # {} \/ counts.failed = 0
          /\ phase' = IF todo # {} THEN "listing" ELSE "recordingAgain"
          /\ work' = NoWork
          /\ UNCHANGED <<runVars, window, todo>>
    /\ UNCHANGED <<sourceVars, durableVars, scanned>>

-----------------------------------------------------------------------------

RunStep ==
    \/ UpdatePrepared \/ ResetCursor
    \/ ScanEnds \/ ReadWindow \/ WindowObserved \/ ScheduleGroup
    \/ WindowAbandoned \/ TargetedDone
    \/ CommitCursor \/ LastWindowDone \/ RecordCompletion \/ ClearCursor
    \/ ListOrphans \/ ListingStopped \/ RollbackPageDone
    \/ \E i \in Item :
        \/ MarkNeedsUpdate(i)
        \/ ObserveItem(i)
        \/ RefuseItem(i)
        \/ LookupFails(i)
        \/ AdmitItem(i)
        \/ \E outcome \in {"migrated", "skipped", "failed"} :
            SettleItem(i, outcome)
        \/ RollbackItem(i)

\* Item mode and rollback name some identities, the other modes none.
StartSomeRun ==
    \E q \in Requests :
        \E T \in IF q.mode \in {"item", "rollback"}
                 THEN (SUBSET Item) \ {{}} ELSE {{}} : StartRun(q, T)

Next ==
    \/ RunStep
    \/ StartSomeRun
    \/ RequestStop
    \/ BreakOff
    \/ \E i \in Item : SourceChanges(i)

Spec == Init /\ [][Next]_vars

-----------------------------------------------------------------------------
(* Correctness properties *)

\* The state of an item that was read at a version is durable: it records
\* that version or a later one.
Settled(i, version) == Known(i) /\ item[i].version >= version

\* The source cursor never passes an item without a durable outcome: every
\* item the current traversal has read up to the cursor is settled, also
\* after crashes, stops, limits, rescans and rollbacks (a rolled back item
\* takes the cursor with it).
CursorOnlyPastSettled ==
    \A i \in Item : i <= cursor /\ scanned[i] # 0 => Settled(i, scanned[i])

\* A completion is evidence of a whole pass: every item that pass read is
\* still settled (removing one withdraws it), and while the source has not
\* changed at all every item has a state.
CompletionIsEvidence ==
    completion.run # 0 =>
        /\ \A i \in Item : completion.reads[i] # 0 =>
               Settled(i, completion.reads[i])
        /\ changes = 0 => \A i \in Item : source[i] # 0 => Known(i)

\* Orphan cleanup removes only items that the scan of the same run did not
\* find in the source, and one that runs to its end misses none, although it
\* works on pages of a list that shrinks under it: when the completion is
\* recorded again, every state left belongs to an item the scan has found.
OrphanCleanupExact ==
    /\ [][\A i \in Item :
            /\ request.rollbackOrphans
            /\ Known(i) /\ item'[i].status = "none"
            => seen[i] = 0]_vars
    /\ [](phase = "clearingAgain" => \A i \in Item : Known(i) => seen[i] # 0)
=============================================================================
