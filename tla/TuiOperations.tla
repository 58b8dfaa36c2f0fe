---------------------------- MODULE TuiOperations ----------------------------
(***************************************************************************)
(* How the terminal UI prepares, confirms and starts an operation          *)
(* (tui/src/app.tsx, rollback-scope.ts) against a server that prepares it  *)
(* again when it starts (migrate-sdk/src/server/service.ts), and how it    *)
(* breaks a lock.                                                          *)
(*                                                                         *)
(* Key handlers see the state of the last render; references (executingRef,*)
(* rollbackPlanUpdateRef) are read and written at once.  Of the server's   *)
(* data the module keeps what a plan depends on: the registry, whether     *)
(* dependencies are complete, whether dependents outside a rollback have   *)
(* items, and the definition lock; rollbacks says whether the selected     *)
(* migrations have a rollback at all.                                      *)
(***************************************************************************)
EXTENDS Naturals

CONSTANTS
    Item,           \* source identities of the selected definition
    MaxWorld,       \* changes of the server's data
    MaxKeys         \* keys that ask the server for something

VARIABLES
    world,          \* registry, complete, dependents, lock, rollbacks, changes
    ui,             \* React state: view, busy, pending, the lock in the selected
                    \* row, the lock in the dialog, the lock being broken
    seen,           \* that state as rendered last
    flows,          \* prepareOperation calls in flight
    update,         \* changeRollbackScope in flight; live: its token is current
    start,          \* executingRef: the operation being started, or Idle
    selective,      \* entries, and the normalizations in flight
    keys,
    executed        \* operations the server executed, with its data then

opVars == <<world, ui, seen, flows, update, start, selective, keys, executed>>

Idle == [stage |-> "idle"]
Screen == [view |-> "dashboard", busy |-> FALSE, pending |-> Idle, row |-> 0, lock |-> 0,
           breaking |-> 0]

OpInit ==
    /\ world \in [registry : {1}, complete : BOOLEAN, dependents : BOOLEAN,
                  lock : {0, 1}, rollbacks : BOOLEAN, changes : {0}]
    /\ ui = Screen /\ seen = Screen
    /\ flows = {} /\ update = Idle /\ start = Idle
    /\ selective = [entries |-> {}, asked |-> {}]
    /\ keys = 0 /\ executed = {}

\* A request: action, identities, required dependencies or dependents, force.
Ask(action, items, deps, force) ==
    [action |-> action, items |-> items, deps |-> deps, force |-> force]

Destructive(request) == request.action \in {"rollback", "orphans"}

-----------------------------------------------------------------------------
\* The server.

\* prepareRun and prepareRollback: the plan, and for a run the checks of the
\* dependencies outside it.
Prepared(request) ==
    [stage |-> "prepared", request |-> request, registry |-> world.registry,
     satisfied |-> request.action = "rollback" \/ request.deps \/ world.complete]

operationNeedsDependencyDecision(operation) ==
    /\ operation.request.action # "rollback"
    /\ ~operation.request.force /\ ~operation.satisfied

\* The preflight of the executor, once the operation is accepted.
PreflightAccepts(request) ==
    request.force \/
        IF request.action = "rollback" THEN request.deps \/ ~world.dependents
        ELSE request.deps \/ world.complete

\* MUTANT: the plan is prepared again, but not compared.
StartArrivesUnchecked ==
    /\ start.stage = "sent"
    /\ start' = [start EXCEPT !.stage = "answered"]
    /\ executed' = IF PreflightAccepts(start.of.request)
                   THEN executed \cup {[shown |-> start.of, world |-> world,
                                        plan |-> Prepared(start.of.request)]}
                   ELSE executed
    /\ UNCHANGED <<world, ui, seen, flows, update, selective, keys>>

\* startOperation: the request is prepared again and its fingerprint compared
\* with the accepted one.
StartArrives ==
    /\ start.stage = "sent"
    /\ start' = [start EXCEPT !.stage = "answered"]
    /\ LET current == Prepared(start.of.request)
       IN executed' = IF current = start.of /\ PreflightAccepts(start.of.request)
                      THEN executed \cup {[shown |-> start.of, world |-> world,
                                           plan |-> current]}
                      ELSE executed
    /\ UNCHANGED <<world, ui, seen, flows, update, selective, keys>>

\* Another client, a run, or a server started with another registry.
WorldChanges ==
    /\ world.changes < MaxWorld
    /\ \E w \in {[world EXCEPT !.registry = 3 - @], [world EXCEPT !.complete = ~@],
                 [world EXCEPT !.dependents = ~@], [world EXCEPT !.lock = @ + 1]} :
         world' = [w EXCEPT !.changes = @ + 1]
    /\ UNCHANGED <<ui, seen, flows, update, start, selective, keys, executed>>

-----------------------------------------------------------------------------
\* The component renders: handlers of the next keys see this state.
Render ==
    /\ seen # ui
    /\ seen' = ui
    /\ UNCHANGED <<world, ui, flows, update, start, selective, keys, executed>>

\* applySnapshot: the dashboard shows the lock as it is now.
RowsArrive ==
    /\ ui.row # world.lock
    /\ ui' = [ui EXCEPT !.row = world.lock]
    /\ UNCHANGED <<world, seen, flows, update, start, selective, keys, executed>>

\* migrationTuiAvailableActions: what the shown rows offer.
availableActions ==
    {"run"} \cup (IF world.rollbacks THEN {"rollback", "orphans"} ELSE {})
            \cup (IF seen.row # 0 THEN {"break-lock"} ELSE {})

Key == keys < MaxKeys /\ keys' = keys + 1

\* prepareOperation up to its first await.
prepareOperation(request) ==
    /\ flows' = flows \cup {[id |-> keys', stage |-> "prepare", request |-> request,
                             operation |-> Idle]}
    /\ ui' = [ui EXCEPT !.pending = Idle, !.view = "dashboard", !.busy = TRUE]

\* chooseOption on an operation, from the dashboard while nothing is busy.
\* A rollback is proposed with its dependents.
ChooseOperation(action) ==
    /\ Key /\ seen.view = "dashboard" /\ ~seen.busy
    /\ action \in availableActions
    /\ prepareOperation(Ask(action, {}, action = "rollback", FALSE))
    /\ UNCHANGED <<world, seen, update, start, selective, executed>>

-----------------------------------------------------------------------------
\* The selective dialog.  A normalization writes the entries as they were
\* when it was asked for, and its own.
SubmitEntry(i) ==
    /\ Key /\ seen.view = "dashboard" /\ ~seen.busy
    /\ selective' = [selective EXCEPT !.asked = @ \cup {[item |-> i, was |-> selective.entries]}]
    /\ UNCHANGED <<world, ui, seen, flows, update, start, executed>>

EntryNormalized(n) ==
    /\ n \in selective.asked
    /\ \E valid \in BOOLEAN :
         selective' = [asked |-> selective.asked \ {n},
                       entries |-> IF valid THEN n.was \cup {n.item}
                                   ELSE selective.entries]
    /\ UNCHANGED <<world, ui, seen, flows, update, start, keys, executed>>

\* toggleSelectiveHistoryEntry and ctrl-backspace: an entry of the history is
\* added or removed at once, whatever normalization is in flight.
ToggleEntry(i) ==
    /\ Key /\ seen.view = "dashboard" /\ ~seen.busy
    /\ selective' = [selective EXCEPT !.entries =
                       IF i \in @ THEN @ \ {i} ELSE @ \cup {i}]
    /\ UNCHANGED <<world, ui, seen, flows, update, start, executed>>

\* confirmSelectiveEntries: a rollback of items leaves the dependents alone.
ConfirmEntries(action) ==
    /\ Key /\ seen.view = "dashboard" /\ ~seen.busy /\ selective.entries # {}
    /\ action \in availableActions
    /\ prepareOperation(Ask(action, selective.entries, FALSE, FALSE))
    /\ UNCHANGED <<world, seen, update, start, selective, executed>>

-----------------------------------------------------------------------------
\* prepareRollbackScope, shared by a first preparation and a change of scope:
\* selected-only asks for the dependents and is forced if they have items.
Asks(stage, request) ==
    IF request.action = "rollback" /\ ~request.deps /\ ~request.force
    THEN IF stage = "prepare" THEN "rows" ELSE "done"
    ELSE "done"

\* What one more answer of the server makes of a preparation; "preview" is the
\* plan with dependencies that the decision dialog shows.
Answered(f) ==
    CASE f.stage \in {"prepare", "force"} ->
            LET operation == Prepared(f.request)
            IN [f EXCEPT !.operation = operation,
                         !.stage = IF Asks(f.stage, f.request) = "rows" THEN "rows"
                                   ELSE IF operationNeedsDependencyDecision(operation)
                                   THEN "preview" ELSE "done"]
      [] f.stage = "rows" ->
            IF world.dependents
            THEN [f EXCEPT !.stage = "force", !.request.force = TRUE]
            ELSE [f EXCEPT !.stage = "done"]
      [] f.stage = "preview" -> [f EXCEPT !.stage = "done"]

FlowAnswered(f) ==
    /\ f \in flows /\ f.stage # "done"
    /\ flows' = (flows \ {f}) \cup {Answered(f)}
    /\ UNCHANGED <<world, ui, seen, update, start, selective, keys, executed>>

FlowFails(f) ==
    /\ f \in flows /\ f.stage # "done"
    /\ flows' = flows \ {f}
    /\ ui' = [ui EXCEPT !.busy = FALSE]
    /\ UNCHANGED <<world, seen, update, start, selective, keys, executed>>

\* executeOperation: not while another operation is being started.
executeOperation(operation) ==
    IF start # Idle THEN UNCHANGED <<start, ui>>
    ELSE /\ start' = [stage |-> "sent", of |-> operation]
         /\ ui' = [ui EXCEPT !.view = "dashboard", !.pending = Idle, !.busy = TRUE]

\* The end of prepareOperation: what destroys, or needs a decision, is shown.
FlowEnds(f) ==
    /\ f \in flows /\ f.stage = "done"
    /\ flows' = flows \ {f}
    /\ IF Destructive(f.operation.request)
          \/ operationNeedsDependencyDecision(f.operation)
       THEN /\ ui' = [ui EXCEPT !.busy = FALSE, !.view = "confirm",
                                !.pending = f.operation]
            /\ UNCHANGED start
       ELSE executeOperation(f.operation)
    /\ UNCHANGED <<world, seen, update, selective, keys, executed>>

-----------------------------------------------------------------------------
\* The confirmation dialog.
Updating == update # Idle /\ update.live
Confirming == seen.view = "confirm" /\ seen.pending # Idle

cancelConfirmation ==
    /\ Key /\ Confirming
    /\ ui' = [ui EXCEPT !.pending = Idle, !.view = "dashboard"]
    /\ update' = IF update = Idle THEN Idle ELSE [update EXCEPT !.live = FALSE]
    /\ UNCHANGED <<world, seen, flows, start, selective, executed>>

\* changeRollbackScope: one update at a time; selected items keep their scope.
changeRollbackScope(deps) ==
    /\ Key /\ Confirming
    /\ LET shown == seen.pending.request
       IN /\ shown.action = "rollback" /\ (deps => shown.items = {})
          /\ ~Updating
          /\ update' = [stage |-> "prepare", live |-> TRUE, operation |-> Idle,
                        request |-> Ask("rollback", shown.items, deps, FALSE)]
    /\ UNCHANGED <<world, ui, seen, flows, start, selective, executed>>

UpdateAnswered ==
    /\ update.stage \in {"prepare", "rows", "force"}
    /\ update' = Answered(update)
    /\ UNCHANGED <<world, ui, seen, flows, start, selective, keys, executed>>

\* An answer, or an error, of an update that is not current is dropped.
UpdateEnds ==
    /\ update # Idle
    /\ update' = Idle
    /\ \/ update.stage = "done" /\ update.live
          /\ ui' = [ui EXCEPT !.pending = update.operation]
       \/ (update.stage = "done" => ~update.live) /\ UNCHANGED ui
    /\ UNCHANGED <<world, seen, flows, start, selective, keys, executed>>

\* y: a rollback while its plan is not being updated, or an orphan rollback
\* whose dependencies are decided.
ConfirmOperation ==
    /\ Key /\ Confirming
    /\ Destructive(seen.pending.request)
    /\ IF seen.pending.request.action = "rollback"
       THEN ~Updating
       ELSE ~operationNeedsDependencyDecision(seen.pending)
    /\ executeOperation(seen.pending)
    /\ UNCHANGED <<world, seen, flows, update, selective, executed>>

\* chooseDependencies: prepared again, with the dependencies or forced.
chooseDependencies(deps) ==
    /\ Key /\ Confirming /\ operationNeedsDependencyDecision(seen.pending)
    /\ prepareOperation(Ask(seen.pending.request.action, seen.pending.request.items,
                            deps, ~deps))
    /\ UNCHANGED <<world, seen, update, start, selective, executed>>

\* The end of executeOperation, with or without an error.
StartSettles ==
    /\ start.stage = "answered"
    /\ start' = Idle
    /\ ui' = [ui EXCEPT !.busy = FALSE]
    /\ UNCHANGED <<world, seen, flows, update, selective, keys, executed>>

-----------------------------------------------------------------------------
\* Breaking a lock: the dialog keeps the lock of the row it was opened from.
openBreakLock ==
    /\ Key /\ seen.view = "dashboard" /\ ~seen.busy
    /\ "break-lock" \in availableActions
    /\ ui' = [ui EXCEPT !.view = "break-lock", !.lock = seen.row]
    /\ UNCHANGED <<world, seen, flows, update, start, selective, executed>>

cancelBreakLock ==
    /\ Key /\ seen.view = "break-lock"
    /\ ui' = [ui EXCEPT !.view = "dashboard", !.lock = 0]
    /\ UNCHANGED <<world, seen, flows, update, start, selective, executed>>

\* executeBreakLock up to its await.
executeBreakLock ==
    /\ Key /\ seen.view = "break-lock" /\ seen.lock # 0 /\ ui.breaking = 0
    /\ ui' = [ui EXCEPT !.view = "dashboard", !.lock = 0, !.busy = TRUE,
                        !.breaking = seen.lock]
    /\ UNCHANGED <<world, seen, flows, update, start, selective, executed>>

\* breakLock of the server: a lock is removed if it is the expected one.  The
\* dashboard is refreshed.
LockBroken ==
    /\ ui.breaking # 0
    /\ world' = [world EXCEPT !.lock = IF @ = ui.breaking THEN 0 ELSE @]
    /\ ui' = [ui EXCEPT !.breaking = 0, !.busy = FALSE, !.row = world'.lock]
    /\ UNCHANGED <<seen, flows, update, start, selective, keys, executed>>

OpNext ==
    \/ WorldChanges \/ Render \/ RowsArrive \/ StartArrives \/ StartSettles
    \/ \E action \in {"run", "rollback", "orphans"} : ChooseOperation(action)
    \/ \E action \in {"run", "rollback"} : ConfirmEntries(action)
    \/ \E i \in Item : SubmitEntry(i) \/ ToggleEntry(i)
    \/ \E n \in selective.asked : EntryNormalized(n)
    \/ \E f \in flows : FlowAnswered(f) \/ FlowFails(f) \/ FlowEnds(f)
    \/ cancelConfirmation \/ ConfirmOperation
    \/ UpdateAnswered \/ UpdateEnds
    \/ \E deps \in BOOLEAN : changeRollbackScope(deps) \/ chooseDependencies(deps)
    \/ openBreakLock \/ cancelBreakLock \/ executeBreakLock \/ LockBroken

OpSpec == OpInit /\ [][OpNext]_opVars

-----------------------------------------------------------------------------
(***************************************************************************)
(* Whatever changes between the dialog, the key and the start: what the    *)
(* server executes is the plan the user confirmed (startOperation), and a  *)
(* rollback leaves no dependent with items behind unless its dialog said   *)
(* it is forced (prepareRollbackScope and the executor's preflight).       *)
(***************************************************************************)
OnlyConfirmedDestroys ==
    \A e \in executed : Destructive(e.shown.request) =>
        /\ e.plan = e.shown
        /\ e.shown.request.action = "rollback" /\ ~e.shown.request.deps
             /\ e.world.dependents => e.shown.request.force
=============================================================================
