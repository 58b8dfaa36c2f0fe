---------------------------- MODULE TuiLifecycle ----------------------------
(***************************************************************************)
(* How the terminal UI opens, recovers and ends (tui/src:                  *)
(* lifecycle-supervisor.ts, shutdown-controller.ts, render-session.tsx,    *)
(* the run observation of server/tui-runtime.ts and app.tsx).              *)
(*                                                                         *)
(* A renderer session shows the dashboard and observes the selected run.   *)
(* An exit first detaches from that observation; the promise of the        *)
(* observation, or of an operation being started, ends the UI when it      *)
(* settles, and a timer ends it when neither does.  One renderer error is  *)
(* answered with a second session.                                         *)
(***************************************************************************)
EXTENDS Naturals

CONSTANTS
    MaxObservations,   \* run observations of one UI
    MaxOperations      \* operations started from it

VARIABLES
    exit,          \* requested, timer armed, UI finished
    session,       \* renderer session: "none", "creating", "open", "recovering"
    generation,    \* 1, or 2 after the one recovery
    selected,      \* the selected definition has an active run
    observed,      \* activeRunObservation of the runtime: an observation or 0
    observation,   \* observation[t]: the promises of observeActiveRun
    operation      \* executing, and how many were started

tuiVars == <<exit, session, generation, selected, observed, observation, operation>>

Observation == 1 .. MaxObservations
Unused == [state |-> "unused", current |-> FALSE, of |-> 0]

TuiInit ==
    /\ exit = [requested |-> FALSE, timer |-> FALSE, finished |-> FALSE]
    /\ session = "creating" /\ generation = 1
    /\ selected = FALSE /\ observed = 0
    /\ observation = [t \in Observation |-> Unused]
    /\ operation = [executing |-> FALSE, started |-> 0]

-----------------------------------------------------------------------------
\* finish: the timer and the signal handlers go, an open session is destroyed.
\* A session that is being created stays in flight.
finish ==
    /\ exit' = [exit EXCEPT !.finished = TRUE, !.timer = FALSE]
    /\ session' = IF session = "creating" THEN "creating" ELSE "none"

\* executionSettled, then destroyOnce: it ends the UI once an exit is requested.
executionSettled ==
    IF exit.requested /\ ~exit.finished THEN finish ELSE UNCHANGED <<exit, session>>

\* detachRunObservation: the runtime forgets its observation and aborts it.
aborted(states) ==
    [t \in Observation |->
       IF t = observed /\ states[t].state = "running"
         THEN [states[t] EXCEPT !.state = "aborted"] ELSE states[t]]

-----------------------------------------------------------------------------
\* Renderer sessions.

\* openSession after createSession: a session nobody waits for is destroyed.
Created ==
    /\ session = "creating"
    /\ session' = IF exit.finished THEN "none" ELSE "open"
    /\ UNCHANGED <<exit, generation, selected, observed, observation, operation>>

\* handleRendererError: an error of the open session, reported by its boundary,
\* or a session that could not be created.  The second one ends the UI.
RendererError ==
    /\ session \in {"creating", "open"}
    /\ IF exit.finished
         THEN session' = "none" /\ UNCHANGED <<exit, generation>>
         ELSE IF generation = 2
           THEN /\ exit' = [exit EXCEPT !.finished = TRUE, !.timer = FALSE]
                /\ session' = "none" /\ UNCHANGED generation
           ELSE session' = "recovering" /\ generation' = 2 /\ UNCHANGED exit
    /\ UNCHANGED <<selected, observed, observation, operation>>

\* The recovery reads the store schema, then opens the second session; an
\* error of the read ends the UI.
Recover ==
    /\ session = "recovering"
    /\ selected' = FALSE
    /\ \/ session' = "creating" /\ UNCHANGED exit
       \/ finish
    /\ UNCHANGED <<generation, observed, observation, operation>>

-----------------------------------------------------------------------------
\* The exit.

\* MUTANT: an exit request relies on the promise of the observation alone.
RequestExitUntimed(interrupt) ==
    /\ session # "none" /\ ~exit.finished /\ ~exit.requested
    /\ IF observed # 0
         THEN /\ exit' = [exit EXCEPT !.requested = TRUE]
              /\ observation' = aborted(observation) /\ observed' = 0
              /\ UNCHANGED session
         ELSE /\ exit' = [requested |-> TRUE, timer |-> FALSE, finished |-> TRUE]
              /\ session' = IF session = "creating" THEN "creating" ELSE "none"
              /\ UNCHANGED <<observed, observation>>
    /\ UNCHANGED <<generation, selected, operation>>

\* requestExit of the supervisor: a second interrupt ends the UI at once; else
\* the timer is armed and the runtime detaches, which ends the UI when it
\* observed nothing.  A repeated request shares the first one's promise.
RequestExit(interrupt) ==
    /\ session # "none" /\ ~exit.finished
    /\ IF exit.requested
         THEN /\ IF interrupt THEN finish ELSE UNCHANGED <<exit, session>>
              /\ UNCHANGED <<observed, observation>>
         ELSE IF observed # 0
           THEN /\ exit' = [exit EXCEPT !.requested = TRUE, !.timer = TRUE]
                /\ observation' = aborted(observation) /\ observed' = 0
                /\ UNCHANGED session
           ELSE /\ exit' = [requested |-> TRUE, timer |-> FALSE, finished |-> TRUE]
                /\ session' = IF session = "creating" THEN "creating" ELSE "none"
                /\ UNCHANGED <<observed, observation>>
    /\ UNCHANGED <<generation, selected, operation>>

\* armExitTimer: the callback.
TimerFires ==
    /\ exit.timer
    /\ finish
    /\ UNCHANGED <<generation, selected, observed, observation, operation>>

-----------------------------------------------------------------------------
\* The dashboard component.

\* observeActiveRun, from the effect on the selected active run.  While an
\* exit is under way it does nothing.
SelectRun ==
    /\ session = "open" /\ ~selected
    /\ selected' = TRUE
    /\ IF exit.requested
         THEN UNCHANGED <<observed, observation>>
         ELSE \E t \in Observation :
                /\ observation[t] = Unused
                /\ \A u \in 1 .. t - 1 : observation[u] # Unused
                /\ observed' = t
                /\ observation' = [aborted(observation) EXCEPT
                     ![t] = [state |-> "running", current |-> TRUE, of |-> generation]]
    /\ UNCHANGED <<exit, session, generation, operation>>

\* The cleanup of that effect: the run ended or another row is selected.
DeselectRun ==
    /\ session = "open" /\ selected
    /\ selected' = FALSE
    /\ observed' = 0
    /\ observation' = [t \in Observation |->
         IF observation[t].of = generation
           THEN [aborted(observation)[t] EXCEPT !.current = FALSE]
           ELSE aborted(observation)[t]]
    /\ UNCHANGED <<exit, session, generation, operation>>

\* An observation fails; the component refreshes before it lets go of it.
ObservationFails(t) ==
    /\ observation[t].state = "running"
    /\ observation' = [observation EXCEPT ![t].state =
         IF exit.requested \/ ~observation[t].current THEN "settling" ELSE "refreshing"]
    /\ observed' = IF observed = t THEN 0 ELSE observed
    /\ UNCHANGED <<exit, session, generation, selected, operation>>

\* The promise of observeActiveRun settles.
ObservationSettles(t) ==
    /\ observation[t].state \in {"running", "aborted", "refreshing", "settling"}
    /\ observation' = [observation EXCEPT ![t].state = "settled", ![t].current = FALSE]
    /\ observed' = IF observed = t THEN 0 ELSE observed
    /\ IF observation[t].current THEN executionSettled ELSE UNCHANGED <<exit, session>>
    /\ UNCHANGED <<generation, selected, operation>>

\* executeOperation.
ExecuteOperation ==
    /\ session = "open" /\ ~exit.requested
    /\ ~operation.executing /\ operation.started < MaxOperations
    /\ operation' = [executing |-> TRUE, started |-> operation.started + 1]
    /\ UNCHANGED <<exit, session, generation, selected, observed, observation>>

ExecuteSettles ==
    /\ operation.executing
    /\ operation' = [operation EXCEPT !.executing = FALSE]
    /\ executionSettled
    /\ UNCHANGED <<generation, selected, observed, observation>>

TuiNext ==
    \/ Created \/ RendererError \/ Recover
    \/ \E interrupt \in BOOLEAN : RequestExit(interrupt)
    \/ TimerFires
    \/ SelectRun \/ DeselectRun
    \/ \E t \in Observation : ObservationFails(t) \/ ObservationSettles(t)
    \/ ExecuteOperation \/ ExecuteSettles

-----------------------------------------------------------------------------
(***************************************************************************)
(* A requested exit ends the UI and gives the terminal back: no session is *)
(* left, not even one whose creation was under way, and no lost promise of *)
(* an observation keeps the UI (armExitTimer, openSession).                *)
(***************************************************************************)
ExitRestoresTerminal == exit.requested ~> (exit.finished /\ session = "none")
=============================================================================
