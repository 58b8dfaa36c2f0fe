---------------------------- MODULE TuiDashboard ----------------------------
(***************************************************************************)
(* The dashboard of the terminal UI (tui/src/use-dashboard-observation.ts  *)
(* and its callers in app.tsx): refreshes, observations, source scans and  *)
(* started operations overlap, and each answer is applied only if nothing  *)
(* newer has been asked for.                                               *)
(*                                                                         *)
(* Of the server's data the module keeps whether a run is active.  The UI  *)
(* watches only while it shows an active run.                              *)
(***************************************************************************)
EXTENDS Naturals

CONSTANTS
    MaxChanges,    \* changes of the server's data
    MaxRequests    \* refreshes, scans and operations of one UI

VARIABLES
    active,        \* the server has an active run
    changes,       \* changes so far
    shown,         \* the dashboard: an active run, status loading, error, observing
    watch,         \* observationState: "off", or the answer of its stream
    stale,         \* a snapshot in flight of the observation before it
    refreshing,    \* the newest refresh: "none", "stopping", "reading" or its answer
    scan,          \* a source scan: "none", "reading" or its answer
    requests       \* requests so far

boardVars == <<active, changes, shown, watch, stale, refreshing, scan, requests>>

Answer == {"running", "idle"}
answer == IF active THEN "running" ELSE "idle"

\* A new dashboard loads the status at once, or waits for the user.
BoardInit ==
    /\ active \in BOOLEAN /\ changes = 0
    /\ \E loadStatusOnStartup \in BOOLEAN :
         /\ shown = [active |-> FALSE, error |-> FALSE,
                     loading |-> loadStatusOnStartup, observing |-> loadStatusOnStartup]
         /\ watch = IF loadStatusOnStartup THEN "waiting" ELSE "off"
    /\ stale = "none" /\ refreshing = "none" /\ scan = "none"
    /\ requests = 0

\* Some run starts or ends.
ServerChanges ==
    /\ changes < MaxChanges
    /\ active' = ~active /\ changes' = changes + 1
    /\ UNCHANGED <<shown, watch, stale, refreshing, scan, requests>>

-----------------------------------------------------------------------------
\* applySnapshot.
applied(snapshot, dashboard) ==
    [dashboard EXCEPT !.active = (snapshot = "running"),
                      !.observing = (snapshot = "running")]

\* The stream of the current observation reads a snapshot.
ObservationReads ==
    /\ watch \in {"waiting", "watching"}
    /\ watch' = answer
    /\ UNCHANGED <<active, changes, shown, stale, refreshing, scan, requests>>

\* onSnapshot: the first one ends the loading; one without runs ends the
\* observation.
OnSnapshot ==
    /\ watch \in Answer
    /\ shown' = [applied(watch, shown) EXCEPT !.loading = FALSE]
    /\ watch' = IF watch = "running" THEN "watching" ELSE "off"
    /\ UNCHANGED <<active, changes, stale, refreshing, scan, requests>>

\* The observation fails.
DashboardObservationFails ==
    /\ watch # "off"
    /\ watch' = "off"
    /\ shown' = [shown EXCEPT !.loading = FALSE, !.observing = FALSE, !.error = TRUE]
    /\ UNCHANGED <<active, changes, stale, refreshing, scan, requests>>

\* MUTANT: a snapshot is applied whichever observation it is from.
OnStaleSnapshotApplied ==
    /\ stale # "none"
    /\ stale' = "none"
    /\ shown' = applied(stale, shown)
    /\ UNCHANGED <<active, changes, watch, refreshing, scan, requests>>

\* onSnapshot of an aborted observation, or of an older generation.
OnStaleSnapshot ==
    /\ stale # "none"
    /\ stale' = "none"
    /\ UNCHANGED <<active, changes, shown, watch, refreshing, scan, requests>>

-----------------------------------------------------------------------------
\* refresh.

\* The running observation is aborted; a coalesced request that finds a
\* pending refresh returns.
Refresh(coalesce) ==
    /\ requests < MaxRequests
    /\ ~(coalesce /\ refreshing # "none")
    /\ requests' = requests + 1
    /\ refreshing' = "stopping"
    /\ stale' = IF watch \in Answer THEN watch ELSE stale
    /\ watch' = "off"
    /\ shown' = [shown EXCEPT !.observing = TRUE, !.loading = TRUE, !.error = FALSE]
    /\ UNCHANGED <<active, changes, scan>>

\* The aborted observation has ended.
RefreshStopped ==
    /\ refreshing = "stopping"
    /\ refreshing' = "reading" /\ stale' = "none"
    /\ UNCHANGED <<active, changes, shown, watch, scan, requests>>

RefreshReads ==
    /\ refreshing = "reading"
    /\ refreshing' = answer
    /\ UNCHANGED <<active, changes, shown, watch, stale, scan, requests>>

RefreshApplies ==
    /\ refreshing \in Answer
    /\ refreshing' = "none"
    /\ shown' = [applied(refreshing, shown) EXCEPT !.loading = FALSE]
    /\ watch' = IF refreshing = "running" THEN "watching" ELSE "off"
    /\ UNCHANGED <<active, changes, stale, scan, requests>>

RefreshFails ==
    /\ refreshing = "reading"
    /\ refreshing' = "none"
    /\ shown' = [shown EXCEPT !.observing = FALSE, !.loading = FALSE, !.error = TRUE]
    /\ UNCHANGED <<active, changes, watch, stale, scan, requests>>

-----------------------------------------------------------------------------
\* startObservation: a pending refresh is superseded, the running observation
\* is replaced, and a snapshot that came along is shown.
startObservation(dashboard) ==
    /\ refreshing' = "none"
    /\ stale' = IF watch \in Answer THEN watch ELSE stale
    /\ watch' = "waiting"
    /\ shown' = [dashboard EXCEPT !.observing = TRUE, !.loading = TRUE, !.error = FALSE]

\* executeOperation, once the server has accepted the operation.
OperationStarted ==
    /\ requests < MaxRequests
    /\ requests' = requests + 1
    /\ startObservation(shown)
    /\ UNCHANGED <<active, changes, scan>>

\* scanSelectedSource.
Scan ==
    /\ scan = "none" /\ requests < MaxRequests
    /\ requests' = requests + 1
    /\ scan' = "reading"
    /\ UNCHANGED <<active, changes, shown, watch, stale, refreshing>>

ScanReads ==
    /\ scan = "reading"
    /\ scan' = answer
    /\ UNCHANGED <<active, changes, shown, watch, stale, refreshing, requests>>

\* A scan that saw an active run starts to observe it; its snapshot may be
\* older than the one shown.
ScanApplies ==
    /\ scan \in Answer
    /\ scan' = "none"
    /\ IF scan = "running"
         THEN startObservation(applied(scan, shown))
         ELSE UNCHANGED <<shown, watch, stale, refreshing>>
    /\ UNCHANGED <<active, changes, requests>>

\* The renderer fails and the supervisor opens a second session from the
\* dashboard state it was handed last; the refresh in flight is dropped.
Reopened ==
    /\ requests < MaxRequests
    /\ requests' = requests + 1
    /\ LET observe == shown.observing \/ shown.active
       IN /\ watch' = IF observe THEN "waiting" ELSE "off"
          /\ shown' = [active |-> shown.active, error |-> FALSE,
                       loading |-> observe, observing |-> observe]
    /\ refreshing' = "none" /\ stale' = "none" /\ scan' = "none"
    /\ UNCHANGED <<active, changes>>

BoardNext ==
    \/ ServerChanges
    \/ ObservationReads \/ OnSnapshot \/ DashboardObservationFails \/ OnStaleSnapshot
    \/ \E coalesce \in BOOLEAN : Refresh(coalesce)
    \/ RefreshStopped \/ RefreshReads \/ RefreshApplies \/ RefreshFails
    \/ OperationStarted
    \/ Scan \/ ScanReads \/ ScanApplies
    \/ Reopened

BoardSpec == BoardInit /\ [][BoardNext]_boardVars

-----------------------------------------------------------------------------
(***************************************************************************)
(* A dashboard is never frozen: while it shows an active run or says it is *)
(* loading, and shows no error, an observation or a refresh is under way   *)
(* that will correct it, however requests, snapshots and a renderer        *)
(* recovery overlap (generationRef and refreshRequestRef).                 *)
(***************************************************************************)
DashboardNotFrozen ==
    (shown.active \/ shown.loading) /\ ~shown.error =>
        watch # "off" \/ refreshing # "none"
=============================================================================
