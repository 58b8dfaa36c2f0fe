---------------------------- MODULE MCMigrateServer ----------------------------
(***************************************************************************)
(* TLC instance of the Migrate Server and what talks to it over a          *)
(* connection: the observation of a run, the dashboard projection, the     *)
(* local endpoint and the life of the TUI.  They share no state: a         *)
(* behaviour exercises one of them and leaves the others where they are.   *)
(***************************************************************************)
EXTENDS RunObservation, DashboardProjection, LocalEndpoint, TuiLifecycle

CONSTANTS c1, c2, s1, s2, s3, i1, i2, a, b, streaming, leased

VARIABLE family

mcVars == <<obsVars, dashVars, endpointVars, tuiVars, family>>

MCProcess == {c1, c2}
MCInstance == {s1, s2, s3}
MCInode == {i1, i2}
MCSubscriber == {streaming, leased}
MCFingerprint == {a, b}

\* An observer on a stream and one on leases.
DashMC ==
    /\ DashInit /\ content = a
    /\ subscriber = [s \in MCSubscriber |-> [Unsubscribed EXCEPT !.leased = (s = leased)]]

\* One server died earlier; on a system with inodes it left a file behind.
EndpointMC ==
    /\ EndpointInit
    /\ instance = [s \in MCInstance |-> IF s = s1 THEN Gone ELSE Unborn]
    /\ inode[s1] \in {Nobody, i1}
    /\ file[s1] = "none" => platform = "posix"

MCInit ==
    /\ family \in {"observation", "dashboard", "endpoint", "tui"}
    /\ ObsInit /\ (family # "observation" => owner = "server")
    /\ DashMC /\ (family # "dashboard" => ~providerRun)
    /\ EndpointMC
    /\ family # "endpoint" => platform = "posix" /\ file[s1] = "none"
    /\ TuiInit

RunStep(A) == A /\ UNCHANGED <<dashVars, endpointVars, tuiVars, family>>
TuiStep(A) == A /\ UNCHANGED <<obsVars, dashVars, endpointVars, family>>

MCNext ==
    \/ family = "observation" /\ RunStep(ObsNext)
    \/ family = "dashboard" /\ DashNext
          /\ UNCHANGED <<obsVars, endpointVars, tuiVars, family>>
    \/ family = "endpoint" /\ EndpointNext
          /\ UNCHANGED <<obsVars, dashVars, tuiVars, family>>
    \/ family = "tui" /\ TuiStep(TuiNext)

\* The server goes on with the calls it has accepted and with the executions it
\* started; the renderer is created or fails, and a timer fires.
MCFairness ==
    /\ WF_mcVars(family = "observation" /\ RunStep(Serve))
    /\ WF_mcVars(family = "observation" /\ RunStep(Execute))
    /\ WF_mcVars(family = "tui" /\ TuiStep(Created))
    /\ WF_mcVars(family = "tui" /\ TuiStep(TimerFires))

MCSpec == MCInit /\ [][MCNext]_mcVars /\ MCFairness
=============================================================================
