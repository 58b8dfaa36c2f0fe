--------------------------- MODULE SessionActivity ---------------------------
(***************************************************************************)
(* The session activity of the terminal UI (tui/src/session-activity.ts):  *)
(* a log of what became of the runs, derived from two successive dashboard *)
(* snapshots.  A snapshot is not one read of the store: the server lists   *)
(* the active runs first and reads the status of the definitions later     *)
(* (readSnapshot of registry-runtime.ts), and a snapshot may be applied    *)
(* after a newer one (a source scan, or a projection that is replayed to a *)
(* new subscriber).                                                        *)
(***************************************************************************)
EXTENDS Naturals, Sequences, FiniteSets

CONSTANTS
    ActivityDefinition,   \* migration definitions on the dashboard
    MaxActivityRuns,      \* runs of a session
    MaxSnapshots          \* snapshots of a session

ASSUME ActivityAssumption == MaxActivityRuns \in Nat

VARIABLES
    runStatus,    \* runStatus[r]: "none" before the run exists
    lastRun,      \* lastRun[d]: the newest run of the definition, 0 for none
    activeRead,   \* the active runs of a snapshot whose rows are to be read
    arriving,     \* complete snapshots on their way
    snapshots,    \* snapshots so far
    observed,     \* observedRunSnapshotRef
    activity,     \* entries, never so many that the oldest are omitted
    outdated      \* history: a snapshot was applied after a newer one

activityVars == <<runStatus, lastRun, activeRead, arriving, snapshots,
                  observed, activity, outdated>>

ActivityRun == 1 .. MaxActivityRuns
ActiveStatuses == {"queued", "running", "cancelling"}
TerminalStatuses == {"succeeded", "failed", "start-failed", "cancelled"}
Unread == [at |-> 0]
NoObservation == [at |-> 0]

ActivityInit ==
    /\ runStatus = [r \in ActivityRun |-> "none"]
    /\ lastRun = [d \in ActivityDefinition |-> 0]
    /\ activeRead = Unread /\ arriving = {} /\ snapshots = 0
    /\ observed = NoObservation /\ activity = <<>> /\ outdated = FALSE

-----------------------------------------------------------------------------
\* Runs: one at a time for a definition.
RunQueued(r, plan) ==
    /\ runStatus[r] = "none" /\ \A p \in 1 .. r - 1 : runStatus[p] # "none"
    /\ \A d \in plan : lastRun[d] # 0 => runStatus[lastRun[d]] \in TerminalStatuses
    /\ runStatus' = [runStatus EXCEPT ![r] = "queued"]
    /\ lastRun' = [d \in ActivityDefinition |-> IF d \in plan THEN r ELSE lastRun[d]]
    /\ UNCHANGED <<activeRead, arriving, snapshots, observed, activity, outdated>>

RunMoves(r) ==
    /\ runStatus[r] \in ActiveStatuses
    /\ \E status \in CASE runStatus[r] = "queued" -> {"running", "start-failed", "cancelling"}
                       [] runStatus[r] = "running" -> {"succeeded", "failed", "cancelling"}
                       [] OTHER -> {"cancelled"} :
         runStatus' = [runStatus EXCEPT ![r] = status]
    /\ UNCHANGED <<lastRun, activeRead, arriving, snapshots, observed, activity, outdated>>

-----------------------------------------------------------------------------
\* readSnapshot: active runs, then the report.
ReadActiveRuns ==
    /\ activeRead = Unread /\ snapshots < MaxSnapshots /\ Cardinality(arriving) < 2
    /\ snapshots' = snapshots + 1
    /\ activeRead' = [at |-> snapshots', active |->
                        [r \in {a \in ActivityRun : runStatus[a] \in ActiveStatuses} |->
                            runStatus[r]]]
    /\ UNCHANGED <<runStatus, lastRun, arriving, observed, activity, outdated>>

\* The run states the rows name, by run.
ReadRowStatuses ==
    /\ activeRead # Unread
    /\ arriving' = arriving \cup
         {[at |-> activeRead.at, active |-> activeRead.active,
           rows |-> [r \in {lastRun[d] : d \in ActivityDefinition} \ {0} |-> runStatus[r]]]}
    /\ activeRead' = Unread
    /\ UNCHANGED <<runStatus, lastRun, snapshots, observed, activity, outdated>>

-----------------------------------------------------------------------------
\* completedActiveRunActivity: how the run ended, if a row still tells.
completedActiveRunActivity(r, rows) ==
    IF r \in DOMAIN rows /\ rows[r] \in TerminalStatuses
    THEN rows[r] ELSE "no longer active"

\* One entry for each run of a function from runs to what is told of them,
\* in the order of the runs.
Entries(what) ==
    LET Run(i) == CHOOSE r \in DOMAIN what :
                    Cardinality({p \in DOMAIN what : p < r}) = i - 1
    IN [i \in 1 .. Cardinality(DOMAIN what) |->
          [run |-> Run(i), what |-> what[Run(i)]]]

\* Runs that left the active ones, active runs that are new or changed, and
\* ends of runs that were never seen active.
observedRunActivity(previous, current) ==
    LET known == IF previous = NoObservation THEN <<>> ELSE previous.active
        before == IF previous = NoObservation THEN <<>> ELSE previous.rows
        left == DOMAIN known \ DOMAIN current.active
        changed == {r \in DOMAIN current.active :
                      r \notin DOMAIN known \/ known[r] # current.active[r]}
        ended == {r \in DOMAIN current.rows \ (left \cup DOMAIN current.active) :
                    /\ previous # NoObservation
                    /\ current.rows[r] \in TerminalStatuses
                    /\ r \notin DOMAIN before \/ before[r] # current.rows[r]}
    IN Entries([r \in left |-> completedActiveRunActivity(r, current.rows)])
       \o Entries([r \in changed |-> current.active[r]])
       \o Entries([r \in ended |-> current.rows[r]])

\* applySnapshot, and appendSessionActivity for each entry.
ActivityApplied(s) ==
    /\ s \in arriving
    /\ arriving' = arriving \ {s}
    /\ activity' = activity \o observedRunActivity(observed, s)
    /\ observed' = s
    /\ outdated' = (outdated \/ s.at < observed.at)
    /\ UNCHANGED <<runStatus, lastRun, activeRead, snapshots>>

ActivityNext ==
    \/ \E r \in ActivityRun :
         \/ \E plan \in SUBSET ActivityDefinition \ {{}} : RunQueued(r, plan)
         \/ RunMoves(r)
    \/ ReadActiveRuns \/ ReadRowStatuses
    \/ \E s \in arriving : ActivityApplied(s)

-----------------------------------------------------------------------------
(***************************************************************************)
(* The activity tells the end of every run it showed as active, as it was, *)
(* and, unless a snapshot was applied after a newer one, once and as the   *)
(* last of the run: also when the run ends or is replaced between the two  *)
(* reads of a snapshot (observedRunActivity).                              *)
(***************************************************************************)
ActivityTellsEnds ==
    \A r \in ActivityRun :
        LET told == {i \in DOMAIN activity : activity[i].run = r}
            ends == {i \in told : activity[i].what \notin ActiveStatuses}
        IN /\ told # {} /\ r \notin DOMAIN observed.active => ends # {}
           /\ \A i \in ends : activity[i].what \in {runStatus[r], "no longer active"}
           /\ ~outdated => \A i \in ends : \A j \in told : j <= i
=============================================================================
