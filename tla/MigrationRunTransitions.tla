----------------------- MODULE MigrationRunTransitions -----------------------
(***************************************************************************)
(* The pure status algebra that every Migration Store shares               *)
(* (services/migration-store.ts): which lifecycle write is accepted in     *)
(* which durable status, what the stored status becomes, and when a write  *)
(* may replace the "latest run" projection of a definition.                *)
(*                                                                         *)
(* The status "none" stands for TypeScript's undefined: a run without a    *)
(* record, or a write that requests no status (attachRunExecution).        *)
(***************************************************************************)

ActiveStatus == {"queued", "running", "cancelling"}

TerminalStatus == {"succeeded", "failed", "cancelled", "start-failed"}

RunStatus == ActiveStatus \union TerminalStatus

OutcomeStatus == {"succeeded", "failed", "skipped"}

DefinitionRunStatus == RunStatus \union {"skipped"}

isActiveMigrationRunStatus(status) == status \in ActiveStatus

Decision(accepted, status) == [accepted |-> accepted, status |-> status]

\* The status requested by a write, or the stored one when it requests none.
OrCurrent(requested, current) ==
    IF requested = "none" THEN current ELSE requested

\* MUTANT of resolveMigrationRunTransition: a terminal status is an ordinary
\* one, so that a late write replaces it.
ResolveTerminalReopened(current, requested, cancelIfRequested) ==
    CASE current = "running" /\ requested \in {"queued", "start-failed"} ->
            Decision(FALSE, current)
      [] current = "cancelling" /\ requested = "succeeded"
            /\ cancelIfRequested -> Decision(TRUE, "cancelled")
      [] OTHER -> Decision(TRUE, OrCurrent(requested, current))

(***************************************************************************)
(* A terminal status never changes; a write that repeats it (or that       *)
(* repeats a completion which a stop turned into a cancellation) is        *)
(* accepted, to repair projections.  A running run is neither queued again *)
(* nor declared start-failed.  A cancelling run stays cancelling under     *)
(* start writes, and a completion that lets cancellation win ends it as    *)
(* cancelled.                                                              *)
(***************************************************************************)
resolveMigrationRunTransition(current, requested, cancelIfRequested) ==
    CASE current = "none" -> Decision(TRUE, requested)
      [] current \in TerminalStatus ->
            Decision(\/ requested = current
                     \/ /\ current = "cancelled"
                        /\ requested = "succeeded"
                        /\ cancelIfRequested,
                     current)
      [] current = "running" ->
            Decision(requested \notin {"queued", "start-failed"},
                     IF requested \in {"queued", "start-failed"}
                     THEN current ELSE OrCurrent(requested, current))
      [] current = "cancelling" ->
            Decision(TRUE,
                     IF requested = "succeeded" /\ cancelIfRequested
                     THEN "cancelled"
                     ELSE IF requested \in {"none", "queued", "running",
                                            "cancelling"}
                     THEN current ELSE requested)
      [] OTHER -> Decision(TRUE, OrCurrent(requested, current))

(***************************************************************************)
(* Whether a run may become the latest run of a definition whose           *)
(* projection names current: there is none yet, it names the run itself, *)
(* or it still names the predecessor the run recorded when it was         *)
(* created.  NoRun is null; the predecessor is one of a possibly empty     *)
(* set.                                                                    *)
(***************************************************************************)
canReplaceLatestMigrationDefinitionRun(current, predecessors, runId, NoRun) ==
    current \in {NoRun, runId} \union predecessors

(***************************************************************************)
(* The status a definition's projection shows: a stop overrides the        *)
(* definition's own outcome, and a definition without one shows the run's. *)
(* outcomes is a function from some of the run's definitions.              *)
(***************************************************************************)
migrationDefinitionRunStatus(d, runStatus, outcomes) ==
    IF runStatus \notin {"cancelling", "cancelled"} /\ d \in DOMAIN outcomes
    THEN outcomes[d]
    ELSE runStatus

\* The outcomes of a terminal write must name the run's definitions exactly.
validateMigrationDefinitionRunOutcomes(definitionIds, outcomes) ==
    DOMAIN outcomes = definitionIds
=============================================================================
