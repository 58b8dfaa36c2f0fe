------------------------- MODULE MCWorkflowExecution -------------------------
(* Instances of WorkflowExecution for TLC. *)
EXTENDS WorkflowExecution, TLC

CONSTANTS r1, r2

MCScope == (r1 :> {1, 2}) @@ (r2 :> {1})
MCPlan == (r1 :> <<2, 1>>) @@ (r2 :> <<1>>)

\* The long run is of any kind; a short one contends with it.
MCKinds == {(r1 :> "run") @@ (r2 :> "run"),
            (r1 :> "orphans") @@ (r2 :> "rollback"),
            (r1 :> "rollback") @@ (r2 :> "rescan")}

\* An earlier run may have left a cursor for the definition they share.
MCInit == Init /\ cursor[2] = 0

\* Two events happen to one run, or one event and then a second run.
MCNext == Next /\ (starter'[r2] # "idle" => budget' = 1)

MCSpec == MCInit /\ [][MCNext]_vars /\ \A r \in Run : WF_vars(Work(r))
=============================================================================
