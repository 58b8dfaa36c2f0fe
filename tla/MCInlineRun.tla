----------------------------- MODULE MCInlineRun -----------------------------
(***************************************************************************)
(* TLC instance of InlineRun: a two-definition rollbackOrphans run and a   *)
(* run of one of its definitions, against one store.  Budgets are families *)
(* of behaviours: `contention` lets both runs start, and the operator      *)
(* clear locks; `faults` breaks store calls under one run.                 *)
(***************************************************************************)
EXTENDS InlineRun

CONSTANTS r1, r2

MCRun == {r1, r2}
MCDefinition == 1 .. 2
MCScope == [r \in MCRun |-> IF r = r1 THEN {1, 2} ELSE {2}]
MCPlan == [r \in MCRun |-> IF r = r1 THEN <<2, 1>> ELSE <<2>>]
MCOrphans == {r1}

contention == [starts |-> 2, faults |-> 0, crashes |-> 1, unlocks |-> 1,
               interrupts |-> 0, stops |-> 0]
stops == [starts |-> 2, faults |-> 0, crashes |-> 0, unlocks |-> 0,
          interrupts |-> 0, stops |-> 1]
faults == [starts |-> 1, faults |-> 2, crashes |-> 1, unlocks |-> 0,
           interrupts |-> 1, stops |-> 2]
MCBudgets == {contention, stops, faults}
=============================================================================
