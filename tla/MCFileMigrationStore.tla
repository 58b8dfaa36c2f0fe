------------------------- MODULE MCFileMigrationStore -------------------------
(***************************************************************************)
(* TLC instance of FileMigrationStore: two runs that share a               *)
(* definition, two processes.                                              *)
(***************************************************************************)
EXTENDS FileMigrationStore, TLC

CONSTANTS r1, r2, c1, c2

MCRun == {r1, r2}
MCDefinition == {1, 2}
MCScope == [r \in MCRun |-> IF r = r1 THEN {1, 2} ELSE {2}]
MCClient == {c1, c2}
MCSymmetry == Permutations(MCClient)

\* One definition succeeded, the other did not get its turn.
MCOutcomes == [r \in MCRun |-> {[d \in MCScope[r] |->
                    IF d = 1 THEN "succeeded" ELSE "skipped"]}]
=============================================================================
