--------------------------- MODULE MCDefinitionPass ---------------------------
(***************************************************************************)
(* TLC instance of DefinitionPass, ProcessItems and the store.  A          *)
(* behaviour is one kind of history of a definition (forward passes,       *)
(* orphan cleanup, the targeted runs between passes), one group of items   *)
(* in detail, or two runs, overlapping in one definition, and arbitrary    *)
(* clients at the store's lifecycle and lock operations.                   *)
(***************************************************************************)
EXTENDS MigrationStore, DefinitionPass, ProcessItems

CONSTANTS r1, r2

VARIABLE family

MCRun == {r1, r2}
MCDefinition == 1 .. 2
MCScope == [r \in MCRun |-> IF r = r1 THEN {1, 2} ELSE {2}]

Normal == NoRequest
Limited1 == [NoRequest EXCEPT !.limit = 1]
Limited2 == [NoRequest EXCEPT !.limit = 2]
Rescan == [NoRequest EXCEPT !.rescan = TRUE]
RollbackOrphans == [NoRequest EXCEPT !.rollbackOrphans = TRUE]
Update == [NoRequest EXCEPT !.update = TRUE]
UpdateItems == [NoRequest EXCEPT !.mode = "item", !.update = TRUE]
RetryFailed == [NoRequest EXCEPT !.mode = "failed"]
RetrySkipped == [NoRequest EXCEPT !.mode = "skipped"]
Items == [NoRequest EXCEPT !.mode = "item"]
Rollback == [NoRequest EXCEPT !.mode = "rollback"]

\* Forward passes, with limits.
ForwardRequests == {Normal, Limited1, Limited2, Rescan}

\* Orphan cleanup after passes over a changing source.
OrphanRequests == {Normal, RollbackOrphans}

\* Every other kind of run, between passes.
TargetedRequests == {Normal, Update, UpdateItems, RetryFailed, RetrySkipped,
                     Items, Rollback}

AllRequests == ForwardRequests \cup OrphanRequests \cup TargetedRequests

RequestsOf == [forward |-> ForwardRequests, orphans |-> OrphanRequests,
               targeted |-> TargetedRequests]

\* Bounds per kind of history: runs, source changes, source items.
RunsOf == [forward |-> 2, orphans |-> 2, targeted |-> 3]
ChangesOf == [forward |-> 1, orphans |-> 2, targeted |-> 1]
ItemsOf == [forward |-> 3, orphans |-> 3, targeted |-> 2]

Within ==
    /\ changes <= ChangesOf[family]
    /\ run <= RunsOf[family]
    /\ request \in RequestsOf[family] \cup {NoRequest}
    /\ \A i \in Item : i > ItemsOf[family] => source[i] = 0
    /\ family # "forward" => \A i \in Item : source[i] <= 1

MCInit ==
    /\ Init /\ ItemsInit /\ StoreInit
    /\ \/ /\ family \in DOMAIN RequestsOf /\ Within
          /\ batched = FALSE /\ declared = FALSE /\ contract = "absent"
          /\ \A x \in DOMAIN tracked : tracked[x] = Untracked
          /\ family # "forward" => \A i \in 1 .. ItemsOf[family] : source[i] # 0
       \/ family = "group" /\ source = NothingRead /\ tracked[2] = Untracked
       \/ /\ family = "store" /\ source = NothingRead
          /\ batched = FALSE /\ declared = FALSE /\ contract = "absent"
          /\ \A x \in DOMAIN tracked : tracked[x] = Untracked

MCNext ==
    /\ UNCHANGED family
    /\ \/ /\ family \in DOMAIN RequestsOf /\ Next /\ Within'
          /\ UNCHANGED <<itemsVars, storeVars>>
       \/ family = "group" /\ ItemsNext /\ UNCHANGED <<vars, storeVars>>
       \/ family = "store" /\ StoreNext /\ UNCHANGED <<vars, itemsVars>>

MCSpec == MCInit /\ [][MCNext]_<<vars, itemsVars, storeVars, family>>
=============================================================================
