------------------------------ MODULE StatusScan ------------------------------
(***************************************************************************)
(* A status report with a source scan (migrate-sdk/src/runtime/            *)
(* get-migration-statuses.ts): the list of item states and the windows of  *)
(* the source are read one after the other, while a run of the definition  *)
(* goes on and the source changes.  Nothing ties the reads together but    *)
(* their order.                                                            *)
(*                                                                         *)
(* The source is a listing by position: a window holds one entry, and the  *)
(* cursor is the position after it.  Two entries may have one identity.    *)
(* The completion, the latest run and the lock, which are read before the  *)
(* item states and reported as they are, and the status of an item are     *)
(* left out.                                                               *)
(***************************************************************************)
EXTENDS Naturals, Sequences, FiniteSets

CONSTANTS
  Identity,
  Position,           \* 1 .. n
  MaxEntryChanges,    \* changes of the source
  MaxStateChanges     \* changes of item states

ASSUME IdentityAssumption == IsFiniteSet(Identity)
ASSUME PositionAssumption ==
  IsFiniteSet(Position) /\ Position = 1..Cardinality(Position)

VARIABLES
  sourceEntries,      \* per position: [id, valid] or Gap
  itemStates,         \* the identities with a durable state
  statusScan,         \* the request under way
  steady,             \* history: positions unchanged since the states were listed
  scanChanges         \* [entries, states]

scanVars == <<sourceEntries, itemStates, statusScan, steady, scanChanges>>

Gap == [id |-> "none", valid |-> TRUE]
Entry == [id : Identity, valid : BOOLEAN]

NoScan == [phase |-> "idle", listed |-> {}, items |-> <<>>, cursor |-> 1]

-----------------------------------------------------------------------------
(* The counts of a report.                                                 *)

currentSourceIdentities == {statusScan.items[n].id : n \in DOMAIN statusScan.items}

\* The first entry of every identity that was read.
Firsts == {n \in DOMAIN statusScan.items :
             \A m \in 1 .. n - 1 : statusScan.items[m].id # statusScan.items[n].id}

sourceReport ==
  LET items == statusScan.items
  IN  [total |-> Len(items),
       invalid |-> Cardinality({n \in DOMAIN items : ~items[n].valid}),
       duplicate |-> Cardinality(DOMAIN items \ Firsts),
       unprocessed |-> Cardinality({n \in Firsts : /\ items[n].valid
                                                   /\ items[n].id \notin statusScan.listed}),
       orphaned |-> Cardinality(statusScan.listed \ currentSourceIdentities)]

-----------------------------------------------------------------------------
ScanInit ==
  /\ sourceEntries \in [Position -> Entry \cup {Gap}]
  /\ itemStates \in SUBSET Identity
  /\ statusScan = NoScan
  /\ steady = Position
  /\ scanChanges = [entries |-> 0, states |-> 0]

listItemStates ==
  /\ statusScan.phase = "idle"
  /\ statusScan' = [NoScan EXCEPT !.phase = "windows", !.listed = itemStates]
  /\ steady' = Position
  /\ UNCHANGED <<sourceEntries, itemStates, scanChanges>>

(* A window without a next cursor ends the inventory.                      *)
readSourceInventory ==
  /\ statusScan.phase = "windows"
  /\ IF statusScan.cursor \in Position
       THEN statusScan' = [statusScan EXCEPT !.cursor = @ + 1,
              !.items = IF sourceEntries[statusScan.cursor] = Gap THEN @
                        ELSE Append(@, sourceEntries[statusScan.cursor])]
       ELSE statusScan' = [statusScan EXCEPT !.phase = "reported"]
  /\ UNCHANGED <<sourceEntries, itemStates, steady, scanChanges>>

(* A source error, after the definition's retries if it has any, fails the *)
(* whole report.                                                           *)
ScanFails ==
  /\ statusScan.phase = "windows"
  /\ statusScan' = [NoScan EXCEPT !.phase = "failed"]
  /\ UNCHANGED <<sourceEntries, itemStates, steady, scanChanges>>

-----------------------------------------------------------------------------
Scanning == statusScan.phase \in {"idle", "windows"}

EntryChanges ==
  /\ Scanning /\ scanChanges.entries < MaxEntryChanges
  /\ scanChanges' = [scanChanges EXCEPT !.entries = @ + 1]
  /\ \E p \in Position, e \in Entry \cup {Gap} :
       /\ e # sourceEntries[p]
       /\ sourceEntries' = [sourceEntries EXCEPT ![p] = e]
       /\ steady' = steady \ {p}
  /\ UNCHANGED <<itemStates, statusScan>>

(* A run settles an item of the source, or a rollback removes one.         *)
StatesChange ==
  /\ Scanning /\ scanChanges.states < MaxStateChanges
  /\ scanChanges' = [scanChanges EXCEPT !.states = @ + 1]
  /\ \E i \in Identity :
       itemStates' \in {itemStates \ {i}, itemStates \cup {i}} \ {itemStates}
  /\ UNCHANGED <<sourceEntries, statusScan, steady>>

ScanNext ==
  \/ listItemStates \/ readSourceInventory \/ ScanFails
  \/ EntryChanges \/ StatesChange

ScanSpec == ScanInit /\ [][ScanNext]_scanVars

-----------------------------------------------------------------------------
(* What a report says of a moving system.  An item whose state it counts   *)
(* and that stays where it is in the source from then on is never counted  *)
(* as orphaned, whatever a run does meanwhile; every identity is accounted *)
(* for: it has a durable state, is unprocessed or invalid, and what has a  *)
(* state but was not read is orphaned.                                     *)
(* (scanSourceInventory, getScannedDefinitionStatus)                       *)
ScanReportsHold ==
  statusScan.phase = "reported" =>
    LET stayed  == {sourceEntries[p].id : p \in {q \in steady : sourceEntries[q] # Gap}}
        report  == sourceReport
        current == report.total - report.duplicate
        durable == Cardinality(statusScan.listed)
    IN  /\ report.orphaned <= Cardinality(statusScan.listed \ stayed)
        /\ current >= Cardinality(stayed)
        /\ durable + report.unprocessed <= current + report.orphaned
        /\ current + report.orphaned <= durable + report.unprocessed + report.invalid

=============================================================================
