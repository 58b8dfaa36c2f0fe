-------------------------- MODULE DefinitionPassProofs --------------------------
(***************************************************************************)
(* Proofs about the pass of one definition and about its groups of items.  *)
(*                                                                         *)
(* DefinitionPass: for any source, any window, page and request, and any   *)
(* number of runs.  PassInv is the inductive invariant: what a run knows   *)
(* of the items at each of its phases.                                     *)
(*                                                                         *)
(* ProcessItems: for every number of items and whatever identities their   *)
(* pipelines look up.  The invariant of a group has three parts that are   *)
(* carried together: the types, that a waiting item names a reference, and *)
(* that what is written and reported of an item are its own outcome        *)
(* (OutcomeFits).  On top of it stand the requests for stubs               *)
(* (StubRequestsFit: a pending request and the item that owns it name each *)
(* other) and the lease of the referenced definition (LeaseFits).          *)
(***************************************************************************)
EXTENDS DefinitionPass, ProcessItems, FiniteSetTheorems, TLAPS

-----------------------------------------------------------------------------
(* The inductive invariant *)

\* The phases of a run that has read a window it has not committed.
Reading == phase \in {"observing", "processing"}

\* The phases of a run whose scan has come to the end of the source.
AfterScan == phase \in {"recording", "clearing", "listing", "rollingBack",
                        "recordingAgain", "clearingAgain"}

OrphanRun == request.rollbackOrphans

\* A run is in a phase that its request allows.
RequestFits ==
    /\ IsValidRequest(request)
    /\ phase = "idle" => ~OrphanRun
    /\ phase \in {"preparing", "targeted"} => ~OrphanRun
    /\ phase = "rollingBack" => request.mode = "rollback" \/ OrphanRun
    /\ phase \in {"listing", "recordingAgain", "clearingAgain"} => OrphanRun
    /\ phase \in {"idle", "preparing", "resetting"} => seen = NothingRead

\* Versions grow: an item's state is never newer than what a source that has
\* the item would deliver, nor than the version about to be settled.
VersionsRise ==
    \A i \in Item :
        /\ source[i] <= changes + 1
        /\ item[i].version <= changes + 1
        /\ window.versions[i] <= changes + 1
        /\ source[i] # 0 => /\ item[i].version <= source[i]
                            /\ window.versions[i] <= source[i]
        /\ window.versions[i] # 0 => item[i].version <= window.versions[i]

\* Items that were not scheduled or settled yet are those of the window, and
\* the others of the window are settled.
WindowFits ==
    /\ phase = "preparing" => \A i \in Item : work[i] # "processing"
    /\ phase = "targeted" =>
        \A i \in Item : work[i] = "processing" => window.versions[i] # 0
    /\ phase = "observing" => \A i \in Item : work[i] \in {"idle", "done"}
    /\ Reading =>
        /\ window.next = IF cursor + WindowSize < MaxItem
                         THEN cursor + WindowSize ELSE 0
        /\ \A i \in Item :
            /\ i \in todo \/ work[i] # "idle" => window.versions[i] # 0
            /\ window.versions[i] # 0 =>
                    \/ i \in todo
                    \/ work[i] \in {"scheduled", "processing", "refused"}
                    \/ Settled(i, window.versions[i])
            /\ IF InWindow(i)
               THEN /\ scanned[i] = window.versions[i]
                    /\ seen[i] = window.versions[i]
                    /\ changes = 0 => window.versions[i] = source[i]
               ELSE window.versions[i] = 0

\* What the cursor and the end of the scan say of the items.
ScanFits ==
    /\ CursorOnlyPastSettled
    /\ changes = 0 => \A i \in Item : i <= cursor /\ source[i] # 0 => Known(i)
    /\ phase = "recording" =>
        \A i \in Item :
            /\ scanned[i] # 0 => Settled(i, scanned[i])
            /\ changes = 0 /\ source[i] # 0 => Known(i)

\* The scan of an orphan run begins at the beginning of the source: what it
\* has seen is what was scanned, up to the cursor, and nothing else.
SeenFits ==
    OrphanRun =>
        \A i \in Item :
            /\ phase = "scan" \/ Reading \/ phase = "recording" =>
                    seen[i] = scanned[i]
            /\ phase = "scan" =>
                    /\ seen[i] # 0 => i <= cursor
                    /\ changes = 0 /\ source[i] # 0 /\ i <= cursor => seen[i] # 0
            /\ Reading =>
                    /\ seen[i] # 0 => i <= cursor + WindowSize
                    /\ changes = 0 /\ source[i] # 0 /\ i <= cursor => seen[i] # 0
            /\ AfterScan =>
                    /\ seen[i] # 0 => Settled(i, seen[i])
                    /\ changes = 0 /\ source[i] # 0 => seen[i] # 0

\* In an orphan run the items that carry its number are those it has seen.
MarksFit ==
    /\ \A i \in Item : item[i].inventory <= run
    /\ OrphanRun =>
        \A i \in Item : Known(i) =>
            /\ item[i].inventory = run => seen[i] # 0
            /\ seen[i] # 0 => \/ item[i].inventory = run
                              \/ phase = "observing" /\ i \in todo /\ work[i] = "idle"

\* The orphans are those still to be listed and those of the page.
OrphansFit ==
    OrphanRun =>
        \A i \in Item :
            /\ phase = "rollingBack" /\ work[i] = "scheduled" => IsOrphan(i)
            /\ phase = "listing" /\ counts.failed = 0 /\ IsOrphan(i) => i \in todo
            /\ phase = "rollingBack" /\ counts.failed = 0 /\ IsOrphan(i) =>
                    i \in todo \/ work[i] \in {"scheduled", "refused"}
            /\ phase \in {"recordingAgain", "clearingAgain"} => ~IsOrphan(i)

PassInv ==
    /\ TypeOK
    /\ RequestFits
    /\ VersionsRise
    /\ WindowFits
    /\ ScanFits
    /\ CompletionIsEvidence
    /\ SeenFits
    /\ MarksFit
    /\ OrphansFit

-----------------------------------------------------------------------------
(* Steps between runs, and ends of runs *)

\* A run that ends leaves what is durable as it is, or deletes the cursor.
LEMMA OverStep ==
    ASSUME PassInv, Over, UNCHANGED <<sourceVars, item, completion>>,
           UNCHANGED <<cursor, scanned>> \/ deleteSourceCursor
    PROVE  PassInv'
<1> USE DEF Over, sourceVars
<1>1. TypeOK /\ RequestFits /\ VersionsRise /\ WindowFits /\ ScanFits
      /\ CompletionIsEvidence /\ SeenFits /\ MarksFit /\ OrphansFit
  BY DEF PassInv
<1>2. TypeOK'
  <2>1. request' \in RequestRecord
    BY DEF NoRequest, RequestRecord, Mode
  <2>2. window' \in Window /\ seen' \in [Item -> Nat]
    BY DEF Window, NoWindow, NothingRead
  <2>3. cursor' \in Nat /\ scanned' \in [Item -> Nat]
    BY <1>1 DEF TypeOK, deleteSourceCursor, NothingRead
  <2>4. work' \in [Item -> Work] /\ counts' \in [attempts : Nat, failed : Nat]
    BY DEF NoWork, Work, NoCounts
  <2> QED BY <1>1, <2>1, <2>2, <2>3, <2>4 DEF TypeOK, Phase
<1>3. RequestFits'
  BY <1>1, DefinitionPassAssumption DEF RequestFits, OrphanRun,
     IsValidRequest, NoRequest
<1>4. VersionsRise'
  BY <1>1, DefinitionPassAssumption DEF TypeOK, VersionsRise, NoWindow,
     NothingRead
<1>5. WindowFits'
  BY <1>1, DefinitionPassAssumption DEF TypeOK, WindowFits, Reading,
     InWindow, Settled, Known, NoWork
<1>6. ScanFits'
  BY <1>1, DefinitionPassAssumption DEF TypeOK, ScanFits,
     CursorOnlyPastSettled, Settled, Known, deleteSourceCursor, Item
<1>7. CompletionIsEvidence'
  BY <1>1 DEF TypeOK, CompletionIsEvidence, Settled, Known
<1>8. SeenFits'
  BY <1>1, DefinitionPassAssumption DEF TypeOK, SeenFits, OrphanRun, Reading,
     AfterScan, Settled, Known, NoRequest
<1>9. MarksFit'
  BY <1>1, DefinitionPassAssumption DEF TypeOK, MarksFit, OrphanRun, Known,
     NoRequest
<1>10. OrphansFit'
  BY <1>1, DefinitionPassAssumption DEF TypeOK, OrphansFit, OrphanRun,
     IsOrphan, Known, NoRequest
<1> QED BY <1>2, <1>3, <1>4, <1>5, <1>6, <1>7, <1>8, <1>9, <1>10 DEF PassInv

\* A request to stop is noted.
LEMMA StopStep ==
    ASSUME PassInv, RequestStop
    PROVE  PassInv'
<1> USE DEF RequestStop, sourceVars, durableVars
<1>1. TypeOK /\ RequestFits /\ VersionsRise /\ WindowFits /\ ScanFits
      /\ CompletionIsEvidence /\ SeenFits /\ MarksFit /\ OrphansFit
  BY DEF PassInv
<1>2. TypeOK'
  BY <1>1 DEF TypeOK
<1>3. RequestFits'
  BY <1>1 DEF RequestFits, OrphanRun
<1>4. VersionsRise'
  BY <1>1 DEF TypeOK, VersionsRise
<1>5. WindowFits'
  BY <1>1 DEF TypeOK, WindowFits, Reading, InWindow, Settled, Known
<1>6. ScanFits'
  BY <1>1 DEF TypeOK, ScanFits, CursorOnlyPastSettled, Settled, Known
<1>7. CompletionIsEvidence'
  BY <1>1 DEF TypeOK, CompletionIsEvidence, Settled, Known
<1>8. SeenFits'
  BY <1>1 DEF TypeOK, SeenFits, OrphanRun, Reading, AfterScan, Settled, Known
<1>9. MarksFit'
  BY <1>1 DEF TypeOK, MarksFit, OrphanRun, Known
<1>10. OrphansFit'
  BY <1>1 DEF TypeOK, OrphansFit, OrphanRun, IsOrphan, Known
<1> QED BY <1>2, <1>3, <1>4, <1>5, <1>6, <1>7, <1>8, <1>9, <1>10 DEF PassInv

\* The source gets a later version of an item, or loses it.
LEMMA SourceStep ==
    ASSUME PassInv, NEW i \in Item, SourceChanges(i)
    PROVE  PassInv'
<1> USE DEF SourceChanges, sourceVars, durableVars, runVars
<1>1. TypeOK /\ RequestFits /\ VersionsRise /\ WindowFits /\ ScanFits
      /\ CompletionIsEvidence /\ SeenFits /\ MarksFit /\ OrphansFit
  BY DEF PassInv
<1>2. TypeOK'
  BY <1>1 DEF TypeOK
<1>3. RequestFits'
  BY <1>1 DEF RequestFits, OrphanRun
<1>4. VersionsRise'
  <2>1. PICK v \in {0, changes + 2} : source' = [source EXCEPT ![i] = v]
    OBVIOUS
  <2>2. ASSUME NEW j \in Item
        PROVE  /\ source'[j] \in {source[j], 0, changes + 2}
               /\ source[j] \in Nat /\ item[j].version \in Nat
               /\ window.versions[j] \in Nat
    BY <1>1, <2>1 DEF TypeOK, ItemState, Window
  <2>3. changes \in Nat /\ changes' = changes + 1 /\ item' = item /\ window' = window
    BY <1>1 DEF TypeOK
  <2> QED BY <1>1, <2>2, <2>3 DEF VersionsRise
<1>5. WindowFits'
  BY <1>1 DEF TypeOK, WindowFits, Reading, InWindow, Settled, Known
<1>6. ScanFits'
  BY <1>1 DEF TypeOK, ScanFits, CursorOnlyPastSettled, Settled, Known
<1>7. CompletionIsEvidence'
  BY <1>1 DEF TypeOK, CompletionIsEvidence, Settled, Known
<1>8. SeenFits'
  BY <1>1 DEF TypeOK, SeenFits, OrphanRun, Reading, AfterScan, Settled, Known
<1>9. MarksFit'
  BY <1>1 DEF TypeOK, MarksFit, OrphanRun, Known
<1>10. OrphansFit'
  BY <1>1 DEF TypeOK, OrphansFit, OrphanRun, IsOrphan, Known
<1> QED BY <1>2, <1>3, <1>4, <1>5, <1>6, <1>7, <1>8, <1>9, <1>10 DEF PassInv

\* A run starts.
LEMMA StartStep ==
    ASSUME PassInv, StartSomeRun
    PROVE  PassInv'
<1> USE DEF StartSomeRun, StartRun, sourceVars, durableVars
<1>1. TypeOK /\ RequestFits /\ VersionsRise /\ WindowFits /\ ScanFits
      /\ CompletionIsEvidence /\ SeenFits /\ MarksFit /\ OrphansFit
  BY DEF PassInv
<1>a. PICK q \in Requests, T \in SUBSET Item : StartRun(q, T)
  OBVIOUS
<1>2. TypeOK'
  BY <1>1, DefinitionPassAssumption DEF TypeOK, Phase, RequestRecord, Work,
     NoWork, Schedule
<1>3. RequestFits'
  BY <1>1, DefinitionPassAssumption DEF RequestFits, OrphanRun, RequestRecord
<1>4. VersionsRise'
  BY <1>1 DEF TypeOK, VersionsRise
<1>5. WindowFits'
  BY <1>1, DefinitionPassAssumption DEF TypeOK, WindowFits, Reading,
     InWindow, Settled, Known, NoWork, Schedule
<1>6. ScanFits'
  BY <1>1 DEF TypeOK, ScanFits, CursorOnlyPastSettled, Settled, Known
<1>7. CompletionIsEvidence'
  BY <1>1 DEF TypeOK, CompletionIsEvidence, Settled, Known
<1>8. SeenFits'
  <2>1. OrphanRun' => phase' = "resetting"
    <3>1. OrphanRun' => q.rollbackOrphans
      BY <1>a DEF OrphanRun
    <3>2. q.rollbackOrphans => q.mode = "normal" /\ ~q.update
      BY DefinitionPassAssumption DEF IsValidRequest
    <3> QED BY <1>a, <3>1, <3>2
  <2> QED BY <2>1 DEF SeenFits, Reading, AfterScan
<1>9. MarksFit'
  <2>1. seen' = NothingRead /\ item' = item /\ run' = run + 1 /\ run \in Nat
    BY <1>1 DEF TypeOK, RequestFits
  <2>2. \A i \in Item : seen'[i] = 0 /\ item[i].inventory \in Nat
    BY <1>1, <2>1 DEF NothingRead, TypeOK, ItemState
  <2> QED BY <1>1, <2>1, <2>2 DEF MarksFit, Known
<1>10. OrphansFit'
  BY <1>1, DefinitionPassAssumption DEF TypeOK, OrphansFit, OrphanRun,
     IsOrphan, Known, RequestRecord
<1> QED BY <1>2, <1>3, <1>4, <1>5, <1>6, <1>7, <1>8, <1>9, <1>10 DEF PassInv

-----------------------------------------------------------------------------
(* The start of a run *)

\* An update marks a migrated item.
LEMMA MarkStep ==
    ASSUME PassInv, NEW i \in Item, MarkNeedsUpdate(i)
    PROVE  PassInv'
<1> USE DEF MarkNeedsUpdate, sourceVars, runVars
<1>1. TypeOK /\ RequestFits /\ VersionsRise /\ WindowFits /\ ScanFits
      /\ CompletionIsEvidence /\ SeenFits /\ MarksFit /\ OrphansFit
  BY DEF PassInv
<1>2. TypeOK'
  BY <1>1, DefinitionPassAssumption DEF TypeOK, ItemState, ItemStatus
<1>3. RequestFits'
  BY <1>1 DEF RequestFits, OrphanRun
<1>4. VersionsRise'
  BY <1>1, DefinitionPassAssumption DEF TypeOK, VersionsRise, ItemState
<1>5. WindowFits'
  BY <1>1 DEF TypeOK, WindowFits, Reading, InWindow, Settled, Known
<1>6. ScanFits'
  BY <1>1, DefinitionPassAssumption DEF TypeOK, ScanFits,
     CursorOnlyPastSettled, Settled, Known, ItemState
<1>7. CompletionIsEvidence'
  BY <1>1, DefinitionPassAssumption DEF TypeOK, CompletionIsEvidence,
     Settled, Known, ItemState
<1>8. SeenFits'
  <2>1. ~OrphanRun'
    BY <1>1 DEF RequestFits, OrphanRun
  <2> QED BY <2>1 DEF SeenFits
<1>9. MarksFit'
  <2>1. ~OrphanRun'
    BY <1>1 DEF RequestFits, OrphanRun
  <2>2. \A j \in Item : item'[j].inventory \in {item[j].inventory, 0}
    BY <1>1 DEF TypeOK, ItemState
  <2> QED BY <1>1, <2>1, <2>2 DEF TypeOK, MarksFit
<1>10. OrphansFit'
  BY <1>1 DEF TypeOK, OrphansFit, OrphanRun, IsOrphan, Known
<1> QED BY <1>2, <1>3, <1>4, <1>5, <1>6, <1>7, <1>8, <1>9, <1>10 DEF PassInv

\* An update has marked its items.
LEMMA PreparedStep ==
    ASSUME PassInv, UpdatePrepared
    PROVE  PassInv'
<1> USE DEF UpdatePrepared, sourceVars, durableVars, runVars
<1>1. TypeOK /\ RequestFits /\ VersionsRise /\ WindowFits /\ ScanFits
      /\ CompletionIsEvidence /\ SeenFits /\ MarksFit /\ OrphansFit
  BY DEF PassInv
<1>2. TypeOK'
  BY <1>1, DefinitionPassAssumption DEF TypeOK, Phase
<1>3. RequestFits'
  BY <1>1 DEF RequestFits, OrphanRun
<1>4. VersionsRise'
  BY <1>1 DEF TypeOK, VersionsRise
<1>5. WindowFits'
  BY <1>1 DEF TypeOK, WindowFits, Reading, InWindow, Settled, Known
<1>6. ScanFits'
  BY <1>1 DEF TypeOK, ScanFits, CursorOnlyPastSettled, Settled, Known
<1>7. CompletionIsEvidence'
  BY <1>1 DEF TypeOK, CompletionIsEvidence, Settled, Known
<1>8. SeenFits'
  BY <1>1 DEF TypeOK, SeenFits, OrphanRun, Reading, AfterScan, Settled, Known
<1>9. MarksFit'
  BY <1>1 DEF TypeOK, MarksFit, OrphanRun, Known
<1>10. OrphansFit'
  BY <1>1 DEF TypeOK, OrphansFit, OrphanRun, IsOrphan, Known
<1> QED BY <1>2, <1>3, <1>4, <1>5, <1>6, <1>7, <1>8, <1>9, <1>10 DEF PassInv

\* The cursor is deleted before the scan.
LEMMA ResetStep ==
    ASSUME PassInv, ResetCursor
    PROVE  PassInv'
<1> USE DEF ResetCursor, deleteSourceCursor, sourceVars, runVars
<1>1. TypeOK /\ RequestFits /\ VersionsRise /\ WindowFits /\ ScanFits
      /\ CompletionIsEvidence /\ SeenFits /\ MarksFit /\ OrphansFit
  BY DEF PassInv
<1>2. TypeOK'
  BY <1>1, DefinitionPassAssumption DEF TypeOK, Phase, NothingRead
<1>3. RequestFits'
  BY <1>1 DEF RequestFits, OrphanRun
<1>4. VersionsRise'
  BY <1>1 DEF TypeOK, VersionsRise
<1>5. WindowFits'
  <2>1. ~Reading' /\ phase' = "scan"
    BY DEF Reading
  <2> QED BY <2>1 DEF WindowFits
<1>6. ScanFits'
  BY <1>1, DefinitionPassAssumption DEF TypeOK, ScanFits,
     CursorOnlyPastSettled, Settled, Known, Item
<1>7. CompletionIsEvidence'
  BY <1>1 DEF TypeOK, CompletionIsEvidence, Settled, Known
<1>8. SeenFits'
  <2>1. \A i \in Item : seen'[i] = 0 /\ scanned'[i] = 0 /\ ~(i <= cursor')
    BY <1>1 DEF RequestFits, NothingRead, Item
  <2>2. ~Reading' /\ ~AfterScan' /\ phase' = "scan"
    BY DEF Reading, AfterScan
  <2> QED BY <2>1, <2>2 DEF SeenFits
<1>9. MarksFit'
  BY <1>1 DEF TypeOK, MarksFit, OrphanRun, Known
<1>10. OrphansFit'
  BY <1>1 DEF TypeOK, OrphansFit, OrphanRun, IsOrphan, Known
<1> QED BY <1>2, <1>3, <1>4, <1>5, <1>6, <1>7, <1>8, <1>9, <1>10 DEF PassInv

-----------------------------------------------------------------------------
(* Windows *)

\* A run reads a window from the cursor on.
LEMMA ReadStep ==
    ASSUME PassInv, ReadWindow
    PROVE  PassInv'
<1> USE DEF ReadWindow, sourceVars, durableVars
<1>1. TypeOK /\ RequestFits /\ VersionsRise /\ WindowFits /\ ScanFits
      /\ CompletionIsEvidence /\ SeenFits /\ MarksFit /\ OrphansFit
  BY DEF PassInv
<1>2. TypeOK'
  BY <1>1, DefinitionPassAssumption DEF TypeOK, Phase, Window, Work, NoWork
<1>3. RequestFits'
  BY <1>1 DEF RequestFits, OrphanRun
<1>4. VersionsRise'
  BY <1>1, DefinitionPassAssumption DEF TypeOK, VersionsRise, Window
<1>5. WindowFits'
  BY <1>1, DefinitionPassAssumption DEF TypeOK, WindowFits, Reading,
     InWindow, Settled, Known, NoWork, Window, Item
<1>6. ScanFits'
  BY <1>1, DefinitionPassAssumption DEF TypeOK, ScanFits,
     CursorOnlyPastSettled, Settled, Known, InWindow, Item
<1>7. CompletionIsEvidence'
  BY <1>1 DEF TypeOK, CompletionIsEvidence, Settled, Known
<1>8. SeenFits'
  BY <1>1, DefinitionPassAssumption DEF TypeOK, SeenFits, OrphanRun, Reading,
     AfterScan, Settled, Known, InWindow, Item
<1>9. MarksFit'
  <2>1. \A i \in Item : OrphanRun /\ InWindow(i) => seen[i] = 0
    BY <1>1 DEF TypeOK, SeenFits, InWindow, Item
  <2>2. \A i \in Item : OrphanRun /\ Known(i) =>
            (item[i].inventory = run <=> seen[i] # 0)
    BY <1>1 DEF MarksFit
  <2>3. ASSUME NEW i \in Item, OrphanRun, Known(i)
        PROVE  /\ item[i].inventory = run => seen'[i] # 0
               /\ seen'[i] # 0 => \/ item[i].inventory = run
                                  \/ phase' = "observing" /\ i \in todo' /\ work'[i] = "idle"
    <3>1. CASE InWindow(i)
      BY <2>1, <2>2, <2>3, <3>1 DEF NoWork, OrphanRun
    <3>2. CASE ~InWindow(i)
      BY <2>2, <2>3, <3>2
    <3> QED BY <3>1, <3>2
  <2> QED BY <1>1, <2>3 DEF MarksFit, OrphanRun, Known
<1>10. OrphansFit'
  BY <1>1 DEF TypeOK, OrphansFit, OrphanRun, IsOrphan, Known
<1> QED BY <1>2, <1>3, <1>4, <1>5, <1>6, <1>7, <1>8, <1>9, <1>10 DEF PassInv

\* An orphan run marks an item of the window.
LEMMA ObserveStep ==
    ASSUME PassInv, NEW i \in Item, ObserveItem(i)
    PROVE  PassInv'
<1> USE DEF ObserveItem, sourceVars, runVars
<1>1. TypeOK /\ RequestFits /\ VersionsRise /\ WindowFits /\ ScanFits
      /\ CompletionIsEvidence /\ SeenFits /\ MarksFit /\ OrphansFit
  BY DEF PassInv
<1>2. TypeOK'
  BY <1>1, DefinitionPassAssumption DEF TypeOK, ItemState, Work
<1>3. RequestFits'
  BY <1>1 DEF RequestFits, OrphanRun
<1>4. VersionsRise'
  BY <1>1, DefinitionPassAssumption DEF TypeOK, VersionsRise, ItemState
<1>5. WindowFits'
  BY <1>1, DefinitionPassAssumption DEF TypeOK, WindowFits, Reading,
     InWindow, Settled, Known, ItemState
<1>6. ScanFits'
  BY <1>1 DEF TypeOK, ScanFits, CursorOnlyPastSettled, Settled, Known
<1>7. CompletionIsEvidence'
  BY <1>1 DEF TypeOK, CompletionIsEvidence, Settled, Known
<1>8. SeenFits'
  BY <1>1 DEF TypeOK, SeenFits, OrphanRun, Reading, AfterScan, Settled, Known
<1>9. MarksFit'
  BY <1>1, DefinitionPassAssumption DEF TypeOK, MarksFit, OrphanRun, Known,
     ItemState, WindowFits, Reading
<1>10. OrphansFit'
  BY <1>1 DEF TypeOK, OrphansFit, OrphanRun, IsOrphan, Known
<1> QED BY <1>2, <1>3, <1>4, <1>5, <1>6, <1>7, <1>8, <1>9, <1>10 DEF PassInv

\* The items of the window are marked.
LEMMA ObservedStep ==
    ASSUME PassInv, WindowObserved
    PROVE  PassInv'
<1> USE DEF WindowObserved, sourceVars, durableVars, runVars
<1>1. TypeOK /\ RequestFits /\ VersionsRise /\ WindowFits /\ ScanFits
      /\ CompletionIsEvidence /\ SeenFits /\ MarksFit /\ OrphansFit
  BY DEF PassInv
<1>2. TypeOK'
  BY <1>1, DefinitionPassAssumption DEF TypeOK, Phase, Work, NoWork
<1>3. RequestFits'
  BY <1>1 DEF RequestFits, OrphanRun
<1>4. VersionsRise'
  BY <1>1 DEF TypeOK, VersionsRise
<1>5. WindowFits'
  BY <1>1, DefinitionPassAssumption DEF TypeOK, WindowFits, Reading,
     InWindow, Settled, Known, NoWork
<1>6. ScanFits'
  BY <1>1 DEF TypeOK, ScanFits, CursorOnlyPastSettled, Settled, Known
<1>7. CompletionIsEvidence'
  BY <1>1 DEF TypeOK, CompletionIsEvidence, Settled, Known
<1>8. SeenFits'
  BY <1>1 DEF TypeOK, SeenFits, OrphanRun, Reading, AfterScan, Settled, Known
<1>9. MarksFit'
  BY <1>1 DEF TypeOK, MarksFit, OrphanRun, Known
<1>10. OrphansFit'
  BY <1>1 DEF TypeOK, OrphansFit, OrphanRun, IsOrphan, Known
<1> QED BY <1>2, <1>3, <1>4, <1>5, <1>6, <1>7, <1>8, <1>9, <1>10 DEF PassInv

\* A group of the window is scheduled.
LEMMA GroupStep ==
    ASSUME PassInv, ScheduleGroup
    PROVE  PassInv'
<1> USE DEF ScheduleGroup, Schedule, FirstOf, sourceVars, durableVars, runVars
<1>1. TypeOK /\ RequestFits /\ VersionsRise /\ WindowFits /\ ScanFits
      /\ CompletionIsEvidence /\ SeenFits /\ MarksFit /\ OrphansFit
  BY DEF PassInv
<1>2. TypeOK'
  BY <1>1, DefinitionPassAssumption DEF TypeOK, Work
<1>3. RequestFits'
  BY <1>1 DEF RequestFits, OrphanRun
<1>4. VersionsRise'
  BY <1>1 DEF TypeOK, VersionsRise
<1>5. WindowFits'
  BY <1>1, DefinitionPassAssumption DEF TypeOK, WindowFits, Reading,
     InWindow, Settled, Known, InFlight, Refused
<1>6. ScanFits'
  BY <1>1 DEF TypeOK, ScanFits, CursorOnlyPastSettled, Settled, Known
<1>7. CompletionIsEvidence'
  BY <1>1 DEF TypeOK, CompletionIsEvidence, Settled, Known
<1>8. SeenFits'
  BY <1>1 DEF TypeOK, SeenFits, OrphanRun, Reading, AfterScan, Settled, Known
<1>9. MarksFit'
  BY <1>1 DEF TypeOK, MarksFit, OrphanRun, Known
<1>10. OrphansFit'
  BY <1>1 DEF TypeOK, OrphansFit, OrphanRun, IsOrphan, Known
<1> QED BY <1>2, <1>3, <1>4, <1>5, <1>6, <1>7, <1>8, <1>9, <1>10 DEF PassInv

-----------------------------------------------------------------------------
(* Items *)

\* An item is not scheduled any more.
LEMMA RefuseStep ==
    ASSUME PassInv, NEW i \in Item, RefuseItem(i)
    PROVE  PassInv'
<1> USE DEF RefuseItem, itemFrame, sourceVars
<1>1. TypeOK /\ RequestFits /\ VersionsRise /\ WindowFits /\ ScanFits
      /\ CompletionIsEvidence /\ SeenFits /\ MarksFit /\ OrphansFit
  BY DEF PassInv
<1>2. TypeOK'
  BY <1>1, DefinitionPassAssumption DEF TypeOK, Work
<1>3. RequestFits'
  BY <1>1 DEF RequestFits, OrphanRun
<1>4. VersionsRise'
  BY <1>1 DEF TypeOK, VersionsRise
<1>5. WindowFits'
  BY <1>1 DEF TypeOK, WindowFits, Reading, InWindow, Settled, Known
<1>6. ScanFits'
  BY <1>1 DEF TypeOK, ScanFits, CursorOnlyPastSettled, Settled, Known
<1>7. CompletionIsEvidence'
  BY <1>1 DEF TypeOK, CompletionIsEvidence, Settled, Known
<1>8. SeenFits'
  BY <1>1 DEF TypeOK, SeenFits, OrphanRun, Reading, AfterScan, Settled, Known
<1>9. MarksFit'
  BY <1>1 DEF TypeOK, MarksFit, OrphanRun, Known
<1>10. OrphansFit'
  BY <1>1 DEF TypeOK, OrphansFit, OrphanRun, IsOrphan, Known
<1> QED BY <1>2, <1>3, <1>4, <1>5, <1>6, <1>7, <1>8, <1>9, <1>10 DEF PassInv

\* A targeted identity cannot be looked up.
LEMMA LookupStep ==
    ASSUME PassInv, NEW i \in Item, LookupFails(i)
    PROVE  PassInv'
<1> USE DEF LookupFails, Settle, itemFrame, sourceVars
<1>1. TypeOK /\ RequestFits /\ VersionsRise /\ WindowFits /\ ScanFits
      /\ CompletionIsEvidence /\ SeenFits /\ MarksFit /\ OrphansFit
  BY DEF PassInv
<1>2. TypeOK'
  <2>1. [item[i] EXCEPT !.status = "failed", !.inventory = 0] \in ItemState
    BY <1>1 DEF TypeOK, ItemState, ItemStatus
  <2>2. item' \in [Item -> ItemState]
    BY <1>1, <2>1 DEF TypeOK
  <2>3. counts' \in [attempts : Nat, failed : Nat]
    BY <1>1 DEF TypeOK
  <2> QED BY <1>1, <2>2, <2>3 DEF TypeOK, Work
<1>3. RequestFits'
  BY <1>1 DEF RequestFits, OrphanRun
<1>4. VersionsRise'
  BY <1>1, DefinitionPassAssumption DEF TypeOK, VersionsRise, ItemState
<1>5. WindowFits'
  BY <1>1, DefinitionPassAssumption DEF TypeOK, WindowFits, Reading,
     InWindow, Settled, Known, ItemState
<1>6. ScanFits'
  BY <1>1, DefinitionPassAssumption DEF TypeOK, ScanFits,
     CursorOnlyPastSettled, Settled, Known, ItemState
<1>7. CompletionIsEvidence'
  BY <1>1, DefinitionPassAssumption DEF TypeOK, CompletionIsEvidence,
     Settled, Known, ItemState
<1>8. SeenFits'
  <2>1. ~OrphanRun'
    BY <1>1 DEF RequestFits, OrphanRun
  <2> QED BY <2>1 DEF SeenFits
<1>9. MarksFit'
  <2>1. ~OrphanRun'
    BY <1>1 DEF RequestFits, OrphanRun
  <2>2. \A j \in Item : item'[j].inventory \in {item[j].inventory, 0}
    BY <1>1 DEF TypeOK, ItemState
  <2> QED BY <1>1, <2>1, <2>2 DEF TypeOK, MarksFit
<1>10. OrphansFit'
  BY <1>1 DEF TypeOK, OrphansFit, OrphanRun, IsOrphan, Known
<1> QED BY <1>2, <1>3, <1>4, <1>5, <1>6, <1>7, <1>8, <1>9, <1>10 DEF PassInv

\* The version at which an item is admitted or settled.
LEMMA ReadVersion ==
    ASSUME PassInv, NEW i \in Item, Processing, LookedUp(i) \/ UNCHANGED window,
           work[i] \in {"scheduled", "processing"},
           phase = "processing" \/ LookedUp(i) \/ work[i] = "processing"
    PROVE  /\ window' \in Window /\ window'.next = window.next
           /\ phase = "processing" => window' = window
           /\ \A j \in Item :
                /\ window'.versions[j] \in {window.versions[j], source[j]}
                /\ j # i => window'.versions[j] = window.versions[j]
           /\ window'.versions[i] # 0
           /\ item[i].version <= window'.versions[i]
<1>1. TypeOK /\ VersionsRise /\ WindowFits
  BY DEF PassInv
<1>2. CASE UNCHANGED window
  <2>1. window.versions[i] # 0
    <3>1. CASE phase = "processing" \/ work[i] = "processing"
      BY <1>1, <3>1 DEF WindowFits, Reading, Processing
    <3>2. CASE phase = "targeted" /\ work[i] # "processing"
      <4>1. source[i] # 0 /\ window' = [window EXCEPT !.versions[i] = source[i]]
        BY <3>2 DEF LookedUp
      <4>2. window'.versions[i] = source[i]
        BY <1>1, <4>1 DEF TypeOK, Window
      <4> QED BY <1>2, <4>1, <4>2
    <3> QED BY <3>1, <3>2 DEF Processing
  <2> QED BY <1>1, <1>2, <2>1 DEF TypeOK, VersionsRise
<1>3. CASE window' # window
  <2>1. /\ phase = "targeted" /\ source[i] # 0
        /\ window' = [window EXCEPT !.versions[i] = source[i]]
    BY <1>3 DEF LookedUp
  <2>2. /\ window' \in Window /\ window'.next = window.next
        /\ window'.versions = [window.versions EXCEPT ![i] = source[i]]
    BY <1>1, <2>1 DEF TypeOK, Window
  <2>3. /\ window'.versions[i] = source[i]
        /\ \A j \in Item : j # i => window'.versions[j] = window.versions[j]
    BY <1>1, <2>2 DEF TypeOK, Window
  <2>4. item[i].version <= source[i]
    BY <1>1, <2>1 DEF VersionsRise
  <2> QED BY <2>1, <2>2, <2>3, <2>4
<1> QED BY <1>2, <1>3

\* An item gets a durable outcome.
LEMMA SettleStep ==
    ASSUME PassInv, NEW i \in Item, Processing, LookedUp(i) \/ UNCHANGED window,
           work[i] \in {"scheduled", "processing"},
           phase = "processing" \/ LookedUp(i) \/ work[i] = "processing",
           NEW outcome \in {"migrated", "skipped", "failed"},
           Settle(i, ItemOutcome(i, outcome, window'.versions[i])),
           UNCHANGED itemFrame
    PROVE  PassInv'
<1> USE DEF itemFrame, sourceVars
<1>1. TypeOK /\ RequestFits /\ VersionsRise /\ WindowFits /\ ScanFits
      /\ CompletionIsEvidence /\ SeenFits /\ MarksFit /\ OrphansFit
  BY DEF PassInv
<1>a. /\ window' \in Window /\ window'.next = window.next
      /\ phase = "processing" => window' = window
      /\ \A j \in Item :
            /\ window'.versions[j] \in {window.versions[j], source[j]}
            /\ j # i => window'.versions[j] = window.versions[j]
      /\ window'.versions[i] # 0
      /\ item[i].version <= window'.versions[i]
  BY ReadVersion DEF Processing
<1>c. phase \in {"processing", "targeted"}
  BY DEF Processing
<1>b. /\ item' \in [Item -> ItemState] /\ counts' \in [attempts : Nat, failed : Nat]
      /\ work' \in [Item -> Work] /\ work'[i] = "done"
      /\ item'[i].status = outcome /\ item'[i].version = window'.versions[i]
      /\ item'[i].inventory = IF OrphanRun THEN run ELSE item[i].inventory
      /\ \A j \in Item \ {i} : item'[j] = item[j] /\ work'[j] = work[j]
  <2>1. ItemOutcome(i, outcome, window'.versions[i]) \in ItemState
    BY <1>1, <1>a DEF TypeOK, ItemOutcome, ItemState, ItemStatus, Window
  <2> QED BY <1>1, <2>1 DEF TypeOK, Settle, ItemOutcome, Work, OrphanRun
<1>d. \A j \in Item : /\ Known(j) => Known(j)'
                      /\ item'[j].version >= item[j].version
                      /\ item[j].version \in Nat /\ item'[j].version \in Nat
                      /\ j # i => Known(j)' = Known(j)
  BY <1>1, <1>a, <1>b DEF TypeOK, Known, ItemState
<1>2. TypeOK'
  BY <1>1, <1>a, <1>b DEF TypeOK
<1>3. RequestFits'
  BY <1>1 DEF RequestFits, OrphanRun
<1>4. VersionsRise'
  BY <1>1, <1>a, <1>b DEF TypeOK, VersionsRise, Window, ItemState
<1>5. WindowFits'
  <2>1. CASE phase = "processing"
    BY <1>1, <1>a, <1>b, <1>d, <2>1 DEF TypeOK, WindowFits, Reading, InWindow,
       Settled, Known
  <2>2. CASE phase = "targeted"
    <3>1. ~Reading' /\ phase' # "preparing" /\ phase' # "observing"
      BY <2>2 DEF Reading
    <3>2. \A j \in Item : work'[j] = "processing" =>
              j # i /\ work[j] = "processing" /\ window'.versions[j] # 0
      BY <1>1, <1>a, <1>b, <2>2 DEF WindowFits
    <3> QED BY <3>1, <3>2 DEF WindowFits
  <2> QED BY <1>c, <2>1, <2>2
<1>6. ScanFits'
  BY <1>1, <1>b, <1>c, <1>d DEF TypeOK, ScanFits, CursorOnlyPastSettled, Settled
<1>7. CompletionIsEvidence'
  BY <1>1, <1>b, <1>d DEF TypeOK, CompletionIsEvidence, Completion, Settled
<1>8. SeenFits'
  <2>1. ~AfterScan' /\ Reading' = Reading /\ phase' = phase
    BY <1>c DEF AfterScan, Reading
  <2> QED BY <1>1, <1>c, <2>1 DEF SeenFits, OrphanRun
<1>9. MarksFit'
  <2>1. OrphanRun => phase = "processing"
    BY <1>1, <1>c DEF RequestFits
  <2>2. OrphanRun => item'[i].inventory = run /\ seen[i] # 0
    BY <1>1, <1>a, <1>b, <2>1 DEF WindowFits, Reading, OrphanRun
  <2>3. item'[i].inventory <= run
    BY <1>1, <1>b DEF TypeOK, MarksFit
  <2> QED BY <1>1, <1>b, <1>c, <1>d, <2>1, <2>2, <2>3 DEF MarksFit, OrphanRun
<1>10. OrphansFit'
  BY <1>c DEF OrphansFit
<1> QED BY <1>2, <1>3, <1>4, <1>5, <1>6, <1>7, <1>8, <1>9, <1>10 DEF PassInv

\* An item is admitted, or is unchanged.
LEMMA AdmitStep ==
    ASSUME PassInv, NEW i \in Item, Processing, work[i] = "scheduled", LookedUp(i),
           \/ /\ isUnchangedTerminalState(i, window'.versions[i])
              /\ work' = [work EXCEPT ![i] = "done"]
           \/ work' = [work EXCEPT ![i] = "processing"],
           UNCHANGED <<itemFrame, item, counts>>
    PROVE  PassInv'
<1> USE DEF itemFrame, sourceVars
<1>1. TypeOK /\ RequestFits /\ VersionsRise /\ WindowFits /\ ScanFits
      /\ CompletionIsEvidence /\ SeenFits /\ MarksFit /\ OrphansFit
  BY DEF PassInv
<1>a. /\ window' \in Window /\ window'.next = window.next
      /\ phase = "processing" => window' = window
      /\ \A j \in Item :
            /\ window'.versions[j] \in {window.versions[j], source[j]}
            /\ j # i => window'.versions[j] = window.versions[j]
      /\ window'.versions[i] # 0
      /\ item[i].version <= window'.versions[i]
  BY ReadVersion DEF Processing
<1>c. phase \in {"processing", "targeted"}
  BY DEF Processing
<1>2. TypeOK'
  BY <1>1, <1>a DEF TypeOK, Work
<1>3. RequestFits'
  BY <1>1 DEF RequestFits, OrphanRun
<1>4. VersionsRise'
  BY <1>1, <1>a DEF TypeOK, VersionsRise, Window, ItemState
<1>5. WindowFits'
  BY <1>1, <1>a, <1>c DEF TypeOK, WindowFits, Reading, InWindow, Settled, Known,
     isUnchangedTerminalState, ItemState
<1>6. ScanFits'
  BY <1>1 DEF TypeOK, ScanFits, CursorOnlyPastSettled, Settled, Known
<1>7. CompletionIsEvidence'
  BY <1>1 DEF TypeOK, CompletionIsEvidence, Settled, Known
<1>8. SeenFits'
  BY <1>1 DEF TypeOK, SeenFits, OrphanRun, Reading, AfterScan, Settled, Known
<1>9. MarksFit'
  BY <1>1 DEF TypeOK, MarksFit, OrphanRun, Known
<1>10. OrphansFit'
  BY <1>c DEF OrphansFit
<1> QED BY <1>2, <1>3, <1>4, <1>5, <1>6, <1>7, <1>8, <1>9, <1>10 DEF PassInv

-----------------------------------------------------------------------------
(* The end of a window and of the pass *)

\* At the end of a window, what was read up to its end is settled.
LEMMA SettledWindow ==
    ASSUME PassInv, WindowSettled
    PROVE  /\ window.next = IF cursor + WindowSize < MaxItem
                            THEN cursor + WindowSize ELSE 0
           /\ cursor + WindowSize \in Nat
           /\ \A i \in Item :
                /\ i <= cursor + WindowSize =>
                    /\ scanned[i] # 0 => Settled(i, scanned[i])
                    /\ changes = 0 /\ source[i] # 0 => Known(i)
                /\ OrphanRun =>
                    /\ seen[i] = scanned[i]
                    /\ seen[i] # 0 => i <= cursor + WindowSize
                    /\ i <= cursor + WindowSize =>
                        (changes = 0 /\ source[i] # 0 => seen[i] # 0)
<1>1. TypeOK /\ WindowFits /\ ScanFits /\ SeenFits
  BY DEF PassInv
<1>2. Reading /\ todo = {} /\ InFlight = {} /\ Refused = {}
  BY DEF WindowSettled, Reading
<1>3. cursor + WindowSize \in Nat
  BY <1>1, DefinitionPassAssumption DEF TypeOK
<1>4. ASSUME NEW i \in Item, InWindow(i)
      PROVE  /\ scanned[i] = window.versions[i]
             /\ seen[i] = window.versions[i]
             /\ scanned[i] # 0 => Settled(i, scanned[i])
             /\ changes = 0 => window.versions[i] = source[i]
  BY <1>1, <1>2, <1>4 DEF WindowFits, InFlight, Refused
<1>5. \A i \in Item : i <= cursor + WindowSize => i <= cursor \/ InWindow(i)
  BY <1>1, <1>3 DEF TypeOK, Item, InWindow
<1>6. \A i \in Item : i <= cursor =>
          /\ scanned[i] # 0 => Settled(i, scanned[i])
          /\ changes = 0 /\ source[i] # 0 => Known(i)
  BY <1>1 DEF ScanFits, CursorOnlyPastSettled
<1>7. \A i \in Item : OrphanRun =>
          /\ seen[i] = scanned[i]
          /\ seen[i] # 0 => i <= cursor + WindowSize
          /\ changes = 0 /\ source[i] # 0 /\ i <= cursor => seen[i] # 0
  BY <1>1, <1>2 DEF SeenFits
<1> QED BY <1>1, <1>2, <1>3, <1>4, <1>5, <1>6, <1>7 DEF WindowFits, Settled

\* The window is settled and the cursor passes it.
LEMMA CommitStep ==
    ASSUME PassInv, CommitCursor
    PROVE  PassInv'
<1> USE DEF CommitCursor, sourceVars, runVars
<1>1. TypeOK /\ RequestFits /\ VersionsRise /\ WindowFits /\ ScanFits
      /\ CompletionIsEvidence /\ SeenFits /\ MarksFit /\ OrphansFit
  BY DEF PassInv
<1>2. TypeOK'
  BY <1>1, SettledWindow DEF TypeOK, Phase, Work, NoWork
<1>3. RequestFits'
  BY <1>1 DEF RequestFits, OrphanRun
<1>4. VersionsRise'
  BY <1>1 DEF TypeOK, VersionsRise
<1>5. WindowFits'
  <2>1. ~Reading' /\ phase' = "scan"
    BY DEF Reading
  <2> QED BY <2>1 DEF WindowFits
<1>6. ScanFits'
  BY <1>1, SettledWindow DEF ScanFits, CursorOnlyPastSettled, Settled, Known
<1>7. CompletionIsEvidence'
  BY <1>1 DEF TypeOK, CompletionIsEvidence, Settled, Known
<1>8. SeenFits'
  <2>1. ~Reading' /\ ~AfterScan' /\ phase' = "scan"
    BY DEF Reading, AfterScan
  <2> QED BY <2>1, SettledWindow DEF SeenFits, OrphanRun
<1>9. MarksFit'
  BY <1>1, DefinitionPassAssumption DEF TypeOK, MarksFit, OrphanRun, Known,
     WindowSettled
<1>10. OrphansFit'
  BY <1>1 DEF TypeOK, OrphansFit, OrphanRun, IsOrphan, Known
<1> QED BY <1>2, <1>3, <1>4, <1>5, <1>6, <1>7, <1>8, <1>9, <1>10 DEF PassInv

\* The last window is settled.
LEMMA LastStep ==
    ASSUME PassInv, LastWindowDone
    PROVE  PassInv'
<1> USE DEF LastWindowDone, sourceVars, durableVars, runVars
<1>1. TypeOK /\ RequestFits /\ VersionsRise /\ WindowFits /\ ScanFits
      /\ CompletionIsEvidence /\ SeenFits /\ MarksFit /\ OrphansFit
  BY DEF PassInv
<1>2. TypeOK'
  BY <1>1, DefinitionPassAssumption DEF TypeOK, Phase, Work, NoWork
<1>3. RequestFits'
  BY <1>1 DEF RequestFits, OrphanRun
<1>4. VersionsRise'
  BY <1>1 DEF TypeOK, VersionsRise
<1>5. WindowFits'
  <2>1. ~Reading' /\ phase' = "recording"
    BY DEF Reading
  <2> QED BY <2>1 DEF WindowFits
<1>6. ScanFits'
  <2>1. \A i \in Item : i <= cursor + WindowSize
    BY <1>1, SettledWindow, DefinitionPassAssumption DEF TypeOK, Item
  <2> QED BY <1>1, <2>1, SettledWindow DEF ScanFits, CursorOnlyPastSettled,
           Settled, Known
<1>7. CompletionIsEvidence'
  BY <1>1 DEF TypeOK, CompletionIsEvidence, Settled, Known
<1>8. SeenFits'
  <2>1. \A i \in Item : i <= cursor + WindowSize
    BY <1>1, SettledWindow, DefinitionPassAssumption DEF TypeOK, Item
  <2>2. ~Reading' /\ phase' = "recording"
    BY DEF Reading
  <2> QED BY <1>1, <2>1, <2>2, SettledWindow DEF SeenFits, OrphanRun, Settled, Known
<1>9. MarksFit'
  BY <1>1, DefinitionPassAssumption DEF TypeOK, MarksFit, OrphanRun, Known,
     WindowSettled
<1>10. OrphansFit'
  BY <1>1 DEF TypeOK, OrphansFit, OrphanRun, IsOrphan, Known
<1> QED BY <1>2, <1>3, <1>4, <1>5, <1>6, <1>7, <1>8, <1>9, <1>10 DEF PassInv

\* The completion is recorded.
LEMMA RecordStep ==
    ASSUME PassInv, RecordCompletion
    PROVE  PassInv'
<1> USE DEF RecordCompletion, sourceVars, runVars
<1>1. TypeOK /\ RequestFits /\ VersionsRise /\ WindowFits /\ ScanFits
      /\ CompletionIsEvidence /\ SeenFits /\ MarksFit /\ OrphansFit
  BY DEF PassInv
<1>2. TypeOK'
  BY <1>1, DefinitionPassAssumption DEF TypeOK, Phase, Completion
<1>3. RequestFits'
  BY <1>1 DEF RequestFits, OrphanRun
<1>4. VersionsRise'
  BY <1>1 DEF TypeOK, VersionsRise
<1>5. WindowFits'
  BY <1>1 DEF TypeOK, WindowFits, Reading, InWindow, Settled, Known
<1>6. ScanFits'
  BY <1>1 DEF TypeOK, ScanFits, CursorOnlyPastSettled, Settled, Known
<1>7. CompletionIsEvidence'
  BY <1>1, DefinitionPassAssumption DEF TypeOK, CompletionIsEvidence,
     Settled, Known, ScanFits, SeenFits, OrphanRun, AfterScan, RequestFits
<1>8. SeenFits'
  BY <1>1 DEF TypeOK, SeenFits, OrphanRun, Reading, AfterScan, Settled, Known
<1>9. MarksFit'
  BY <1>1 DEF TypeOK, MarksFit, OrphanRun, Known
<1>10. OrphansFit'
  BY <1>1 DEF TypeOK, OrphansFit, OrphanRun, IsOrphan, Known
<1> QED BY <1>2, <1>3, <1>4, <1>5, <1>6, <1>7, <1>8, <1>9, <1>10 DEF PassInv

\* The cursor is deleted and the orphans are next.
LEMMA ClearStep ==
    ASSUME PassInv, ClearCursor, phase = "clearing", OrphansNext
    PROVE  PassInv'
<1> USE DEF ClearCursor, deleteSourceCursor, sourceVars, runVars
<1>1. TypeOK /\ RequestFits /\ VersionsRise /\ WindowFits /\ ScanFits
      /\ CompletionIsEvidence /\ SeenFits /\ MarksFit /\ OrphansFit
  BY DEF PassInv
<1>2. TypeOK'
  BY <1>1, DefinitionPassAssumption DEF TypeOK, Phase, NothingRead, NoWork,
     Work
<1>3. RequestFits'
  BY <1>1, DefinitionPassAssumption DEF RequestFits, OrphanRun, OrphansNext
<1>4. VersionsRise'
  BY <1>1 DEF TypeOK, VersionsRise
<1>5. WindowFits'
  BY <1>1 DEF TypeOK, WindowFits, Reading, InWindow, Settled, Known
<1>6. ScanFits'
  BY <1>1, DefinitionPassAssumption DEF TypeOK, ScanFits,
     CursorOnlyPastSettled, Settled, Known, Item
<1>7. CompletionIsEvidence'
  BY <1>1 DEF TypeOK, CompletionIsEvidence, Settled, Known
<1>8. SeenFits'
  <2>1. AfterScan /\ phase' = "listing" /\ ~Reading'
    BY DEF AfterScan, Reading
  <2> QED BY <1>1, <2>1 DEF SeenFits, OrphanRun, Settled, Known
<1>9. MarksFit'
  BY <1>1 DEF TypeOK, MarksFit, OrphanRun, Known
<1>10. OrphansFit'
  BY <1>1 DEF TypeOK, OrphansFit, OrphanRun, IsOrphan, Known
<1> QED BY <1>2, <1>3, <1>4, <1>5, <1>6, <1>7, <1>8, <1>9, <1>10 DEF PassInv

-----------------------------------------------------------------------------
(* Rollback *)

\* The first members of a set come before its others.
LEMMA FirstAreFirst ==
    ASSUME NEW S \in SUBSET Item, NEW n \in Nat, NEW i \in S, NEW j \in S,
           i \notin FirstOf(S, n), j \in FirstOf(S, n)
    PROVE  i > j
<1> DEFINE Before(k) == {m \in S : m < k}
<1>0. \A m \in S : m \in Nat
  BY DefinitionPassAssumption DEF Item
<1>1. IsFiniteSet(Before(j))
  <2>1. IsFiniteSet(Item)
    BY FS_Interval, DefinitionPassAssumption DEF Item
  <2>2. Before(j) \subseteq Item
    OBVIOUS
  <2> QED BY <2>1, <2>2, FS_Subset
<1>2. Cardinality(Before(j)) < n /\ ~(Cardinality(Before(i)) < n)
  BY DEF FirstOf
<1>3. SUFFICES ASSUME i <= j PROVE FALSE
  BY <1>0
<1>4. Before(i) \subseteq Before(j)
  BY <1>0, <1>3
<1>5. /\ Cardinality(Before(i)) <= Cardinality(Before(j))
      /\ Cardinality(Before(i)) \in Nat /\ Cardinality(Before(j)) \in Nat
  BY <1>1, <1>4, FS_Subset, FS_CardinalityType
<1> QED BY <1>2, <1>5

\* A page of orphans is listed.
LEMMA ListStep ==
    ASSUME PassInv, ListOrphans
    PROVE  PassInv'
<1> USE DEF ListOrphans, Schedule, sourceVars, durableVars, runVars
<1>1. TypeOK /\ RequestFits /\ VersionsRise /\ WindowFits /\ ScanFits
      /\ CompletionIsEvidence /\ SeenFits /\ MarksFit /\ OrphansFit
  BY DEF PassInv
<1>2. TypeOK'
  BY <1>1, DefinitionPassAssumption DEF TypeOK, Phase, Work, FirstOf
<1>3. RequestFits'
  BY <1>1 DEF RequestFits, OrphanRun
<1>4. VersionsRise'
  BY <1>1 DEF TypeOK, VersionsRise
<1>5. WindowFits'
  BY <1>1 DEF TypeOK, WindowFits, Reading, InWindow, Settled, Known
<1>6. ScanFits'
  BY <1>1 DEF TypeOK, ScanFits, CursorOnlyPastSettled, Settled, Known
<1>7. CompletionIsEvidence'
  BY <1>1 DEF TypeOK, CompletionIsEvidence, Settled, Known
<1>8. SeenFits'
  BY <1>1 DEF TypeOK, SeenFits, OrphanRun, Reading, AfterScan, Settled, Known
<1>9. MarksFit'
  BY <1>1 DEF TypeOK, MarksFit, OrphanRun, Known
<1>10. OrphansFit'
  <2> DEFINE candidates == {i \in todo : IsOrphan(i)}
             page == FirstOf(candidates, PageSize)
  <2>1. page \subseteq candidates /\ candidates \subseteq Item
    BY <1>1 DEF TypeOK, FirstOf
  <2>2. \A i \in Item : IsOrphan(i)' <=> IsOrphan(i)
    BY DEF IsOrphan, Known
  <2>3. phase' = "rollingBack" /\ \A i \in Item :
            work'[i] = IF i \in page THEN "scheduled" ELSE "idle"
    OBVIOUS
  <2>4. \A i \in candidates \ page : i \in todo'
    <3>1. TAKE i \in candidates \ page
    <3>2. \A j \in page : i > j
      BY <2>1, FirstAreFirst, DefinitionPassAssumption
    <3> QED BY <3>2
  <2>5. ASSUME NEW i \in Item, OrphanRun, counts.failed = 0, IsOrphan(i)
        PROVE  i \in candidates
    BY <1>1, <2>5 DEF OrphansFit
  <2> HIDE DEF candidates, page, ListOrphans
  <2>6. counts' = counts /\ request' = request
    BY DEF ListOrphans
  <2> QED BY <2>1, <2>2, <2>3, <2>4, <2>5, <2>6 DEF OrphansFit, OrphanRun, candidates
<1> QED BY <1>2, <1>3, <1>4, <1>5, <1>6, <1>7, <1>8, <1>9, <1>10 DEF PassInv

\* An orphan, or an item that was named, is rolled back and removed.
LEMMA RemoveStep ==
    ASSUME PassInv, NEW i \in Item, phase = "rollingBack", work[i] = "scheduled",
           removeRolledBackItem(i), work' = [work EXCEPT ![i] = "done"],
           UNCHANGED <<counts, rollbackFrame>>
    PROVE  PassInv'
<1> USE DEF removeRolledBackItem, rollbackFrame, sourceVars
<1>1. TypeOK /\ RequestFits /\ VersionsRise /\ WindowFits /\ ScanFits
      /\ CompletionIsEvidence /\ SeenFits /\ MarksFit /\ OrphansFit
  BY DEF PassInv
<1>a. /\ item' \in [Item -> ItemState] /\ item'[i].status = "none"
      /\ item'[i].version = 0 /\ item'[i].inventory = 0
      /\ \A j \in Item \ {i} : item'[j] = item[j]
  <2>1. NoItem \in ItemState
    BY DEF NoItem, ItemState, ItemStatus
  <2> QED BY <1>1, <2>1 DEF TypeOK, NoItem
<1>2. TypeOK'
  BY <1>1, <1>a DEF TypeOK, Work, NoCompletion, NothingRead, Completion
<1>3. RequestFits'
  BY <1>1 DEF RequestFits, OrphanRun
<1>4. VersionsRise'
  BY <1>1, <1>a DEF TypeOK, VersionsRise, Window
<1>5. WindowFits'
  BY DEF WindowFits, Reading
<1>6. ScanFits'
  BY DEF ScanFits, CursorOnlyPastSettled, Item
<1>7. CompletionIsEvidence'
  BY DEF CompletionIsEvidence, NoCompletion
<1>8. SeenFits'
  <2>1. OrphanRun => seen[i] = 0
    BY <1>1 DEF OrphansFit, MarksFit, IsOrphan
  <2>2. AfterScan /\ ~Reading' /\ phase' = "rollingBack"
    BY DEF AfterScan, Reading
  <2> QED BY <1>1, <1>a, <2>1, <2>2 DEF SeenFits, OrphanRun, Settled, Known
<1>9. MarksFit'
  BY <1>1, <1>a DEF TypeOK, MarksFit, OrphanRun, Known
<1>10. OrphansFit'
  BY <1>1, <1>a DEF TypeOK, OrphansFit, OrphanRun, IsOrphan, Known
<1> QED BY <1>2, <1>3, <1>4, <1>5, <1>6, <1>7, <1>8, <1>9, <1>10 DEF PassInv

\* An item of the page is refused, has no state, or keeps it.
LEMMA RollbackStep ==
    ASSUME PassInv, NEW i \in Item, phase = "rollingBack", work[i] = "scheduled",
           \/ work' = [work EXCEPT ![i] = "refused"] /\ counts' = counts
           \/ /\ work' = [work EXCEPT ![i] = "done"]
              /\ \/ ~Known(i) /\ counts' = counts
                 \/ counts' = [counts EXCEPT !.failed = @ + 1],
           UNCHANGED <<durableVars, scanned, rollbackFrame>>
    PROVE  PassInv'
<1> USE DEF durableVars, rollbackFrame, sourceVars
<1>1. TypeOK /\ RequestFits /\ VersionsRise /\ WindowFits /\ ScanFits
      /\ CompletionIsEvidence /\ SeenFits /\ MarksFit /\ OrphansFit
  BY DEF PassInv
<1>2. TypeOK'
  BY <1>1, DefinitionPassAssumption DEF TypeOK, Work
<1>3. RequestFits'
  BY <1>1 DEF RequestFits, OrphanRun
<1>4. VersionsRise'
  BY <1>1 DEF TypeOK, VersionsRise
<1>5. WindowFits'
  BY <1>1 DEF TypeOK, WindowFits, Reading, InWindow, Settled, Known
<1>6. ScanFits'
  BY <1>1 DEF TypeOK, ScanFits, CursorOnlyPastSettled, Settled, Known
<1>7. CompletionIsEvidence'
  BY <1>1 DEF TypeOK, CompletionIsEvidence, Settled, Known
<1>8. SeenFits'
  BY <1>1 DEF TypeOK, SeenFits, OrphanRun, Reading, AfterScan, Settled, Known
<1>9. MarksFit'
  BY <1>1 DEF TypeOK, MarksFit, OrphanRun, Known
<1>10. OrphansFit'
  <2>1. counts'.failed = 0 => counts.failed = 0 /\ counts' = counts
    BY <1>1 DEF TypeOK
  <2> QED BY <1>1, <2>1 DEF TypeOK, OrphansFit, OrphanRun, IsOrphan, Known
<1> QED BY <1>2, <1>3, <1>4, <1>5, <1>6, <1>7, <1>8, <1>9, <1>10 DEF PassInv

\* The next page of orphans is listed, or the pass is recorded again.
LEMMA PageDoneStep ==
    ASSUME PassInv, phase = "rollingBack", InFlight = {}, Refused = {},
           request.mode # "rollback", todo # {} \/ counts.failed = 0,
           phase' = IF todo # {} THEN "listing" ELSE "recordingAgain",
           work' = NoWork, UNCHANGED <<runVars, window, todo>>,
           UNCHANGED <<sourceVars, durableVars, scanned>>
    PROVE  PassInv'
<1> USE DEF durableVars, runVars, sourceVars
<1>1. TypeOK /\ RequestFits /\ VersionsRise /\ WindowFits /\ ScanFits
      /\ CompletionIsEvidence /\ SeenFits /\ MarksFit /\ OrphansFit
  BY DEF PassInv
<1>2. TypeOK'
  BY <1>1, DefinitionPassAssumption DEF TypeOK, Phase, Work, NoWork
<1>3. RequestFits'
  BY <1>1 DEF RequestFits, OrphanRun
<1>4. VersionsRise'
  BY <1>1 DEF TypeOK, VersionsRise
<1>5. WindowFits'
  BY <1>1 DEF TypeOK, WindowFits, Reading, InWindow, Settled, Known
<1>6. ScanFits'
  BY <1>1 DEF TypeOK, ScanFits, CursorOnlyPastSettled, Settled, Known
<1>7. CompletionIsEvidence'
  BY <1>1 DEF TypeOK, CompletionIsEvidence, Settled, Known
<1>8. SeenFits'
  <2>1. AfterScan /\ AfterScan' /\ ~Reading' /\ phase' \notin {"scan", "recording"}
    BY DEF AfterScan, Reading
  <2> QED BY <1>1, <2>1 DEF SeenFits, OrphanRun, Settled, Known
<1>9. MarksFit'
  BY <1>1 DEF TypeOK, MarksFit, OrphanRun, Known
<1>10. OrphansFit'
  BY <1>1, DefinitionPassAssumption DEF TypeOK, OrphansFit, OrphanRun,
     IsOrphan, Known, InFlight, Refused
<1> QED BY <1>2, <1>3, <1>4, <1>5, <1>6, <1>7, <1>8, <1>9, <1>10 DEF PassInv

-----------------------------------------------------------------------------
(* The theorems *)

\* Nothing has been read at first.
LEMMA InitPass == Init => PassInv
<1> SUFFICES ASSUME Init PROVE PassInv
  OBVIOUS
<1> USE DEF Init
<1>1. TypeOK
  <2>1. request \in RequestRecord
    BY DEF NoRequest, RequestRecord, Mode
  <2>2. item \in [Item -> ItemState] /\ completion \in Completion
    BY DEF NoItem, ItemState, ItemStatus, NoCompletion, NothingRead, Completion
  <2>3. window \in Window /\ counts \in [attempts : Nat, failed : Nat]
    BY DEF NoWindow, Window, NothingRead, NoCounts
  <2>4. source \in [Item -> Nat] /\ work \in [Item -> Work]
    BY DEF Work, NoWork
  <2>5. scanned \in [Item -> Nat] /\ seen \in [Item -> Nat]
    BY DEF NothingRead
  <2>6. cursor \in Nat /\ todo \subseteq Item /\ phase \in Phase /\ changes \in Nat
        /\ run \in Nat /\ stopped \in BOOLEAN
    BY DEF Phase
  <2> QED BY <2>1, <2>2, <2>3, <2>4, <2>5, <2>6 DEF TypeOK
<1>2. RequestFits
  BY DEF RequestFits, IsValidRequest, NoRequest, OrphanRun
<1>3. VersionsRise
  BY DEF VersionsRise, NoItem, NoWindow, NothingRead
<1>4. WindowFits
  BY DEF WindowFits, Reading
<1>5. ScanFits /\ CompletionIsEvidence
  BY DEF ScanFits, CursorOnlyPastSettled, Item, CompletionIsEvidence, NoCompletion
<1>6. SeenFits /\ MarksFit /\ OrphansFit
  BY DEF SeenFits, MarksFit, OrphansFit, OrphanRun, NoRequest, NoItem
<1> QED BY <1>1, <1>2, <1>3, <1>4, <1>5, <1>6 DEF PassInv

\* Every step keeps what the runs know of the items.
LEMMA PassStep == PassInv /\ [Next]_vars => PassInv'
<1> SUFFICES ASSUME PassInv, [Next]_vars PROVE PassInv'
  OBVIOUS
<1>1. CASE ScanEnds \/ WindowAbandoned \/ TargetedDone \/ ListingStopped \/ BreakOff
  BY <1>1, OverStep DEF ScanEnds, WindowAbandoned, TargetedDone, ListingStopped,
     BreakOff, durableVars
<1>2. CASE ClearCursor
  <2>1. CASE phase = "clearing" /\ OrphansNext
    BY <1>2, <2>1, ClearStep
  <2>2. CASE ~(phase = "clearing" /\ OrphansNext)
    BY <1>2, <2>2, OverStep DEF ClearCursor
  <2> QED BY <2>1, <2>2
<1>3. CASE RollbackPageDone
  <2>1. CASE Over
    BY <1>3, <2>1, OverStep DEF RollbackPageDone, durableVars
  <2>2. CASE ~Over
    BY <1>3, <2>2, PageDoneStep DEF RollbackPageDone
  <2> QED BY <2>1, <2>2
<1>4. ASSUME NEW i \in Item, AdmitItem(i) PROVE PassInv'
  <2>1. CASE Settle(i, ItemOutcome(i, "failed", window'.versions[i]))
    BY <1>4, <2>1, SettleStep DEF AdmitItem
  <2>2. CASE ~Settle(i, ItemOutcome(i, "failed", window'.versions[i]))
    BY <1>4, <2>2, AdmitStep DEF AdmitItem
  <2> QED BY <2>1, <2>2
<1>5. ASSUME NEW i \in Item, NEW outcome \in {"migrated", "skipped", "failed"},
             SettleItem(i, outcome)
      PROVE  PassInv'
  <2>1. Settle(i, ItemOutcome(i, outcome, window'.versions[i]))
    BY <1>5 DEF SettleItem
  <2> QED BY <1>5, <2>1, SettleStep DEF SettleItem
<1>6. ASSUME NEW i \in Item, RollbackItem(i) PROVE PassInv'
  <2>1. CASE removeRolledBackItem(i) /\ UNCHANGED counts
                /\ work' = [work EXCEPT ![i] = "done"]
    BY <1>6, <2>1, RemoveStep DEF RollbackItem
  <2>2. CASE ~(removeRolledBackItem(i) /\ UNCHANGED counts
                /\ work' = [work EXCEPT ![i] = "done"])
    BY <1>6, <2>2, RollbackStep DEF RollbackItem
  <2> QED BY <2>1, <2>2
<1>7. CASE UNCHANGED vars
  BY <1>7 DEF vars, PassInv, TypeOK, RequestFits, VersionsRise, WindowFits, ScanFits,
     CompletionIsEvidence, SeenFits, MarksFit, OrphansFit, Reading, AfterScan,
     OrphanRun, CursorOnlyPastSettled, Settled, Known, InWindow, IsOrphan
<1>8. CASE RunStep
  BY <1>1, <1>2, <1>3, <1>4, <1>5, <1>6, <1>8, PreparedStep, ResetStep, ReadStep,
     ObservedStep, GroupStep, CommitStep, LastStep, RecordStep, ListStep, MarkStep,
     ObserveStep, RefuseStep, LookupStep DEF RunStep
<1> QED BY <1>1, <1>7, <1>8, StartStep, StopStep, SourceStep DEF Next

\* PassInv holds in every reachable state.
LEMMA PassInvariant == Spec => []PassInv
<1> QED BY InitPass, PassStep, PTL DEF Spec

\* TypeOK: the pass's state keeps its types, for any requests and sources.
THEOREM PassTypeCorrect == Spec => []TypeOK
<1>1. PassInv => TypeOK
  BY DEF PassInv
<1> QED BY <1>1, PassInvariant, PTL

\* CursorOnlyPastSettled: whatever the source does and wherever runs break
\* off, the cursor is never past an item that was read and has no durable
\* outcome for that version.
THEOREM PassCursorOnlyPastSettled == Spec => []CursorOnlyPastSettled
<1>1. PassInv => CursorOnlyPastSettled
  BY DEF PassInv, ScanFits
<1> QED BY <1>1, PassInvariant, PTL

\* CompletionIsEvidence: a recorded completion stands for a whole pass whose
\* outcomes are still there.
THEOREM PassCompletionIsEvidence == Spec => []CompletionIsEvidence
<1>1. PassInv => CompletionIsEvidence
  BY DEF PassInv
<1> QED BY <1>1, PassInvariant, PTL

\* OrphanCleanupExact: a rollbackOrphans run removes no item its scan has
\* seen, and when it records the pass again it has removed all the others.
THEOREM PassOrphanCleanupExact == Spec => OrphanCleanupExact
<1>1. ASSUME PassInv, [Next]_vars, NEW i \in Item, OrphanRun, Known(i),
             item'[i].status = "none"
      PROVE  seen[i] = 0
  <2>1. TypeOK /\ RequestFits /\ MarksFit /\ OrphansFit
    BY <1>1 DEF PassInv
  <2>2. phase = "rollingBack" /\ work[i] = "scheduled"
    <3>1. ASSUME NEW j \in Item, RollbackItem(j)
          PROVE  phase = "rollingBack" /\ work[i] = "scheduled"
      BY <1>1, <2>1, <3>1 DEF RollbackItem, removeRolledBackItem, durableVars,
         TypeOK, Known
    <3>2. ASSUME NEW j \in Item,
                 \/ MarkNeedsUpdate(j) \/ ObserveItem(j) \/ RefuseItem(j)
                 \/ LookupFails(j) \/ AdmitItem(j)
                 \/ \E outcome \in {"migrated", "skipped", "failed"} :
                        SettleItem(j, outcome)
          PROVE  FALSE
      <4>1. CASE MarkNeedsUpdate(j) \/ ObserveItem(j) \/ RefuseItem(j)
        BY <1>1, <2>1, <4>1, SMTT(30) DEF MarkNeedsUpdate, ObserveItem, RefuseItem, TypeOK,
           ItemState, Known
      <4>2. CASE LookupFails(j)
        BY <1>1, <2>1, <4>2 DEF LookupFails, Settle, TypeOK, ItemState, Known
      <4>3. ASSUME NEW outcome \in {"migrated", "skipped", "failed"}, NEW version,
                   Settle(j, ItemOutcome(j, outcome, version))
            PROVE  FALSE
        <5>1. item' = [item EXCEPT ![j] = ItemOutcome(j, outcome, version)]
          BY <4>3 DEF Settle
        <5>2. ItemOutcome(j, outcome, version).status = outcome
          BY DEF ItemOutcome
        <5> QED BY <1>1, <2>1, <5>1, <5>2 DEF TypeOK, Known
      <4>4. CASE AdmitItem(j)
        <5>1. item' # item
          BY <1>1 DEF Known
        <5> QED BY <4>3, <4>4, <5>1 DEF AdmitItem
      <4>5. CASE \E outcome \in {"migrated", "skipped", "failed"} :
                        SettleItem(j, outcome)
        BY <4>3, <4>5 DEF SettleItem
      <4> QED BY <3>2, <4>1, <4>2, <4>4, <4>5
    <3>3. ASSUME item' = item PROVE FALSE
      BY <1>1, <3>3 DEF Known
    <3> QED BY <1>1, <3>1, <3>2, <3>3 DEF Next, RunStep, StartSomeRun, StartRun,
         RequestStop, BreakOff, SourceChanges, UpdatePrepared, ResetCursor,
         ScanEnds, ReadWindow, WindowObserved, ScheduleGroup, WindowAbandoned,
         TargetedDone, CommitCursor, LastWindowDone, RecordCompletion,
         ClearCursor, ListOrphans, ListingStopped, RollbackPageDone,
         durableVars, vars
  <2> QED BY <1>1, <2>1, <2>2 DEF OrphansFit, MarksFit, IsOrphan
<1>2. PassInv => (phase = "clearingAgain" => \A i \in Item : Known(i) => seen[i] # 0)
  BY DEF PassInv, RequestFits, OrphansFit, MarksFit, IsOrphan
<1>3. PassInv /\ [Next]_vars =>
        [\A i \in Item :
            /\ request.rollbackOrphans
            /\ Known(i) /\ item'[i].status = "none"
            => seen[i] = 0]_vars
  BY <1>1 DEF OrphanRun
<1> QED BY <1>2, <1>3, PassInvariant, PTL DEF Spec, OrphanCleanupExact

-----------------------------------------------------------------------------
(* The items of a group. *)

-----------------------------------------------------------------------------
(* Types *)

StoredIdentity == Member \cup Other

FiberState == {"new", "read", "admitted", "running", "throwing", "completed",
               "settled"}
LeaseState == {"none", "acquire", "validate", "held", "finished", "released",
               "refused"}
Asking == [kind : {"no", "find", "lease", "await", "stub", "stubbing",
                   "answered"},
           ref : Reference \cup {0}]

ItemsTypeOK ==
    /\ tracked \in [StoredIdentity -> TrackedState]
    /\ declared \in BOOLEAN /\ batched \in BOOLEAN
    /\ group \in {"open", "recorded", "failing", "done", "failed"}
    /\ fiber \in [Member -> FiberState]
    /\ previous \in [Member -> TrackedState]
    /\ admission \in [Member -> {"none", "unchanged", "failed"}]
    /\ reported \in [Member -> {"none", "unchanged"} \cup Outcome]
    /\ written \in [Member -> {"none"} \cup Outcome]
    /\ asking \in [Member -> Asking]
    /\ stubs \in [Reference -> [kind : {"none", "pending", "made", "refused"},
                                owner : Member \cup {0}]]
    /\ stubRead \in [Reference -> TrackedState]
    /\ stubRuns \in [Reference -> Nat]
    /\ lease \in [state : LeaseState, owner : Member \cup {0}, failed : BOOLEAN]
    /\ otherLock \in {"free", "ours"}
    /\ otherRun \in {"none", "running", "failed", "succeeded"}
    /\ contract \in {"absent", "current", "changed"}

\* A lookup names an identity that has a place in the store.
LEMMA ReferencesAreKnown == Reference \subseteq StoredIdentity
BY ItemsAssumption DEF Reference, StoredIdentity

\* A group starts well typed.
LEMMA InitItemsTypeOK == ItemsInit => ItemsTypeOK
<1> SUFFICES ASSUME ItemsInit PROVE ItemsTypeOK
  OBVIOUS
<1>1. /\ Untracked \in TrackedState
      /\ MigratedBefore \in TrackedState
  BY DEF Untracked, MigratedBefore, TrackedState, Outcome
<1>2. NotAsking \in Asking
  BY DEF NotAsking, Asking
<1> QED BY <1>1, <1>2
        DEF ItemsInit, ItemsTypeOK, FiberState, LeaseState, NoStub, StoredIdentity

\* What a settlement or a stub stores is an item state.
LEMMA StoredStates ==
    ASSUME NEW before \in TrackedState, NEW scope \in TrackingCalls
    PROVE  /\ \A status \in {"failed", "skipped"} :
                KeptItemState(status, before, scope) \in TrackedState
           /\ \A record \in BOOLEAN :
                makeMigratedItemState(scope, record) \in TrackedState
BY DEF TrackedState, TrackingCalls, KeptItemState, makeMigratedItemState,
       applyJournalExtensions, Outcome

\* The scope an attempt starts from is one a pipeline may leave.
LEMMA ScopeStarts ==
    ASSUME NEW before \in TrackedState
    PROVE  makeProcessScope(before) \in TrackingCalls
BY DEF TrackedState, TrackingCalls, makeProcessScope

\* Which variables the steps of the lookups and of the lease leave alone.
ItemLookup(i) ==
    \/ \E x \in Reference : Lookup(i, x)
    \/ ReferenceFound(i) \/ RequestStub(i) \/ StubAwaited(i) \/ GetLease(i)
    \/ LeaseRefused(i) \/ StartStub(i)
    \/ \E ok \in BOOLEAN, entries \in BOOLEAN : FinishStub(i, ok, entries)
    \/ StubErrs(i)

LeaseStep ==
    \/ AcquireLease \/ BeginLease \/ \E taken \in BOOLEAN : FinishLease(taken)
    \/ ReleaseLease

\* Every step of a group is one of these.
LEMMA StepsByPart ==
    ASSUME ItemsNext
    PROVE  \/ \E i \in Member :
                \/ ReadPreviousState(i) \/ AdmissionFails(i)
                \/ AdmittedUnchanged(i) \/ Admitted(i)
                \/ \E how \in Outcome, scope \in TrackingCalls, fits \in BOOLEAN :
                        SettleAdmitted(i, how, scope, fits)
                \/ RecordOutcome(i) \/ StoreErrorIn(i) \/ ItemLookup(i)
           \/ \E s \in Settlements : BatchSettles(s) \/ BatchRejected(s)
           \/ BatchThrows \/ RecordOutcomes \/ LeaseStep \/ CloseScope
BY DEF ItemsNext, ItemStep, ItemLookup, LeaseStep

\* An item's lookup and its stub.
LEMMA LookupTypes ==
    ASSUME ItemsTypeOK, NEW i \in Member, ItemLookup(i),
           asking[i].kind \in {"find", "await", "lease", "stub", "stubbing"} =>
                asking[i].ref \in Reference
    PROVE  /\ ItemsTypeOK'
           /\ group = "open" /\ UNCHANGED <<group, pipelineVars, declared, batched>>
<1> USE DEF ItemsTypeOK
<1>0. /\ 0 \in Reference \cup {0} /\ Reference \subseteq StoredIdentity
      /\ Answered \in Asking
  BY ReferencesAreKnown DEF Answered, Asking
<1>1. ASSUME NEW x \in Reference, Lookup(i, x)
      PROVE  /\ ItemsTypeOK'
             /\ group = "open" /\ UNCHANGED <<group, pipelineVars, declared, batched>>
  <2>1. [kind |-> "find", ref |-> x] \in Asking
    BY DEF Asking
  <2> QED BY <1>0, <1>1, <2>1 DEF Lookup, At, fixedVars, pipelineVars
<1>2. CASE ReferenceFound(i) \/ StubAwaited(i)
  BY <1>0, <1>2 DEF ReferenceFound, StubAwaited, pipelineVars, fixedVars
<1>3. CASE RequestStub(i)
  <2>1. asking[i].ref \in Reference
    BY <1>3 DEF RequestStub
  <2>2. \A k \in {"lease", "await"} : [asking[i] EXCEPT !.kind = k] \in Asking
    BY DEF Asking
  <2>3. asking' \in [Member -> Asking]
    BY <1>3, <2>2 DEF RequestStub
  <2>4. stubs' \in [Reference -> [kind : {"none", "pending", "made", "refused"},
                                  owner : Member \cup {0}]]
    BY <1>3, <2>1 DEF RequestStub
  <2> QED BY <1>3, <2>3, <2>4 DEF RequestStub, pipelineVars, fixedVars
<1>4. CASE GetLease(i)
  <2>1. [asking[i] EXCEPT !.kind = "stub"] \in Asking
    BY DEF Asking
  <2>2. [lease EXCEPT !.state = "acquire", !.owner = i] \in
            [state : LeaseState, owner : Member \cup {0}, failed : BOOLEAN]
    BY DEF LeaseState
  <2>3. asking' \in [Member -> Asking]
    BY <1>4, <2>1 DEF GetLease
  <2> QED BY <1>4, <2>2, <2>3 DEF GetLease, pipelineVars, fixedVars
<1>5. CASE LeaseRefused(i)
  <2>1. asking[i].ref \in Reference
    BY <1>5 DEF LeaseRefused
  <2> QED BY <1>0, <1>5, <2>1 DEF LeaseRefused, StubRefused, pipelineVars, fixedVars
<1>6. CASE StartStub(i)
  <2>1. asking[i].ref \in Reference
    BY <1>6 DEF StartStub
  <2>2. [asking[i] EXCEPT !.kind = "stubbing"] \in Asking
    BY DEF Asking
  <2>3. asking' \in [Member -> Asking]
    BY <1>6, <2>2 DEF StartStub
  <2> QED BY <1>0, <1>6, <2>1, <2>3 DEF StartStub, pipelineVars, fixedVars
<1>7. ASSUME NEW ok \in BOOLEAN, NEW entries \in BOOLEAN,
             FinishStub(i, ok, entries)
      PROVE  /\ ItemsTypeOK'
             /\ group = "open" /\ UNCHANGED <<group, pipelineVars, declared, batched>>
  <2>1. asking[i].ref \in Reference
    BY <1>7 DEF FinishStub
  <2>2. StubState(stubRead[asking[i].ref], ok, entries) \in TrackedState
    <3>1. PICK before \in TrackedState : before = stubRead[asking[i].ref]
      BY <2>1
    <3>2. /\ before.extended \in BOOLEAN
          /\ [makeProcessScope(before) EXCEPT !.entries = entries]
                = [entries |-> entries, extended |-> before.extended, records |-> 0]
      BY DEF makeProcessScope, TrackedState
    <3>3. [makeProcessScope(before) EXCEPT !.entries = entries] \in TrackingCalls
      BY <3>2 DEF TrackingCalls
    <3>4. KeptItemState("failed", before, [makeProcessScope(before)
                            EXCEPT !.entries = entries]) \in TrackedState
      BY <3>3, StoredStates
    <3> QED BY <3>1, <3>2, <3>4
            DEF StubState, applyJournalExtensions, TrackedState
  <2>3. Untracked \in TrackedState
    BY DEF Untracked, TrackedState
  <2>4. lease' \in [state : LeaseState, owner : Member \cup {0}, failed : BOOLEAN]
    <3>1. PICK b \in BOOLEAN : b = (lease.failed \/ (asking[i].ref \in Other /\ ~ok))
      OBVIOUS
    <3>2. lease' = [lease EXCEPT !.failed = b]
      BY <1>7, <3>1 DEF FinishStub
    <3> QED BY <3>2
  <2>5. stubs' \in [Reference -> [kind : {"none", "pending", "made", "refused"},
                                  owner : Member \cup {0}]]
    BY <1>7, <2>1 DEF FinishStub
  <2>6. /\ tracked' \in [StoredIdentity -> TrackedState]
        /\ stubRead' \in [Reference -> TrackedState]
        /\ asking' \in [Member -> Asking]
    BY <1>0, <1>7, <2>1, <2>2, <2>3 DEF FinishStub
  <2> QED BY <1>7, <2>4, <2>5, <2>6 DEF FinishStub, pipelineVars, fixedVars
<1>8. CASE StubErrs(i)
  <2>1. asking[i].ref \in Reference
    BY <1>8 DEF StubErrs
  <2>2. lease' \in [state : LeaseState, owner : Member \cup {0}, failed : BOOLEAN]
    <3>1. PICK b \in BOOLEAN : b = (lease.failed \/ asking[i].ref \in Other)
      OBVIOUS
    <3>2. lease' = [lease EXCEPT !.failed = b]
      BY <1>8, <3>1 DEF StubErrs
    <3> QED BY <3>2
  <2>3. stubs' \in [Reference -> [kind : {"none", "pending", "made", "refused"},
                                  owner : Member \cup {0}]]
    BY <1>8, <2>1 DEF StubErrs, StubRefused
  <2> QED BY <1>0, <1>8, <2>2, <2>3 DEF StubErrs, StubRefused, pipelineVars, fixedVars
<1> QED BY <1>1, <1>2, <1>3, <1>4, <1>5, <1>6, <1>7, <1>8 DEF ItemLookup

\* What settled an item is what was written for it, and what was reported is
\* that, or that nothing had to be done.
OutcomeFits ==
    /\ \A i \in Member :
          /\ fiber[i] \notin {"completed", "settled"} =>
                written[i] = "none" /\ reported[i] = "none"
          /\ fiber[i] = "completed" => admission[i] \in {"unchanged", written[i]}
          /\ fiber[i] = "completed" => admission[i] # "none"
          /\ fiber[i] = "settled" => written[i] # "none"
          /\ reported[i] \in {"none", "unchanged", written[i]}
    /\ group \in {"recorded", "done"} =>
          \A i \in Member : reported[i] # "none"

\* A request for a stub has one owner, who has not run its pipeline yet until
\* it is stubbing.
Owning == {"lease", "stub", "stubbing"}
NamesReference ==
    \A i \in Member : asking[i].kind \notin {"no", "answered"} =>
                         asking[i].ref \in Reference
StubRequestsFit ==
    /\ \A x \in Reference :
          stubRuns[x] <= 1 /\ (stubs[x].kind = "none" => stubRuns[x] = 0)
    /\ group = "open" =>
          /\ \A i \in Member : asking[i].kind \in Owning =>
                stubs[asking[i].ref] = [kind |-> "pending", owner |-> i]
          /\ \A i \in Member : asking[i].kind \in {"lease", "stub"} =>
                stubRuns[asking[i].ref] = 0
          /\ \A x \in Reference : stubs[x].kind = "pending" =>
                /\ stubs[x].owner \in Member
                /\ asking[stubs[x].owner].kind \in Owning
                /\ asking[stubs[x].owner].ref = x

LeaseFits ==
    /\ otherLock = "ours" <=> lease.state \in {"validate", "held", "finished"}
    /\ group \in {"done", "failed"} =>
          lease.state \in {"none", "refused", "released"}
    /\ otherRun = "running" => lease.state \in {"held", "finished", "released"}
    /\ otherRun = "succeeded" =>
          /\ lease.state \in {"finished", "released"}
          /\ ~lease.failed /\ group \in {"recorded", "done"}


\* The steps of the items' own pipelines, outside their lookups.
PipelineStep ==
    \/ \E i \in Member :
          \/ ReadPreviousState(i) \/ AdmissionFails(i) \/ AdmittedUnchanged(i)
          \/ Admitted(i) \/ RecordOutcome(i)
          \/ \E how \in Outcome, scope \in TrackingCalls, fits \in BOOLEAN :
                SettleAdmitted(i, how, scope, fits)
    \/ \E s \in Settlements : BatchSettles(s)
    \/ BatchThrows \/ RecordOutcomes

\* The steps that interrupt the whole group.
GroupFails ==
    \/ \E i \in Member : StoreErrorIn(i)
    \/ \E s \in Settlements : BatchRejected(s)

\* ... and is of one of five kinds.
LEMMA StepKinds ==
    ASSUME ItemsNext
    PROVE  \/ PipelineStep \/ GroupFails \/ LeaseStep \/ CloseScope
           \/ \E i \in Member : ItemLookup(i)
<1>1. CASE \E i \in Member :
             \/ ReadPreviousState(i) \/ AdmissionFails(i)
             \/ AdmittedUnchanged(i) \/ Admitted(i)
             \/ \E how \in Outcome, scope \in TrackingCalls, fits \in BOOLEAN :
                     SettleAdmitted(i, how, scope, fits)
             \/ RecordOutcome(i) \/ StoreErrorIn(i) \/ ItemLookup(i)
  BY <1>1 DEF PipelineStep, GroupFails
<1>2. CASE \E s \in Settlements : BatchSettles(s) \/ BatchRejected(s)
  BY <1>2 DEF PipelineStep, GroupFails
<1>3. CASE BatchThrows \/ RecordOutcomes \/ LeaseStep \/ CloseScope
  BY <1>3 DEF PipelineStep
<1> QED BY <1>1, <1>2, <1>3, StepsByPart

-----------------------------------------------------------------------------
(* The outcomes of the group *)

\* What SettleAdmitted stores is an item state with an outcome.
LEMMA SettledStates ==
    ASSUME ItemsTypeOK, NEW i \in Member, NEW how \in Outcome,
           NEW scope \in TrackingCalls, NEW fits \in BOOLEAN
    PROVE  /\ SettledState(i, how, scope, fits) \in TrackedState
           /\ SettledState(i, how, scope, fits).status \in Outcome
<1>1. previous[i] \in TrackedState /\ declared \in BOOLEAN
  BY DEF ItemsTypeOK
<1>2. /\ \A status \in {"failed", "skipped"} :
            /\ KeptItemState(status, previous[i], scope) \in TrackedState
            /\ KeptItemState(status, previous[i], scope).status = status
      /\ makeMigratedItemState(scope, declared) \in TrackedState
      /\ makeMigratedItemState(scope, declared).status = "migrated"
  BY <1>1, StoredStates DEF KeptItemState, makeMigratedItemState
<1>3. CASE how = "migrated" /\ ValidRecords(scope.records, fits)
  BY <1>2, <1>3 DEF SettledState, Outcome
<1>4. CASE ~(how = "migrated" /\ ValidRecords(scope.records, fits))
  <2>1. PICK status \in {"failed", "skipped"} :
            SettledState(i, how, scope, fits) =
                KeptItemState(status, previous[i], scope)
    BY <1>4 DEF SettledState
  <2> QED BY <1>2, <2>1 DEF Outcome
<1> QED BY <1>3, <1>4

\* The k-th settled item is counted by exactly one k.
LEMMA CountsDiffer ==
    ASSUME NEW done, done \subseteq Member, NEW i \in done, NEW j \in done
    PROVE  /\ Cardinality({m \in done : m <= i}) \in 1 .. Cardinality(done)
           /\ Cardinality({m \in done : m <= i}) =
                  Cardinality({m \in done : m <= j}) => i = j
<1> DEFINE Upto(k) == {m \in done : m <= k}
<1>0. IsFiniteSet(done) /\ done \subseteq Nat
  <2>1. IsFiniteSet(Member)
    BY ItemsAssumption, FS_Interval DEF Member
  <2>2. Member \subseteq Nat
    BY ItemsAssumption DEF Member
  <2> QED BY <2>1, <2>2, FS_Subset
<1>1. \A a, b \in done : a < b =>
         Cardinality(Upto(a)) < Cardinality(Upto(b))
  <2> SUFFICES ASSUME NEW a \in done, NEW b \in done, a < b
               PROVE  Cardinality(Upto(a)) < Cardinality(Upto(b))
    OBVIOUS
  <2>1. IsFiniteSet(Upto(b)) /\ Upto(b) \subseteq done
    BY <1>0, FS_Subset
  <2>2. Upto(a) \subseteq Upto(b)
    <3>1. \A m \in Nat : m <= a => m <= b
      BY <1>0
    <3> QED BY <1>0, <3>1
  <2>3. b \in Upto(b) /\ b \notin Upto(a)
    BY <1>0
  <2>4. /\ Cardinality(Upto(a)) <= Cardinality(Upto(b))
        /\ Cardinality(Upto(a)) # Cardinality(Upto(b))
    <3> HIDE DEF Upto
    <3> QED BY <2>1, <2>2, <2>3, FS_Subset
  <2>5. Cardinality(Upto(a)) \in Nat /\ Cardinality(Upto(b)) \in Nat
    <3>1. IsFiniteSet(Upto(a))
      BY <2>1, <2>2, FS_Subset
    <3> QED BY <2>1, <3>1, FS_CardinalityType
  <2> QED BY <2>4, <2>5
<1>2. \A a \in done : IsFiniteSet(Upto(a)) /\ Upto(a) \subseteq done
  BY <1>0, FS_Subset
<1>3. Cardinality(Upto(i)) \in Nat /\ Cardinality(Upto(j)) \in Nat
  BY <1>2, FS_CardinalityType
<1>4. Cardinality(Upto(i)) <= Cardinality(done)
  BY <1>0, <1>2, FS_Subset
<1>5. Cardinality(Upto(i)) # 0
  <2>1. i \in Upto(i)
    BY <1>0
  <2> QED BY <1>2, <2>1, FS_EmptySet
<1>6. Cardinality(done) \in Nat
  BY <1>0, FS_CardinalityType
<1>7. Cardinality(Upto(i)) = Cardinality(Upto(j)) => i = j
  BY <1>0, <1>1, <1>3
<1>8. Cardinality(Upto(i)) \in 1 .. Cardinality(done)
  BY <1>3, <1>4, <1>5, <1>6
<1> QED BY <1>7, <1>8

\* processSourceItemsBatch gives every item its own outcome.
LEMMA InOrderIsOwn ==
    ASSUME \A i \in Member : fiber[i] \in {"completed", "settled"},
           NEW i \in Member
    PROVE  OutcomesInOrder[i] =
              IF fiber[i] = "completed" THEN admission[i] ELSE written[i]
<1>1. CASE fiber[i] = "completed"
  BY <1>1 DEF OutcomesInOrder
<1>2. CASE fiber[i] = "settled"
  <2> DEFINE done == {m \in Member : fiber[m] = "settled"}
             place(m) == Cardinality({j \in done : j <= m})
  <2>1. {j \in Member : fiber[j] = "settled" /\ j <= i} = {j \in done : j <= i}
    OBVIOUS
  <2>2. OutcomesInOrder[i] = SettledOutcomes[place(i)]
    BY <1>2, <2>1 DEF OutcomesInOrder
  <2>3. done \subseteq Member /\ i \in done
    BY <1>2
  <2>4. /\ place(i) \in 1 .. Cardinality(done)
        /\ \A m \in done : place(m) = place(i) => m = i
    <3> HIDE DEF done
    <3> QED BY <2>3, CountsDiffer
  <2>5. (CHOOSE m \in done : place(m) = place(i)) = i
    BY <2>3, <2>4
  <2>6. SettledOutcomes = [k \in 1 .. Cardinality(done) |->
                             written[CHOOSE m \in done : place(m) = k]]
    BY DEF SettledOutcomes
  <2>7. SettledOutcomes[place(i)] =
            written[CHOOSE m \in done : place(m) = place(i)]
    <3> HIDE DEF done, place
    <3> QED BY <2>4, <2>6
  <2> QED BY <1>2, <2>2, <2>5, <2>7
<1> QED BY <1>1, <1>2

\* A pipeline step keeps the types and gives no item the outcome of another.
LEMMA PipelineOutcomes ==
    ASSUME ItemsTypeOK, OutcomeFits, PipelineStep
    PROVE  /\ ItemsTypeOK' /\ OutcomeFits'
           /\ group = "open" /\ group' \in {"open", "recorded"}
           /\ UNCHANGED stubVars
<1> DEFINE Goal == /\ ItemsTypeOK' /\ OutcomeFits'
                   /\ group = "open" /\ group' \in {"open", "recorded"}
                   /\ UNCHANGED stubVars
<1>0. /\ Untracked \in TrackedState
      /\ Member \subseteq StoredIdentity
  BY DEF Untracked, TrackedState, StoredIdentity
<1>1. ASSUME NEW i \in Member, ReadPreviousState(i) PROVE Goal
  <2>1. tracked[i] \in TrackedState
    BY <1>0 DEF ItemsTypeOK
  <2>2. ItemsTypeOK'
    BY <1>1, <2>1 DEF ItemsTypeOK, ReadPreviousState, At, Goto, stubVars,
                      fixedVars, FiberState
  <2>3. OutcomeFits'
    BY <1>1 DEF OutcomeFits, ItemsTypeOK, ReadPreviousState, At, Goto
  <2> QED BY <1>1, <2>2, <2>3 DEF ReadPreviousState, At
<1>2. ASSUME NEW i \in Member, AdmissionFails(i) PROVE Goal
  <2> DEFINE state == KeptItemState("failed", previous[i],
                                    makeProcessScope(previous[i]))
  <2>1. previous[i] \in TrackedState
    BY DEF ItemsTypeOK
  <2>2. state \in TrackedState /\ state.status = "failed"
    BY <2>1, ScopeStarts, StoredStates DEF KeptItemState
  <2>3. /\ tracked' = [tracked EXCEPT ![i] = state]
        /\ written' = [written EXCEPT ![i] = "failed"]
        /\ admission' = [admission EXCEPT ![i] = "failed"]
        /\ fiber' = [fiber EXCEPT ![i] = "completed"]
        /\ previous' = [previous EXCEPT ![i] = Untracked]
        /\ UNCHANGED <<group, reported, stubVars, fixedVars>>
        /\ group = "open" /\ fiber[i] = "read"
    BY <1>2, <2>2 DEF AdmissionFails, At, Store, Leave, Goto
  <2> HIDE DEF state
  <2>4. ItemsTypeOK'
    BY <1>0, <2>2, <2>3 DEF ItemsTypeOK, stubVars, fixedVars, FiberState, Outcome
  <2>5. OutcomeFits'
    BY <2>3 DEF OutcomeFits, ItemsTypeOK
  <2> QED BY <2>3, <2>4, <2>5
<1>3. ASSUME NEW i \in Member, AdmittedUnchanged(i) PROVE Goal
  <2>1. ItemsTypeOK'
    BY <1>0, <1>3 DEF ItemsTypeOK, AdmittedUnchanged, At, Goto, Leave, stubVars,
                      fixedVars, FiberState
  <2>2. OutcomeFits'
    BY <1>3 DEF OutcomeFits, ItemsTypeOK, AdmittedUnchanged, At, Goto, Leave
  <2> QED BY <1>3, <2>1, <2>2 DEF AdmittedUnchanged, At
<1>4. ASSUME NEW i \in Member, Admitted(i) PROVE Goal
  <2>1. PICK pc \in {"admitted", "running"} : fiber' = [fiber EXCEPT ![i] = pc]
    BY <1>4 DEF Admitted, Goto
  <2>2. ItemsTypeOK'
    BY <1>4, <2>1 DEF ItemsTypeOK, Admitted, stubVars, fixedVars, FiberState
  <2>3. OutcomeFits'
    BY <1>4, <2>1 DEF OutcomeFits, ItemsTypeOK, Admitted, At
  <2> QED BY <1>4, <2>2, <2>3 DEF Admitted, At
<1>5. ASSUME NEW i \in Member, NEW how \in Outcome, NEW scope \in TrackingCalls,
             NEW fits \in BOOLEAN, SettleAdmitted(i, how, scope, fits)
      PROVE  Goal
  <2> DEFINE state == SettledState(i, how, scope, fits)
  <2>1. state \in TrackedState /\ state.status \in Outcome
    BY SettledStates
  <2>2. /\ tracked' = [tracked EXCEPT ![i] = state]
        /\ written' = [written EXCEPT ![i] = state.status]
        /\ fiber' = [fiber EXCEPT ![i] = "settled"]
        /\ previous' = [previous EXCEPT ![i] = Untracked]
        /\ UNCHANGED <<group, admission, reported, stubVars, fixedVars>>
        /\ group = "open" /\ fiber[i] \in {"running", "throwing"}
    BY <1>5 DEF SettleAdmitted, Running, At, Store, Leave, Goto
  <2> HIDE DEF state
  <2>3. ItemsTypeOK'
    BY <1>0, <2>1, <2>2 DEF ItemsTypeOK, stubVars, fixedVars, FiberState, Outcome
  <2>4. OutcomeFits'
    BY <2>1, <2>2 DEF OutcomeFits, ItemsTypeOK, Outcome
  <2> QED BY <2>2, <2>3, <2>4
<1>6. ASSUME NEW s \in Settlements, BatchSettles(s) PROVE Goal
  <2>1. fiber' \in [Member -> FiberState]
    BY <1>6 DEF ItemsTypeOK, BatchSettles, FiberState
  <2>2. ItemsTypeOK'
    BY <1>6, <2>1 DEF ItemsTypeOK, BatchSettles, stubVars, fixedVars
  <2>3. \A i \in Member : fiber'[i] = fiber[i]
                            \/ (fiber[i] = "admitted" /\ fiber'[i] = "running")
    BY <1>6 DEF ItemsTypeOK, BatchSettles, AdmittedItems
  <2>4. OutcomeFits'
    BY <1>6, <2>3 DEF OutcomeFits, BatchSettles
  <2> QED BY <1>6, <2>2, <2>4 DEF BatchSettles
<1>7. CASE BatchThrows
  <2>1. fiber' \in [Member -> FiberState]
    BY <1>7 DEF ItemsTypeOK, BatchThrows, FiberState
  <2>2. ItemsTypeOK'
    BY <1>7, <2>1 DEF ItemsTypeOK, BatchThrows, stubVars, fixedVars
  <2>3. \A i \in Member : fiber'[i] = fiber[i]
                            \/ (fiber[i] = "admitted" /\ fiber'[i] = "throwing")
    BY <1>7 DEF ItemsTypeOK, BatchThrows, AdmittedItems
  <2>4. OutcomeFits'
    BY <1>7, <2>3 DEF OutcomeFits, BatchThrows
  <2> QED BY <1>7, <2>2, <2>4 DEF BatchThrows
<1>8. ASSUME NEW i \in Member, RecordOutcome(i) PROVE Goal
  <2> DEFINE own == IF fiber[i] = "completed" THEN admission[i] ELSE written[i]
  <2>1. /\ reported' = [reported EXCEPT ![i] = own]
        /\ fiber[i] \in {"completed", "settled"} /\ group = "open"
        /\ UNCHANGED <<tracked, fiber, previous, admission, written, stubVars,
                       fixedVars>>
    BY <1>8 DEF RecordOutcome
  <2>2. own \in {"unchanged"} \cup Outcome /\ own \in {"unchanged", written[i]}
    BY <2>1 DEF OutcomeFits, ItemsTypeOK, Outcome
  <2>3. group' \in {"open", "recorded"}
        /\ (group' = "recorded" => \A j \in Member : reported'[j] # "none")
    BY <1>8 DEF RecordOutcome
  <2> HIDE DEF own
  <2>4. ItemsTypeOK'
    BY <2>1, <2>2, <2>3 DEF ItemsTypeOK, stubVars, fixedVars
  <2>5. OutcomeFits'
    BY <2>1, <2>2, <2>3 DEF OutcomeFits, ItemsTypeOK, Outcome
  <2> QED BY <2>1, <2>3, <2>4, <2>5
<1>9. CASE RecordOutcomes
  <2>1. /\ \A i \in Member : fiber[i] \in {"completed", "settled"}
        /\ group = "open" /\ group' = "recorded" /\ reported' = OutcomesInOrder
        /\ UNCHANGED <<tracked, fiber, previous, admission, written, stubVars,
                       fixedVars>>
    BY <1>9 DEF RecordOutcomes
  <2>2. \A i \in Member :
           reported'[i] = IF fiber[i] = "completed" THEN admission[i]
                          ELSE written[i]
    BY <2>1, InOrderIsOwn
  <2>3. \A i \in Member : /\ reported'[i] \in {"unchanged"} \cup Outcome
                          /\ reported'[i] \in {"unchanged", written[i]}
    BY <2>1, <2>2 DEF OutcomeFits, ItemsTypeOK, Outcome
  <2>4. reported' \in [Member -> {"none", "unchanged"} \cup Outcome]
    <3>1. reported' = [i \in Member |-> reported'[i]]
      BY <2>1 DEF OutcomesInOrder
    <3> QED BY <2>3, <3>1
  <2>5. ItemsTypeOK'
    BY <2>1, <2>4 DEF ItemsTypeOK, stubVars, fixedVars
  <2>6. OutcomeFits'
    BY <2>1, <2>3 DEF OutcomeFits, Outcome
  <2> QED BY <2>1, <2>5, <2>6
<1> QED BY <1>1, <1>2, <1>3, <1>4, <1>5, <1>6, <1>7, <1>8, <1>9 DEF PipelineStep

\* A group that fails drops what it read and asked for, and stores nothing.
LEMMA GroupFailsKeeps ==
    ASSUME ItemsTypeOK, OutcomeFits, GroupFails
    PROVE  /\ ItemsTypeOK' /\ OutcomeFits'
           /\ group = "open" /\ group' = "failing"
           /\ asking' = [i \in Member |-> NotAsking]
           /\ UNCHANGED <<tracked, fiber, stubs, stubRead, stubRuns, lease,
                          otherLock, otherRun, contract>>
<1>1. /\ group = "open" /\ Interrupt
      /\ UNCHANGED <<tracked, admission, reported, written, stubs, stubRead,
                     stubRuns, lease, otherLock, otherRun, contract, fixedVars>>
  BY DEF GroupFails, StoreErrorIn, BatchRejected
<1>2. Untracked \in TrackedState /\ NotAsking \in Asking
  BY DEF Untracked, TrackedState, NotAsking, Asking
<1>3. ItemsTypeOK'
  BY <1>1, <1>2 DEF ItemsTypeOK, Interrupt, fixedVars
<1>4. OutcomeFits'
  BY <1>1 DEF OutcomeFits, Interrupt
<1> QED BY <1>1, <1>3, <1>4 DEF Interrupt

\* The lease and the end of the scope.
LEMMA LeaseTypes ==
    ASSUME ItemsTypeOK, LeaseStep
    PROVE  /\ ItemsTypeOK' /\ group # "done" /\ group # "failed"
           /\ UNCHANGED <<tracked, group, pipelineVars, asking, stubs, stubRead,
                          stubRuns>>
<1> USE DEF ItemsTypeOK
<1>1. /\ group # "done" /\ group # "failed"
      /\ UNCHANGED <<tracked, group, pipelineVars, asking, stubs, stubRead,
                     stubRuns, contract, fixedVars>>
      /\ \E s \in LeaseState : lease' = [lease EXCEPT !.state = s]
      /\ otherLock' \in {"free", "ours"}
      /\ otherRun' \in {"none", "running", "failed", "succeeded"}
  BY DEF LeaseStep, AcquireLease, BeginLease, FinishLease, ReleaseLease, LeaseState
<1> QED BY <1>1 DEF pipelineVars, fixedVars

\* The scope ends a group that is recorded or failing.
LEMMA CloseTypes ==
    ASSUME ItemsTypeOK, CloseScope
    PROVE  /\ ItemsTypeOK' /\ group \in {"recorded", "failing"}
           /\ group' = IF group = "recorded" THEN "done" ELSE "failed"
           /\ UNCHANGED <<tracked, pipelineVars, stubVars, fixedVars>>
BY DEF ItemsTypeOK, CloseScope, pipelineVars, stubVars, fixedVars

\* A lookup step leaves every waiting item with a reference.
LEMMA LookupNames ==
    ASSUME ItemsTypeOK, NamesReference, NEW i \in Member, ItemLookup(i)
    PROVE  NamesReference'
<1>1. /\ \A j \in Member : j # i => asking'[j] = asking[j]
      /\ asking'[i] = asking[i] \/ asking'[i] = Answered
            \/ (asking'[i].ref = asking[i].ref
                  /\ asking[i].kind \notin {"no", "answered"})
            \/ asking'[i].ref \in Reference
  <2>1. \A x \in Reference : Lookup(i, x) =>
           /\ \A j \in Member : j # i => asking'[j] = asking[j]
           /\ asking'[i] = Answered \/ asking'[i].ref \in Reference
    BY DEF Lookup, ItemsTypeOK
  <2>2. ReferenceFound(i) \/ StubAwaited(i) =>
           /\ \A j \in Member : j # i => asking'[j] = asking[j]
           /\ asking'[i] = Answered
    BY DEF ReferenceFound, StubAwaited, ItemsTypeOK
  <2>3. RequestStub(i) \/ GetLease(i) \/ StartStub(i) =>
           /\ \A j \in Member : j # i => asking'[j] = asking[j]
           /\ asking'[i] = asking[i] \/ asking'[i].ref = asking[i].ref
           /\ asking[i].kind \notin {"no", "answered"}
    <3>1. asking[i] \in Asking
      BY DEF ItemsTypeOK
    <3>2. ASSUME NEW k, asking' = [asking EXCEPT ![i].kind = k]
          PROVE  /\ \A j \in Member : j # i => asking'[j] = asking[j]
                 /\ asking'[i].ref = asking[i].ref
      BY <3>1, <3>2 DEF ItemsTypeOK, Asking
    <3> QED BY <3>2 DEF RequestStub, GetLease, StartStub
  <2>4. LeaseRefused(i) \/ StubErrs(i)
           \/ (\E ok \in BOOLEAN, entries \in BOOLEAN : FinishStub(i, ok, entries)) =>
           /\ \A j \in Member : j # i => asking'[j] = asking[j]
           /\ asking'[i] = Answered
    BY DEF LeaseRefused, StubErrs, StubRefused, FinishStub, ItemsTypeOK
  <2> QED BY <2>1, <2>2, <2>3, <2>4 DEF ItemLookup
<1> QED BY <1>1 DEF NamesReference, Answered

ItemsInv == ItemsTypeOK /\ NamesReference /\ OutcomeFits

\* Every reachable state of a group is well typed, a waiting item names a
\* reference, and what is stored and reported of an item belongs to it.
THEOREM ItemsTypeCorrect == ItemsSpec => []ItemsInv
<1>1. ItemsInit => ItemsInv
  <2> SUFFICES ASSUME ItemsInit PROVE ItemsInv
    OBVIOUS
  <2>1. NamesReference /\ OutcomeFits
    BY DEF ItemsInit, NamesReference, OutcomeFits, NotAsking
  <2> QED BY <2>1, InitItemsTypeOK DEF ItemsInv
<1>2. ItemsInv /\ [ItemsNext]_itemsVars => ItemsInv'
  <2> SUFFICES ASSUME ItemsInv, [ItemsNext]_itemsVars PROVE ItemsInv'
    OBVIOUS
  <2> USE DEF ItemsInv
  <2>1. CASE PipelineStep
    <3>1. ItemsTypeOK' /\ OutcomeFits' /\ UNCHANGED stubVars
      BY <2>1, PipelineOutcomes
    <3> QED BY <3>1 DEF NamesReference, stubVars
  <2>2. CASE GroupFails
    <3>1. ItemsTypeOK' /\ OutcomeFits'
          /\ asking' = [i \in Member |-> NotAsking]
      BY <2>2, GroupFailsKeeps
    <3> QED BY <3>1 DEF NamesReference, NotAsking
  <2>3. CASE LeaseStep
    <3>1. ItemsTypeOK' /\ UNCHANGED <<group, pipelineVars, asking>>
      BY <2>3, LeaseTypes
    <3> QED BY <3>1 DEF NamesReference, OutcomeFits, pipelineVars
  <2>4. CASE CloseScope
    <3>1. /\ ItemsTypeOK' /\ group \in {"recorded", "failing"}
          /\ group' = IF group = "recorded" THEN "done" ELSE "failed"
          /\ UNCHANGED <<pipelineVars, stubVars>>
      BY <2>4, CloseTypes
    <3> QED BY <3>1 DEF NamesReference, OutcomeFits, pipelineVars, stubVars
  <2>5. ASSUME NEW i \in Member, ItemLookup(i) PROVE ItemsInv'
    <3>1. asking[i].kind \in {"find", "await", "lease", "stub", "stubbing"} =>
             asking[i].ref \in Reference
      BY DEF NamesReference
    <3>2. ItemsTypeOK' /\ UNCHANGED <<group, pipelineVars>>
      BY <2>5, <3>1, LookupTypes
    <3>3. NamesReference'
      BY <2>5, LookupNames
    <3> QED BY <3>2, <3>3 DEF OutcomeFits, pipelineVars
  <2>6. CASE UNCHANGED itemsVars
    BY <2>6 DEF ItemsTypeOK, NamesReference, OutcomeFits, itemsVars, pipelineVars,
                stubVars, fixedVars
  <2> QED BY <2>1, <2>2, <2>3, <2>4, <2>5, <2>6, StepKinds
<1> QED BY <1>1, <1>2, PTL DEF ItemsSpec

\* The outcome recorded for an item is the one its settlement stored, in and out
\* of a batch (processSourceItemsBatch, recordMigrationOutcome).
THEOREM ItemOutcomesAreOwn == ItemsSpec => []OutcomesAreOwn
<1>1. ItemsInv => OutcomesAreOwn
  BY DEF ItemsInv, OutcomeFits, OutcomesAreOwn
<1> QED BY <1>1, ItemsTypeCorrect, PTL

-----------------------------------------------------------------------------
(* The lease of the referenced definition *)

\* Lookups ask for the lease and note failed stubs; they do not end it.
LEMMA LookupLease ==
    ASSUME ItemsTypeOK, LeaseFits, group = "open", NEW i \in Member, ItemLookup(i)
    PROVE  LeaseFits'
<1>1. /\ UNCHANGED <<group, otherLock, otherRun>>
      /\ \/ lease'.state = lease.state
         \/ lease.state = "none" /\ lease'.state = "acquire"
  <2>1. GetLease(i) =>
           /\ UNCHANGED <<group, otherLock, otherRun>>
           /\ \/ lease'.state = lease.state
              \/ lease.state = "none" /\ lease'.state = "acquire"
    BY DEF GetLease, ItemsTypeOK
  <2>2. (\E ok \in BOOLEAN, entries \in BOOLEAN : FinishStub(i, ok, entries))
           \/ StubErrs(i) =>
           UNCHANGED <<group, otherLock, otherRun>> /\ lease'.state = lease.state
    <3>1. ASSUME NEW b, lease' = [lease EXCEPT !.failed = b]
          PROVE  lease'.state = lease.state
      BY <3>1 DEF ItemsTypeOK
    <3> QED BY <3>1 DEF FinishStub, StubErrs
  <2>3. (\E x \in Reference : Lookup(i, x)) \/ ReferenceFound(i) \/ RequestStub(i)
           \/ StubAwaited(i) \/ LeaseRefused(i) \/ StartStub(i) =>
           UNCHANGED <<group, otherLock, otherRun, lease>>
    BY DEF Lookup, ReferenceFound, RequestStub, StubAwaited, LeaseRefused, StartStub
  <2> QED BY <2>1, <2>2, <2>3 DEF ItemLookup
<1> QED BY <1>1 DEF LeaseFits

\* The start and the end of the lease keep its lock, run and state together.
LEMMA LeaseStepKeeps ==
    ASSUME ItemsTypeOK, LeaseFits, LeaseStep
    PROVE  LeaseFits'
<1>1. lease.state \in LeaseState
  BY DEF ItemsTypeOK
<1>2. \A s : [lease EXCEPT !.state = s].state = s
             /\ [lease EXCEPT !.state = s].failed = lease.failed
  BY DEF ItemsTypeOK
<1>3. CASE AcquireLease
  BY <1>2, <1>3 DEF LeaseFits, AcquireLease, ItemsTypeOK
<1>4. CASE BeginLease
  BY <1>2, <1>4 DEF LeaseFits, BeginLease, ItemsTypeOK
<1>5. ASSUME NEW taken \in BOOLEAN, FinishLease(taken) PROVE LeaseFits'
  BY <1>2, <1>5 DEF LeaseFits, FinishLease, ItemsTypeOK
<1>6. CASE ReleaseLease
  BY <1>2, <1>6 DEF LeaseFits, ReleaseLease, ItemsTypeOK
<1> QED BY <1>3, <1>4, <1>5, <1>6 DEF LeaseStep

\* A group that is over has released the lock of the definition it leased, and
\* its lease's run succeeded only with all its stubs (withStubRunScope).
THEOREM ItemLeaseEnds == ItemsSpec => []StubLeaseEnds
<1>1. ItemsInit => LeaseFits
  BY DEF ItemsInit, LeaseFits
<1>2. ItemsInv /\ LeaseFits /\ [ItemsNext]_itemsVars => LeaseFits'
  <2> SUFFICES ASSUME ItemsInv, LeaseFits, [ItemsNext]_itemsVars PROVE LeaseFits'
    OBVIOUS
  <2>0. ItemsTypeOK /\ OutcomeFits /\ NamesReference
    BY DEF ItemsInv
  <2>1. CASE PipelineStep
    <3>1. group = "open" /\ group' \in {"open", "recorded"} /\ UNCHANGED stubVars
      BY <2>0, <2>1, PipelineOutcomes
    <3> QED BY <3>1 DEF LeaseFits, stubVars
  <2>2. CASE GroupFails
    <3>1. /\ group = "open" /\ group' = "failing"
          /\ UNCHANGED <<lease, otherLock, otherRun>>
      BY <2>0, <2>2, GroupFailsKeeps
    <3> QED BY <3>1 DEF LeaseFits
  <2>3. CASE LeaseStep
    BY <2>0, <2>3, LeaseStepKeeps
  <2>4. CASE CloseScope
    BY <2>4 DEF LeaseFits, CloseScope, stubVars
  <2>5. ASSUME NEW i \in Member, ItemLookup(i) PROVE LeaseFits'
    <3>1. group = "open"
      BY <2>0, <2>5, LookupTypes DEF NamesReference
    <3> QED BY <2>0, <2>5, <3>1, LookupLease
  <2>6. CASE UNCHANGED itemsVars
    BY <2>6 DEF LeaseFits, itemsVars, stubVars
  <2> QED BY <2>1, <2>2, <2>3, <2>4, <2>5, <2>6, StepKinds
<1>3. ItemsInv /\ LeaseFits => StubLeaseEnds
  <2>1. ItemsTypeOK /\ LeaseFits => StubLeaseEnds
    BY DEF ItemsTypeOK, LeaseFits, StubLeaseEnds
  <2> QED BY <2>1 DEF ItemsInv
<1> QED BY <1>1, <1>2, <1>3, ItemsTypeCorrect, PTL DEF ItemsSpec

-----------------------------------------------------------------------------
(* Requests for stubs *)

\* An item that owned no request and owns none afterwards.
LEMMA NothingOwned ==
    ASSUME ItemsTypeOK, StubRequestsFit, NEW i \in Member,
           asking[i].kind \notin Owning, asking'[i].kind \notin Owning,
           \A j \in Member : j # i => asking'[j] = asking[j],
           UNCHANGED <<group, stubs, stubRuns>>
    PROVE  StubRequestsFit'
<1>1. \A j \in Member : asking'[j].kind \in Owning =>
         asking'[j] = asking[j] /\ asking[j].kind \in Owning
  OBVIOUS
<1>2. \A j \in Member : asking[j].kind \in Owning => asking'[j] = asking[j]
  OBVIOUS
<1>3. {"lease", "stub"} \subseteq Owning
  BY DEF Owning
<1> QED BY <1>1, <1>2, <1>3 DEF StubRequestsFit

\* The owner of a request answers it.
LEMMA OwnedAnswered ==
    ASSUME ItemsTypeOK, NamesReference, StubRequestsFit, group = "open",
           NEW i \in Member, asking[i].kind \in Owning,
           NEW k \in {"made", "refused"},
           stubs' = [stubs EXCEPT ![asking[i].ref].kind = k],
           asking' = [asking EXCEPT ![i] = Answered],
           UNCHANGED <<group, stubRuns>>
    PROVE  StubRequestsFit'
<1> DEFINE x == asking[i].ref
<1>1. x \in Reference /\ stubs[x] = [kind |-> "pending", owner |-> i]
  BY DEF NamesReference, StubRequestsFit, Owning
<1>2. /\ \A y \in Reference : y # x => stubs'[y] = stubs[y]
      /\ stubs'[x].kind = k
  BY <1>1 DEF ItemsTypeOK
<1>3. /\ \A j \in Member : j # i => asking'[j] = asking[j]
      /\ asking'[i].kind = "answered"
  BY DEF ItemsTypeOK, Answered
<1>4. \A j \in Member : j # i /\ asking[j].kind \in Owning =>
         /\ asking[j].ref \in Reference /\ asking[j].ref # x
         /\ stubs[asking[j].ref] = [kind |-> "pending", owner |-> j]
  BY <1>1 DEF NamesReference, StubRequestsFit, Owning
<1>5. \A j \in Member : asking'[j].kind \in Owning =>
         /\ j # i /\ asking'[j] = asking[j]
         /\ stubs'[asking'[j].ref] = [kind |-> "pending", owner |-> j]
  BY <1>2, <1>3, <1>4 DEF Owning
<1>6. \A j \in Member : asking'[j].kind \in {"lease", "stub"} =>
         stubRuns'[asking'[j].ref] = 0
  <2>1. \A j \in Member : asking[j].kind \in {"lease", "stub"} =>
           stubRuns[asking[j].ref] = 0
    BY DEF StubRequestsFit
  <2> QED BY <1>3, <2>1
<1>7. \A y \in Reference : stubs'[y].kind = "pending" =>
         /\ stubs'[y].owner \in Member
         /\ asking'[stubs'[y].owner].kind \in Owning
         /\ asking'[stubs'[y].owner].ref = y
  <2> SUFFICES ASSUME NEW y \in Reference, stubs'[y].kind = "pending"
               PROVE  /\ stubs'[y].owner \in Member
                      /\ asking'[stubs'[y].owner].kind \in Owning
                      /\ asking'[stubs'[y].owner].ref = y
    OBVIOUS
  <2>1. y # x /\ stubs'[y] = stubs[y]
    BY <1>2
  <2>2. /\ stubs[y].owner \in Member
        /\ asking[stubs[y].owner].kind \in Owning
        /\ asking[stubs[y].owner].ref = y
    BY <2>1 DEF StubRequestsFit
  <2>3. stubs[y].owner # i
    BY <2>1, <2>2
  <2> QED BY <1>3, <2>1, <2>2, <2>3
<1>8. \A y \in Reference :
         stubRuns'[y] <= 1 /\ (stubs'[y].kind = "none" => stubRuns'[y] = 0)
  BY <1>2 DEF StubRequestsFit
<1> QED BY <1>5, <1>6, <1>7, <1>8 DEF StubRequestsFit

\* Every step of a lookup keeps requests and their owners together.
LEMMA LookupRequests ==
    ASSUME ItemsTypeOK, NamesReference, StubRequestsFit, group = "open",
           NEW i \in Member, ItemLookup(i)
    PROVE  StubRequestsFit'
<1>0. asking[i] \in Asking
  BY DEF ItemsTypeOK
<1>1. ASSUME NEW x \in Reference, Lookup(i, x) PROVE StubRequestsFit'
  <2>1. /\ asking[i].kind = "no" /\ asking'[i].kind \in {"answered", "find"}
        /\ \A j \in Member : j # i => asking'[j] = asking[j]
        /\ UNCHANGED <<group, stubs, stubRuns>>
    BY <1>1 DEF Lookup, Answered, ItemsTypeOK
  <2> QED BY <2>1, NothingOwned DEF Owning
<1>2. CASE ReferenceFound(i) \/ StubAwaited(i)
  <2>1. /\ asking[i].kind \in {"find", "await"} /\ asking'[i].kind = "answered"
        /\ \A j \in Member : j # i => asking'[j] = asking[j]
        /\ UNCHANGED <<group, stubs, stubRuns>>
    BY <1>2 DEF ReferenceFound, StubAwaited, Answered, ItemsTypeOK
  <2> QED BY <2>1, NothingOwned DEF Owning
<1>3. CASE RequestStub(i)
  <2> DEFINE x == asking[i].ref
  <2>0. asking[i].kind = "find" /\ x \in Reference
    BY <1>3 DEF RequestStub, NamesReference
  <2>1. CASE stubs[x].kind = "none"
    <3>1. /\ asking' = [asking EXCEPT ![i].kind = "lease"]
          /\ stubs' = [stubs EXCEPT ![x] = [kind |-> "pending", owner |-> i]]
          /\ UNCHANGED <<group, stubRuns>>
      BY <1>3, <2>1 DEF RequestStub
    <3>2. /\ \A j \in Member : j # i => asking'[j] = asking[j]
          /\ asking'[i].kind = "lease" /\ asking'[i].ref = x
      BY <1>0, <3>1 DEF ItemsTypeOK, Asking
    <3>3. /\ \A y \in Reference : y # x => stubs'[y] = stubs[y]
          /\ stubs'[x] = [kind |-> "pending", owner |-> i]
      BY <2>0, <3>1 DEF ItemsTypeOK
    <3>4. \A j \in Member : j # i /\ asking[j].kind \in Owning =>
             /\ asking[j].ref \in Reference /\ asking[j].ref # x
             /\ stubs[asking[j].ref] = [kind |-> "pending", owner |-> j]
      BY <2>1 DEF NamesReference, StubRequestsFit, Owning
    <3>5. \A j \in Member : asking'[j].kind \in Owning =>
             stubs'[asking'[j].ref] = [kind |-> "pending", owner |-> j]
      BY <3>2, <3>3, <3>4
    <3>6. \A j \in Member : asking'[j].kind \in {"lease", "stub"} =>
             stubRuns'[asking'[j].ref] = 0
      BY <2>0, <2>1, <3>1, <3>2 DEF StubRequestsFit
    <3>7. \A y \in Reference : stubs'[y].kind = "pending" =>
             /\ stubs'[y].owner \in Member
             /\ asking'[stubs'[y].owner].kind \in Owning
             /\ asking'[stubs'[y].owner].ref = y
      <4> SUFFICES ASSUME NEW y \in Reference, stubs'[y].kind = "pending"
                   PROVE  /\ stubs'[y].owner \in Member
                          /\ asking'[stubs'[y].owner].kind \in Owning
                          /\ asking'[stubs'[y].owner].ref = y
        OBVIOUS
      <4>1. CASE y = x
        BY <3>2, <3>3, <4>1 DEF Owning
      <4>2. CASE y # x
        <5>1. /\ stubs[y].owner \in Member /\ stubs'[y] = stubs[y]
              /\ asking[stubs[y].owner].kind \in Owning
              /\ asking[stubs[y].owner].ref = y
          BY <3>3, <4>2 DEF StubRequestsFit
        <5>2. stubs[y].owner # i
          BY <2>0, <5>1 DEF Owning
        <5> QED BY <3>2, <5>1, <5>2
      <4> QED BY <4>1, <4>2
    <3>8. \A y \in Reference :
             stubRuns'[y] <= 1 /\ (stubs'[y].kind = "none" => stubRuns'[y] = 0)
      BY <3>1, <3>3 DEF StubRequestsFit
    <3> QED BY <3>5, <3>6, <3>7, <3>8 DEF StubRequestsFit
  <2>2. CASE stubs[x].kind # "none"
    <3>1. /\ asking' = [asking EXCEPT ![i].kind = "await"]
          /\ UNCHANGED <<group, stubs, stubRuns>>
      BY <1>3, <2>2 DEF RequestStub
    <3>2. /\ asking'[i].kind = "await"
          /\ \A j \in Member : j # i => asking'[j] = asking[j]
      BY <1>0, <3>1 DEF ItemsTypeOK, Asking
    <3> QED BY <2>0, <3>1, <3>2, NothingOwned DEF Owning
  <2> QED BY <2>1, <2>2
<1>4. CASE GetLease(i) \/ StartStub(i)
  <2> DEFINE x == asking[i].ref
  <2>0. asking[i].kind \in {"lease", "stub"} /\ UNCHANGED <<group, stubs>>
    BY <1>4 DEF GetLease, StartStub
  <2>1. x \in Reference /\ stubs[x] = [kind |-> "pending", owner |-> i]
        /\ stubRuns[x] = 0
    BY <2>0 DEF NamesReference, StubRequestsFit, Owning
  <2>2. /\ \A j \in Member : j # i => asking'[j] = asking[j]
        /\ asking'[i].ref = x /\ asking'[i].kind \in Owning
    <3>1. ASSUME NEW k \in {"stub", "stubbing"},
                 asking' = [asking EXCEPT ![i].kind = k]
          PROVE  /\ \A j \in Member : j # i => asking'[j] = asking[j]
                 /\ asking'[i].ref = x /\ asking'[i].kind \in Owning
      BY <1>0, <3>1 DEF ItemsTypeOK, Asking, Owning
    <3>2. asking' = asking \/ \E k \in {"stub", "stubbing"} :
                                 asking' = [asking EXCEPT ![i].kind = k]
      BY <1>4 DEF GetLease, StartStub
    <3> QED BY <2>0, <3>1, <3>2 DEF Owning
  <2>3. /\ \A y \in Reference : y # x => stubRuns'[y] = stubRuns[y]
        /\ stubRuns'[x] \in {0, 1}
        /\ asking'[i].kind # "stubbing" => stubRuns'[x] = 0
    <3>1. CASE GetLease(i)
      BY <2>1, <3>1 DEF GetLease
    <3>2. CASE StartStub(i)
      <4>1. asking' = [asking EXCEPT ![i].kind = "stubbing"]
            /\ stubRuns' = [stubRuns EXCEPT ![x] = stubRuns[x] + 1]
        BY <3>2 DEF StartStub
      <4>2. asking'[i].kind = "stubbing"
        BY <1>0, <4>1 DEF ItemsTypeOK, Asking
      <4> QED BY <2>1, <4>1, <4>2 DEF ItemsTypeOK
    <3> QED BY <1>4, <3>1, <3>2
  <2>4. \A j \in Member : asking'[j].kind \in Owning =>
           /\ asking'[j].ref \in Reference
           /\ stubs[asking'[j].ref] = [kind |-> "pending", owner |-> j]
    <3>1. \A j \in Member : asking[j].kind \in Owning =>
             /\ asking[j].ref \in Reference
             /\ stubs[asking[j].ref] = [kind |-> "pending", owner |-> j]
      BY DEF NamesReference, StubRequestsFit, Owning
    <3> QED BY <2>1, <2>2, <3>1
  <2>5. \A j \in Member : asking'[j].kind \in {"lease", "stub"} =>
           stubRuns'[asking'[j].ref] = 0
    <3> SUFFICES ASSUME NEW j \in Member, asking'[j].kind \in {"lease", "stub"}
                 PROVE  stubRuns'[asking'[j].ref] = 0
      OBVIOUS
    <3>1. CASE j = i
      BY <2>2, <2>3, <3>1
    <3>2. CASE j # i
      <4>1. /\ asking'[j] = asking[j] /\ asking[j].ref \in Reference
            /\ stubs[asking[j].ref] = [kind |-> "pending", owner |-> j]
        BY <2>2, <2>4, <3>2 DEF Owning
      <4>2. asking[j].ref # x
        BY <2>1, <3>2, <4>1
      <4>3. stubRuns[asking[j].ref] = 0
        BY <4>1 DEF StubRequestsFit
      <4> QED BY <2>3, <4>1, <4>2, <4>3
    <3> QED BY <3>1, <3>2
  <2>6. \A y \in Reference : stubs'[y].kind = "pending" =>
           /\ stubs'[y].owner \in Member
           /\ asking'[stubs'[y].owner].kind \in Owning
           /\ asking'[stubs'[y].owner].ref = y
    <3>1. \A y \in Reference : stubs[y].kind = "pending" =>
             /\ stubs[y].owner \in Member
             /\ asking[stubs[y].owner].kind \in Owning
             /\ asking[stubs[y].owner].ref = y
      BY DEF StubRequestsFit
    <3> QED BY <2>0, <2>2, <3>1
  <2>7. \A y \in Reference :
           stubRuns'[y] <= 1 /\ (stubs'[y].kind = "none" => stubRuns'[y] = 0)
    BY <2>0, <2>1, <2>3 DEF StubRequestsFit
  <2> QED BY <2>0, <2>4, <2>5, <2>6, <2>7 DEF StubRequestsFit
<1>5. CASE LeaseRefused(i) \/ StubErrs(i)
  BY <1>5, OwnedAnswered DEF LeaseRefused, StubErrs, StubRefused, Owning
<1>6. ASSUME NEW ok \in BOOLEAN, NEW entries \in BOOLEAN, FinishStub(i, ok, entries)
      PROVE  StubRequestsFit'
  <2>1. PICK k \in {"made", "refused"} : k = IF ok THEN "made" ELSE "refused"
    OBVIOUS
  <2>2. /\ asking[i].kind = "stubbing"
        /\ stubs' = [stubs EXCEPT ![asking[i].ref].kind = k]
        /\ asking' = [asking EXCEPT ![i] = Answered]
        /\ UNCHANGED <<group, stubRuns>>
    BY <1>6, <2>1 DEF FinishStub, pipelineVars
  <2> QED BY <2>2, OwnedAnswered DEF Owning
<1> QED BY <1>1, <1>2, <1>3, <1>4, <1>5, <1>6 DEF ItemLookup

\* Items that look the same identity up share one stub, whose owner is at work
\* on it as long as its request is pending (createStubReference).
THEOREM ItemStubsShared == ItemsSpec => []StubsShared
<1>1. ItemsInit => StubRequestsFit
  BY DEF ItemsInit, StubRequestsFit, NotAsking, NoStub, Owning
<1>2. ItemsInv /\ StubRequestsFit /\ [ItemsNext]_itemsVars => StubRequestsFit'
  <2> SUFFICES ASSUME ItemsInv, StubRequestsFit, [ItemsNext]_itemsVars
               PROVE  StubRequestsFit'
    OBVIOUS
  <2>0. ItemsTypeOK /\ OutcomeFits /\ NamesReference
    BY DEF ItemsInv
  <2>1. CASE PipelineStep
    <3>1. group = "open" /\ UNCHANGED stubVars
      BY <2>0, <2>1, PipelineOutcomes
    <3> QED BY <3>1 DEF StubRequestsFit, stubVars
  <2>2. CASE GroupFails
    <3>1. group' = "failing" /\ UNCHANGED <<stubs, stubRuns>>
      BY <2>0, <2>2, GroupFailsKeeps
    <3> QED BY <3>1 DEF StubRequestsFit
  <2>3. CASE LeaseStep
    <3>1. UNCHANGED <<group, asking, stubs, stubRuns>>
      BY <2>0, <2>3, LeaseTypes
    <3> QED BY <3>1 DEF StubRequestsFit
  <2>4. CASE CloseScope
    <3>1. group' # "open" /\ UNCHANGED <<asking, stubs, stubRuns>>
      BY <2>4 DEF CloseScope, stubVars
    <3> QED BY <3>1 DEF StubRequestsFit
  <2>5. ASSUME NEW i \in Member, ItemLookup(i) PROVE StubRequestsFit'
    <3>1. group = "open"
      BY <2>0, <2>5, LookupTypes DEF NamesReference
    <3> QED BY <2>0, <2>5, <3>1, LookupRequests
  <2>6. CASE UNCHANGED itemsVars
    BY <2>6 DEF StubRequestsFit, itemsVars, stubVars
  <2> QED BY <2>1, <2>2, <2>3, <2>4, <2>5, <2>6, StepKinds
<1>3. ItemsInv /\ StubRequestsFit => StubsShared
  <2> SUFFICES ASSUME ItemsTypeOK, StubRequestsFit, NEW x \in Reference,
                      NEW i \in Member, group = "open", stubs[x].kind = "pending"
               PROVE  asking[stubs[x].owner] \in
                         [kind : {"lease", "stub", "stubbing"}, ref : {x}]
    BY DEF StubsShared, StubRequestsFit, ItemsInv
  <2>1. /\ asking[stubs[x].owner] \in Asking
        /\ asking[stubs[x].owner].kind \in Owning
        /\ asking[stubs[x].owner].ref = x
    BY DEF StubRequestsFit, ItemsTypeOK
  <2> QED BY <2>1 DEF Asking, Owning
<1> QED BY <1>1, <1>2, <1>3, ItemsTypeCorrect, PTL DEF ItemsSpec

-----------------------------------------------------------------------------
(* Evidence *)

\* A failed or a skipped attempt keeps the journal and the record it read.
LEMMA KeptEvidence ==
    ASSUME NEW status, NEW before \in TrackedState, NEW scope \in TrackingCalls
    PROVE  /\ before.journal => KeptItemState(status, before, scope).journal
           /\ before.record => KeptItemState(status, before, scope).record
BY DEF KeptItemState, applyJournalExtensions

\* A failed or a skipped attempt that starts from the stored state loses neither
\* its journal nor its tracking record (makeFailedItemState and its kin).
THEOREM ItemEvidenceKept == ItemsSpec => EvidenceKept
<1> DEFINE Kept(x) == /\ tracked[x].journal => tracked'[x].journal
                      /\ tracked[x].record => tracked'[x].record
<1>1. ItemsInv /\ [ItemsNext]_itemsVars =>
         [\A x \in Member \cup Other :
            /\ tracked'[x] # tracked[x]
            /\ tracked'[x].status \in {"failed", "skipped"}
            /\ ReadFresh(x)
            => Kept(x)]_itemsVars
  <2> SUFFICES ASSUME ItemsInv, ItemsNext, NEW x \in StoredIdentity,
                      tracked'[x] # tracked[x],
                      tracked'[x].status \in {"failed", "skipped"}, ReadFresh(x)
               PROVE  Kept(x)
    BY DEF StoredIdentity
  <2>0. ItemsTypeOK /\ OutcomeFits /\ NamesReference
    BY DEF ItemsInv
  <2>1. CASE PipelineStep
    <3>1. ASSUME NEW i \in Member, AdmissionFails(i) PROVE Kept(x)
      <4> DEFINE state == KeptItemState("failed", previous[i],
                                        makeProcessScope(previous[i]))
      <4>1. /\ tracked' = [tracked EXCEPT ![i] = state]
            /\ fiber' = [fiber EXCEPT ![i] = "completed"] /\ fiber[i] = "read"
        BY <3>1 DEF AdmissionFails, At, Store, Leave, Goto
      <4>2. x = i /\ tracked'[i] = state
        BY <2>0, <4>1 DEF ItemsTypeOK
      <4>3. fiber'[i] # fiber[i]
        BY <2>0, <4>1 DEF ItemsTypeOK
      <4>4. previous[i] = tracked[i] /\ previous[i] \in TrackedState
        BY <2>0, <4>2, <4>3 DEF ReadFresh, ItemsTypeOK
      <4> QED BY <4>2, <4>4, ScopeStarts, KeptEvidence
    <3>2. ASSUME NEW i \in Member, NEW how \in Outcome, NEW scope \in TrackingCalls,
                 NEW fits \in BOOLEAN, SettleAdmitted(i, how, scope, fits)
          PROVE  Kept(x)
      <4> DEFINE state == SettledState(i, how, scope, fits)
      <4>1. /\ tracked' = [tracked EXCEPT ![i] = state]
            /\ fiber' = [fiber EXCEPT ![i] = "settled"]
            /\ fiber[i] \in {"running", "throwing"}
        BY <3>2 DEF SettleAdmitted, Running, At, Store, Leave, Goto
      <4>2. x = i /\ tracked'[i] = state
        <5> HIDE DEF state
        <5> QED BY <2>0, <4>1 DEF ItemsTypeOK
      <4>3. fiber'[i] # fiber[i]
        BY <2>0, <4>1 DEF ItemsTypeOK
      <4>4. previous[i] = tracked[i] /\ previous[i] \in TrackedState
        BY <2>0, <4>2, <4>3 DEF ReadFresh, ItemsTypeOK
      <4>5. ~(how = "migrated" /\ ValidRecords(scope.records, fits))
        BY <4>2 DEF SettledState, makeMigratedItemState
      <4>6. \E status : state = KeptItemState(status, previous[i], scope)
        BY <4>5 DEF SettledState
      <4> QED BY <4>2, <4>4, <4>6, KeptEvidence
    <3>3. CASE UNCHANGED tracked
      BY <3>3
    <3>4. \/ \E i \in Member : AdmissionFails(i)
          \/ \E i \in Member, how \in Outcome, scope \in TrackingCalls,
                fits \in BOOLEAN : SettleAdmitted(i, how, scope, fits)
          \/ UNCHANGED tracked
      BY <2>1 DEF PipelineStep, ReadPreviousState, AdmittedUnchanged, Admitted,
                  RecordOutcome, BatchSettles, BatchThrows, RecordOutcomes
    <3> QED BY <3>1, <3>2, <3>3, <3>4
  <2>2. CASE GroupFails
    BY <2>0, <2>2, GroupFailsKeeps
  <2>3. CASE LeaseStep
    BY <2>0, <2>3, LeaseTypes
  <2>4. CASE CloseScope
    BY <2>4 DEF CloseScope
  <2>5. ASSUME NEW i \in Member, ItemLookup(i) PROVE Kept(x)
    <3>1. PICK ok \in BOOLEAN, entries \in BOOLEAN : FinishStub(i, ok, entries)
      BY <2>5 DEF ItemLookup, Lookup, ReferenceFound, RequestStub, StubAwaited,
                  GetLease, LeaseRefused, StartStub, StubErrs
    <3> DEFINE before == stubRead[asking[i].ref]
               scope == [makeProcessScope(before) EXCEPT !.entries = entries]
               state == StubState(before, ok, entries)
    <3>2. /\ asking[i].kind = "stubbing" /\ UNCHANGED fiber
          /\ tracked' = [tracked EXCEPT ![asking[i].ref] = state]
      BY <3>1 DEF FinishStub, pipelineVars
    <3>3. asking[i].ref \in Reference
      BY <2>0, <3>2 DEF NamesReference
    <3>4. x = asking[i].ref /\ tracked'[x] = state
      <4> HIDE DEF state
      <4> QED BY <2>0, <3>2, <3>3 DEF ItemsTypeOK
    <3>5. before = tracked[x] /\ before \in TrackedState
      BY <2>0, <3>2, <3>3, <3>4 DEF ReadFresh, ItemsTypeOK
    <3>6. state = KeptItemState("failed", before, scope)
      BY <3>4 DEF StubState
    <3>7. scope \in TrackingCalls
      <4>1. before.extended \in BOOLEAN
        BY <3>5 DEF TrackedState
      <4>2. scope = [entries |-> entries, extended |-> before.extended, records |-> 0]
        BY DEF makeProcessScope
      <4> QED BY <4>1, <4>2 DEF TrackingCalls
    <3> HIDE DEF state, scope, before
    <3> QED BY <3>4, <3>5, <3>6, <3>7, KeptEvidence
  <2> QED BY <2>1, <2>2, <2>3, <2>4, <2>5, StepKinds
<1> QED BY <1>1, ItemsTypeCorrect, PTL DEF ItemsSpec, EvidenceKept
=============================================================================
