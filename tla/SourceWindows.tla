----------------------------- MODULE SourceWindows -----------------------------
(***************************************************************************)
(* The sources a definition reads its items from (migrate-sdk/src/sources  *)
(* and the sources of the commercetools and files-sdk packages).  A pass   *)
(* asks a source for one window after another; each window carries the     *)
(* cursor of the next one, and the pass ends at the window that carries    *)
(* none.  Between two windows the process may die and resume from the      *)
(* saved cursor, and what is read (the CSV file, the fetched resources,    *)
(* the table, the stored objects) may be rewritten.                        *)
(*   "memory"    a fixed list, cursor = offset                             *)
(*   "csv"       one file, cursor = its fingerprint and the next row       *)
(*   "document"  fetched resources of documents of items, cursor = the     *)
(*               resource, the next item in it and its fingerprint         *)
(*   "keyset"    a SQL table or a commercetools query, ordered by a        *)
(*               modification stamp, cursor = stamp and id of the last row *)
(*   "objects"   the objects of a storage, listed by key page by page,     *)
(*               cursor = the provider's and the scope it is good for      *)
(* Positions count from 1 where the code counts from 0; a fingerprint is   *)
(* the content it stands for.                                              *)
(***************************************************************************)
EXTENDS Naturals, Sequences, FiniteSets, SequencesExt, FiniteSetsExt

CONSTANTS
  Row,                \* identities of source items, a set of integers
  CsvFile,            \* sequences of records, a record a sequence of cells
  Resource,           \* sequences (documents) of sequences of rows
  MaxWrites,          \* rewrites of the content
  MaxRestarts,        \* crashes of the reading process
  MaxPasses           \* passes begun

VARIABLES
  sourceKind,
  sourceOptions,      \* [batchSize (0: none), discovery, emptyRows, fingerprinted,
                      \*  filter, version]
  content,            \* what the source reads
  modified,           \* the newest modification stamp, also the file's metadata
  sourceCursor,       \* the cursor saved in the store
  inspected,          \* metadata of the CSV read under way, or 0
  witnessed,          \* the contents the file had since it was inspected, or
                      \* the storage since its listing began
  cursorDocument,     \* the CSV source's cached document and its metadata
  listing,            \* a page of objects whose versions are not read yet
  window,             \* the window in the pass's hands
  returned,           \* the items of the windows whose cursor was saved
  passEnded,
  sourceFaults        \* writes, restarts and passes so far

sourceVars == <<sourceKind, sourceOptions, content, modified, sourceCursor,
                inspected, witnessed, cursorDocument, listing, window, returned,
                passEnded, sourceFaults>>

NullCursor == [kind |-> "null"]
NoNextCursor == [kind |-> "undefined"]
NoWindow == [items |-> {}, next |-> NullCursor, covers |-> {}]
NoListing == [objects |-> {}, next |-> NullCursor]
NoDocument == [file |-> <<"none">>, metadata |-> 0]

(* The first n of an ascending list, all of it when n is 0 (no batchSize). *)
FirstOf(s, n) == IF n = 0 THEN s ELSE SubSeq(s, 1, IF n < Len(s) THEN n ELSE Len(s))

Duplicated(s) == \E i, j \in DOMAIN s : i # j /\ s[i] = s[j]

-----------------------------------------------------------------------------
(* CSV.  Row 1 of the file is the header (headers.from-row 0) and names    *)
(* one column, the identity; a blank row has no cell.                      *)

DataStart == 2
Width == 1

LogicalRows(file) ==
  SelectSeq([i \in 1..Len(file) |-> i],
            LAMBDA i : i >= DataStart /\ file[i] # <<>>)

(* A file the parser refuses: no header, a row of another width, a blank   *)
(* row where those are errors, an identity twice.                          *)
Unparsable(file) ==
  LET rows == LogicalRows(file)
  IN  \/ Len(file) < DataStart - 1
      \/ \E i \in DOMAIN rows : Len(file[rows[i]]) # Width
      \/ sourceOptions.emptyRows = "error" /\ Len(rows) # Len(file) - 1
      \/ Duplicated([i \in DOMAIN rows |-> file[rows[i]]])

CsvItems(file) == {<<file, i>> : i \in Range(LogicalRows(file))}

\* The row a read starts from when the cursor's fingerprint is not compared
\* (see PassCoversSource).
StartRowAnyFile(cursor, file) ==
  IF cursor.kind = "csv" /\ cursor.next > DataStart THEN cursor.next ELSE DataStart

StartRow(cursor, file) ==
  IF cursor.kind = "csv" /\ cursor.file = file /\ cursor.next > DataStart
    THEN cursor.next ELSE DataStart

CsvWindow(cursor, file) ==
  LET start == StartRow(cursor, file)
      left  == SelectSeq(LogicalRows(file), LAMBDA i : i >= start)
      rows  == FirstOf(left, sourceOptions.batchSize)
      next  == IF Len(rows) = Len(left) THEN Len(file) + 1 ELSE Last(rows) + 1
  IN  IF start <= Len(file)
        THEN [items |-> {<<file, i>> : i \in Range(rows)},
              next |-> [kind |-> "csv", file |-> file, next |-> next],
              covers |-> {}]
        ELSE [items |-> {<<file, i>> : i \in Range(rows)},
              next |-> NoNextCursor, covers |-> CsvItems(file)]

-----------------------------------------------------------------------------
(* Documents.  The fetcher's cursor is the index of a resource.            *)

LoadedItems(resource) ==
  FlattenSeq([d \in DOMAIN resource |->
    [i \in DOMAIN resource[d] |-> [document |-> d, item |-> i, row |-> resource[d][i]]]])

DocumentItems(k) == {<<k, content[k], l.document, l.item>> : l \in Range(LoadedItems(content[k]))}

ResourceOf(cursor) == IF cursor.kind = "document" THEN cursor.resource ELSE 1

NotBefore(l, cursor) ==
  \/ l.document > cursor.document
  \/ l.document = cursor.document /\ l.item >= cursor.item

(* Where the window starts in the loaded items, 0 when the cursor points   *)
(* past the last one.                                                      *)
startIndexForCursor(cursor, loaded, fingerprint) ==
  IF \/ cursor.kind = "null"
     \/ /\ cursor.fingerprint # <<>> /\ fingerprint # <<>>
        /\ cursor.fingerprint # fingerprint
    THEN 1
    ELSE LET left == {i \in DOMAIN loaded : NotBefore(loaded[i], cursor)}
         IN  IF left = {} THEN 0 ELSE Min(left)

nextResourceCursor(k) ==
  IF k < Len(content)
    THEN [kind |-> "document", resource |-> k + 1, document |-> 1, item |-> 1,
          fingerprint |-> <<>>]
    ELSE NoNextCursor

DocumentWindow(cursor) ==
  LET k      == ResourceOf(cursor)
      loaded == LoadedItems(content[k])
      print  == IF sourceOptions.fingerprinted THEN <<content[k]>> ELSE <<>>
      start  == startIndexForCursor(cursor, loaded, print)
      left   == IF start = 0 THEN <<>> ELSE SubSeq(loaded, start, Len(loaded))
      rows   == FirstOf(left, sourceOptions.batchSize)
      items  == {<<k, content[k], l.document, l.item>> : l \in Range(rows)}
      after  == left[Len(rows) + 1]
  IN  IF Len(rows) = Len(left)
        THEN [items |-> items, next |-> nextResourceCursor(k),
              covers |-> IF sourceOptions.fingerprinted THEN DocumentItems(k) ELSE {}]
        ELSE [items |-> items, covers |-> {},
              next |-> [kind |-> "document", resource |-> k, fingerprint |-> print,
                        document |-> after.document, item |-> after.item]]

(* Identities are unique within a resource.                                *)
ResourceRefused(cursor) ==
  LET loaded == LoadedItems(content[ResourceOf(cursor)])
  IN  Duplicated([i \in DOMAIN loaded |-> loaded[i].row])

-----------------------------------------------------------------------------
(* Tables read in the order of (stamp, id).  content[r] is the stamp of    *)
(* row r, 0 when it does not exist.                                        *)

Present == {r \in Row : content[r] > 0}

After(r, cursor) ==
  \/ cursor.kind = "null"
  \/ content[r] > cursor.stamp
  \/ content[r] = cursor.stamp /\ r > cursor.id

KeysetWindow(cursor) ==
  LET left  == {r \in Present : After(r, cursor)}
      order == SetToSortSeq(left, LAMBDA a, b : \/ content[a] < content[b]
                                                \/ content[a] = content[b] /\ a < b)
      rows  == FirstOf(order, sourceOptions.batchSize)
  IN  [items |-> {<<r, content[r]>> : r \in Range(rows)},
       next |-> IF rows = <<>> THEN NoNextCursor
                ELSE [kind |-> "keyset", stamp |-> content[Last(rows)], id |-> Last(rows)],
       covers |-> IF rows = <<>> THEN {<<r, content[r]>> : r \in Present} ELSE {}]

-----------------------------------------------------------------------------
(* Objects of a storage.  content[k] is the stamp of object k, 0 when it   *)
(* does not exist.  What a cursor is good for (the scope) includes the     *)
(* filter.  External: the provider lists by key, after the cursor's.       *)

ObjectScope == sourceOptions.filter

ListedPage(cursor) ==
  LET left == {k \in Present : cursor.kind = "null" \/ k > cursor.key}
      page == FirstOf(SetToSortSeq(left, LAMBDA a, b : a < b), sourceOptions.batchSize)
  IN  [objects |-> {<<k, content[k]>> : k \in Range(page)},
       next |-> IF Len(page) = Cardinality(left) THEN NoNextCursor
                ELSE [kind |-> "objects", key |-> Last(page), scope |-> ObjectScope]]

(* A listing without ETag and time is completed by a head request per      *)
(* object, which fails when the object is gone.                            *)
Hydrated(objects) ==
  IF sourceOptions.fingerprinted THEN objects
    ELSE {<<o[1], content[o[1]]>> : o \in objects}

(* contentHash compares the object with its metadata before and after it   *)
(* reads the bytes.                                                        *)
Changed(objects) == \E o \in objects : content[o[1]] # o[2]

(* The listed object, and the stamp of what its version was made from.     *)
ObjectItem(o) ==
  <<o[1], o[2], IF sourceOptions.version = "sha256" THEN content[o[1]] ELSE o[2]>>

Unmoved == {k \in Row : \A w \in witnessed : w[k] = content[k] /\ w[k] > 0}

-----------------------------------------------------------------------------
(* A fixed list.                                                           *)

MemoryWindow(cursor) ==
  LET offset == IF cursor.kind = "memory" THEN cursor.offset ELSE 0
      left   == SubSeq(content, offset + 1, Len(content))
      rows   == FirstOf(left, sourceOptions.batchSize)
      more   == Len(rows) < Len(left)
  IN  [items |-> Range(rows),
       next |-> IF more THEN [kind |-> "memory", offset |-> offset + Len(rows)]
                ELSE NoNextCursor,
       covers |-> IF more THEN {} ELSE Range(content)]

-----------------------------------------------------------------------------
(* The pass.                                                               *)

SourceInit ==
  /\ sourceKind \in {"memory", "csv", "document", "keyset", "objects"}
  /\ sourceOptions \in [batchSize: 0..2, discovery: {"full", "incremental"},
                        emptyRows: {"skip", "error"}, fingerprinted: BOOLEAN,
                        filter: {Row, {Max(Row)}}, version: {"metadata", "sha256"}]
  /\ sourceKind \in {"keyset", "objects"} => sourceOptions.batchSize > 0
  /\ IF sourceKind = "objects"
       THEN sourceOptions.discovery = "full"
       ELSE sourceOptions.filter = Row /\ sourceOptions.version = "metadata"
  /\ sourceKind # "csv" => sourceOptions.emptyRows = "skip"
  /\ sourceKind \notin {"document", "objects"} => sourceOptions.fingerprinted
  /\ content \in CASE sourceKind = "csv" -> CsvFile
                   [] sourceKind = "document" -> {<<r, s>> : r, s \in Resource}
                   [] sourceKind \in {"keyset", "objects"} -> [Row -> 0..1]
                   [] OTHER -> {SetToSeq(Row)}
  /\ modified = 1
  /\ sourceCursor = NullCursor
  /\ inspected = 0
  /\ witnessed = {}
  /\ cursorDocument = NoDocument
  /\ listing = NoListing
  /\ window = NoWindow
  /\ returned = {}
  /\ passEnded = FALSE
  /\ sourceFaults = [writes |-> 0, restarts |-> 0, passes |-> 1]

Reading == ~passEnded /\ window = NoWindow

settings == <<sourceKind, sourceOptions>>

(* loadCursorDocument inspects the file first and reads it afterwards; a   *)
(* cached document is used when it is the cursor's and the metadata have   *)
(* not moved.                                                              *)
InspectFile ==
  /\ sourceKind = "csv" /\ Reading /\ inspected = 0
  /\ inspected' = modified
  /\ witnessed' = {content}
  /\ UNCHANGED <<settings, content, modified, sourceCursor, cursorDocument,
                 window, returned, passEnded, sourceFaults, listing>>

CachedDocumentServes ==
  /\ sourceCursor.kind = "csv"
  /\ cursorDocument.file = sourceCursor.file
  /\ cursorDocument.metadata = inspected

ReadCsv ==
  /\ sourceKind = "csv" /\ Reading /\ inspected > 0
  /\ IF CachedDocumentServes
       THEN /\ window' = CsvWindow(sourceCursor, cursorDocument.file)
            /\ UNCHANGED <<cursorDocument, passEnded>>
       ELSE IF Unparsable(content)
              THEN /\ passEnded' = TRUE
                   /\ UNCHANGED <<window, cursorDocument>>
              ELSE /\ window' = CsvWindow(sourceCursor, content)
                   /\ cursorDocument' = [file |-> content, metadata |-> inspected]
                   /\ UNCHANGED passEnded
  /\ inspected' = 0
  /\ UNCHANGED <<settings, content, modified, sourceCursor, witnessed, returned,
                 sourceFaults, listing>>

ReadDocument ==
  /\ sourceKind = "document" /\ Reading
  /\ IF ResourceRefused(sourceCursor)
       THEN passEnded' = TRUE /\ UNCHANGED window
       ELSE window' = DocumentWindow(sourceCursor) /\ UNCHANGED passEnded
  /\ UNCHANGED <<settings, content, modified, sourceCursor, inspected, witnessed,
                 cursorDocument, returned, sourceFaults, listing>>

ReadKeyset ==
  /\ sourceKind = "keyset" /\ Reading
  /\ window' = KeysetWindow(sourceCursor)
  /\ UNCHANGED <<settings, content, modified, sourceCursor, inspected, witnessed,
                 cursorDocument, returned, passEnded, sourceFaults, listing>>

(* discovery.read: one page of the listing.  A cursor of another scope, a  *)
(* failing listing and one that repeats a cursor end the run.              *)
ListObjects ==
  /\ sourceKind = "objects" /\ Reading /\ listing = NoListing
  /\ \/ /\ sourceCursor.kind = "objects" => sourceCursor.scope = ObjectScope
        /\ listing' = ListedPage(sourceCursor)
        /\ witnessed' = IF sourceCursor = NullCursor THEN {content} ELSE witnessed
        /\ UNCHANGED passEnded
     \/ passEnded' = TRUE /\ UNCHANGED <<listing, witnessed>>
  /\ UNCHANGED <<settings, content, modified, sourceCursor, inspected,
                 cursorDocument, window, returned, sourceFaults>>

(* Then the head requests and the versions of the objects the filter       *)
(* accepts.                                                                *)
ReadObjects ==
  /\ sourceKind = "objects" /\ listing # NoListing
  /\ LET objects  == Hydrated(listing.objects)
         accepted == {o \in objects : o[1] \in sourceOptions.filter}
     IN  IF \/ \E o \in objects : o[2] = 0
            \/ sourceOptions.version = "sha256" /\ Changed(accepted)
           THEN passEnded' = TRUE /\ UNCHANGED window
           ELSE /\ window' =
                     [items |-> {ObjectItem(o) : o \in accepted},
                      next |-> listing.next,
                      covers |-> IF listing.next # NoNextCursor THEN {}
                                 ELSE {<<k, content[k], content[k]>> :
                                         k \in Unmoved \cap sourceOptions.filter}]
                /\ UNCHANGED passEnded
  /\ listing' = NoListing
  /\ UNCHANGED <<settings, content, modified, sourceCursor, inspected, witnessed,
                 cursorDocument, returned, sourceFaults>>

(* The in-memory source may be told to fail its first reads.               *)
ReadMemory ==
  /\ sourceKind = "memory" /\ Reading
  /\ \/ window' = MemoryWindow(sourceCursor) /\ UNCHANGED passEnded
     \/ passEnded' = TRUE /\ UNCHANGED window
  /\ UNCHANGED <<settings, content, modified, sourceCursor, inspected, witnessed,
                 cursorDocument, returned, sourceFaults, listing>>

(* The items of a window are processed and then its cursor is saved.       *)
SaveWindow ==
  /\ window # NoWindow /\ window.next # NoNextCursor
  /\ returned' = returned \cup window.items
  /\ sourceCursor' = window.next
  /\ window' = NoWindow
  /\ UNCHANGED <<settings, content, modified, inspected, witnessed,
                 cursorDocument, passEnded, sourceFaults, listing>>

(* After the last window a full discovery forgets the cursor and an        *)
(* incremental one keeps it for the next run.                              *)
finalizeCompletedSourceDiscovery ==
  /\ window # NoWindow /\ window.next = NoNextCursor
  /\ passEnded' = TRUE
  /\ window' = NoWindow
  /\ IF sourceOptions.discovery = "full"
       THEN sourceCursor' = NullCursor /\ returned' = {}
       ELSE returned' = returned \cup window.items /\ UNCHANGED sourceCursor
  /\ UNCHANGED <<settings, content, modified, inspected, witnessed,
                 cursorDocument, sourceFaults, listing>>

(* The next run builds its sources anew, with the options it is given.     *)
BeginPass ==
  /\ passEnded /\ sourceFaults.passes < MaxPasses
  /\ passEnded' = FALSE
  /\ cursorDocument' = NoDocument
  /\ sourceFaults' = [sourceFaults EXCEPT !.passes = @ + 1]
  /\ UNCHANGED <<settings, content, modified, sourceCursor, inspected, witnessed,
                 window, returned, listing>>

(* The reading process dies; what replaces it may be built from an edited  *)
(* registry, here with a wider filter.                                     *)
Restart ==
  /\ ~passEnded /\ sourceFaults.restarts < MaxRestarts
  /\ sourceFaults' = [sourceFaults EXCEPT !.restarts = @ + 1]
  /\ window' = NoWindow
  /\ inspected' = 0
  /\ cursorDocument' = NoDocument
  /\ listing' = NoListing
  /\ \/ UNCHANGED sourceOptions
     \/ sourceKind = "objects" /\ sourceOptions' = [sourceOptions EXCEPT !.filter = Row]
  /\ UNCHANGED <<sourceKind, content, modified, sourceCursor, witnessed, returned,
                 passEnded>>

(* Someone else writes: every write has a later stamp than the last one.   *)
WriteContent ==
  /\ sourceFaults.writes < MaxWrites /\ sourceKind # "memory"
  /\ modified' = modified + 1
  /\ CASE sourceKind = "csv" -> content' \in CsvFile \ {content}
       [] sourceKind = "document" ->
            \E k \in DOMAIN content, r \in Resource : content' = [content EXCEPT ![k] = r]
       [] OTHER ->
            \E r \in Row, s \in {0, modified + 1} : content' = [content EXCEPT ![r] = s]
  /\ witnessed' = IF sourceKind \in {"csv", "objects"} THEN witnessed \cup {content'} ELSE {}
  /\ sourceFaults' = [sourceFaults EXCEPT !.writes = @ + 1]
  /\ UNCHANGED <<settings, sourceCursor, inspected, cursorDocument, window,
                 returned, passEnded, listing>>

SourceNext ==
  \/ InspectFile \/ ReadCsv \/ ReadDocument \/ ReadKeyset \/ ReadMemory
  \/ ListObjects \/ ReadObjects
  \/ SaveWindow \/ finalizeCompletedSourceDiscovery
  \/ BeginPass \/ Restart \/ WriteContent

-----------------------------------------------------------------------------
(* Whatever is rewritten between two windows and wherever the reader dies  *)
(* and resumes: when a window ends the pass (or, for documents, leaves a   *)
(* resource with a fingerprint), every item of the content that window was *)
(* read from has been returned, that content being one the file had during *)
(* the read; for a table, every row with its last modification; of a       *)
(* storage, every object the filter accepts that did not change during the *)
(* pass, and the version of an object is that of what was listed.          *)
(* (CsvSource.read, DocumentSource.read, SqlSource, CommercetoolsSource,   *)
(* FilesSDKSource.objects)                                                 *)
PassCoversSource ==
  /\ window.covers \subseteq returned \cup window.items
  /\ sourceKind = "csv" =>
       {i[1] : i \in window.items} \subseteq witnessed
  /\ sourceKind = "objects" => \A i \in window.items : i[2] = i[3]

=============================================================================
