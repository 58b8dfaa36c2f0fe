--------------------------- MODULE DestinationWrites ---------------------------
(***************************************************************************)
(* What one attempt of a pipeline writes to its destination, and what its  *)
(* journal says of it: the Commercetools operations                        *)
(* (commercetools/src/destination/capabilities.ts), the Files SDK ones     *)
(* (files-sdk/src/destination/destination.ts) and the in-memory entries.   *)
(* Tracking only appends entries (services/tracking.ts), so the order of   *)
(* request, answer, check and record decides what is known afterwards.     *)
(* The destination, its answers and other writers are the environment.     *)
(***************************************************************************)
EXTENDS Naturals, Sequences, FiniteSets

CONSTANTS
  MaxCalls,          \* calls of one attempt
  MaxForeign         \* writes of others to the same resource

VARIABLES
  surface,           \* the operations the pipeline has; fixed
  object,            \* version of the resource at the destination, 0: absent
  journal,           \* entries of the attempt's scope (TrackingState.entries)
  write,             \* the call under way
  effects,           \* history: what the destination applied for the attempt
  foreign,           \* history: writes of others so far
  sent               \* calls so far

writeVars == <<surface, object, journal, write, effects, foreign, sent>>

NoWrite == [pc |-> "idle"]
Unknown == 0         \* an entry that does not say the version

-----------------------------------------------------------------------------
(* Operations: the change that is recorded, whether the input is decoded   *)
(* before the request, and which versions the request is for.              *)

CreateOf(change) == [change |-> change, decoded |-> FALSE, for |-> "absent"]
UpdateOf(change) == [change |-> change, decoded |-> TRUE, for |-> "version"]

ProductOperation == {CreateOf("product.created"), UpdateOf("product.updated")}
InventoryOperation ==
  {CreateOf("inventory-entry.created"), UpdateOf("inventory-entry.updated")}
CustomerOperation == {CreateOf("customer.created"), UpdateOf("customer.updated")}
BusinessUnitOperation ==
  {CreateOf("business-unit.created"), UpdateOf("business-unit.updated")}
StoreOperation == {CreateOf("store.created"), UpdateOf("store.updated")}
StoreAssignment ==
  {UpdateOf("store.product-selection.assigned"),
   UpdateOf("store.product-selection.removed")}
ProductSelectionOperation ==
  {CreateOf("product-selection.created"), UpdateOf("product-selection.updated")}

CommercetoolsSurface ==
  {ProductOperation, InventoryOperation, CustomerOperation,
   BusinessUnitOperation, StoreOperation \cup StoreAssignment,
   ProductSelectionOperation}

Files == {"files"}
InMemory == {"in-memory"}

Versions == 0..(MaxCalls + MaxForeign)
Overwrite == Versions
Policy == {Overwrite} \cup {{v} : v \in Versions}   \* {0}: create

WriteInit ==
  /\ surface \in CommercetoolsSurface \cup {Files, InMemory}
  /\ object = 0 /\ foreign = 0 /\ sent = 0
  /\ journal = <<>> /\ effects = <<>> /\ write = NoWrite

-----------------------------------------------------------------------------
(* A call checks its input; one that is refused has sent nothing.          *)

Call(change, for, permitted) ==
  /\ write = NoWrite /\ sent < MaxCalls
  /\ sent' = sent + 1
  /\ write' = IF permitted THEN [pc |-> "request", change |-> change, for |-> for]
              ELSE NoWrite
  /\ UNCHANGED <<surface, object, journal, effects, foreign>>

\* create and update of every Commercetools resource; an update names the
\* version it has seen.
CallCommercetools ==
  /\ surface \in CommercetoolsSurface
  /\ \E o \in surface, valid \in BOOLEAN :
       \E v \in IF o.for = "absent" THEN {0} ELSE 1..(Len(effects) + foreign) :
         Call(o.change, {v}, valid \/ ~o.decoded)

\* A conditional upload needs a body that can be sent again.
upload ==
  \E p \in Policy, replayable \in BOOLEAN :
    Call("uploaded", p, p = Overwrite \/ replayable)

\* transferFrom: the source must still be the object the item named.
transferFrom ==
  \E p \in Policy, unchanged \in BOOLEAN :
    Call("transferred", Overwrite, p = Overwrite /\ unchanged)

\* copy: a condition on the destination goes with one on the source.
copy ==
  \E p \in Policy, pinned \in BOOLEAN :
    Call("copied", p, (p # Overwrite) = pinned)

\* delete: of exactly the version seen, or of anything under an owned prefix.
delete ==
  \/ \E v \in Versions \ {0} : Call("deleted", {v}, TRUE)
  \/ \E owned \in BOOLEAN : Call("deleted", Overwrite, owned)

CallFiles == surface = Files /\ (upload \/ transferFrom \/ copy \/ delete)

upsert ==
  /\ surface = InMemory
  /\ \E valid \in BOOLEAN : Call("upserted", Overwrite, valid)

-----------------------------------------------------------------------------
(* The destination *)

Now == Len(effects) + foreign + 1

\* The write is applied; fate is what its caller gets to know of it.
Apply(fate) ==
  /\ write.pc = "request" /\ object \in write.for
  /\ object' = IF write.change = "deleted" THEN 0 ELSE Now
  /\ effects' = Append(effects, [change |-> write.change, version |-> Now,
                                 fate |-> fate])

WriteAnswered ==
  /\ Apply("answered")
  /\ write' = [write EXCEPT !.pc = IF write.change = "copied" THEN "head"
                                   ELSE "record"]
  /\ UNCHANGED <<surface, journal, foreign, sent>>

\* A FilesError says that the write took effect although the call failed.
WriteReported ==
  /\ surface = Files /\ Apply("reported")
  /\ write' = [write EXCEPT !.pc = "diagnose"]
  /\ UNCHANGED <<surface, journal, foreign, sent>>

\* A request that fails was applied or not; the caller cannot tell.
WriteUnanswered ==
  /\ surface # InMemory /\ Apply("lost")
  /\ write' = [write EXCEPT !.pc = "log"]
  /\ UNCHANGED <<surface, journal, foreign, sent>>

WriteFails ==
  /\ write.pc = "request"
  /\ write' = [write EXCEPT !.pc = "log"]
  /\ UNCHANGED <<surface, object, journal, effects, foreign, sent>>

WriteOfAnother ==
  /\ foreign < MaxForeign /\ surface # InMemory
  /\ object' = Now /\ foreign' = foreign + 1
  /\ UNCHANGED <<surface, journal, write, effects, sent>>

-----------------------------------------------------------------------------
(* Journal *)

Change(version) ==
  [kind |-> "change", change |-> write.change, version |-> version]
Diagnostic == [kind |-> "diagnostic"]

LastEffect == effects[Len(effects)]
Forgets(fate) == effects' = [effects EXCEPT ![Len(effects)].fate = fate]

\* MUTANT of RecordChange: a transfer is recorded once it is verified.
RecordVerified ==
  /\ write.pc = "record"
  /\ \E passed \in BOOLEAN :
       journal' = IF passed \/ write.change # "transferred"
                  THEN Append(journal, Change(LastEffect.version)) ELSE journal
  /\ write' = NoWrite
  /\ UNCHANGED <<surface, object, effects, foreign, sent>>

\* The answer is recorded at once; the checks of a transfer come afterwards.
RecordChange ==
  /\ write.pc = "record"
  /\ journal' = Append(journal, Change(IF write.change = "deleted" THEN Unknown
                                       ELSE LastEffect.version))
  /\ write' = IF write.change = "transferred" THEN [write EXCEPT !.pc = "verify"]
              ELSE NoWrite
  /\ UNCHANGED <<surface, object, effects, foreign, sent>>

\* The metadata of an answer does not decode ("invalid upload metadata",
\* "journal validation"): the call fails and nothing is recorded.
RecordRefused ==
  /\ surface = Files /\ write.pc \in {"record", "diagnose"}
  /\ Forgets("unreadable")
  /\ write' = NoWrite
  /\ UNCHANGED <<surface, object, journal, foreign, sent>>

\* transferFrom checks completeness, size, the source and the checksum; the
\* call succeeds or fails, the upload stays.
Verify ==
  /\ write.pc = "verify"
  /\ write' = NoWrite
  /\ UNCHANGED <<surface, object, journal, effects, foreign, sent>>

\* copy asks for the metadata of its copy and records it however that ends
\* (Effect.onExit): another writer may have replaced it by then.
RecordCopy ==
  /\ write.pc = "head"
  /\ \E version \in {object, Unknown} : journal' = Append(journal, Change(version))
  /\ write' = NoWrite
  /\ UNCHANGED <<surface, object, effects, foreign, sent>>

\* diagnose: a failure that reports its write records the change first, with
\* or without the etag.
diagnose ==
  /\ write.pc = "diagnose"
  /\ \E version \in {LastEffect.version, Unknown} :
       journal' = Append(journal, Change(version))
  /\ write' = [write EXCEPT !.pc = "log"]
  /\ UNCHANGED <<surface, object, effects, foreign, sent>>

logDiagnostic ==
  /\ write.pc = "log"
  /\ journal' = Append(journal, Diagnostic)
  /\ write' = NoWrite
  /\ UNCHANGED <<surface, object, effects, foreign, sent>>

\* The pipeline gives up on a call (a timeout of its own) and goes on: the
\* request may take effect all the same, and what was not recorded is lost,
\* except that a copy is recorded on the way out.
Interrupt ==
  /\ write # NoWrite /\ surface # InMemory
  /\ write' = NoWrite
  /\ \/ /\ Apply("interrupted")
        /\ UNCHANGED journal
     \/ /\ write.pc \in {"request", "verify", "log"}
        /\ UNCHANGED <<object, journal, effects>>
     \/ /\ write.pc \in {"record", "diagnose"}
        /\ Forgets("interrupted")
        /\ UNCHANGED <<object, journal>>
     \/ /\ write.pc = "head"
        /\ journal' = Append(journal, Change(Unknown))
        /\ UNCHANGED <<object, effects>>
  /\ UNCHANGED <<surface, foreign, sent>>

WriteNext ==
  \/ CallCommercetools \/ CallFiles \/ upsert
  \/ WriteAnswered \/ WriteReported \/ WriteUnanswered \/ WriteFails \/ WriteOfAnother
  \/ RecordChange \/ RecordRefused \/ Verify \/ RecordCopy \/ diagnose
  \/ logDiagnostic \/ Interrupt

WriteSpec == WriteInit /\ [][WriteNext]_writeVars

-----------------------------------------------------------------------------
(* The changes of the journal, the writes that were answered for or        *)
(* reported, and the place of one among its kind.                          *)
Changes == {n \in DOMAIN journal : journal[n].kind = "change"}
Known == {n \in DOMAIN effects : effects[n].fate \in {"answered", "reported"}}
Place(n, S) == Cardinality({m \in S : m <= n})

(***************************************************************************)
(* What a rollback has to go by: the changes in the journal are, in order  *)
(* and each once, the writes the destination answered for or reported,     *)
(* whatever failed after the write, with the version the write made        *)
(* unless the entry leaves it open or a copy was overwritten before it was *)
(* looked at; no failed or refused call is recorded as a change.           *)
(***************************************************************************)
JournalTellsWrites ==
  /\ Cardinality(Changes) <= Cardinality(Known)
  /\ write = NoWrite => Cardinality(Changes) = Cardinality(Known)
  /\ \A c \in Changes, k \in Known : Place(c, Changes) = Place(k, Known) =>
       /\ journal[c].change = effects[k].change
       /\ \/ journal[c].version \in {Unknown, effects[k].version}
          \/ effects[k].change = "copied" /\ foreign > 0
=============================================================================
