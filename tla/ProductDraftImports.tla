-------------------------- MODULE ProductDraftImports --------------------------
(***************************************************************************)
(* Product Draft imports through the commercetools Import API              *)
(* (commercetools/src/import-api) as a processBatch pipeline uses them:    *)
(* every item's journal says whether its product is submitted, awaited or  *)
(* left alone; a submission sends chunks and learns operation ids, but not *)
(* which id belongs to which product; polling correlates them by the       *)
(* resource key of the operation; at the deadline the ids that did not     *)
(* answer are kept as candidates.  Requests fail, answers get lost, and    *)
(* the process may die at any step.  Operation ids are the positions of    *)
(* the provider's list.                                                    *)
(***************************************************************************)
EXTENDS Naturals, FiniteSets, Sequences

CONSTANTS
  Product,            \* product keys, a set of numbers (submission order)
  ChunkLimit,         \* most resources of a request; large ones make it fewer
  MaxOperations,      \* operations the provider ever creates
  MaxBatches          \* processBatch calls

ASSUME ProductAssumption == IsFiniteSet(Product) /\ Product \subseteq Nat
ASSUME ChunkLimitAssumption == ChunkLimit \in Nat

VARIABLES
  container,          \* the Import Container: "absent", "fits", "unfit"
  operations,         \* the provider's operations: [product, state]
  journals,           \* journals[p]: the item's import-operation extension
  batch,              \* the processBatch call under way
  forgotten,          \* history: operations a broken-off call left unnamed
  mistaken,           \* history: candidates given up for an older operation
  batches             \* processBatch calls so far

importVars == <<container, operations, journals, batch, forgotten, mistaken,
                batches>>

NoJournal == [state |-> "none"]
NoFunction == [x \in {} |-> {}]

NoPoll == [ids |-> {}, keys |-> {}, idsOf |-> NoFunction,
           keysOf |-> NoFunction, seen |-> NoFunction]

\* phase: idle, create, resume, await, submit, poll, settle
NoBatch == [phase |-> "idle", items |-> {}, chunks |-> <<>>, poll |-> NoPoll,
            outcomes |-> NoFunction, created |-> {}]

Override(f, g) ==
  [x \in DOMAIN f \cup DOMAIN g |-> IF x \in DOMAIN g THEN g[x] ELSE f[x]]

isPendingState(state) == state = "processing"

-----------------------------------------------------------------------------
(* The journal keeps an outcome as it is (journalValueFromOutcome).        *)
(*   processing, imported, failed: the id of the product's own operation   *)
(*   pollFailed:        candidate ids and the products they may belong to  *)
(*   submissionFailed:  whether the request is known to be refused         *)

Reported(state, id) == [state |-> state, ids |-> {id}]
PollFailed(ids, group) == [state |-> "pollFailed", ids |-> ids, group |-> group]
SubmissionFailed(acceptance) ==
  [state |-> "submissionFailed", acceptance |-> acceptance]

\* A submission without an answer is repeated (see NoRivalImports).
ResumeUnanswered(value) ==
  IF value.state \in {"processing", "pollFailed"} THEN "await" ELSE "submit"

resumeFromExtensionValue(value) ==
  CASE \/ value.state = "processing"
       \/ value.state = "pollFailed" /\ value.ids # {} -> "await"
    [] \/ value.state = "pollFailed" /\ value.ids = {}
       \/ value.state = "submissionFailed" /\ value.acceptance = "unknown" ->
         "blocked"
    [] OTHER -> "submit"

(* The products the candidate ids of a waiting product may belong to.      *)
CandidateGroup(p) ==
  IF journals[p].state = "pollFailed" THEN journals[p].group ELSE {p}

-----------------------------------------------------------------------------
(* The Import Container, ensured before the batches: an existing one must  *)
(* have the resource type and a lifetime left.                             *)

ensure ==
  /\ batch.phase = "idle" /\ batches < MaxBatches
  /\ batches' = batches + 1
  /\ \E items \in (SUBSET Product) \ {{}} :
       batch' = CASE container = "absent" ->
                       [NoBatch EXCEPT !.phase = "create", !.items = items]
                  [] container = "fits" ->
                       [NoBatch EXCEPT !.phase = "resume", !.items = items]
                  [] OTHER -> NoBatch
  /\ UNCHANGED <<container, operations, journals, forgotten, mistaken>>

(* A key that exists by now is refused: the call fails, the next finds it. *)
create ==
  /\ batch.phase = "create"
  /\ IF container = "absent"
     THEN /\ container' = "fits"
          /\ batch' = [batch EXCEPT !.phase = "resume"]
     ELSE batch' = NoBatch /\ UNCHANGED container
  /\ UNCHANGED <<operations, journals, forgotten, mistaken, batches>>

SomeoneCreates ==
  /\ batch.phase = "create" /\ container = "absent"
  /\ container' \in {"fits", "unfit"}
  /\ UNCHANGED <<operations, journals, batch, forgotten, mistaken, batches>>

-----------------------------------------------------------------------------
(* The pipeline reads the journals, awaits, submits, polls and settles.    *)

chunkResources(fresh, size) ==
  LET Rank(p) == Cardinality({q \in fresh : q < p})
      count == (Cardinality(fresh) + size - 1) \div size
  IN  [k \in 1..count |-> {p \in fresh : Rank(p) \div size = k - 1}]

(* One poll for the awaited products: an id may belong to every product of *)
(* every group that names it.                                              *)
validateAwaitInput(awaited) ==
  LET ids == UNION {journals[p].ids : p \in awaited}
  IN  [ids |-> ids, keys |-> awaited,
       idsOf |-> [p \in awaited |-> journals[p].ids],
       keysOf |-> [id \in ids |-> UNION {CandidateGroup(p) :
                     p \in {q \in awaited : id \in journals[q].ids}}],
       seen |-> NoFunction]

resumeFromJournal ==
  /\ batch.phase = "resume"
  /\ LET Resuming(kind) == {p \in batch.items :
           resumeFromExtensionValue(journals[p]) = kind}
     IN  \E size \in 1..ChunkLimit :
           batch' = [batch EXCEPT
             !.phase = IF Resuming("await") = {} THEN "submit" ELSE "await",
             !.poll = validateAwaitInput(Resuming("await")),
             !.chunks = chunkResources(Resuming("submit"), size),
             !.outcomes = [p \in Resuming("blocked") |-> journals[p]]]
  /\ UNCHANGED <<container, operations, journals, forgotten, mistaken, batches>>

(* A call that ends without its settlements: a crash or a contract error.  *)
(* What it submitted is named by no journal.                               *)
BreaksOff ==
  /\ batch' = NoBatch
  /\ forgotten' = forgotten \cup batch.created
  /\ UNCHANGED <<container, operations, journals, mistaken, batches>>

Crash == batch.phase # "idle" /\ BreaksOff

(* Chunks are disjoint and sent concurrently; here one after another.  An  *)
(* accepted chunk answers with its ids, which are candidates of all its    *)
(* products.  A refused one (4xx) created nothing.  Without an answer the  *)
(* chunk may or may not have been taken.                                   *)
Creates(chunk) ==
  \E first \in [chunk -> {"processing", "failed"}] :
    operations' = operations \o
      [i \in 1..Cardinality(chunk) |->
         LET p == CHOOSE q \in chunk : Cardinality({r \in chunk : r < q}) = i - 1
         IN  [product |-> p, state |-> first[p]]]

NewIds(chunk) ==
  (Len(operations) + 1)..(Len(operations) + Cardinality(chunk))

Sent(chunk, outcomes, poll) ==
  batch' = [batch EXCEPT !.chunks = Tail(@),
                         !.outcomes = Override(@, outcomes),
                         !.poll = poll,
                         !.created = @ \cup NewIds(chunk)]

Unsent(chunk, acceptance) ==
  batch' = [batch EXCEPT !.chunks = Tail(@),
     !.outcomes = Override(@, [p \in chunk |-> SubmissionFailed(acceptance)])]

submitAccepted(chunk) ==
  /\ Creates(chunk)
  /\ LET ids == NewIds(chunk)
     IN  Sent(chunk, NoFunction,
           [batch.poll EXCEPT
             !.ids = @ \cup ids, !.keys = @ \cup chunk,
             !.idsOf = Override(@, [p \in chunk |-> ids]),
             !.keysOf = Override(@, [id \in ids |-> chunk])])

submitUnanswered(chunk) ==
  \/ /\ Creates(chunk)
     /\ Sent(chunk, [p \in chunk |-> SubmissionFailed("unknown")], batch.poll)
  \/ Unsent(chunk, "unknown") /\ UNCHANGED operations

submitAndAwait ==
  /\ batch.phase = "submit" /\ batch.chunks # <<>>
  /\ LET chunk == Head(batch.chunks)
     IN  /\ Len(operations) + Cardinality(chunk) <= MaxOperations
         /\ \/ submitAccepted(chunk)
            \/ submitUnanswered(chunk)
            \/ Unsent(chunk, "not-accepted") /\ UNCHANGED operations
  /\ UNCHANGED <<container, journals, forgotten, mistaken, batches>>

(* A response with missing, duplicate or too few ids aborts the call,      *)
(* whatever the other chunks were answered (validateSubmissionResponse).   *)
SubmissionUncorrelated ==
  /\ batch.phase = "submit" /\ batch.chunks = <<>> /\ batch.created # {}
  /\ BreaksOff

PollSubmitted ==
  /\ batch.phase = "submit" /\ batch.chunks = <<>>
  /\ batch' = [batch EXCEPT !.phase = IF batch.poll.ids = {} THEN "settle"
                                      ELSE "poll"]
  /\ UNCHANGED <<container, operations, journals, forgotten, mistaken, batches>>

-----------------------------------------------------------------------------
(* Polling, the same for awaited and for submitted operations.  A round    *)
(* asks for every id that is unknown or was pending when last seen; a      *)
(* request that fails leaves what was seen before.                         *)

PollPending(poll) ==
  {id \in poll.ids : id \in DOMAIN poll.seen => isPendingState(poll.seen[id])}

(* Contract errors: two operations of one product, an operation of a       *)
(* product no group names, or a product that none of them is for.          *)
PollContradicts(seen) ==
  \/ \E id, other \in DOMAIN seen :
       id # other /\ operations[id].product = operations[other].product
  \/ \E id \in DOMAIN seen : operations[id].product \notin batch.poll.keysOf[id]
  \/ /\ \A id \in batch.poll.ids : id \in DOMAIN seen /\ ~isPendingState(seen[id])
     /\ ~(batch.poll.keys \subseteq {operations[id].product : id \in DOMAIN seen})

PollRound ==
  /\ batch.phase \in {"await", "poll"}
  /\ \E failing \in SUBSET PollPending(batch.poll) :
       LET answers == [id \in PollPending(batch.poll) \ failing |->
                         operations[id].state]
           seen == Override(batch.poll.seen, answers)
       IN  IF PollContradicts(seen) THEN BreaksOff
           ELSE /\ batch' = [batch EXCEPT !.poll.seen = seen]
                /\ UNCHANGED <<container, operations, journals, forgotten,
                               mistaken, batches>>

OutcomesSeen ==
  [p \in {operations[id].product : id \in DOMAIN batch.poll.seen}
           \cap batch.poll.keys |->
     LET id == CHOOSE i \in DOMAIN batch.poll.seen : operations[i].product = p
     IN  Reported(batch.poll.seen[id], id)]

(* What the deadline leaves of a product without outcome: an id that can   *)
(* only be its own, else those of its candidates that never answered.      *)
AtDeadline(p) ==
  LET missing == PollPending(batch.poll) \ DOMAIN batch.poll.seen
      exact == {id \in missing : batch.poll.keysOf[id] = {p}}
      ids == IF exact # {} THEN {CHOOSE id \in exact : TRUE}
             ELSE batch.poll.idsOf[p] \cap missing
  IN  PollFailed(ids, UNION {batch.poll.keysOf[id] : id \in ids})

(* Every operation is over, or the deadline has passed.                    *)
PollEnds ==
  /\ batch.phase \in {"await", "poll"}
  /\ batch' = [batch EXCEPT
       !.outcomes = Override(@, Override(
           [p \in batch.poll.keys |-> AtDeadline(p)], OutcomesSeen)),
       !.poll = NoPoll,
       !.phase = IF @ = "await" THEN "submit" ELSE "settle"]
  /\ UNCHANGED <<container, operations, journals, forgotten, mistaken, batches>>

(* The settlements run one by one; each stores its item with the journal.  *)
(* An awaited product can have got as its outcome an operation its own     *)
(* journal does not name, seen through the candidates of another product:  *)
(* its own candidates are then given up without an answer.                 *)
GivenUp(journal, outcome) ==
  IF /\ journal.state \in {"processing", "pollFailed"}
     /\ journal.ids \cap outcome.ids = {}
  THEN journal.ids ELSE {}

recordOperationOutcome(p) ==
  /\ batch.phase = "settle" /\ p \in DOMAIN batch.outcomes
  /\ journals' = [journals EXCEPT ![p] = batch.outcomes[p]]
  /\ mistaken' = mistaken \cup GivenUp(journals[p], batch.outcomes[p])
  /\ LET rest == DOMAIN batch.outcomes \ {p}
     IN  batch' = IF rest = {} THEN NoBatch
                  ELSE [batch EXCEPT
                    !.outcomes = [q \in rest |-> batch.outcomes[q]],
                    !.created = {id \in @ : operations[id].product # p}]
  /\ UNCHANGED <<container, operations, forgotten, batches>>

-----------------------------------------------------------------------------
OperationEnds(id) ==
  /\ isPendingState(operations[id].state)
  /\ operations' = [operations EXCEPT ![id].state = "imported"]
     \/ operations' = [operations EXCEPT ![id].state = "failed"]
  /\ UNCHANGED <<container, journals, batch, forgotten, mistaken, batches>>

ImportInit ==
  /\ container \in {"absent", "fits", "unfit"}
  /\ operations = <<>>
  /\ journals = [p \in Product |-> NoJournal]
  /\ batch = NoBatch
  /\ forgotten = {}
  /\ mistaken = {}
  /\ batches = 0

ImportNext ==
  \/ ensure
  \/ create
  \/ SomeoneCreates
  \/ resumeFromJournal
  \/ submitAndAwait
  \/ SubmissionUncorrelated
  \/ PollSubmitted
  \/ PollRound
  \/ PollEnds
  \/ \E p \in Product : recordOperationOutcome(p)
  \/ Crash
  \/ \E id \in DOMAIN operations : OperationEnds(id)

ImportSpec == ImportInit /\ [][ImportNext]_importVars

-----------------------------------------------------------------------------
RivalsOnlyOf(abandoned) ==
  \A id, later \in DOMAIN operations :
    (/\ id < later
     /\ operations[id].product = operations[later].product
     /\ isPendingState(operations[id].state)
     /\ isPendingState(operations[later].state)) => id \in abandoned

(* Two operations of one product are never under way together, unless the  *)
(* older one was abandoned: the call that submitted it broke off before    *)
(* its settlement, or it was given up for an operation seen through the    *)
(* candidates of another product.  Otherwise a pending operation, a        *)
(* candidate whose status never answered and a submission without an       *)
(* answer all keep their product from being sent again.  What a journal    *)
(* reports as its product's operation is one.                              *)
NoRivalImports ==
  /\ RivalsOnlyOf(forgotten \cup mistaken)
  /\ \A p \in Product : journals[p].state \in {"processing", "imported", "failed"}
       => \A id \in journals[p].ids : operations[id].product = p

(* docs/import-api.md: pending operation ids and accepted polling failures *)
(* are awaited by a later run "instead of submitting the same Product      *)
(* Draft again", so that only a stop before the settlement makes rivals.   *)
AcceptedNotResubmitted == RivalsOnlyOf(forgotten)
=============================================================================
