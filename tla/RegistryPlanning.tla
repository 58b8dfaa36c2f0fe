-------------------------- MODULE RegistryPlanning --------------------------
(***************************************************************************)
(* From a request to the definitions a run or rollback executes:           *)
(* construction of the registry and planning (migrate-sdk/src/domain/      *)
(* registry.ts), and the request validation and dependency preflight the   *)
(* executor repeats before it starts (services/migration-run-executor.ts). *)
(*                                                                         *)
(* Ordering is a depth-first visit, kept as a machine with its call stack. *)
(* Dependency lists and the registry are sets here: where the code follows *)
(* their order, any order is allowed.                                      *)
(***************************************************************************)
EXTENDS Naturals, Sequences, FiniteSets

CONSTANTS
    Definition,     \* registered migration definitions
    Unregistered,   \* an id that is not registered
    StackLimit      \* frames the JavaScript engine gives the visit

ASSUME UnregisteredIsNew == Unregistered \notin Definition
ASSUME DefinitionsFinite == IsFiniteSet(Definition)

VARIABLES
    registry,       \* required, optional, group, store; rollback, ready: sets
    request,        \* the input of planRun, planRollback or status
    phase,
    included,       \* includedDefinitionIds
    cyclic,         \* findOptionalDependencyCycle found one
    stack,          \* frames of visit: definition and dependencies left
    ordered,        \* orderedDefinitionIds
    facts           \* the store at the preflight: complete passes, item states

planVars == <<registry, request, phase, included, cyclic, stack, ordered, facts>>

DefinitionId == Definition \cup {Unregistered}
Visited == {ordered[i] : i \in 1..Len(ordered)}
NoFacts == [complete |-> {}, items |-> {}]

\* A request before its validation; rescan and the rest concern runs only.
PlainRequest == [kind |-> "run", forms |-> {"all"}, ids |-> {}, group |-> "g",
                 withDependencies |-> FALSE, force |-> FALSE, mode |-> "none",
                 update |-> FALSE, rescan |-> FALSE, rollbackOrphans |-> FALSE,
                 targets |-> "none", limit |-> "none"]

PlanInit ==
    /\ phase = "constructing" /\ included = {} /\ cyclic = FALSE
    /\ stack = <<>> /\ ordered = <<>> /\ facts = NoFacts

\* What the set from reaches along next, itself included.
Reached(next, from) ==
    LET step[n \in 0..Cardinality(Definition)] ==
          IF n = 0 THEN from
          ELSE step[n-1] \cup UNION {next[d] : d \in step[n-1] \cap Definition}
    IN step[Cardinality(Definition)]

HasCycle(next, within) ==
    \E d \in within : d \in Reached([x \in Definition |-> next[x] \cap within],
                                    next[d] \cap within)

Dependents == [d \in Definition |-> {x \in Definition : d \in registry.required[x]}]

-----------------------------------------------------------------------------
\* Construction: required dependencies are registered and have no cycle.
constructionIssues ==
    \/ \E d \in Definition : Unregistered \in registry.required[d]
    \/ HasCycle(registry.required, Definition)

Construct ==
    /\ phase = "constructing"
    /\ phase' = IF constructionIssues THEN "refused" ELSE "selecting"
    /\ UNCHANGED <<registry, request, included, cyclic, stack, ordered, facts>>

-----------------------------------------------------------------------------
\* Selection and the validation of the request.
groupMembers == {d \in Definition : registry.group[d] = request.group}

requestedDefinitionIds ==
    IF "all" \in request.forms THEN Definition
    ELSE IF "group" \in request.forms THEN groupMembers ELSE request.ids

SelectionAccepted ==
    /\ Cardinality(request.forms) = 1
    /\ requestedDefinitionIds # {}
    /\ requestedDefinitionIds \subseteq Definition

\* Exactly one explicitly named definition, and identities that parse.
TargetAccepted ==
    request.targets # "none" =>
        /\ request.forms = {"ids"} /\ Cardinality(request.ids) = 1
        /\ request.targets = "given"
        /\ IF request.kind = "rollback" THEN ~request.withDependencies
           ELSE request.mode \in {"none", "normal"}

Normal == request.mode \in {"none", "normal"}

UpdateAccepted == request.update => request.mode \notin {"failed", "skipped"}

RescanAccepted ==
    request.rescan => /\ ~request.update
                      /\ request.mode \notin {"failed", "skipped"}
                      /\ request.targets = "none"

RollbackOrphansAccepted ==
    request.rollbackOrphans => ~request.update /\ request.targets = "none" /\ Normal

\* runLimitValidationMessage, shared by the registry and the executor.
LimitAccepted ==
    request.limit # "none" =>
        /\ request.limit = "positive" /\ Normal
        /\ ~request.update /\ ~request.rollbackOrphans /\ request.targets = "none"

RunAccepted ==
    /\ UpdateAccepted /\ RescanAccepted /\ RollbackOrphansAccepted
    /\ request.mode # "item" /\ LimitAccepted

\* A status report names the required dependencies it wants, or asks for them.
ExplicitAccepted ==
    request.withDependencies \/ \A d \in requestedDefinitionIds :
                                    registry.required[d] \subseteq requestedDefinitionIds

RequestAccepted ==
    /\ SelectionAccepted
    /\ CASE request.kind = "run" -> RunAccepted /\ TargetAccepted
         [] request.kind = "rollback" -> TargetAccepted
         [] request.kind = "status" -> ExplicitAccepted
         [] request.kind = "messages" -> TRUE

\* Dependencies are added to a run, dependents to a rollback.
IncludedDefinitionIds ==
    IF ~request.withDependencies THEN requestedDefinitionIds
    ELSE Reached(IF request.kind = "rollback" THEN Dependents ELSE registry.required,
                 requestedDefinitionIds)

optionalDependencyCycle(ids) ==
    HasCycle([d \in Definition |-> registry.optional[d] \cap Definition], ids)

Select ==
    /\ phase = "selecting"
    /\ IF RequestAccepted
       THEN /\ included' = IncludedDefinitionIds
            /\ cyclic' = optionalDependencyCycle(IncludedDefinitionIds)
            /\ phase' = "ordering"
       ELSE phase' = "refused" /\ UNCHANGED <<included, cyclic>>
    /\ UNCHANGED <<registry, request, stack, ordered, facts>>

-----------------------------------------------------------------------------
\* orderDefinitionIds.
followed(d) ==
    (registry.required[d] \cup (IF cyclic THEN {} ELSE registry.optional[d]))
        \cap included

Frame(d) == [of |-> d, left |-> followed(d)]

VisitRoot(d) ==
    /\ phase = "ordering" /\ stack = <<>>
    /\ d \in included \ Visited
    /\ stack' = <<Frame(d)>>
    /\ UNCHANGED <<registry, request, phase, included, cyclic, ordered, facts>>

\* The loop over dependencies calls visit, which returns at once for a
\* definition that is in the order already.
VisitDependency(d) ==
    /\ phase = "ordering" /\ stack # <<>>
    /\ d \in Head(stack).left
    /\ LET rest == [Head(stack) EXCEPT !.left = @ \ {d}]
       IN IF d \in Visited
          THEN stack' = <<rest>> \o Tail(stack) /\ UNCHANGED phase
          ELSE IF Len(stack) < StackLimit
          THEN stack' = <<Frame(d), rest>> \o Tail(stack) /\ UNCHANGED phase
          ELSE phase' = "overflow" /\ UNCHANGED stack
    /\ UNCHANGED <<registry, request, included, cyclic, ordered, facts>>

\* MUTANT: a definition joins the order before its optional dependencies.
FinishEarly ==
    /\ phase = "ordering" /\ stack # <<>>
    /\ Head(stack).left \cap registry.required[Head(stack).of] = {}
    /\ ordered' = Append(ordered, Head(stack).of)
    /\ stack' = Tail(stack)
    /\ UNCHANGED <<registry, request, phase, included, cyclic, facts>>

\* The loop ends: the definition is visited and joins the order.
Finish ==
    /\ phase = "ordering" /\ stack # <<>>
    /\ Head(stack).left = {}
    /\ ordered' = Append(ordered, Head(stack).of)
    /\ stack' = Tail(stack)
    /\ UNCHANGED <<registry, request, phase, included, cyclic, facts>>

\* A rollback executes the order from its end.
executionDefinitionIds ==
    IF request.kind = "rollback"
    THEN [i \in 1..Len(ordered) |-> ordered[Len(ordered) + 1 - i]]
    ELSE ordered

\* validateRollbackOrphansDefinitions and validateExecutableDefinitions.
PlanAccepted ==
    /\ request.kind = "run" /\ request.rollbackOrphans
           => included \subseteq registry.rollback
    /\ request.kind \in {"run", "rollback"} => included \subseteq registry.ready

Planned ==
    /\ phase = "ordering" /\ stack = <<>> /\ included \subseteq Visited
    /\ phase' = IF ~PlanAccepted THEN "refused"
                ELSE IF request.kind \in {"run", "rollback"} THEN "planned"
                ELSE "reported"
    /\ UNCHANGED <<registry, request, included, cyclic, stack, ordered, facts>>

-----------------------------------------------------------------------------
\* The executor: the request again, the shared store, the preflight.

\* rollbackOrphans makes the plan a rescan.
plannedRescan == request.rollbackOrphans \/ request.rescan
plannedNormal == Normal /\ request.targets = "none"

\* The executor's mode is "item" for a targeted plan.
RequestPrepares ==
    request.kind = "run" =>
        /\ LimitAccepted
        /\ request.update => Normal \/ request.targets # "none"
        /\ plannedRescan => ~request.update /\ Normal
        /\ request.rollbackOrphans => ~request.update /\ Normal

SharedStore == \A d, x \in included : registry.store[d] = registry.store[x]

Prepare ==
    /\ phase = "planned"
    /\ phase' = IF ~RequestPrepares THEN "unprepared"
                ELSE IF ~SharedStore THEN "refused" ELSE "prepared"
    /\ UNCHANGED <<registry, request, included, cyclic, stack, ordered, facts>>

\* MUTANT: only the dependencies the plan itself names are checked.
PreflightDirect ==
    UNION {registry.required[d] : d \in included} \ included

\* Targets of requiredDependencyPreflight: dependencies outside the plan, and
\* theirs in turn.
requiredDependencyPreflight ==
    Reached([d \in Definition |-> registry.required[d] \ included],
            UNION {registry.required[d] \ included : d \in included})

\* Definitions that depend on one of the plan, through any other.
unsafeDependents ==
    Reached(Dependents, UNION {Dependents[d] : d \in included})

RollbackDependentsSafe ==
    \A x \in unsafeDependents :
        /\ \A d \in included : registry.store[x] = registry.store[d]
        /\ x \notin included => x \notin facts'.items

PreflightPasses ==
    IF request.kind = "run"
    THEN request.force \/
            /\ requiredDependencyPreflight \subseteq facts'.complete
            /\ request.rollbackOrphans => RollbackDependentsSafe
    ELSE /\ request.force \/ RollbackDependentsSafe
         /\ included \cap facts'.items \subseteq registry.rollback

Preflight(complete, items) ==
    /\ phase = "prepared"
    /\ facts' = [complete |-> complete, items |-> items]
    /\ phase' = IF PreflightPasses THEN "executing" ELSE "refused"
    /\ UNCHANGED <<registry, request, included, cyclic, stack, ordered>>

PlanNext ==
    \/ Construct \/ Select \/ Finish \/ Planned \/ Prepare
    \/ \E d \in Definition : VisitRoot(d) \/ VisitDependency(d)
    \/ \E complete, items \in SUBSET Definition : Preflight(complete, items)

PlanSpec == PlanInit /\ [][PlanNext]_planVars

-----------------------------------------------------------------------------
\* Properties.

\* The order names every included definition once, and each after what it
\* depends on: optional dependencies too, unless they form a cycle.  (What a
\* run executes is the order, what a rollback executes its reverse.)
DependenciesFirst ==
    phase \in {"planned", "reported", "prepared", "executing"} =>
        /\ Visited = included
        /\ \A i, j \in 1..Len(ordered) : ordered[i] = ordered[j] => i = j
        /\ \A i \in 1..Len(ordered) :
               followed(ordered[i]) \subseteq {ordered[j] : j \in 1..(i - 1)}

\* A run that executes unforced has every definition it depends on, however
\* indirectly, in its plan or completed; a rollback leaves no dependent of
\* what it removes with items.
NothingMissingBelow ==
    phase = "executing" /\ ~request.force =>
        IF request.kind = "run"
        THEN Reached(registry.required, included) \ included \subseteq facts.complete
        ELSE (Reached(Dependents, included) \ included) \cap facts.items = {}

\* src/docs/adr/0004-static-migration-definition-registry.md:29: "optional
\* dependency cycles do not fail construction or planning".
OptionalCyclesPlan == phase # "overflow"
=============================================================================
