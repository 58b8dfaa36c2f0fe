------------------------------- MODULE MCClients -------------------------------
(***************************************************************************)
(* TLC instance of the components that check something, prepare something  *)
(* or read something before they act: registry planning, the dashboard,    *)
(* dialogs and operations of the TUI, an observing CLI command, the        *)
(* sources, status scans, the destinations' journals and the Product Draft *)
(* imports.                                                                *)
(* They share no state: a behaviour exercises one of them and leaves the   *)
(* others where they are.                                                  *)
(***************************************************************************)
EXTENDS RegistryPlanning, TuiDashboard, TuiAnswers, TuiOperations,
        CliObservation, SourceWindows, StatusScan, ProductDraftImports,
        DestinationWrites

CONSTANT Families

VARIABLE family

clientVars == <<planVars, boardVars, answerVars, opVars, cliVars, sourceVars,
                importVars, writeVars, activityVars, scanVars, family>>

-----------------------------------------------------------------------------
(* Registries of three definitions, two of them in group "g".              *)

MCDefinition == 1..3
Edges(E) == [d \in MCDefinition |-> {e[2] : e \in {x \in E : x[1] = d}}]

MCRegistry(required, optional) ==
  [required |-> Edges(required), optional |-> Edges(optional),
   group |-> [d \in MCDefinition |-> IF d = 1 THEN "none" ELSE "g"],
   store |-> [d \in MCDefinition |-> 1],
   rollback |-> MCDefinition, ready |-> MCDefinition]

\* 2 depends on 1 or not, 3 on 2 or not; up to two optional dependencies,
\* which may close a cycle with each other or with the required ones.
Graphs ==
  {MCRegistry(R, O) : R \in SUBSET {<<2, 1>>, <<3, 2>>},
     O \in {X \in SUBSET {e \in MCDefinition \X MCDefinition : e[1] # e[2]} :
              Cardinality(X) <= 2}}

Unregisterable ==
  {MCRegistry({<<2, Unregistered>>}, {}), MCRegistry({<<1, 2>>, <<2, 1>>}, {})}

PlainRuns ==
  {[PlainRequest EXCEPT !.kind = k, !.withDependencies = w, !.forms = {"ids"},
                        !.ids = i] :
     k \in {"run", "rollback"}, w \in BOOLEAN, i \in {{1}, {3}, {1, 3}, {1, 2, 3}}}

\* One graph, a definition of another store that is not ready, and every
\* combination of what a request can say.
OneGraph ==
  {[MCRegistry({<<2, 1>>}, {}) EXCEPT !.rollback = r, !.ready = {1, 2},
                                      !.store[3] = 2] : r \in {{1, 2, 3}, {2}}}

AnyRequest ==
  {[PlainRequest EXCEPT !.kind = k, !.forms = f, !.ids = i, !.mode = m,
       !.update = u, !.rescan = s, !.rollbackOrphans = o, !.targets = t,
       !.limit = l, !.force = e] :
     k \in {"run", "status", "rollback", "messages"},
     f \in {{"ids"}, {"group"}, {}, {"all", "group"}}, i \in {{1}, {2}},
     m \in {"none", "normal", "failed", "skipped", "item"},
     u, s, o, e \in BOOLEAN, t \in {"none", "given"},
     l \in {"none", "positive"}}

PlanMC ==
  /\ PlanInit
  /\ \/ registry \in Graphs \cup Unregisterable /\ request \in PlainRuns
     \/ registry \in OneGraph /\ request \in AnyRequest

PlanIdle ==
  PlanInit /\ registry = MCRegistry({}, {}) /\ request = PlainRequest

-----------------------------------------------------------------------------
MCCsvFile ==
  {<<>>, <<<<0>>>>, <<<<0>>, <<1>>, <<2>>>>, <<<<0>>, <<2>>, <<2>>>>,
   <<<<0>>, <<1>>, <<>>, <<2>>, <<3>>>>, <<<<0>>, <<1, 1>>>>}

MCResource == {<<>>, <<<<1>>, <<2, 3>>>>, <<<<1, 2>>>>, <<<<1, 1>>>>}

BoardIdle == BoardInit /\ ~active /\ watch = "off"

OpIdle ==
  OpInit /\ world = [registry |-> 1, complete |-> FALSE, dependents |-> FALSE,
                     lock |-> 0, rollbacks |-> TRUE, changes |-> 0]

CliIdle ==
  /\ CliInit
  /\ cliCommand = CHOOSE c \in CliCommandLine :
       c.kind = "observe" /\ c.limitKept /\ ~c.plan /\ ~c.unmet /\ ~c.force

SourceIdle ==
  /\ SourceInit /\ sourceKind = "memory"
  /\ sourceOptions = [batchSize |-> 0, discovery |-> "full",
                      emptyRows |-> "skip", fingerprinted |-> TRUE,
                      filter |-> Row, version |-> "metadata"]

MCPosition == 1..3

ScanIdle ==
  /\ ScanInit /\ sourceEntries = [p \in Position |-> Gap]
  /\ itemStates = {}

ImportIdle == ImportInit /\ container = "absent"

WritesIdle == WriteInit /\ surface = InMemory

Chosen(name, init, idle) == IF family = name THEN init ELSE idle

MCInit ==
  /\ family \in Families
  /\ Chosen("plan", PlanMC, PlanIdle)
  /\ Chosen("board", BoardInit, BoardIdle)
  /\ AnswersInit
  /\ Chosen("operations", OpInit /\ world.lock = 1, OpIdle)
  /\ Chosen("cli", CliInit, CliIdle)
  /\ Chosen("source", SourceInit, SourceIdle)
  /\ Chosen("imports", ImportInit, ImportIdle)
  /\ Chosen("writes", WriteInit, WritesIdle)
  /\ ActivityInit
  /\ Chosen("scan", ScanInit, ScanIdle)

MCNext ==
  /\ \/ family = "plan" /\ PlanNext
        /\ UNCHANGED <<boardVars, answerVars, opVars, cliVars, sourceVars, importVars, writeVars, activityVars, scanVars>>
     \/ family = "board" /\ BoardNext
        /\ UNCHANGED <<planVars, answerVars, opVars, cliVars, sourceVars, importVars, writeVars, activityVars, scanVars>>
     \/ family = "answers" /\ AnswersNext
        /\ UNCHANGED <<planVars, boardVars, opVars, cliVars, sourceVars, importVars, writeVars, activityVars, scanVars>>
     \/ family = "operations" /\ OpNext
        /\ UNCHANGED <<planVars, boardVars, answerVars, cliVars, sourceVars, importVars, writeVars, activityVars, scanVars>>
     \/ family = "cli" /\ CliNext
        /\ UNCHANGED <<planVars, boardVars, answerVars, opVars, sourceVars, importVars, writeVars, activityVars, scanVars>>
     \/ family = "source" /\ SourceNext
        /\ UNCHANGED <<planVars, boardVars, answerVars, opVars, cliVars, importVars, writeVars, activityVars, scanVars>>
     \/ family = "imports" /\ ImportNext
        /\ UNCHANGED <<planVars, boardVars, answerVars, opVars, cliVars, sourceVars, writeVars, activityVars, scanVars>>
     \/ family = "writes" /\ WriteNext
        /\ UNCHANGED <<planVars, boardVars, answerVars, opVars, cliVars, sourceVars, importVars, activityVars, scanVars>>
     \/ family = "activity" /\ ActivityNext
        /\ UNCHANGED <<planVars, boardVars, answerVars, opVars, cliVars, sourceVars, importVars, writeVars, scanVars>>
     \/ family = "scan" /\ ScanNext
        /\ UNCHANGED <<planVars, boardVars, answerVars, opVars, cliVars, sourceVars, importVars, writeVars, activityVars>>
  /\ UNCHANGED family

\* Both readers of a source, the pass and the status scan, account for all of
\* it (PassCoversSource of SourceWindows, ScanReportsHold of StatusScan).
ReadersCoverSource == PassCoversSource /\ ScanReportsHold

MCSpec == MCInit /\ [][MCNext]_clientVars

\* No call breaks off: nothing the provider accepted goes unnamed.
UnbrokenSpec == MCInit /\ [][MCNext /\ forgotten' = {}]_clientVars
=============================================================================
