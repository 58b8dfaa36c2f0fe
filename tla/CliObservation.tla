---------------------------- MODULE CliObservation ----------------------------
(***************************************************************************)
(* One invocation of `migrate run`, `migrate rollback` or `migrate runs    *)
(* observe` (packages/migrate-sdk/src/cli/command.ts): it connects to a    *)
(* Migrate Server, prepares and starts an operation, and follows the run   *)
(* in a child fiber while the main fiber listens for Ctrl+C.  At a Ctrl+C  *)
(* the operator continues, detaches or asks for a safe stop; the two       *)
(* fibers take turns in a critical section (terminalSection) so that what  *)
(* the command says last is one thing.  The server's run ends when it      *)
(* likes, and the start call and the observation stream may break at any   *)
(* time.  Progress rendering and texts are left out.                       *)
(***************************************************************************)
EXTENDS Naturals, Sequences

CONSTANTS
  MaxInterrupts       \* Ctrl+C presses of one invocation

VARIABLES
  cliCommand,         \* [kind, plan, tty, limit, unmet, force] given on the line
  cliMain,            \* where the main fiber is
  cliRun,             \* the run at the server: "none", "active" or an outcome
  startCall,          \* "unsent", "pending", "answered", "refused" or "lost"
  observation,        \* the observation fiber
  completion,         \* the detached or terminal event it consumed, or "none"
  observationFinished,\* the flag the main fiber asks before it speaks
  terminalSection,    \* who holds the one permit: "free" or "stop"
  interruptQueue,     \* Ctrl+C presses not yet taken
  pressed,            \* Ctrl+C presses so far
  endings,            \* the last words of the command, in order
  exitCode            \* 0, 1, 130 (cancelled), or 2 while it runs

cliVars == <<cliCommand, cliMain, cliRun, startCall, observation, completion,
             observationFinished, terminalSection, interruptQueue, pressed,
             endings, exitCode>>

CliOutcome == {"completed", "failed", "cancelled"}
CliEvent == CliOutcome \cup {"detached"}

(* The invocations: what differs between them is whether there is an       *)
(* operation to prepare, whether only its plan is wanted, and whether the  *)
(* operator can be asked.                                                  *)
CliCommandLine ==
  [kind: {"run", "observe"}, plan: BOOLEAN, tty: BOOLEAN, unmet: BOOLEAN,
   force: BOOLEAN, limitKept: BOOLEAN]

CliInit ==
  /\ cliCommand \in CliCommandLine
  /\ cliCommand.kind = "observe"
       => /\ ~cliCommand.plan /\ ~cliCommand.unmet
          /\ ~cliCommand.force /\ cliCommand.limitKept
  /\ cliMain = "connecting"
  /\ cliRun = IF cliCommand.kind = "observe" THEN "active" ELSE "none"
  /\ startCall = "unsent"
  /\ observation = "off"
  /\ completion = "none"
  /\ observationFinished = FALSE
  /\ terminalSection = "free"
  /\ interruptQueue = 0
  /\ pressed = 0
  /\ endings = <<>>
  /\ exitCode = 2

fiberVars == <<observation, completion, observationFinished>>
wireVars == <<cliRun, startCall>>
pressVars == <<interruptQueue, pressed>>

-----------------------------------------------------------------------------
(* How the command ends.  Leaving the connection scope disposes of the     *)
(* connection, and a child fiber still running ends with its parent.       *)

Successes == {"completed", "detached", "planned"}

ExitCodeOf(words) ==
  IF words \in Successes THEN 0 ELSE IF words = "cancelled" THEN 130 ELSE 1

Ends(words) ==
  /\ cliMain' = "exited"
  /\ endings' = Append(endings, words)
  /\ exitCode' = ExitCodeOf(words)
  /\ observation' = IF observation \in {"running", "ended", "broken"}
                      THEN "interrupted" ELSE observation

(* A report of the observation fiber: the words are out, the fiber is over *)
(* and the main fiber will join it.                                        *)
Reports(words) ==
  /\ endings' = Append(endings, words)
  /\ observation' = IF words \in Successes THEN "succeeded" ELSE "failed"

-----------------------------------------------------------------------------
(* Connecting and preparing.                                               *)

acquireCliMigrateConnection ==
  /\ cliMain = "connecting"
  /\ \/ /\ Ends("not connected")
        /\ UNCHANGED <<completion, observationFinished>>
     \/ /\ cliMain' = IF cliCommand.kind = "observe"
                        THEN "observing" ELSE "preparing"
        /\ observation' = IF cliCommand.kind = "observe" THEN "running" ELSE "off"
        /\ UNCHANGED <<completion, observationFinished, endings, exitCode>>
  /\ UNCHANGED <<cliCommand, wireVars, terminalSection, pressVars>>

(* A plan the server changed or refused ends the command; a plan-only      *)
(* invocation ends with the plan; unmet dependencies stop an unforced one. *)
prepareCliOperation ==
  /\ cliMain = "preparing"
  /\ \/ Ends("not planned")
     \/ ~cliCommand.limitKept /\ Ends("not planned")
     \/ cliCommand.limitKept /\ cliCommand.plan /\ Ends("planned")
     \/ /\ cliCommand.limitKept /\ ~cliCommand.plan
        /\ cliCommand.unmet /\ ~cliCommand.force
        /\ Ends("not planned")
  /\ UNCHANGED <<cliCommand, wireVars, completion, observationFinished,
                 terminalSection, pressVars>>

startPreparedOperation ==
  /\ cliMain = "preparing"
  /\ cliCommand.limitKept /\ ~cliCommand.plan
  /\ cliCommand.unmet => cliCommand.force
  /\ startCall' = "pending"
  /\ cliMain' = "starting"
  /\ UNCHANGED <<cliCommand, cliRun, fiberVars, terminalSection, pressVars,
                 endings, exitCode>>

-----------------------------------------------------------------------------
(* The server and the terminal.                                            *)

ServerStarts ==
  /\ startCall = "pending" /\ cliRun = "none" /\ cliMain # "exited"
  /\ cliRun' = "active"
  /\ UNCHANGED <<cliCommand, cliMain, startCall, fiberVars, terminalSection,
                 pressVars, endings, exitCode>>

ServerAnswers ==
  /\ startCall = "pending" /\ cliMain # "exited"
  /\ \/ cliRun # "none" /\ startCall' \in {"answered", "lost"}
     \/ cliRun = "none" /\ startCall' \in {"refused", "lost"}
  /\ UNCHANGED <<cliCommand, cliMain, cliRun, fiberVars, terminalSection,
                 pressVars, endings, exitCode>>

RunEnds ==
  /\ cliRun = "active" /\ cliMain # "exited"
  /\ cliRun' \in CliOutcome
  /\ UNCHANGED <<cliCommand, cliMain, startCall, fiberVars, terminalSection,
                 pressVars, endings, exitCode>>

(* The handler is installed around start and observation only.             *)
Press ==
  /\ cliMain \notin {"connecting", "preparing", "exited"}
  /\ pressed < MaxInterrupts
  /\ pressed' = pressed + 1
  /\ interruptQueue' = interruptQueue + 1
  /\ UNCHANGED <<cliCommand, cliMain, wireVars, fiberVars, terminalSection,
                 endings, exitCode>>

TakePress ==
  /\ interruptQueue > 0
  /\ interruptQueue' = interruptQueue - 1
  /\ UNCHANGED pressed

-----------------------------------------------------------------------------
(* Starting.  The first Ctrl+C waits for the answer, the second one, or    *)
(* the timeout, gives the wait up.                                         *)

Started ==
  /\ cliMain \in {"starting", "interrupted"} /\ startCall = "answered"
  /\ observation' = "running"
  /\ cliMain' = IF cliMain = "interrupted" THEN "choosing" ELSE "observing"
  /\ UNCHANGED <<cliCommand, wireVars, completion, observationFinished,
                 terminalSection, pressVars, endings, exitCode>>

InterruptStart ==
  /\ cliMain = "starting" /\ startCall \in {"pending", "answered"}
  /\ TakePress
  /\ cliMain' = "interrupted"
  /\ UNCHANGED <<cliCommand, wireVars, fiberVars, terminalSection, endings,
                 exitCode>>

StartFails ==
  /\ startCall \in {"refused", "lost"}
  /\ \/ cliMain = "starting" /\ Ends("start failed")
     \/ cliMain = "interrupted" /\ Ends("list active runs")
  /\ UNCHANGED <<cliCommand, wireVars, completion, observationFinished,
                 terminalSection, pressVars>>

GiveUpAcknowledgement ==
  /\ cliMain = "interrupted" /\ startCall \in {"pending", "answered"}
  /\ \/ TakePress
     \/ startCall = "pending" /\ UNCHANGED pressVars
  /\ Ends("list active runs")
  /\ UNCHANGED <<cliCommand, wireVars, completion, observationFinished,
                 terminalSection>>

-----------------------------------------------------------------------------
(* The observation fiber.                                                  *)

(* A terminal or detached event is recorded in the critical section, and   *)
(* only the end of the stream says it.                                     *)
ConsumeCompletion ==
  /\ observation = "running" /\ completion = "none"
  /\ terminalSection = "free"
  /\ \/ completion' = "detached"
     \/ cliRun \in CliOutcome /\ completion' = cliRun
  /\ observationFinished' = TRUE
  /\ UNCHANGED <<cliCommand, cliMain, wireVars, observation, terminalSection,
                 pressVars, endings, exitCode>>

StreamEnds ==
  /\ observation = "running"
  /\ observation' \in {"ended", "broken"}
  /\ UNCHANGED <<cliCommand, cliMain, wireVars, completion,
                 observationFinished, terminalSection, pressVars, endings,
                 exitCode>>

(* A broken stream is reported as an observation to repeat even after the  *)
(* terminal event; so is one that ends without that event.                 *)
ReportObservation ==
  /\ observation \in {"ended", "broken"}
  /\ terminalSection = "free"
  /\ observationFinished' = TRUE
  /\ Reports(IF observation = "broken" \/ completion = "none"
               THEN "observe again" ELSE completion)
  /\ UNCHANGED <<cliCommand, cliMain, wireVars, completion, terminalSection,
                 pressVars, exitCode>>

-----------------------------------------------------------------------------
(* The main fiber while it observes.                                       *)

(* The command ends as the observation did.                                *)
JoinObservation ==
  /\ cliMain \in {"observing", "choosing", "joining"}
  /\ observation \in {"succeeded", "failed"}
  /\ cliMain' = "exited"
  /\ exitCode' = ExitCodeOf(endings[Len(endings)])
  /\ UNCHANGED <<cliCommand, wireVars, fiberVars, terminalSection, pressVars,
                 endings>>

TakeInterrupt ==
  /\ cliMain = "observing"
  /\ TakePress
  /\ cliMain' = "choosing"
  /\ UNCHANGED <<cliCommand, wireVars, fiberVars, terminalSection, endings,
                 exitCode>>

(* Without a terminal to ask at, a Ctrl+C detaches.                        *)
ChooseContinue ==
  /\ cliMain = "choosing" /\ cliCommand.tty
  /\ cliMain' = "observing"
  /\ UNCHANGED <<cliCommand, wireVars, fiberVars, terminalSection, pressVars,
                 endings, exitCode>>

stopObservedMigrationRun ==
  /\ cliMain = "choosing" /\ cliCommand.tty
  /\ IF observationFinished
       THEN /\ cliMain' = "joining"
            /\ UNCHANGED terminalSection
       ELSE /\ cliMain' = "stopping"
            /\ terminalSection' = "stop"
  /\ UNCHANGED <<cliCommand, wireVars, fiberVars, pressVars, endings, exitCode>>

StopAnswered ==
  /\ cliMain = "stopping"
  /\ terminalSection' = "free"
  /\ \/ /\ cliMain' = "observing"
        /\ UNCHANGED <<observation, endings, exitCode>>
     \/ Ends("observe again")
  /\ UNCHANGED <<cliCommand, wireVars, completion, observationFinished,
                 pressVars>>

\* A detach that does not ask whether the observation is over (see
\* OneTrueEnding).
DetachAnyway ==
  /\ cliMain = "choosing"
  /\ Ends("detached")
  /\ UNCHANGED <<cliCommand, wireVars, completion, observationFinished,
                 terminalSection, pressVars>>

detachObservedMigrationRun ==
  /\ cliMain = "choosing"
  /\ IF observationFinished
       THEN /\ cliMain' = "joining"
            /\ UNCHANGED <<observation, endings, exitCode>>
       ELSE Ends("detached")
  /\ UNCHANGED <<cliCommand, wireVars, completion, observationFinished,
                 terminalSection, pressVars>>

CliNext ==
  \/ acquireCliMigrateConnection \/ prepareCliOperation \/ startPreparedOperation
  \/ ServerStarts \/ ServerAnswers \/ RunEnds \/ Press
  \/ Started \/ InterruptStart \/ StartFails \/ GiveUpAcknowledgement
  \/ ConsumeCompletion \/ StreamEnds \/ ReportObservation
  \/ JoinObservation \/ TakeInterrupt \/ ChooseContinue
  \/ stopObservedMigrationRun \/ StopAnswered \/ detachObservedMigrationRun

CliSpec == CliInit /\ [][CliNext]_cliVars

-----------------------------------------------------------------------------
(* A command that has exited said one last thing, and the thing is true:   *)
(* an outcome is the outcome of the run, "the run continues" was not said  *)
(* after the observation delivered its ending, and the exit code is zero   *)
(* for a completed run, a detached observation and a plan only.            *)
(* (consumeMigrationRunObservation, detachObservedMigrationRun)            *)
OneTrueEnding ==
  cliMain = "exited" =>
    /\ Len(endings) = 1
    /\ endings[1] \in CliOutcome => cliRun = endings[1]
    /\ endings[1] = "detached" => completion \in {"none", "detached"}
    /\ exitCode = 0 <=> endings[1] \in Successes

=============================================================================
