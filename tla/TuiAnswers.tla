----------------------------- MODULE TuiAnswers -----------------------------
(***************************************************************************)
(* Answers the terminal UI caches or shows beside the dashboard: messages  *)
(* of a definition (tui/src/use-migration-messages.ts), source item totals *)
(* (use-source-item-totals.ts) and the identity history of the selective   *)
(* dialog (app.tsx).  Each may arrive after what it answers has changed.   *)
(*                                                                         *)
(* The data behind the messages is a version; the UI sees of it only a     *)
(* fingerprint of run history and counts, so a version may look like an    *)
(* older one.                                                              *)
(***************************************************************************)
EXTENDS SessionActivity

CONSTANTS
    ListedDefinition,     \* migration definitions
    MaxVersion,     \* changes of the server's data
    MaxClears       \* refreshes and opened dialogs of one UI

VARIABLES
    version,        \* the server's data
    rows,           \* version shown by the dashboard, and since when it looks so
    revision,       \* session.revisions of the target
    entry,          \* session.entries of the target: status, messages, revision
    loading,        \* session.requests of the target: "none", or revision and answer
    totals,         \* cacheGenerationRef; generation the cached total was asked in
    asking,         \* requests for the total, and the one requestsRef registers
    effect,         \* the pending debounce timer and the generation it closes over
    dialog,         \* selectiveTarget, history shown, request in flight
    clears          \* clears and dialogs so far

answerVars == <<version, rows, revision, entry, loading, totals, asking, effect,
                dialog, clears>>

fingerprint(v) == v % 2
Nothing == "none"
NoEntry == [status |-> "not-loaded", of |-> 0, at |-> 0]
Quiet == [state |-> "none", of |-> 0, at |-> 0]

AnswersInit ==
    /\ version = 0
    /\ rows = [version |-> 0, since |-> 0]
    /\ revision = 1 /\ entry = NoEntry /\ loading = Quiet
    /\ totals = [generation |-> 0, cached |-> FALSE, askedIn |-> 0]
    /\ asking = [sent |-> {}, registered |-> {}]
    /\ effect = [state |-> "armed", closure |-> 0]
    /\ dialog = [target |-> Nothing, history |-> Nothing, asked |-> {}, current |-> 0]
    /\ clears = 0

messageVars == <<version, rows, revision, entry, loading>>
totalVars == <<totals, asking, effect>>

-----------------------------------------------------------------------------
\* Messages.

DataChanges ==
    /\ version < MaxVersion
    /\ version' = version + 1
    /\ UNCHANGED <<rows, revision, entry, loading, totalVars, dialog, clears>>

\* The effect on rows: another fingerprint advances the revision.
RowsShown ==
    /\ rows.version # version
    /\ LET changed == fingerprint(version) # fingerprint(rows.version)
       IN /\ rows' = [version |-> version,
                      since |-> IF changed THEN version ELSE rows.since]
          /\ revision' = IF changed THEN revision + 1 ELSE revision
    /\ UNCHANGED <<version, entry, loading, totalVars, dialog, clears>>

\* load: nothing to do for messages of this revision; a request in flight is
\* shared, whatever revision it was made for.
Load ==
    /\ ~(entry.status = "loaded" /\ entry.of = revision)
    /\ loading = Quiet
    /\ loading' = [state |-> "asked", of |-> revision, at |-> 0]
    /\ entry' = [status |-> "loading", of |-> revision, at |-> 0]
    /\ UNCHANGED <<version, rows, revision, totalVars, dialog, clears>>

LoadReads ==
    /\ loading.state = "asked"
    /\ loading' = [loading EXCEPT !.state = "read", !.at = version]
    /\ UNCHANGED <<version, rows, revision, entry, totalVars, dialog, clears>>

\* MUTANT: the messages are filed under the revision of their arrival.
LoadedNow ==
    /\ loading.state = "read"
    /\ loading' = Quiet
    /\ \/ entry' = [status |-> "loaded", of |-> revision, at |-> loading.at]
       \/ entry' = [status |-> "error", of |-> loading.of, at |-> 0]
    /\ UNCHANGED <<version, rows, revision, totalVars, dialog, clears>>

\* publish: filed under the revision of the request.
Loaded ==
    /\ loading.state = "read"
    /\ loading' = Quiet
    /\ \/ entry' = [status |-> "loaded", of |-> loading.of, at |-> loading.at]
       \/ entry' = [status |-> "error", of |-> loading.of, at |-> 0]
    /\ UNCHANGED <<version, rows, revision, totalVars, dialog, clears>>

\* The status shown for the target.
messagesStatus ==
    IF entry.status = "loaded" /\ entry.of # revision THEN "stale" ELSE entry.status

-----------------------------------------------------------------------------
\* Source item totals of the selected definition.

\* clear, called by a dashboard refresh: requests and totals are forgotten.
ClearTotals ==
    /\ clears < MaxClears /\ clears' = clears + 1
    /\ totals' = [generation |-> totals.generation + 1, cached |-> FALSE, askedIn |-> 0]
    /\ asking' = [asking EXCEPT !.registered = {}]
    /\ UNCHANGED <<messageVars, effect, dialog>>

\* The effect runs again when React has rendered the new cache generation.
EffectRuns ==
    /\ effect.closure # totals.generation
    /\ effect' = [state |-> IF totals.cached THEN "done" ELSE "armed",
                  closure |-> totals.generation]
    /\ UNCHANGED <<messageVars, totals, asking, dialog, clears>>

\* The timer: a registered request is joined, else one is made.
TimerAsks ==
    /\ effect.state = "armed"
    /\ effect' = [effect EXCEPT !.state = "done"]
    /\ LET request == [closure |-> effect.closure, sentIn |-> totals.generation]
       IN asking' = IF totals.cached \/ asking.registered # {} THEN asking
                    ELSE [sent |-> asking.sent \cup {request}, registered |-> {request}]
    /\ UNCHANGED <<messageVars, totals, dialog, clears>>

\* The answer is kept if its generation is still the current one; an error
\* leaves the total unknown.
TotalArrives(request) ==
    /\ request \in asking.sent
    /\ asking' = [sent |-> asking.sent \ {request},
                  registered |-> asking.registered \ {request}]
    /\ \/ UNCHANGED totals
       \/ /\ request.closure = totals.generation
          /\ totals' = [totals EXCEPT !.cached = TRUE, !.askedIn = request.sentIn]
    /\ UNCHANGED <<messageVars, effect, dialog, clears>>

-----------------------------------------------------------------------------
\* The selective dialog.

\* openSelectiveEntries and the effect that asks for the history.
OpenDialog(d) ==
    /\ dialog.target = Nothing /\ clears < MaxClears
    /\ clears' = clears + 1
    /\ dialog' = [target |-> d, history |-> Nothing, current |-> clears',
                  asked |-> dialog.asked \cup {[id |-> clears', of |-> d]}]
    /\ UNCHANGED <<messageVars, totalVars>>

\* cancelSelectiveRun: no request is current any more.
CancelDialog ==
    /\ dialog.target # Nothing
    /\ dialog' = [dialog EXCEPT !.target = Nothing, !.current = 0]
    /\ UNCHANGED <<messageVars, totalVars, clears>>

HistoryArrives(request) ==
    /\ request \in dialog.asked
    /\ dialog' = [dialog EXCEPT !.asked = @ \ {request},
         !.history = IF dialog.current = request.id THEN request.of ELSE @]
    /\ UNCHANGED <<messageVars, totalVars, clears>>

AnswersNext ==
    \/ DataChanges \/ RowsShown \/ Load \/ LoadReads \/ Loaded
    \/ ClearTotals \/ EffectRuns \/ TimerAsks
    \/ \E request \in asking.sent : TotalArrives(request)
    \/ \E d \in ListedDefinition : OpenDialog(d)
    \/ \E request \in dialog.asked : HistoryArrives(request)
    \/ CancelDialog

\* The answers and the session activity share nothing.
AnswersSpec ==
    /\ AnswersInit /\ ActivityInit
    /\ [][ \/ AnswersNext /\ UNCHANGED activityVars
           \/ ActivityNext /\ UNCHANGED answerVars ]_<<answerVars, activityVars>>

-----------------------------------------------------------------------------
(***************************************************************************)
(* What is shown answers what is asked now: messages called loaded were    *)
(* read at or after the change the rows show ("A -> B -> A must not revive *)
(* an old result"), a cached total was asked for after the last refresh,   *)
(* the history in the dialog is the selected definition's, and the session *)
(* activity tells how the runs it showed have ended.                       *)
(***************************************************************************)
AnswersAreCurrent ==
    /\ messagesStatus = "loaded" => entry.at >= rows.since
    /\ totals.cached => totals.askedIn = totals.generation
    /\ dialog.target # Nothing => dialog.history \in {Nothing, dialog.target}
    /\ ActivityTellsEnds
=============================================================================
