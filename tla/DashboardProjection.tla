------------------------- MODULE DashboardProjection -------------------------
(***************************************************************************)
(* The shared dashboard of the Migrate Server: the projection loop of      *)
(* server/service.ts, its invalidation queue and its subscribers, among    *)
(* them clients that concatenate dashboard leases (client/index.ts).       *)
(*                                                                         *)
(* content is what a durable read of the dashboard returns, as a           *)
(* fingerprint.  It changes by work of this server and by controls, which  *)
(* signal the change after making it; by a provider run, which signals     *)
(* only while a watcher follows it; and by other hosts, which do not.      *)
(***************************************************************************)
EXTENDS Naturals, Sequences

CONSTANTS
    Subscriber,   \* dashboard observers
    Fingerprint,  \* contents of the dashboard
    MaxChanges    \* bound on changes of the content

VARIABLES
    content,      \* fingerprint of the durable dashboard
    providerRun,  \* a provider run is active
    owed,         \* changes this server has made and not yet signalled
    unsignalled,  \* the content changed without a signal since the last read
    signal,       \* dashboardInvalidations, a sliding queue of one
    loop,         \* the projection loop
    watching,     \* a watcher follows the provider run
    subscriber,   \* subscriber[s]: subscription and what it was shown
    changes       \* changes so far

dashVars == <<content, providerRun, owed, unsignalled, signal, loop, watching,
              subscriber, changes>>
storeSide == <<content, providerRun, owed, changes>>

NoFingerprint == "none"

\* Before its first snapshot a reader has the fingerprint of no content.
ASSUME FingerprintAssumption == NoFingerprint \notin Fingerprint

Off == [pc |-> "off", read |-> NoFingerprint, sawRun |-> FALSE,
        last |-> NoFingerprint]
Unsubscribed == [on |-> FALSE, previous |-> NoFingerprint, queue |-> <<>>,
                 shown |-> NoFingerprint, leased |-> FALSE]

DashInit ==
    /\ content \in Fingerprint
    /\ providerRun \in BOOLEAN
    /\ owed = 0 /\ unsignalled = FALSE /\ signal = FALSE /\ watching = FALSE
    /\ loop = Off /\ changes = 0
    /\ subscriber \in [Subscriber -> {[Unsubscribed EXCEPT !.leased = b] : b \in BOOLEAN}]

anySubscribed == \E s \in Subscriber : subscriber[s].on

\* The content becomes another one.
Changes ==
    /\ changes < MaxChanges /\ changes' = changes + 1
    /\ content' \in Fingerprint \ {content}

-----------------------------------------------------------------------------
\* Changes of the durable state.

\* Progress, lifecycle events and successful controls of this server: the
\* store is written first, invalidateDashboard follows.
LocalChange ==
    /\ Changes /\ owed' = owed + 1
    /\ UNCHANGED <<providerRun, unsignalled, signal, loop, watching, subscriber>>

invalidateDashboard ==
    /\ owed > 0 /\ owed' = owed - 1 /\ signal' = TRUE
    /\ UNCHANGED <<content, providerRun, unsignalled, loop, watching, subscriber,
                   changes>>

\* watchDashboardRun: a checkpoint of a watched provider run, and its end.
ProviderChange ==
    /\ providerRun /\ Changes
    /\ providerRun' \in BOOLEAN
    /\ IF watching THEN owed' = owed + 1 /\ UNCHANGED unsignalled
                   ELSE unsignalled' = TRUE /\ UNCHANGED owed
    /\ UNCHANGED <<signal, loop, watching, subscriber>>

\* Another host works on its own or starts a provider run.
OtherHostChange ==
    /\ Changes /\ unsignalled' = TRUE
    /\ providerRun' \in {providerRun, TRUE}
    /\ UNCHANGED <<owed, signal, loop, watching, subscriber>>

-----------------------------------------------------------------------------
\* The projection loop, which runs while there is a subscriber.

\* The trigger is a signal or, after the fallback interval, the clock.
WaitForTrigger ==
    /\ loop.pc = "wait"
    /\ signal' \in {FALSE, signal}
    /\ loop' = [loop EXCEPT !.pc = "delay"]
    /\ UNCHANGED <<storeSide, unsignalled, watching, subscriber>>

\* Signals that came in during the delay are covered by the coming read.
DrainSignals ==
    /\ loop.pc \in {"initial", "delay"}
    /\ signal' = FALSE
    /\ loop' = [loop EXCEPT !.pc = "read"]
    /\ UNCHANGED <<storeSide, unsignalled, watching, subscriber>>

\* readDashboardSnapshot, under the read semaphore.
ReadDashboard ==
    /\ loop.pc = "read"
    /\ loop' = [loop EXCEPT !.pc = "publish", !.read = content,
                            !.sawRun = providerRun]
    /\ unsignalled' = FALSE
    /\ UNCHANGED <<storeSide, signal, watching, subscriber>>

\* observeDashboard: the queue of a subscriber slides, so it keeps the newest.
offered(sub, print) ==
    IF sub.on
      THEN [sub EXCEPT !.queue = <<[print |-> print, predates |-> FALSE]>>]
      ELSE sub

Projected ==
    /\ watching' = loop.sawRun
    /\ subscriber' = [s \in Subscriber |-> offered(subscriber[s], loop.read)]
    /\ loop' = [loop EXCEPT !.pc = "wait", !.read = NoFingerprint,
                            !.last = loop.read]

\* MUTANT: signals that arrived during the read are taken as answered.
ProjectAndDrain ==
    /\ loop.pc = "publish" /\ Projected /\ signal' = FALSE
    /\ UNCHANGED <<storeSide, unsignalled>>

\* reconcileDashboardRuns starts and ends watchers; the projection goes to
\* every subscriber.
Project ==
    /\ loop.pc = "publish" /\ Projected
    /\ UNCHANGED <<storeSide, unsignalled, signal>>

-----------------------------------------------------------------------------
\* Subscribers.

\* A subscription asks for a read that is newer than itself; the first one
\* starts the loop.  The shared stream replays its last projection, which
\* predates the subscription.  A reader that resumes names the fingerprint it
\* has; one that does not starts without.
Subscribe(s) ==
    /\ ~subscriber[s].on
    /\ \E print \in {subscriber[s].shown, NoFingerprint} :
         subscriber' = [subscriber EXCEPT
           ![s].on = TRUE, ![s].previous = print,
           ![s].queue = IF loop.last = NoFingerprint THEN <<>>
                        ELSE <<[print |-> loop.last, predates |-> TRUE]>>]
    /\ signal' = TRUE
    /\ loop' = IF anySubscribed THEN loop ELSE [Off EXCEPT !.pc = "initial"]
    /\ UNCHANGED <<storeSide, unsignalled, watching>>

\* Without subscribers the loop and its watchers end.
stopUnused(subs) ==
    IF \E s \in Subscriber : subs[s].on
      THEN UNCHANGED <<loop, watching>>
      ELSE loop' = Off /\ watching' = FALSE

\* A snapshot reaches the reader unless the subscription is newer than it or
\* the reader has it; a lease ends with the first snapshot it delivers.
Deliver(s) ==
    LET sub == subscriber[s]
        projection == Head(sub.queue)
        news == ~projection.predates /\ projection.print # sub.previous
    IN /\ sub.on /\ sub.queue # <<>>
       /\ subscriber' = [subscriber EXCEPT ![s] =
            [sub EXCEPT !.queue = <<>>,
               !.previous = IF projection.predates THEN @ ELSE projection.print,
               !.shown = IF news THEN projection.print ELSE @,
               !.on = ~(news /\ sub.leased)]]
       /\ stopUnused(subscriber')
       /\ UNCHANGED <<storeSide, unsignalled, signal>>

\* A lease that runs out, or an observer that leaves.
Unsubscribe(s) ==
    /\ subscriber[s].on
    /\ subscriber' = [subscriber EXCEPT ![s].on = FALSE, ![s].queue = <<>>]
    /\ stopUnused(subscriber')
    /\ UNCHANGED <<storeSide, unsignalled, signal>>

DashNext ==
    \/ LocalChange \/ invalidateDashboard \/ ProviderChange \/ OtherHostChange
    \/ WaitForTrigger \/ DrainSignals \/ ReadDashboard \/ Project
    \/ \E s \in Subscriber : Subscribe(s) \/ Deliver(s) \/ Unsubscribe(s)

DashSpec == DashInit /\ [][DashNext]_dashVars

-----------------------------------------------------------------------------
(***************************************************************************)
(* No signal is lost: while a subscriber shows something else than the     *)
(* store holds, and every change was signalled or is about to be, a read   *)
(* that will show it is already asked for or under way.  The subscriber    *)
(* does not depend on the fallback interval to catch up.                   *)
(***************************************************************************)
SignalledChangeUnderway ==
    \A s \in Subscriber :
        subscriber[s].on /\ subscriber[s].shown # content /\ ~unsignalled /\ owed = 0
            => \/ signal
               \/ loop.pc \in {"initial", "delay", "read"}
               \/ loop.pc = "publish" /\ loop.read = content
               \/ /\ subscriber[s].queue # <<>>
                  /\ Head(subscriber[s].queue).print = content
                  /\ ~Head(subscriber[s].queue).predates
=============================================================================
