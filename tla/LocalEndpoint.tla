---------------------------- MODULE LocalEndpoint ----------------------------
(***************************************************************************)
(* How clients on one machine find, start and leave the local Migrate      *)
(* Server of a project (client/node): the published endpoint file, its     *)
(* removal through a claim, the start of a server by a client, and the end *)
(* of an idle server.                                                      *)
(*                                                                         *)
(* A server's endpoint file is first the private listener path, then the   *)
(* public one; a claimer renames it away before it decides.  On POSIX a    *)
(* file is known by its inode, which the file system may give out again    *)
(* once the file is gone; on Windows by its content, which is random.      *)
(***************************************************************************)
EXTENDS Naturals, FiniteSets

CONSTANTS
    Process,      \* clients
    Instance,     \* servers that may be started
    Inode,        \* inodes of the temporary directory
    MaxCrashes    \* servers that die, the earlier one included

VARIABLES
    platform,     \* "posix" or "win32"
    file,         \* file[s]: where the endpoint file of server s is
    inode,        \* inode[s], if s has had a file
    instance,     \* instance[s]: life of server s
    process,      \* process[c]: life of client c
    claim,        \* claim[x]: what claimer x renamed away, and expects
    displaced,    \* servers that lost the endpoint to another published one
    reused,       \* an inode was given out a second time
    crashes       \* crashes so far

endpointVars == <<platform, file, inode, instance, process, claim, displaced,
                  reused, crashes>>

Nobody == "nobody"
Unborn == [pc |-> "unborn", accepted |-> FALSE]
Gone == [Unborn EXCEPT !.pc = "gone"]
Outside == [pc |-> "reading", server |-> Nobody, child |-> Nobody]
Disconnected == [Outside EXCEPT !.pc = "disconnected"]
Unclaimed == [of |-> Nobody, expects |-> Nobody]
Claimer == Process \cup Instance

\* Clients and servers are different processes.
ASSUME ClaimerAssumption ==
    Process \cap Instance = {} /\ Nobody \notin Instance

\* Earlier servers are gone; one that died has left its endpoint file.
EndpointInit ==
    /\ platform \in {"posix", "win32"}
    /\ instance \in [Instance -> {Unborn, Gone}]
    /\ \E left \in SUBSET {s \in Instance : instance[s] = Gone}, i \in Inode :
         /\ Cardinality(left) <= 1
         /\ file = [s \in Instance |-> IF s \in left THEN "public" ELSE "none"]
         /\ inode = [s \in Instance |-> IF s \in left THEN i ELSE Nobody]
         /\ crashes = Cardinality(left)
    /\ process = [c \in Process |-> Outside]
    /\ claim = [x \in Claimer |-> Unclaimed]
    /\ displaced = {} /\ reused = FALSE

\* The server whose file is at the public path, if there is one.
published == {s \in Instance : file[s] = "public"}
exists == published # {}
identity(s) == IF platform = "win32" THEN s ELSE inode[s]

listening(s) == instance[s].pc \in {"serving", "checking"}
connected(s) == {c \in Process : process[c].pc = "connected" /\ process[c].server = s}

-----------------------------------------------------------------------------
\* Claiming and settling, by a client or by a leaving server.

\* claimLocalMigrateServerEndpoint: the rename, if the file is there.
claimed(x, expected) ==
    IF exists
      THEN LET s == CHOOSE s \in published : TRUE
           IN /\ file' = [file EXCEPT ![s] = "claimed"]
              /\ claim' = [claim EXCEPT ![x] = [of |-> s, expects |-> expected]]
      ELSE UNCHANGED <<file, claim>>

\* MUTANT: a claimed file is removed whoever it belongs to.
SettledUnverified(x) ==
    LET s == claim[x].of
    IN /\ claim' = [claim EXCEPT ![x] = Unclaimed]
       /\ file' = [file EXCEPT ![s] = "none"]
       /\ UNCHANGED displaced

\* settleLocalMigrateServerEndpointClaim: the file of somebody else goes back,
\* unless another server has published meanwhile.
settled(x) ==
    LET s == claim[x].of
        restore == identity(s) # claim[x].expects
    IN /\ claim' = [claim EXCEPT ![x] = Unclaimed]
       /\ file' = [file EXCEPT ![s] = IF restore /\ ~exists THEN "public" ELSE "none"]
       /\ displaced' = IF restore /\ exists THEN displaced \cup {s} ELSE displaced

-----------------------------------------------------------------------------
\* The server.

\* The listener is bound under a private name.
Listen(s) ==
    /\ instance[s].pc = "loading"
    /\ instance' = [instance EXCEPT ![s].pc = "bound"]
    /\ IF platform = "win32"
         THEN UNCHANGED <<inode, reused>>
         ELSE \E i \in Inode :
                /\ \A t \in Instance : file[t] # "none" => inode[t] # i
                /\ reused' = (reused \/ \E t \in Instance : inode[t] = i)
                /\ inode' = [inode EXCEPT ![s] = i]
    /\ file' = [file EXCEPT ![s] = "listener"]
    /\ UNCHANGED <<platform, process, claim, displaced, crashes>>

\* publishLocalMigrateServerPosixEndpoint and its Windows counterpart: a hard
\* link, which fails when the public path exists; the server then gives up.
Publish(s) ==
    /\ instance[s].pc = "bound"
    /\ IF exists
         THEN /\ instance' = [instance EXCEPT ![s] = Gone]
              /\ file' = [file EXCEPT ![s] = "none"]
         ELSE /\ instance' = [instance EXCEPT ![s].pc = "serving"]
              /\ file' = [file EXCEPT ![s] = "public"]
    /\ UNCHANGED <<platform, inode, process, claim, displaced, reused, crashes>>

\* waitForLocalMigrateServerIdle, one look at the clients.  A server none ever
\* reached leaves after a while; one whose clients have left asks for runs,
\* unless hasActiveExecutions() says so at once (the loop then goes round).
LookAtClients(s) ==
    /\ instance[s].pc = "serving"
    /\ \/ /\ connected(s) # {} /\ ~instance[s].accepted
          /\ instance' = [instance EXCEPT ![s].accepted = TRUE]
       \/ /\ connected(s) = {} /\ instance[s].accepted
          /\ instance' = [instance EXCEPT ![s].pc = "checking"]
       \/ /\ connected(s) = {} /\ ~instance[s].accepted
          /\ instance' = [instance EXCEPT ![s].pc = "leaving"]
    /\ UNCHANGED <<platform, file, inode, process, claim, displaced, reused, crashes>>

\* The answer of listActiveRuns, which takes time: clients may come and start
\* runs while it is read.
LookAtRuns(s) ==
    /\ instance[s].pc = "checking"
    /\ \E idle \in BOOLEAN :
         instance' = [instance EXCEPT ![s].pc = IF idle THEN "leaving" ELSE "serving"]
    /\ UNCHANGED <<platform, file, inode, process, claim, displaced, reused, crashes>>

\* The scope of the transport closes: the endpoint is released by claim, the
\* connections end, running executions are cancelled.
Leave(s) ==
    /\ instance[s].pc = "leaving" /\ claim[s] = Unclaimed
    /\ claimed(s, identity(s))
    /\ instance' = [instance EXCEPT ![s].pc = "closing"]
    /\ UNCHANGED <<platform, inode, process, displaced, reused, crashes>>

Dies(s) ==
    /\ instance' = [instance EXCEPT ![s] = Gone]
    /\ process' = [c \in Process |-> IF c \in connected(s)
                      THEN Disconnected ELSE process[c]]

LeaveSettles(s) ==
    /\ instance[s].pc = "closing"
    /\ IF claim[s] # Unclaimed THEN settled(s)
                               ELSE UNCHANGED <<file, claim, displaced>>
    /\ Dies(s)
    /\ UNCHANGED <<platform, inode, reused, crashes>>

\* A server that dies leaves its endpoint file where it is.
Crash(s) ==
    /\ instance[s].pc \notin {"unborn", "gone", "closing"} /\ crashes < MaxCrashes
    /\ crashes' = crashes + 1
    /\ Dies(s)
    /\ UNCHANGED <<platform, file, inode, claim, displaced, reused>>

-----------------------------------------------------------------------------
\* The client.

\* localEndpointTarget: what the public path names now.
ReadTarget(c) ==
    /\ process[c].pc \in {"reading", "polling"}
    /\ exists
    /\ \E s \in published :
         process' = [process EXCEPT ![c].server = s,
           ![c].pc = IF @ = "reading" THEN "connecting" ELSE "attempting"]
    /\ UNCHANGED <<platform, file, inode, instance, claim, displaced, reused, crashes>>

NoTarget(c) ==
    /\ process[c].pc = "reading" /\ ~exists
    /\ process' = [process EXCEPT ![c].pc = "starting"]
    /\ UNCHANGED <<platform, file, inode, instance, claim, displaced, reused, crashes>>

\* connectEndpoint: the socket reaches whoever listens behind the file that is
\* at the path now, on Windows whoever has the port that was read.
Connect(c) ==
    /\ process[c].pc \in {"connecting", "attempting"}
    /\ \E s \in IF platform = "win32" THEN {process[c].server} ELSE published :
         /\ listening(s)
         /\ process' = [process EXCEPT ![c] =
              [pc |-> "connected", server |-> s, child |-> Nobody]]
    /\ UNCHANGED <<platform, file, inode, instance, claim, displaced, reused, crashes>>

\* SocketOpenError: the endpoint the client had read is claimed for removal.
ConnectFails(c) ==
    /\ process[c].pc \in {"connecting", "attempting"}
    /\ \A s \in IF platform = "win32" THEN {process[c].server} ELSE published :
         ~listening(s)
    /\ claimed(c, identity(process[c].server))
    /\ process' = [process EXCEPT ![c].pc =
                     IF @ = "connecting" THEN "removing" ELSE "repolling"]
    /\ UNCHANGED <<platform, inode, instance, displaced, reused, crashes>>

RemoveSettles(c) ==
    /\ process[c].pc \in {"removing", "repolling"}
    /\ IF claim[c] # Unclaimed THEN settled(c)
                               ELSE UNCHANGED <<file, claim, displaced>>
    /\ process' = [process EXCEPT ![c].server = Nobody,
                     ![c].pc = IF @ = "removing" THEN "starting" ELSE "polling"]
    /\ UNCHANGED <<platform, inode, instance, reused, crashes>>

\* spawn, then poll every 50 ms.
Spawn(c) ==
    /\ process[c].pc = "starting"
    /\ \E s \in Instance : instance[s].pc = "unborn"
    /\ LET s == CHOOSE s \in Instance : instance[s].pc = "unborn"
       IN /\ instance' = [instance EXCEPT ![s].pc = "loading"]
          /\ process' = [process EXCEPT ![c].pc = "polling", ![c].child = s]
    /\ UNCHANGED <<platform, file, inode, claim, displaced, reused, crashes>>

\* The child is gone and the final attempt finds no endpoint, or the startup
\* time is over: the client kills its own child and reports the error.
StartupFails(c) ==
    /\ process[c].pc = "polling"
    /\ LET s == process[c].child
           ended == [process EXCEPT ![c] = [Outside EXCEPT !.pc = "failed"]]
       IN IF instance[s].pc = "gone"
            THEN process' = ended /\ UNCHANGED instance
            ELSE /\ instance' = [instance EXCEPT ![s] = Gone]
                 /\ process' = [d \in Process |-> IF d \in connected(s)
                                                   THEN Disconnected ELSE ended[d]]
    /\ UNCHANGED <<platform, file, inode, claim, displaced, reused, crashes>>

Disconnect(c) ==
    /\ process[c].pc = "connected"
    /\ process' = [process EXCEPT ![c] = Disconnected]
    /\ UNCHANGED <<platform, file, inode, instance, claim, displaced, reused, crashes>>

\* The user comes back.
Return(c) ==
    /\ process[c].pc = "disconnected"
    /\ process' = [process EXCEPT ![c] = Outside]
    /\ UNCHANGED <<platform, file, inode, instance, claim, displaced, reused, crashes>>

EndpointNext ==
    \/ \E s \in Instance :
         \/ Listen(s) \/ Publish(s) \/ LookAtClients(s) \/ LookAtRuns(s)
         \/ Leave(s) \/ LeaveSettles(s) \/ Crash(s)
    \/ \E c \in Process :
         \/ ReadTarget(c) \/ NoTarget(c) \/ Connect(c) \/ ConnectFails(c)
         \/ RemoveSettles(c) \/ Spawn(c) \/ StartupFails(c) \/ Disconnect(c)
         \/ Return(c)

EndpointSpec == EndpointInit /\ [][EndpointNext]_endpointVars

-----------------------------------------------------------------------------
(***************************************************************************)
(* A serving server stays reachable: its endpoint file is public, or a     *)
(* claimer holds it for a moment, or another server published in that      *)
(* moment.  No client that met a dead predecessor, and no predecessor that *)
(* is leaving, removes it (removeLocalMigrateServerEndpoint).  On POSIX    *)
(* this rests on inodes that are not given out again.                      *)
(***************************************************************************)
EndpointNotLost ==
    platform = "win32" \/ ~reused =>
        \A s \in Instance : listening(s) =>
            \/ file[s] = "public"
            \/ \E x \in Claimer : claim[x].of = s
            \/ s \in displaced
=============================================================================
