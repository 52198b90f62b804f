---------------------------- MODULE WebSocketManager ----------------------------
(***************************************************************************)
(* The WebSocket manager: the connection pool, the broadcaster, and the     *)
(* connections, whose handlers run on the I/O threads of the HTTP server,   *)
(* one at a time for each connection (a strand). A connection's mutex is    *)
(* not recursive, and the handler that enqueues a message calls doWrite,    *)
(* which locks it again. As in main_integrated, the server is stopped       *)
(* before the manager.                                                      *)
(***************************************************************************)
EXTENDS MessageBroadcaster, Sequences

CONSTANTS
    maxConnections,   \* of the connection pool
    IoThreads         \* number of I/O threads

ASSUME ManagerAssumption ==
    /\ maxConnections \in Nat /\ IoThreads \in Nat \ {0}

VARIABLES
    socket,       \* the life of every connection
    connections,  \* connections_ of the pool
    posted,       \* messages posted to the strand of each connection, in order
    blocked,      \* connections whose handler waits for its own queueMutex_
    ended,        \* I/O threads that an exception has ended
    server,       \* "up", "joining" or "down"
    pooling,      \* running_ of the manager and of the pool
    handed        \* history: how often each connection was given each message

cvars == <<socket, connections, posted, blocked, ended, server, pooling, handed>>
wvars == <<bvars, cvars>>

(* isOpen_; and a handler of the connection is between its store of isOpen_ *)
(* and the call of the pool.                                               *)
IsOpen(c) == socket[c] \in {"opening", "open"}
Changing(c) == socket[c] \in {"opening", "closing"}
active == {c \in connections : IsOpen(c)}

(* The connections with a handler that has not returned, each on a thread.  *)
InHandler == blocked \cup {c \in Connection : Changing(c)}
ThreadFree == Cardinality(InHandler) + ended < IoThreads

(* An I/O thread is free, and no handler of the connection is running.      *)
Dispatch(c) == server = "up" /\ c \notin InHandler /\ ThreadFree

WTypeOK ==
    /\ BTypeOK
    /\ socket \in [Connection -> {"none", "handshake", "opening", "open", "closing", "closed"}]
    /\ connections \subseteq Connection
    /\ posted \in [Connection -> Seq(Message)]
    /\ blocked \subseteq Connection
    /\ ended \in Nat /\ Cardinality(InHandler) + ended <= IoThreads
    /\ server \in {"up", "joining", "down"}
    /\ pooling \in BOOLEAN
    /\ handed \in [Connection -> [Message -> Nat]]

WInit ==
    /\ BInit
    /\ socket = [c \in Connection |-> "none"]
    /\ connections = {}
    /\ posted = [c \in Connection |-> <<>>]
    /\ blocked = {} /\ ended = 0
    /\ server = "up" /\ pooling = TRUE
    /\ handed = [c \in Connection |-> [m \in Message |-> 0]]

-----------------------------------------------------------------------------
(* A session handler receives an upgrade request; handleUpgrade starts the  *)
(* handshake.                                                               *)
HandleUpgrade(c) ==
    /\ server = "up" /\ ThreadFree
    /\ socket[c] = "none"
    /\ socket' = [socket EXCEPT ![c] = "handshake"]
    /\ UNCHANGED <<bvars, connections, posted, blocked, ended, server, pooling, handed>>

(* onAccept opens the connection: from here on isOpen() is true.            *)
OnAccept(c) ==
    /\ Dispatch(c)
    /\ socket[c] = "handshake"
    /\ socket' = [socket EXCEPT ![c] = "opening"]
    /\ UNCHANGED <<bvars, connections, posted, blocked, ended, server, pooling, handed>>

(* The pool's addConnection throws when it is full.                         *)
HasRoom == Cardinality(connections) < maxConnections

(* Then onAccept adds it to the pool. A full pool throws out of the handler: *)
(* the connection is destroyed, and ioc->run() of this thread returns.      *)
AddConnection(c) ==
    /\ socket[c] = "opening"
    /\ \/ /\ HasRoom
          /\ connections' = connections \cup {c}
          /\ socket' = [socket EXCEPT ![c] = "open"]
          /\ UNCHANGED ended
       \/ /\ ~HasRoom
          /\ socket' = [socket EXCEPT ![c] = "closed"]
          /\ ended' = ended + 1
          /\ UNCHANGED connections
    /\ UNCHANGED <<bvars, posted, blocked, server, pooling, handed>>

(* handleError: recovery gives up at once, so whatever the error, the       *)
(* connection closes, and then leaves the pool.                             *)
HandleError(c) == socket' = [socket EXCEPT ![c] = "closing"]

(* onRead: the peer has closed, or reading fails.                           *)
OnRead(c) ==
    /\ Dispatch(c)
    /\ socket[c] = "open"
    /\ HandleError(c)
    /\ UNCHANGED <<bvars, connections, posted, blocked, ended, server, pooling, handed>>

RemoveConnection(c) ==
    /\ socket[c] = "closing"
    /\ connections' = connections \ {c}
    /\ socket' = [socket EXCEPT ![c] = "closed"]
    /\ UNCHANGED <<bvars, posted, blocked, ended, server, pooling, handed>>

(* A posted message: the handler locks queueMutex_, pushes, and calls       *)
(* doWrite (isWriting_ is never true here), which on an open connection     *)
(* locks queueMutex_ again.                                                 *)
RunPosted(c) ==
    /\ Dispatch(c)
    /\ posted[c] # <<>>
    /\ posted' = [posted EXCEPT ![c] = Tail(@)]
    /\ blocked' = IF IsOpen(c) THEN blocked \cup {c} ELSE blocked
    /\ UNCHANGED <<bvars, socket, connections, ended, server, pooling, handed>>

-----------------------------------------------------------------------------
(* The broadcaster sends to one connection: send posts the message, unless  *)
(* the connection has closed since the snapshot.                            *)
Send(m, c) ==
    /\ SendTo(m, c)
    /\ IF IsOpen(c)
       THEN /\ posted' = [posted EXCEPT ![c] = Append(@, m)]
            /\ handed' = [handed EXCEPT ![c][m] = @ + 1]
       ELSE UNCHANGED <<posted, handed>>
    /\ UNCHANGED <<socket, connections, blocked, ended, server, pooling>>

(* A step of the call that broadcasts m, by whichever thread.               *)
CallStep(m) ==
    \/ /\ \/ TestQueue(m) \/ Push(m) \/ TakeConnections(m, active) \/ Sent(m)
       /\ UNCHANGED cvars
    \/ \E c \in Connection : Send(m, c)

ProcessorStep(t) ==
    /\ TakeBatch(t) \/ Leave(t) \/ \E m \in Message : Process(t, m)
    /\ UNCHANGED cvars

(* A client calls the manager while it runs. *)
Broadcast(m) ==
    /\ pooling
    /\ Call(m)
    /\ UNCHANGED cvars

-----------------------------------------------------------------------------
(* HttpServer::stop stops the I/O context and joins its threads.            *)
StopServer ==
    /\ server = "up"
    /\ server' = "joining"
    /\ UNCHANGED <<bvars, socket, connections, posted, blocked, ended, pooling, handed>>

JoinServer ==
    /\ server = "joining"
    /\ InHandler = {}
    /\ server' = "down"
    /\ UNCHANGED <<bvars, socket, connections, posted, blocked, ended, pooling, handed>>

(* The manager clears its own running_ and stops the broadcaster, then the  *)
(* pool. The closes the pool posts never run: the I/O context has stopped.  *)
StopManager ==
    /\ server = "down" /\ pooling
    /\ StopBroadcaster
    /\ pooling' = FALSE
    /\ UNCHANGED <<socket, connections, posted, blocked, ended, server, handed>>

StopPool ==
    /\ ~running /\ stopper = "out"
    /\ connections # {}
    /\ connections' = {}
    /\ UNCHANGED <<bvars, socket, posted, blocked, ended, server, pooling, handed>>

StopStep ==
    \/ (Drained \/ Joined \/ ClearQueue) /\ UNCHANGED cvars
    \/ StopPool

PoolCall(c) == AddConnection(c) \/ RemoveConnection(c)
Handler(c) == OnAccept(c) \/ OnRead(c) \/ RunPosted(c) \/ PoolCall(c)

WNext ==
    \/ \E m \in Message : Broadcast(m) \/ CallStep(m)
    \/ \E t \in Processor : ProcessorStep(t)
    \/ \E c \in Connection : HandleUpgrade(c) \/ Handler(c)
    \/ StopServer \/ JoinServer \/ StopManager \/ StopStep

WSpec == WInit /\ [][WNext]_wvars

(* Threads are scheduled; a stop of the server is followed by a stop of the *)
(* manager.                                                                 *)
WFairSpec ==
    /\ WSpec
    /\ \A m \in Message : WF_wvars(CallStep(m))
    /\ \A t \in Processor : WF_wvars(ProcessorStep(t))
    /\ \A c \in Connection : WF_wvars(RunPosted(c)) /\ WF_wvars(PoolCall(c))
    /\ WF_wvars(JoinServer) /\ WF_wvars(StopManager) /\ WF_wvars(StopStep)

-----------------------------------------------------------------------------
(* However often a message goes through the queue, and whichever threads    *)
(* take it, no connection is given it twice.                                *)
HandedOnce == \A c \in Connection, m \in Message : handed[c][m] <= 1

(* While the manager runs, pool and open connections differ in those only   *)
(* of which a handler is between isOpen_ and the pool, no more than there    *)
(* are I/O threads: a lost connection leaves, one that does not fit is not  *)
(* left open.                                                              *)
PoolIsOpen ==
    /\ pooling => \A c \in Connection : Changing(c) \/ (c \in connections <=> IsOpen(c))
    /\ Cardinality(InHandler) + ended <= IoThreads

(* Once stop() of the broadcaster has joined, no processing thread has a    *)
(* message: nothing is sent to connections the pool is about to drop.       *)
StoppedIsQuiet ==
    ~running /\ stopper \in {"clearing", "out"} =>
        \A t \in Processor : Batch(t) = {} /\ Calls(t) = {}

(* stop() of the broadcaster returns, whatever its threads and clients do.  *)
BroadcasterStops == stopper = "draining" ~> stopper = "out"

(* "Message queuing and delivery guarantees": a queued message is given to  *)
(* the connections, unless the broadcaster stops.                           *)
QueuedIsSent == \A m \in Message : at[m] = "queued" ~> at[m] = "sent" \/ ~running

(* "Exit cleanly": the server's stop() joins its threads.                   *)
ServerStops == server = "joining" ~> server = "down"
=============================================================================
