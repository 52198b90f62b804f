--------------------------- MODULE MessageBroadcaster ---------------------------
(***************************************************************************)
(* Broadcasts to the WebSocket connections. A broadcast that finds room in  *)
(* the queue is queued for the processing threads; otherwise it is sent by  *)
(* its caller. A processing thread handles a queued message by calling the  *)
(* same broadcast function again. All messages have the same priority, so   *)
(* the priority queue gives them out in no specified order. Connections     *)
(* have default filters: they want every message.                           *)
(***************************************************************************)
EXTENDS Naturals, FiniteSets

CONSTANTS
    Message,       \* messages; each is broadcast once by a client
    Processor,     \* processingThreads_
    Connection,
    Client,        \* stands for the thread of whoever broadcasts a message
    maxQueueSize,
    batchSize

ASSUME BroadcasterAssumption ==
    /\ Client \notin Processor
    /\ maxQueueSize \in Nat /\ batchSize \in Nat \ {0}
    /\ IsFiniteSet(Message)

VARIABLES
    running,    \* running_
    at,         \* where each message is
    by,         \* the thread that works on it
    rest,       \* the connections of the snapshot it was not sent to yet
    processor,  \* "loop" or "gone", for every processing thread
    stopper     \* where the thread in stop() is

bvars == <<running, at, by, rest, processor, stopper>>

InCall == {"called", "admitted", "direct", "sending"}
Place == InCall \cup {"new", "queued", "batch", "sent", "refused", "cleared"}

messageQueue == {m \in Message : at[m] = "queued"}
Batch(t) == {m \in Message : at[m] = "batch" /\ by[m] = t}
Calls(t) == {m \in Message : at[m] \in InCall /\ by[m] = t}

(* activeBroadcasts_ *)
activeBroadcasts == UNION {Calls(t) : t \in Processor}

BTypeOK ==
    /\ running \in BOOLEAN
    /\ at \in [Message -> Place]
    /\ by \in [Message -> Processor \cup {Client}]
    /\ rest \in [Message -> SUBSET Connection]
    /\ processor \in [Processor -> {"loop", "gone"}]
    /\ stopper \in {"out", "draining", "joining", "clearing"}

BInit ==
    /\ running = TRUE
    /\ at = [m \in Message |-> "new"]
    /\ by = [m \in Message |-> Client]
    /\ rest = [m \in Message |-> {}]
    /\ processor = [t \in Processor |-> "loop"]
    /\ stopper = "out"

Moves(m, place) ==
    /\ at' = [at EXCEPT ![m] = place]
    /\ UNCHANGED <<running, by, rest, processor, stopper>>

(* broadcastMessage, broadcastLogMessage, broadcastByMessageType: running_, *)
(* then isQueueFull and the push in two critical sections.                  *)
Call(m) ==
    /\ at[m] = "new"
    /\ Moves(m, IF running THEN "called" ELSE "refused")

TestQueue(m) ==
    /\ at[m] = "called"
    /\ Moves(m, IF Cardinality(messageQueue) >= maxQueueSize THEN "direct" ELSE "admitted")

Push(m) ==
    /\ at[m] = "admitted"
    /\ Moves(m, "queued")

(* The caller sends the message itself, to the connections open now.        *)
TakeConnections(m, active) ==
    /\ at[m] = "direct"
    /\ at' = [at EXCEPT ![m] = "sending"]
    /\ rest' = [rest EXCEPT ![m] = active]
    /\ UNCHANGED <<running, by, processor, stopper>>

(* Mutant: the connection is not taken off the list. *)
SendAgain(m, c) ==
    /\ at[m] = "sending" /\ c \in rest[m]
    /\ \E keep \in SUBSET {c} : rest' = [rest EXCEPT ![m] = (@ \ {c}) \cup keep]
    /\ UNCHANGED <<running, at, by, processor, stopper>>

SendTo(m, c) ==
    /\ at[m] = "sending" /\ c \in rest[m]
    /\ rest' = [rest EXCEPT ![m] = @ \ {c}]
    /\ UNCHANGED <<running, at, by, processor, stopper>>

Sent(m) ==
    /\ at[m] = "sending" /\ rest[m] = {}
    /\ Moves(m, "sent")

-----------------------------------------------------------------------------
(* processMessageQueue: one batch under the lock. *)
TakeBatch(t) ==
    /\ processor[t] = "loop"
    /\ Batch(t) = {} /\ Calls(t) = {}
    /\ running /\ messageQueue # {}
    /\ \E batch \in SUBSET messageQueue :
          /\ \/ Cardinality(batch) = batchSize
             \/ batch = messageQueue /\ Cardinality(batch) < batchSize
          /\ at' = [m \in Message |-> IF m \in batch THEN "batch" ELSE at[m]]
          /\ by' = [m \in Message |-> IF m \in batch THEN t ELSE by[m]]
    /\ UNCHANGED <<running, rest, processor, stopper>>

(* processQueuedMessage calls the broadcast function of the type, which     *)
(* looks at running_ again.                                                 *)
Process(t, m) ==
    /\ m \in Batch(t) /\ Calls(t) = {}
    /\ Moves(m, IF running THEN "called" ELSE "refused")

Leave(t) ==
    /\ processor[t] = "loop"
    /\ Batch(t) = {} /\ Calls(t) = {}
    /\ ~running
    /\ processor' = [processor EXCEPT ![t] = "gone"]
    /\ UNCHANGED <<running, at, by, rest, stopper>>

-----------------------------------------------------------------------------
(* stop. *)
StopBroadcaster ==
    /\ running /\ stopper = "out"
    /\ running' = FALSE
    /\ stopper' = "draining"
    /\ UNCHANGED <<at, by, rest, processor>>

Drained ==
    /\ stopper = "draining"
    /\ activeBroadcasts = {}
    /\ stopper' = "joining"
    /\ UNCHANGED <<running, at, by, rest, processor>>

(* Mutant: the threads are not joined. *)
JoinedNone ==
    /\ stopper = "joining"
    /\ stopper' = "clearing"
    /\ UNCHANGED <<running, at, by, rest, processor>>

(* Mutant: stop waits for the queue to become empty. *)
JoinedEmpty ==
    /\ stopper = "joining"
    /\ \A t \in Processor : processor[t] = "gone"
    /\ messageQueue = {}
    /\ stopper' = "clearing"
    /\ UNCHANGED <<running, at, by, rest, processor>>

Joined ==
    /\ stopper = "joining"
    /\ \A t \in Processor : processor[t] = "gone"
    /\ stopper' = "clearing"
    /\ UNCHANGED <<running, at, by, rest, processor>>

ClearQueue ==
    /\ stopper = "clearing"
    /\ at' = [m \in Message |-> IF at[m] = "queued" THEN "cleared" ELSE at[m]]
    /\ stopper' = "out"
    /\ UNCHANGED <<running, by, rest, processor>>
=============================================================================
