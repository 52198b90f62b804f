------------------------ MODULE DatabaseConnectionPool ------------------------
(***************************************************************************)
(* The pool of PostgreSQL connections: borrowers (the queries of the        *)
(* database manager), the health-check thread, and the shutdown.            *)
(*                                                                          *)
(* Every wait of the pool has a deadline and wake-ups may be spurious, so a *)
(* waiting borrower may look at the pool at any time; notifications change  *)
(* only when it does.                                                       *)
(***************************************************************************)
EXTENDS QueueFilter, SequencesExt

CONSTANTS
    Client,          \* threads that run queries
    Conn,            \* connections; one that nobody refers to can be new again
    minConnections,
    maxConnections,
    HealthChecks,    \* enableHealthChecks
    QueriesFail,     \* whether a query may throw
    Shutdown         \* whether the pool is shut down

ASSUME PoolAssumption ==
    /\ minConnections \in Nat /\ maxConnections \in Nat
    /\ minConnections <= maxConnections
    /\ HealthChecks \in BOOLEAN /\ QueriesFail \in BOOLEAN /\ Shutdown \in BOOLEAN

VARIABLES
    idleConnections,   \* the queue of idle connections
    activeConnections, \* the connections the pool counts as lent
    client,            \* where each client is in a query
    conn,              \* the connection it uses
    shutdown,          \* shutdown_
    closing,           \* progress of gracefulShutdown and what it returned
    health,            \* where the health thread is in its pass
    snapshot,          \* idleSnapshot of the pass
    resize             \* connectionsToCreate and connectionsToRemove

clientVars == <<client, conn>>
healthVars == <<health, snapshot, resize>>
poolVars == <<idleConnections, activeConnections, clientVars, shutdown, closing, healthVars>>

NoConn == "none"
NoResize == [create |-> 0, remove |-> 0]

Lent == {conn[c] : c \in {d \in Client : client[d] = "using"}}
Idle == ToSet(idleConnections)
Fresh == Conn \ (Idle \cup activeConnections \cup Lent \cup ToSet(snapshot))

PoolTypeOK ==
    /\ idleConnections \in Seq(Conn)
    /\ activeConnections \in SUBSET Conn
    /\ client \in [Client -> {"out", "waiting", "creating", "using"}]
    /\ conn \in [Client -> Conn \cup {NoConn}]
    /\ \A c \in Client : client[c] = "using" <=> conn[c] # NoConn
    /\ shutdown \in BOOLEAN
    /\ closing \in {"no", "draining", "true", "false"}
    /\ health \in {"off", "rest", "validate", "expire", "adjust", "resize"}
    /\ snapshot \in Seq(Conn)
    /\ resize \in [create : 0 .. minConnections, remove : Nat]

(* What createConnection, called n times, gives of the connections in S.    *)
Created(S, n) ==
    {s \in UNION {[1 .. k -> S] : k \in 0 .. n} : \A i, j \in DOMAIN s : s[i] = s[j] => i = j}

(* The constructor creates minConnections connections, or fewer.            *)
PoolInit ==
    /\ idleConnections \in Created(Conn, minConnections)
    /\ activeConnections = {}
    /\ client = [c \in Client |-> "out"]
    /\ conn = [c \in Client |-> NoConn]
    /\ shutdown = FALSE
    /\ closing = "no"
    /\ health = IF HealthChecks THEN "rest" ELSE "off"
    /\ snapshot = <<>>
    /\ resize = NoResize

-----------------------------------------------------------------------------
(* acquireConnection. *)
AcquireConnection(c) ==
    /\ client[c] = "out"
    /\ ~shutdown
    /\ client' = [client EXCEPT ![c] = "waiting"]
    /\ UNCHANGED <<idleConnections, activeConnections, conn, shutdown, closing, healthVars>>

(* Shut down while waiting: it throws. *)
Refused(c) ==
    /\ client[c] = "waiting"
    /\ shutdown
    /\ client' = [client EXCEPT ![c] = "out"]
    /\ UNCHANGED <<idleConnections, activeConnections, conn, shutdown, closing, healthVars>>

(* Mutant: only the shutdown ends a wait. *)
TimedOutNever(c) ==
    /\ client[c] = "waiting"
    /\ shutdown
    /\ client' = [client EXCEPT ![c] = "out"]
    /\ UNCHANGED <<idleConnections, activeConnections, conn, shutdown, closing, healthVars>>

(* The deadline passed and the predicate does not hold: it throws. *)
TimedOut(c) ==
    /\ client[c] = "waiting"
    /\ idleConnections = <<>>
    /\ Cardinality(activeConnections) >= maxConnections
    /\ client' = [client EXCEPT ![c] = "out"]
    /\ UNCHANGED <<idleConnections, activeConnections, conn, shutdown, closing, healthVars>>

(* An idle connection is popped; it does not enter activeConnections. *)
TakeIdle(c) ==
    /\ client[c] = "waiting"
    /\ ~shutdown
    /\ idleConnections # <<>>
    /\ idleConnections' = Tail(idleConnections)
    /\ conn' = [conn EXCEPT ![c] = Head(idleConnections)]
    /\ client' = [client EXCEPT ![c] = "using"]
    /\ UNCHANGED <<activeConnections, shutdown, closing, healthVars>>

(* There is none but room for one: it is created without the lock. *)
BeginCreate(c) ==
    /\ client[c] = "waiting"
    /\ ~shutdown
    /\ idleConnections = <<>>
    /\ Cardinality(activeConnections) < maxConnections
    /\ client' = [client EXCEPT ![c] = "creating"]
    /\ UNCHANGED <<idleConnections, activeConnections, conn, shutdown, closing, healthVars>>

(* createConnection gives up after maxRetries and throws. *)
CreateFails(c) ==
    /\ client[c] = "creating"
    /\ client' = [client EXCEPT ![c] = "out"]
    /\ UNCHANGED <<idleConnections, activeConnections, conn, shutdown, closing, healthVars>>

(* Mutant: the room is not checked again. *)
FinishCreateUnchecked(c) ==
    /\ client[c] = "creating"
    /\ \E k \in Fresh :
          /\ activeConnections' = activeConnections \cup {k}
          /\ conn' = [conn EXCEPT ![c] = k]
          /\ client' = [client EXCEPT ![c] = "using"]
    /\ UNCHANGED <<idleConnections, shutdown, closing, healthVars>>

(* Back under the lock, the room is checked again; shutdown_ is not. *)
FinishCreate(c) ==
    /\ client[c] = "creating"
    /\ \/ /\ Cardinality(activeConnections) >= maxConnections
          /\ client' = [client EXCEPT ![c] = "out"]
          /\ UNCHANGED <<activeConnections, conn>>
       \/ /\ Cardinality(activeConnections) < maxConnections
          /\ \E k \in Fresh :
                /\ activeConnections' = activeConnections \cup {k}
                /\ conn' = [conn EXCEPT ![c] = k]
                /\ client' = [client EXCEPT ![c] = "using"]
    /\ UNCHANGED <<idleConnections, shutdown, closing, healthVars>>

(* releaseConnection: a connection that is not active is dropped; one that  *)
(* does not validate is not reused.                                         *)
ReleaseConnection(c) ==
    /\ client[c] = "using"
    /\ client' = [client EXCEPT ![c] = "out"]
    /\ conn' = [conn EXCEPT ![c] = NoConn]
    /\ activeConnections' = activeConnections \ {conn[c]}
    /\ \/ /\ conn[c] \in activeConnections
          /\ idleConnections' = Append(idleConnections, conn[c])
       \/ UNCHANGED idleConnections
    /\ UNCHANGED <<shutdown, closing, healthVars>>

(* executeQuery and selectQuery catch an exception and forget the           *)
(* connection without releasing it.                                         *)
QueryThrows(c) ==
    /\ QueriesFail
    /\ client[c] = "using"
    /\ client' = [client EXCEPT ![c] = "out"]
    /\ conn' = [conn EXCEPT ![c] = NoConn]
    /\ UNCHANGED <<idleConnections, activeConnections, shutdown, closing, healthVars>>

-----------------------------------------------------------------------------
(* performHealthCheck copies the idle connections. A stopped thread starts  *)
(* no other pass.                                                           *)
Snapshot ==
    /\ health = "rest"
    /\ ~shutdown
    /\ health' = "validate"
    /\ snapshot' = idleConnections
    /\ UNCHANGED <<idleConnections, activeConnections, clientVars, shutdown, closing, resize>>

(* It validates the copies without the lock and then makes the healthy ones *)
(* the idle connections.                                                    *)
Restore ==
    /\ health = "validate"
    /\ \E healthy \in SUBSET DOMAIN snapshot : idleConnections' = Kept(snapshot, healthy)
    /\ health' = "expire"
    /\ snapshot' = <<>>
    /\ UNCHANGED <<activeConnections, clientVars, shutdown, closing, resize>>

(* cleanupExpiredConnections. *)
CleanupExpired ==
    /\ health = "expire"
    /\ \E young \in SUBSET DOMAIN idleConnections :
          idleConnections' = Kept(idleConnections, young)
    /\ health' = "adjust"
    /\ UNCHANGED <<activeConnections, clientVars, shutdown, closing, snapshot, resize>>

(* adjustPoolSize reads the sizes. *)
AdjustRead ==
    LET idle == Len(idleConnections)
        all == idle + Cardinality(activeConnections)
    IN  /\ health = "adjust"
        /\ resize' =
              IF all < minConnections
              THEN [create |-> minConnections - all, remove |-> 0]
              ELSE [create |-> 0,
                    remove |-> IF idle > minConnections
                               THEN idle - minConnections ELSE 0]
        /\ health' = "resize"
        /\ UNCHANGED <<idleConnections, activeConnections, clientVars, shutdown, closing,
                       snapshot>>

(* It creates without the lock, as many as it can, then adds and removes.   *)
AdjustWrite ==
    /\ health = "resize"
    /\ \E new \in Created(Fresh, resize.create) :
          LET filled == idleConnections \o new IN
          idleConnections' =
              IF resize.remove >= Len(filled) THEN <<>>
              ELSE SubSeq(filled, resize.remove + 1, Len(filled))
    /\ health' = "rest"
    /\ resize' = NoResize
    /\ UNCHANGED <<activeConnections, clientVars, shutdown, closing, snapshot>>

-----------------------------------------------------------------------------
(* gracefulShutdown sets the flag, and joins the health thread. *)
BeginShutdown ==
    /\ Shutdown
    /\ ~shutdown
    /\ shutdown' = TRUE
    /\ UNCHANGED <<idleConnections, activeConnections, clientVars, closing, healthVars>>

JoinHealth ==
    /\ shutdown
    /\ closing = "no"
    /\ health \in {"off", "rest"}
    /\ health' = "off"
    /\ closing' = "draining"
    /\ UNCHANGED <<idleConnections, activeConnections, clientVars, shutdown, snapshot, resize>>

(* Mutant: shutdown waits for the active connections without a deadline. *)
FinishShutdownPatient ==
    /\ closing = "draining"
    /\ activeConnections = {}
    /\ idleConnections' = <<>>
    /\ activeConnections' = {}
    /\ closing' = "true"
    /\ UNCHANGED <<clientVars, shutdown, healthVars>>

(* Nothing is active any more, or the timeout has elapsed. It clears both   *)
(* collections and then looks whether activeConnections is empty.           *)
FinishShutdown ==
    /\ closing = "draining"
    /\ idleConnections' = <<>>
    /\ activeConnections' = {}
    /\ closing' = IF activeConnections' = {} THEN "true" ELSE "false"
    /\ UNCHANGED <<clientVars, shutdown, healthVars>>

ClientStep(c) ==
    \/ Refused(c) \/ TimedOut(c) \/ TakeIdle(c) \/ BeginCreate(c)
    \/ CreateFails(c) \/ FinishCreate(c)
    \/ ReleaseConnection(c) \/ QueryThrows(c)

HealthStep == Snapshot \/ Restore \/ CleanupExpired \/ AdjustRead \/ AdjustWrite

ShutdownStep == JoinHealth \/ FinishShutdown

PoolNext ==
    \/ \E c \in Client : AcquireConnection(c) \/ ClientStep(c)
    \/ HealthStep
    \/ BeginShutdown
    \/ ShutdownStep

PoolSpec == PoolInit /\ [][PoolNext]_poolVars

(* Threads are scheduled, queries end, and every wait has a deadline.       *)
ClientFairness(c) == WF_poolVars(ClientStep(c))
ThreadFairness == WF_poolVars(HealthStep) /\ WF_poolVars(ShutdownStep)
PoolFairness == (\A c \in Client : ClientFairness(c)) /\ ThreadFairness

-----------------------------------------------------------------------------
(* Two creators that both saw room for one do not both get in: the pool     *)
(* never counts more than maxConnections connections as lent.               *)
ActiveWithinMax ==
    /\ IsFiniteSet(activeConnections)
    /\ Cardinality(activeConnections) <= maxConnections

(* No connection waits in the queue twice, and none waits there while the   *)
(* pool counts it as lent, whatever the health thread puts back.            *)
QueuedOnce ==
    /\ \A i, j \in DOMAIN idleConnections :
          idleConnections[i] = idleConnections[j] => i = j
    /\ Idle \cap activeConnections = {}

(* A connection serves one client at a time and is not idle meanwhile.      *)
LentOnce ==
    /\ \A c, d \in Client :
          client[c] = "using" /\ client[d] = "using" /\ conn[c] = conn[d] => c = d
    /\ Lent \cap Idle = {}

(* What the pool counts as lent is in some client's hands: its capacity     *)
(* comes back.                                                              *)
ActiveIsLent == activeConnections \subseteq Lent

(* acquireConnection: what it returns "is already in activeConnections_".   *)
LentIsActive == closing = "no" => Lent \subseteq activeConnections

(* "Connection pool is shutting down - no new connections allowed".         *)
NoneAfterShutdown ==
    [][shutdown => \A c \in Client : client'[c] = "using" => client[c] = "using"]_poolVars

(* gracefulShutdown returns true only if every connection was released.     *)
TrueIsGraceful ==
    [][closing = "draining" /\ closing' = "true" => activeConnections = {}]_poolVars

(* Every request for a connection is answered, and every shutdown ends,     *)
(* also with connections lost to failed queries.                            *)
RequestAnswered ==
    \A c \in Client : client[c] \in {"waiting", "creating"} ~> client[c] \in {"using", "out"}

ShutdownEnds == shutdown ~> closing = "true"
=============================================================================
