------------------------- MODULE InfrastructureProofs -------------------------
(***************************************************************************)
(* What the components stand on, for any clients, threads, mutexes,         *)
(* messages and users: the pool of database connections counts no more than *)
(* maxConnections as active and queues none twice; the deadlock detector    *)
(* prevents circular waits when callers do not nest locks of one level; a   *)
(* notification is in one place, a resource alert goes out once within its  *)
(* cooldown; the request limits hold; ended and revoked sessions are not    *)
(* accepted.                                                                *)
(***************************************************************************)
EXTENDS DatabaseConnectionPool, LockUtils, NotificationService, RateLimiter, AuthManager,
        QueueFilterProofs, SequenceTheorems, FiniteSetTheorems, TLAPS

-----------------------------------------------------------------------------
(* The pool of database connections. *)

(* A creator that still finds room under the lock takes one place of it.    *)
LEMMA OneMoreFits ==
    ASSUME NEW S, NEW k, IsFiniteSet(S), Cardinality(S) < maxConnections
    PROVE  /\ IsFiniteSet(S \cup {k})
           /\ Cardinality(S \cup {k}) <= maxConnections
  <1>1. IsFiniteSet(S \cup {k})
    BY FS_AddElement
  <1>2. Cardinality(S) \in Nat
    BY FS_CardinalityType
  <1>3. Cardinality(S \cup {k}) = Cardinality(S)
           \/ Cardinality(S \cup {k}) = Cardinality(S) + 1
    BY FS_AddElement
  <1>4. maxConnections \in Nat
    BY PoolAssumption
  <1> QED BY <1>1, <1>2, <1>3, <1>4

(* A release frees the place of one connection, or none.                    *)
LEMMA FewerFit ==
    ASSUME NEW S, NEW k, IsFiniteSet(S), Cardinality(S) <= maxConnections
    PROVE  /\ IsFiniteSet(S \ {k})
           /\ Cardinality(S \ {k}) <= maxConnections
  <1>1. IsFiniteSet(S \ {k}) /\ Cardinality(S \ {k}) <= Cardinality(S)
    BY FS_Subset, S \ {k} \subseteq S
  <1>2. Cardinality(S) \in Nat /\ Cardinality(S \ {k}) \in Nat
    BY <1>1, FS_CardinalityType
  <1>3. maxConnections \in Nat
    BY PoolAssumption
  <1> QED BY <1>1, <1>2, <1>3

(* No connection is lent.                                                   *)
LEMMA EmptyFits == IsFiniteSet({}) /\ Cardinality({}) <= maxConnections
  <1>1. IsFiniteSet({}) /\ Cardinality({}) = 0
    BY FS_EmptySet
  <1>2. maxConnections \in Nat
    BY PoolAssumption
  <1> QED BY <1>1, <1>2

(* The pool before its first connection.                                    *)
LEMMA ActiveInit == PoolInit => ActiveWithinMax
  BY EmptyFits DEF PoolInit, ActiveWithinMax

(* Every step of the pool keeps the bound.                                  *)
LEMMA ActiveStep == ActiveWithinMax /\ [PoolNext]_poolVars => ActiveWithinMax'
  <1> SUFFICES ASSUME ActiveWithinMax, [PoolNext]_poolVars
               PROVE  ActiveWithinMax'
    OBVIOUS
  <1> USE DEF ActiveWithinMax
  <1>1. ASSUME NEW c \in Client, FinishCreate(c)
        PROVE  ActiveWithinMax'
    <2>1. CASE UNCHANGED activeConnections
      BY <2>1
    <2>2. CASE /\ Cardinality(activeConnections) < maxConnections
               /\ \E k \in Fresh : activeConnections' = activeConnections \cup {k}
      <3>1. PICK k \in Fresh : activeConnections' = activeConnections \cup {k}
        BY <2>2
      <3> QED BY <2>2, <3>1, OneMoreFits
    <2> QED BY <1>1, <2>1, <2>2 DEF FinishCreate
  <1>2. ASSUME NEW c \in Client, ReleaseConnection(c)
        PROVE  ActiveWithinMax'
    <2>1. activeConnections' = activeConnections \ {conn[c]}
      BY <1>2 DEF ReleaseConnection
    <2> QED BY <2>1, FewerFit
  <1>3. ASSUME NEW c \in Client,
               AcquireConnection(c) \/ Refused(c) \/ TimedOut(c) \/ TakeIdle(c)
                 \/ BeginCreate(c) \/ CreateFails(c) \/ QueryThrows(c)
        PROVE  ActiveWithinMax'
    BY <1>3 DEF AcquireConnection, Refused, TimedOut, TakeIdle, BeginCreate,
                CreateFails, QueryThrows
  <1>4. CASE HealthStep
    <2>1. UNCHANGED activeConnections
      BY <1>4 DEF HealthStep, Snapshot, Restore, CleanupExpired, AdjustRead,
                  AdjustWrite
    <2> QED BY <2>1
  <1>5. CASE BeginShutdown \/ JoinHealth
    BY <1>5 DEF BeginShutdown, JoinHealth
  <1>6. CASE FinishShutdown
    BY <1>6, EmptyFits DEF FinishShutdown
  <1>7. CASE UNCHANGED poolVars
    BY <1>7 DEF poolVars
  <1> QED BY <1>1, <1>2, <1>3, <1>4, <1>5, <1>6, <1>7
          DEF PoolNext, ClientStep, ShutdownStep

(* The second look at the room, under the lock, is enough: the pool never   *)
(* counts more than maxConnections connections as active, for any clients,  *)
(* connections and limits. The connections it lends from its idle queue are *)
(* not among them: acquireConnection does not count those.                  *)
THEOREM PoolBounded == PoolSpec => []ActiveWithinMax
  <1> QED BY ActiveInit, ActiveStep, PTL DEF PoolSpec

(* A queue of connections, none twice and none of A.                        *)
Apart(q, A) ==
    /\ q \in Seq(Conn)
    /\ \A i, j \in DOMAIN q : q[i] = q[j] => i = j
    /\ \A i \in DOMAIN q : q[i] \notin A

(* What the steps of the pool keep: the idle connections and the copies of  *)
(* the health thread are queues apart from what the pool counts as lent.    *)
(* The copies may hold what a client has taken since: nothing is said of    *)
(* connections in a client's hands, except that they are connections.       *)
QueueInv ==
    /\ Apart(idleConnections, activeConnections)
    /\ Apart(snapshot, activeConnections)
    /\ activeConnections \subseteq Conn
    /\ DOMAIN client = Client /\ DOMAIN conn = Client
    /\ \A c \in Client : client[c] = "using" => conn[c] \in Conn
    /\ resize.create \in Nat /\ resize.remove \in Nat

(* A queue without connections.                                             *)
LEMMA ApartEmpty == ASSUME NEW A PROVE Apart(<<>>, A)
  <1>1. <<>> \in Seq(Conn) /\ DOMAIN <<>> = {}
    OBVIOUS
  <1> QED BY <1>1 DEF Apart

(* The first connection is taken.                                           *)
LEMMA ApartTail ==
    ASSUME NEW q, NEW A, Apart(q, A), q # <<>>
    PROVE  Head(q) \in Conn /\ Apart(Tail(q), A)
  <1>1. /\ q \in Seq(Conn)
        /\ \A i, j \in DOMAIN q : q[i] = q[j] => i = j
        /\ \A i \in DOMAIN q : q[i] \notin A
    BY DEF Apart
  <1>2. /\ Head(q) \in Conn /\ Tail(q) \in Seq(Conn) /\ Len(Tail(q)) = Len(q) - 1
        /\ \A i \in 1 .. Len(Tail(q)) : Tail(q)[i] = q[i + 1]
    BY <1>1, HeadTailProperties
  <1> DEFINE r == Tail(q)
             n == Len(q)
  <1>3. n \in Nat /\ DOMAIN q = 1 .. n /\ DOMAIN r = 1 .. (n - 1)
        /\ \A i \in DOMAIN r : r[i] = q[i + 1]
    BY <1>1, <1>2
  <1> HIDE DEF r, n
  <1>4. \A i \in DOMAIN r : i + 1 \in DOMAIN q /\ r[i] = q[i + 1] /\ i \in Nat
    BY <1>3
  <1>5. \A i, j \in DOMAIN r : r[i] = r[j] => i = j
    <2> SUFFICES ASSUME NEW i \in DOMAIN r, NEW j \in DOMAIN r, r[i] = r[j] PROVE i = j
      OBVIOUS
    <2>1. i + 1 = j + 1 /\ i \in Nat /\ j \in Nat
      BY <1>1, <1>4
    <2> QED BY <2>1
  <1>6. \A i \in DOMAIN r : r[i] \notin A
    BY <1>1, <1>4
  <1> QED BY <1>2, <1>5, <1>6 DEF Apart, r

(* Connections are put behind others, none of which they are.               *)
LEMMA ApartJoin ==
    ASSUME NEW q, NEW s, NEW A, Apart(q, A), Apart(s, A),
           \A i \in DOMAIN q, j \in DOMAIN s : q[i] # s[j]
    PROVE  Apart(q \o s, A)
  <1> DEFINE r == q \o s
             n == Len(q)
             m == Len(s)
  <1>1. /\ q \in Seq(Conn) /\ s \in Seq(Conn)
        /\ \A i, j \in DOMAIN q : q[i] = q[j] => i = j
        /\ \A i, j \in DOMAIN s : s[i] = s[j] => i = j
        /\ \A i \in DOMAIN q : q[i] \notin A
        /\ \A i \in DOMAIN s : s[i] \notin A
    BY DEF Apart
  <1>2. /\ r \in Seq(Conn) /\ Len(r) = n + m
        /\ \A i \in 1 .. n + m : r[i] = IF i <= n THEN q[i] ELSE s[i - n]
    BY <1>1, ConcatProperties
  <1>3. /\ n \in Nat /\ m \in Nat
        /\ DOMAIN q = 1 .. n /\ DOMAIN s = 1 .. m /\ DOMAIN r = 1 .. (n + m)
    BY <1>1, <1>2
  <1> HIDE DEF r, n, m
  <1>4. \A i \in DOMAIN r : \/ i \in DOMAIN q /\ r[i] = q[i]
                            \/ i \in Nat /\ i - n \in DOMAIN s /\ r[i] = s[i - n]
    BY <1>2, <1>3
  <1>5. \A i, j \in DOMAIN r : r[i] = r[j] => i = j
    <2> SUFFICES ASSUME NEW i \in DOMAIN r, NEW j \in DOMAIN r, r[i] = r[j] PROVE i = j
      OBVIOUS
    <2>1. CASE i \in DOMAIN q /\ r[i] = q[i] /\ j \in DOMAIN q /\ r[j] = q[j]
      BY <1>1, <2>1
    <2>2. CASE /\ i \in Nat /\ i - n \in DOMAIN s /\ r[i] = s[i - n]
               /\ j \in Nat /\ j - n \in DOMAIN s /\ r[j] = s[j - n]
      <3>1. i - n = j - n
        BY <1>1, <2>2
      <3> QED BY <1>3, <2>2, <3>1
    <2> QED BY <1>4, <2>1, <2>2
  <1>6. \A i \in DOMAIN r : r[i] \notin A
    BY <1>1, <1>4
  <1> QED BY <1>2, <1>5, <1>6 DEF Apart, r

(* One connection is put behind.                                            *)
LEMMA ApartAppend ==
    ASSUME NEW q, NEW A, Apart(q, A), NEW k \in Conn, k \notin A,
           \A i \in DOMAIN q : q[i] # k
    PROVE  Apart(Append(q, k), A)
  <1>1. q \in Seq(Conn)
    BY DEF Apart
  <1>2. Append(q, k) = q \o <<k>>
    BY <1>1, AppendIsConcat
  <1>3. <<k>> \in Seq(Conn) /\ DOMAIN <<k>> = {1} /\ <<k>>[1] = k
    OBVIOUS
  <1>4. Apart(<<k>>, A)
    BY <1>3 DEF Apart
  <1>5. \A i \in DOMAIN q, j \in DOMAIN <<k>> : q[i] # <<k>>[j]
    BY <1>3
  <1>6. Apart(q \o <<k>>, A)
    BY <1>4, <1>5, ApartJoin
  <1> QED BY <1>2, <1>6

(* Only the connections at some positions are kept.                         *)
LEMMA ApartKept ==
    ASSUME NEW q, NEW A, Apart(q, A), NEW D \in SUBSET DOMAIN q
    PROVE  Apart(Kept(q, D), A)
  <1> DEFINE r == Kept(q, D)
  <1>1. /\ q \in Seq(Conn)
        /\ \A i, j \in DOMAIN q : q[i] = q[j] => i = j
        /\ \A i \in DOMAIN q : q[i] \notin A
    BY DEF Apart
  <1>2. r \in Seq(Conn)
    BY <1>1, KeptFacts
  <1>3. /\ \A k \in DOMAIN r : \E i \in D : r[k] = q[i]
        /\ \A k, m \in DOMAIN r : r[k] = r[m] => k = m
    BY <1>1, KeptElements
  <1> HIDE DEF r
  <1>4. \A k \in DOMAIN r : r[k] \notin A
    BY <1>1, <1>3
  <1> QED BY <1>2, <1>3, <1>4 DEF Apart, r

(* The first connections are dropped.                                       *)
LEMMA ApartRest ==
    ASSUME NEW q, NEW A, Apart(q, A), NEW a \in Nat, a < Len(q)
    PROVE  Apart(SubSeq(q, a + 1, Len(q)), A)
  <1>1. q \in Seq(Conn)
    BY DEF Apart
  <1>2. a + 1 \in 1 .. (Len(q) + 1) /\ (a + 1) .. Len(q) \in SUBSET DOMAIN q
    BY <1>1
  <1>3. Kept(q, (a + 1) .. Len(q)) = SubSeq(q, a + 1, Len(q))
    BY <1>1, <1>2, KeptEnd
  <1>4. Apart(Kept(q, (a + 1) .. Len(q)), A)
    BY <1>2, ApartKept
  <1> QED BY <1>3, <1>4

(* What is apart from a set is apart from a set with less in it.            *)
LEMMA ApartLess ==
    ASSUME NEW q, NEW A, NEW B, Apart(q, A), \A i \in DOMAIN q : q[i] \in B => q[i] \in A
    PROVE  Apart(q, B)
  BY DEF Apart

(* New connections: of the set they come from, none twice.                  *)
LEMMA CreatedApart ==
    ASSUME NEW S \in SUBSET Conn, NEW n \in Nat, NEW q \in Created(S, n), NEW A, S \cap A = {}
    PROVE  Apart(q, A) /\ \A i \in DOMAIN q : q[i] \in S
  <1>1. /\ q \in UNION {[1 .. k -> S] : k \in 0 .. n}
        /\ \A i, j \in DOMAIN q : q[i] = q[j] => i = j
    BY DEF Created
  <1>2. PICK k \in 0 .. n : q \in [1 .. k -> S]
    BY <1>1
  <1>3. k \in Nat /\ q \in Seq(S)
    BY <1>2
  <1>4. q \in Seq(Conn) /\ \A i \in DOMAIN q : q[i] \in S
    BY <1>2, <1>3
  <1> QED BY <1>1, <1>4 DEF Apart

(* The pool starts with queues of distinct connections, none of them lent.  *)
LEMMA QueueInit == PoolInit => QueueInv
  <1> SUFFICES ASSUME PoolInit PROVE QueueInv
    OBVIOUS
  <1>1. Apart(idleConnections, activeConnections)
    BY CreatedApart, PoolAssumption DEF PoolInit
  <1>2. Apart(snapshot, activeConnections)
    BY ApartEmpty DEF PoolInit
  <1>3. resize.create = 0 /\ resize.remove = 0
    BY DEF PoolInit, NoResize
  <1> QED BY <1>1, <1>2, <1>3 DEF PoolInit, QueueInv

(* What a client does keeps the queues apart.                               *)
LEMMA QueueClientStep ==
    ASSUME QueueInv, NEW c \in Client, AcquireConnection(c) \/ ClientStep(c)
    PROVE  QueueInv'
  <1>0. /\ Apart(idleConnections, activeConnections)
        /\ Apart(snapshot, activeConnections)
        /\ activeConnections \subseteq Conn
        /\ DOMAIN client = Client /\ DOMAIN conn = Client
        /\ \A d \in Client : client[d] = "using" => conn[d] \in Conn
        /\ resize.create \in Nat /\ resize.remove \in Nat
    BY DEF QueueInv
  <1>1. CASE \/ AcquireConnection(c) \/ Refused(c) \/ TimedOut(c) \/ BeginCreate(c)
             \/ CreateFails(c) \/ QueryThrows(c)
    <2>1. /\ UNCHANGED <<idleConnections, activeConnections, snapshot, resize>>
          /\ DOMAIN client' = Client /\ DOMAIN conn' = Client
      BY <1>0, <1>1 DEF AcquireConnection, Refused, TimedOut, BeginCreate, CreateFails,
                        QueryThrows, healthVars
    <2>2. \A d \in Client : client'[d] = "using" => client[d] = "using" /\ conn'[d] = conn[d]
      BY <1>0, <1>1 DEF AcquireConnection, Refused, TimedOut, BeginCreate, CreateFails,
                        QueryThrows
    <2> QED BY <1>0, <2>1, <2>2 DEF QueueInv
  <1>2. CASE TakeIdle(c)
    <2>1. /\ UNCHANGED <<activeConnections, snapshot, resize>>
          /\ idleConnections # <<>> /\ idleConnections' = Tail(idleConnections)
          /\ conn' = [conn EXCEPT ![c] = Head(idleConnections)]
          /\ client' = [client EXCEPT ![c] = "using"]
      BY <1>2 DEF TakeIdle, healthVars
    <2>2. Head(idleConnections) \in Conn /\ Apart(idleConnections', activeConnections)
      BY <1>0, <2>1, ApartTail
    <2>3. DOMAIN client' = Client /\ DOMAIN conn' = Client
      BY <1>0, <2>1
    <2>4. \A d \in Client : client'[d] = "using" => conn'[d] \in Conn
      BY <1>0, <2>1, <2>2
    <2> QED BY <1>0, <2>1, <2>2, <2>3, <2>4 DEF QueueInv
  <1>3. CASE FinishCreate(c)
    <2>0. UNCHANGED <<idleConnections, snapshot, resize>>
      BY <1>3 DEF FinishCreate, healthVars
    <2>1. CASE UNCHANGED activeConnections /\ UNCHANGED conn
               /\ client' = [client EXCEPT ![c] = "out"]
      BY <1>0, <2>0, <2>1 DEF QueueInv
    <2>2. CASE \E k \in Fresh : /\ activeConnections' = activeConnections \cup {k}
                                /\ conn' = [conn EXCEPT ![c] = k]
                                /\ client' = [client EXCEPT ![c] = "using"]
      <3>1. PICK k \in Fresh : /\ activeConnections' = activeConnections \cup {k}
                               /\ conn' = [conn EXCEPT ![c] = k]
                               /\ client' = [client EXCEPT ![c] = "using"]
        BY <2>2
      <3>2. k \in Conn /\ k \notin ToSet(idleConnections) /\ k \notin ToSet(snapshot)
        BY DEF Fresh, Idle
      <3>3. /\ \A i \in DOMAIN idleConnections : idleConnections[i] # k
            /\ \A i \in DOMAIN snapshot : snapshot[i] # k
        BY <3>2 DEF ToSet
      <3>4. Apart(idleConnections, activeConnections') /\ Apart(snapshot, activeConnections')
        BY <1>0, <3>1, <3>3, ApartLess
      <3>5. \A d \in Client : client'[d] = "using" => conn'[d] \in Conn
        BY <1>0, <3>1, <3>2
      <3>6. DOMAIN client' = Client /\ DOMAIN conn' = Client /\ activeConnections' \subseteq Conn
        BY <1>0, <3>1, <3>2
      <3> QED BY <1>0, <2>0, <3>4, <3>5, <3>6 DEF QueueInv
    <2> QED BY <1>3, <2>1, <2>2 DEF FinishCreate
  <1>4. CASE ReleaseConnection(c)
    <2>1. /\ UNCHANGED <<snapshot, resize>> /\ client[c] = "using"
          /\ client' = [client EXCEPT ![c] = "out"]
          /\ conn' = [conn EXCEPT ![c] = NoConn]
          /\ activeConnections' = activeConnections \ {conn[c]}
          /\ \/ /\ conn[c] \in activeConnections
                /\ idleConnections' = Append(idleConnections, conn[c])
             \/ UNCHANGED idleConnections
      BY <1>4 DEF ReleaseConnection, healthVars
    <2>2. Apart(idleConnections, activeConnections') /\ Apart(snapshot, activeConnections')
      BY <1>0, <2>1, ApartLess
    <2>3. Apart(idleConnections', activeConnections')
      <3>1. CASE /\ conn[c] \in activeConnections
                 /\ idleConnections' = Append(idleConnections, conn[c])
        <4>1. \A i \in DOMAIN idleConnections : idleConnections[i] # conn[c]
          BY <1>0, <3>1 DEF Apart
        <4>2. conn[c] \in Conn /\ conn[c] \notin activeConnections'
          BY <1>0, <2>1
        <4>3. Apart(Append(idleConnections, conn[c]), activeConnections')
          BY <2>2, <4>1, <4>2, ApartAppend
        <4> QED BY <3>1, <4>3
      <3> QED BY <2>1, <2>2, <3>1
    <2>4. /\ DOMAIN client' = Client /\ DOMAIN conn' = Client /\ activeConnections' \subseteq Conn
          /\ \A d \in Client : client'[d] = "using" => conn'[d] \in Conn
      BY <1>0, <2>1
    <2> QED BY <1>0, <2>1, <2>2, <2>3, <2>4 DEF QueueInv
  <1> QED BY <1>1, <1>2, <1>3, <1>4 DEF ClientStep

(* A pass of the health thread keeps the queues apart, although it replaces *)
(* the idle connections by what it copied before it released the lock.      *)
LEMMA QueueHealthStep == ASSUME QueueInv, ActiveWithinMax, HealthStep PROVE QueueInv'
  <1>0. /\ Apart(idleConnections, activeConnections)
        /\ Apart(snapshot, activeConnections)
        /\ activeConnections \subseteq Conn
        /\ DOMAIN client = Client /\ DOMAIN conn = Client
        /\ \A d \in Client : client[d] = "using" => conn[d] \in Conn
        /\ resize.create \in Nat /\ resize.remove \in Nat
    BY DEF QueueInv
  <1>1. UNCHANGED <<activeConnections, client, conn>>
    BY DEF HealthStep, Snapshot, Restore, CleanupExpired, AdjustRead, AdjustWrite, clientVars
  <1>2. /\ activeConnections' \subseteq Conn
        /\ DOMAIN client' = Client /\ DOMAIN conn' = Client
        /\ \A d \in Client : client'[d] = "using" => conn'[d] \in Conn
    BY <1>0, <1>1
  <1>3. CASE Snapshot
    BY <1>0, <1>1, <1>2, <1>3 DEF Snapshot, QueueInv
  <1>4. CASE Restore
    <2>1. PICK healthy \in SUBSET DOMAIN snapshot : idleConnections' = Kept(snapshot, healthy)
      BY <1>4 DEF Restore
    <2>2. snapshot' = <<>> /\ UNCHANGED resize
      BY <1>4 DEF Restore
    <2>3. Apart(idleConnections', activeConnections)
      BY <1>0, <2>1, ApartKept
    <2>4. Apart(snapshot', activeConnections)
      BY <2>2, ApartEmpty
    <2> QED BY <1>0, <1>1, <1>2, <2>2, <2>3, <2>4 DEF QueueInv
  <1>5. CASE CleanupExpired
    <2>1. PICK young \in SUBSET DOMAIN idleConnections :
             idleConnections' = Kept(idleConnections, young)
      BY <1>5 DEF CleanupExpired
    <2>2. UNCHANGED <<snapshot, resize>>
      BY <1>5 DEF CleanupExpired
    <2>3. Apart(idleConnections', activeConnections)
      BY <1>0, <2>1, ApartKept
    <2> QED BY <1>0, <1>1, <1>2, <2>2, <2>3 DEF QueueInv
  <1>6. CASE AdjustRead
    <2>1. UNCHANGED <<idleConnections, snapshot>>
      BY <1>6 DEF AdjustRead
    <2>2. resize'.create \in Nat /\ resize'.remove \in Nat
      <3> DEFINE idle == Len(idleConnections)
                 all == idle + Cardinality(activeConnections)
      <3>1. idle \in Nat /\ minConnections \in Nat
        BY <1>0, PoolAssumption DEF Apart
      <3>2. resize' = IF all < minConnections
                      THEN [create |-> minConnections - all, remove |-> 0]
                      ELSE [create |-> 0,
                            remove |-> IF idle > minConnections
                                       THEN idle - minConnections ELSE 0]
        BY <1>6 DEF AdjustRead
      <3>3. all \in Nat
        BY <3>1, FS_CardinalityType DEF ActiveWithinMax
      <3> HIDE DEF idle, all
      <3> QED BY <3>1, <3>2, <3>3
    <2> QED BY <1>0, <1>1, <1>2, <2>1, <2>2 DEF QueueInv
  <1>7. CASE AdjustWrite
    <2>1. PICK new \in Created(Fresh, resize.create) :
             idleConnections' = IF resize.remove >= Len(idleConnections \o new) THEN <<>>
                                ELSE SubSeq(idleConnections \o new, resize.remove + 1,
                                            Len(idleConnections \o new))
      BY <1>7 DEF AdjustWrite
    <2>2. snapshot' = snapshot /\ resize' = NoResize
      BY <1>7 DEF AdjustWrite
    <2>3. Fresh \in SUBSET Conn /\ Fresh \cap activeConnections = {}
          /\ Fresh \cap ToSet(idleConnections) = {}
      BY DEF Fresh, Idle
    <2>4. Apart(new, activeConnections) /\ \A i \in DOMAIN new : new[i] \in Fresh
      BY <1>0, <2>3, CreatedApart
    <2>5. \A i \in DOMAIN idleConnections, j \in DOMAIN new : idleConnections[i] # new[j]
      BY <2>3, <2>4 DEF ToSet
    <2>6. Apart(idleConnections \o new, activeConnections)
      BY <1>0, <2>4, <2>5, ApartJoin
    <2>7. Apart(idleConnections', activeConnections)
      <3> DEFINE filled == idleConnections \o new
                 a == resize.remove
      <3>1. idleConnections' = IF a >= Len(filled) THEN <<>>
                               ELSE SubSeq(filled, a + 1, Len(filled))
        BY <2>1
      <3>2. Apart(filled, activeConnections) /\ a \in Nat
        BY <1>0, <2>6
      <3> HIDE DEF filled, a
      <3>3. Len(filled) \in Nat
        BY <3>2 DEF Apart
      <3>4. CASE a >= Len(filled)
        BY <3>1, <3>4, ApartEmpty
      <3>5. CASE a < Len(filled)
        <4>1. ~(a >= Len(filled))
          BY <3>2, <3>3, <3>5
        <4>2. Apart(SubSeq(filled, a + 1, Len(filled)), activeConnections)
          BY <3>2, <3>5, ApartRest
        <4> QED BY <3>1, <4>1, <4>2
      <3> QED BY <3>2, <3>3, <3>4, <3>5
    <2>8. resize'.create = 0 /\ resize'.remove = 0
      BY <2>2 DEF NoResize
    <2> QED BY <1>0, <1>1, <1>2, <2>2, <2>7, <2>8 DEF QueueInv
  <1> QED BY <1>3, <1>4, <1>5, <1>6, <1>7 DEF HealthStep

(* Every step of the pool keeps the queues apart.                           *)
LEMMA IdleStep == QueueInv /\ ActiveWithinMax /\ [PoolNext]_poolVars => QueueInv'
  <1> SUFFICES ASSUME QueueInv, ActiveWithinMax, [PoolNext]_poolVars PROVE QueueInv'
    OBVIOUS
  <1>1. ASSUME NEW c \in Client, AcquireConnection(c) \/ ClientStep(c) PROVE QueueInv'
    BY <1>1, QueueClientStep
  <1>2. CASE HealthStep
    BY <1>2, QueueHealthStep
  <1>3. CASE BeginShutdown \/ JoinHealth
    <2>1. UNCHANGED <<idleConnections, activeConnections, client, conn, snapshot, resize>>
      BY <1>3 DEF BeginShutdown, JoinHealth, clientVars, healthVars
    <2> QED BY <2>1 DEF QueueInv, Apart
  <1>4. CASE FinishShutdown
    <2>1. /\ UNCHANGED <<client, conn, snapshot, resize>>
          /\ idleConnections' = <<>> /\ activeConnections' = {}
      BY <1>4 DEF FinishShutdown, clientVars, healthVars
    <2>2. Apart(idleConnections', activeConnections')
      BY <2>1, ApartEmpty
    <2>3. Apart(snapshot, activeConnections')
      BY <2>1, ApartLess DEF QueueInv
    <2> QED BY <2>1, <2>2, <2>3 DEF QueueInv
  <1>5. CASE UNCHANGED poolVars
    <2>1. UNCHANGED <<idleConnections, activeConnections, client, conn, snapshot, resize>>
      BY <1>5 DEF poolVars, clientVars, healthVars
    <2> QED BY <2>1 DEF QueueInv, Apart
  <1> QED BY <1>1, <1>2, <1>3, <1>4, <1>5 DEF PoolNext, ShutdownStep

(* Whatever the health thread puts back after a pass without the lock, no   *)
(* connection is queued twice or both queued and counted as lent, for any   *)
(* clients, connections and limits.                                         *)
THEOREM NoneQueuedTwice == PoolSpec => []QueuedOnce
  <1>1. QueueInv => QueuedOnce
    BY DEF QueueInv, QueuedOnce, Apart, Idle, ToSet
  <1> QED BY <1>1, QueueInit, IdleStep, PoolBounded, PTL DEF PoolSpec

-----------------------------------------------------------------------------
(* The ordered locks. *)

(* What the detector relies on. *)
Usage == ~Nesting

LIInv == LTypeOK /\ HeldIsRegistered /\ AscendingOrder

(* The levels of the mutexes are 1 to 4.                                    *)
LEMMA LevelType == \A l \in Lock : Level[l.mutex] \in 1 .. 4
  BY LockAssumption DEF Lock

(* What lies above what lies above lies above.                              *)
LEMMA StrictlyAbove ==
    ASSUME NEW k \in Lock, NEW l \in Lock,
           Level[k.mutex] <= Level[l.mutex], Level[k.mutex] # Level[l.mutex]
    PROVE  Level[k.mutex] < Level[l.mutex]
  <1>1. Level[k.mutex] \in 1 .. 4 /\ Level[l.mutex] \in 1 .. 4
    BY LevelType
  <1> QED BY <1>1

(* No lock lies below itself.                                               *)
LEMMA NotBelowItself == \A l \in Lock : ~(Level[l.mutex] < Level[l.mutex])
  <1> TAKE l \in Lock
  <1>1. Level[l.mutex] \in 1 .. 4
    BY LevelType
  <1> QED BY <1>1

(* The mark of a thread without a request is no lock.                       *)
LEMMA NoLockType == NoLock \notin Lock
  BY DEF NoLock, Lock

(* Appending the lock that was waited for, and dropping the innermost one,  *)
(* are the only changes of what a thread holds.                             *)
LEMMA AppendHeld ==
    ASSUME NEW s \in Seq(Lock), NEW l \in Lock
    PROVE  /\ Append(s, l) \in Seq(Lock)
           /\ DOMAIN Append(s, l) = 1 .. Len(s) + 1
           /\ DOMAIN s = 1 .. Len(s)
           /\ \A i \in 1 .. Len(s) : Append(s, l)[i] = s[i]
           /\ Append(s, l)[Len(s) + 1] = l
  OBVIOUS

(* Releasing the last lock leaves the others as they are.                   *)
LEMMA FrontHeld ==
    ASSUME NEW s \in Seq(Lock), s # <<>>
    PROVE  /\ SubSeq(s, 1, Len(s) - 1) \in Seq(Lock)
           /\ DOMAIN SubSeq(s, 1, Len(s) - 1) = 1 .. Len(s) - 1
           /\ DOMAIN s = 1 .. Len(s)
           /\ Len(s) \in Nat \ {0}
           /\ \A i \in 1 .. Len(s) - 1 : SubSeq(s, 1, Len(s) - 1)[i] = s[i]
  OBVIOUS

(* No thread holds a lock.                                                  *)
LEMMA LockInit == Usage /\ LInit => LIInv
  BY DEF Usage, LInit, LIInv, LTypeOK, HeldIsRegistered, AscendingOrder, NoLock

(* A request that the detector admits lies above all that is held.          *)
LEMMA RequestInv ==
    ASSUME Usage, LIInv, NEW t \in Thread, NEW l \in Lock, Request(t, l)
    PROVE  LIInv'
  <1> USE LevelType, NoLockType DEF LIInv, LTypeOK, Usage, Request
  <1>1. LTypeOK'
    OBVIOUS
  <1>2. HeldIsRegistered'
    BY DEF HeldIsRegistered
  <1>3. \A i \in DOMAIN held[t] : Level[held[t][i].mutex] < Level[l.mutex]
    <2> TAKE i \in DOMAIN held[t]
    <2>1. held[t][i] \in Lock
      OBVIOUS
    <2>2. Level[held[t][i].mutex] <= Level[l.mutex]
      BY DEF HeldIsRegistered, Valid
    <2>3. Level[held[t][i].mutex] # Level[l.mutex]
      BY DEF Disciplined
    <2> QED BY <2>1, <2>2, <2>3, StrictlyAbove
  <1>4. /\ UNCHANGED held
        /\ waiting'[t] = l
        /\ \A u \in Thread \ {t} : waiting'[u] = waiting[u]
    OBVIOUS
  <1>5. AscendingOrder'
    <2> SUFFICES ASSUME NEW u \in Thread
                 PROVE  /\ \A i, k \in DOMAIN held[u] :
                               i < k => Level[held[u][i].mutex]
                                          < Level[held[u][k].mutex]
                        /\ waiting'[u] # NoLock =>
                               \A i \in DOMAIN held[u] :
                                   Level[held[u][i].mutex]
                                     < Level[waiting'[u].mutex]
      BY <1>4 DEF AscendingOrder
    <2> QED BY <1>3, <1>4 DEF AscendingOrder
  <1> QED BY <1>1, <1>2, <1>5

(* The requested lock becomes the last one held.                            *)
LEMMA AcquireInv ==
    ASSUME Usage, LIInv, NEW t \in Thread, Acquire(t)
    PROVE  LIInv'
  <1> USE LevelType, NoLockType DEF LIInv, LTypeOK, Usage, Acquire
  <1>1. waiting[t] \in Lock
    OBVIOUS
  <1>2. LTypeOK'
    BY <1>1, AppendHeld
  <1>3. /\ held'[t] = Append(held[t], waiting[t])
        /\ \A u \in Thread \ {t} : held'[u] = held[u] /\ waiting'[u] = waiting[u]
        /\ waiting'[t] = NoLock
    OBVIOUS
  <1>4. HeldIsRegistered'
    BY <1>1, <1>3, AppendHeld DEF HeldIsRegistered
  <1>5. AscendingOrder'
    <2> SUFFICES ASSUME NEW i \in DOMAIN held'[t], NEW k \in DOMAIN held'[t],
                        i < k
                 PROVE  Level[held'[t][i].mutex] < Level[held'[t][k].mutex]
      BY <1>3 DEF AscendingOrder
    <2>1. CASE k = Len(held[t]) + 1
      BY <1>1, <1>3, <2>1, AppendHeld DEF AscendingOrder
    <2>2. CASE k # Len(held[t]) + 1
      BY <1>1, <1>3, <2>2, AppendHeld DEF AscendingOrder
    <2> QED BY <2>1, <2>2
  <1> QED BY <1>2, <1>4, <1>5

(* The last lock is released.                                               *)
LEMMA ReleaseInv ==
    ASSUME Usage, LIInv, NEW t \in Thread, Release(t)
    PROVE  LIInv'
  <1> USE LevelType, NoLockType DEF LIInv, LTypeOK, Usage, Release
  <1> DEFINE last == Len(held[t])
  <1>1. /\ held'[t] = SubSeq(held[t], 1, last - 1)
        /\ \A u \in Thread \ {t} : /\ held'[u] = held[u]
                                   /\ threadLocks'[u] = threadLocks[u]
        /\ UNCHANGED waiting
        /\ threadLocks'[t] = threadLocks[t] \ {held[t][last]}
        /\ waiting[t] = NoLock
    OBVIOUS
  <1>2. LTypeOK'
    BY FrontHeld
  <1>3. \A i \in 1 .. last - 1 : held[t][i] # held[t][last]
    <2> TAKE i \in 1 .. last - 1
    <2>1. /\ i \in DOMAIN held[t] /\ last \in DOMAIN held[t] /\ i < last
      BY FrontHeld
    <2>2. Level[held[t][i].mutex] < Level[held[t][last].mutex]
      BY <2>1 DEF AscendingOrder
    <2>3. held[t][i] \in Lock
      BY <2>1
    <2> QED BY <2>2, <2>3, NotBelowItself
  <1>4. HeldIsRegistered'
    BY <1>1, <1>3, FrontHeld DEF HeldIsRegistered
  <1>5. AscendingOrder'
    <2> SUFFICES ASSUME NEW i \in DOMAIN held'[t], NEW k \in DOMAIN held'[t],
                        i < k
                 PROVE  Level[held'[t][i].mutex] < Level[held'[t][k].mutex]
      BY <1>1 DEF AscendingOrder
    <2>1. /\ i \in 1 .. last - 1 /\ k \in 1 .. last - 1
          /\ i \in DOMAIN held[t] /\ k \in DOMAIN held[t]
          /\ held'[t][i] = held[t][i] /\ held'[t][k] = held[t][k]
      BY <1>1, FrontHeld
    <2> QED BY <2>1 DEF AscendingOrder
  <1> QED BY <1>2, <1>4, <1>5

(* Every step of the locks keeps the invariant.                             *)
LEMMA LockStep == Usage /\ LIInv /\ [LNext]_lvars => LIInv'
  <1> SUFFICES ASSUME Usage, LIInv, [LNext]_lvars PROVE LIInv'
    OBVIOUS
  <1>1. ASSUME NEW t \in Thread, TimeOut(t) PROVE LIInv'
    BY <1>1 DEF TimeOut, LIInv, LTypeOK, HeldIsRegistered, AscendingOrder
  <1>3. CASE UNCHANGED lvars
    BY <1>3 DEF lvars, LIInv, LTypeOK, HeldIsRegistered, AscendingOrder
  <1> QED BY <1>1, <1>3, RequestInv, AcquireInv, ReleaseInv DEF LNext

(* The invariant holds of every behaviour of the locks.                     *)
LEMMA LockInvariant == ASSUME Usage PROVE LSpec => []LIInv
  BY LockInit, LockStep, PTL DEF LSpec

(* A wait leads upwards: a thread that waits for a lock held by a waiting   *)
(* thread waits below it.                                                   *)
LEMMA WaitLeadsUp ==
    ASSUME LIInv, NEW t \in Thread, NEW u \in Thread, WaitsFor(t, u),
           waiting[u] # NoLock
    PROVE  Level[waiting[t].mutex] < Level[waiting[u].mutex]
  <1>1. PICK i \in DOMAIN held[u] : Conflict(held[u][i], waiting[t])
    BY DEF WaitsFor
  <1>2. held[u][i].mutex = waiting[t].mutex
    BY <1>1 DEF Conflict
  <1>3. Level[held[u][i].mutex] < Level[waiting[u].mutex]
    BY DEF LIInv, AscendingOrder
  <1> QED BY <1>2, <1>3

(* So there is a thread in every set that waits for none of the set: take   *)
(* one that waits at the highest level. There are four levels.              *)
LEMMA OrderPreventsCircle == LIInv => NoCircularWait
  <1> SUFFICES ASSUME LIInv, NEW S \in SUBSET Thread, S # {},
                      \A t \in S : \E u \in S : WaitsFor(t, u)
               PROVE  FALSE
    BY DEF NoCircularWait
  <1>1. \A t \in S : waiting[t] \in Lock /\ waiting[t] # NoLock
    BY DEF LIInv, LTypeOK, WaitsFor
  <1> DEFINE lev(t) == Level[waiting[t].mutex]
  <1>2. \A t \in S : lev(t) \in 1 .. 4
    BY <1>1, LevelType
  <1>3. \A t \in S : \E u \in S : lev(t) < lev(u)
    BY <1>1, WaitLeadsUp
  <1> HIDE DEF lev
  <1>4. PICK t1 \in S : TRUE
    OBVIOUS
  <1>5. PICK t2 \in S : lev(t1) < lev(t2)
    BY <1>3
  <1>6. PICK t3 \in S : lev(t2) < lev(t3)
    BY <1>3
  <1>7. PICK t4 \in S : lev(t3) < lev(t4)
    BY <1>3
  <1>8. PICK t5 \in S : lev(t4) < lev(t5)
    BY <1>3
  <1> QED BY <1>2, <1>5, <1>6, <1>7, <1>8

(* No reachable state has a circle of threads that wait for one another.    *)
THEOREM NoCircle == ASSUME Usage PROVE LSpec => []NoCircularWait
  BY LockInvariant, OrderPreventsCircle, PTL

(* Every thread holds its locks in strictly ascending order of level.       *)
THEOREM Ascending == ASSUME Usage PROVE LSpec => []AscendingOrder
  <1>1. LIInv => AscendingOrder
    BY DEF LIInv
  <1> QED BY <1>1, LockInvariant, PTL

(* The detector knows every lock that is held or waited for.                *)
THEOREM Registered == ASSUME Usage PROVE LSpec => []HeldIsRegistered
  <1>1. LIInv => HeldIsRegistered
    BY DEF LIInv
  <1> QED BY <1>1, LockInvariant, PTL

-----------------------------------------------------------------------------
(* Notifications. Where m stands in s:                                     *)
At(s, m) == {i \in DOMAIN s : s[i] = m}

(* Occurrences are counted by naturals, and there are none in no sequence.  *)
LEMMA CountNat ==
    ASSUME NEW S, NEW s \in Seq(S), NEW m \in Message
    PROVE  Count(s, m) \in Nat /\ IsFiniteSet(At(s, m)) /\ Count(s, m) = Cardinality(At(s, m))
<1> DEFINE n == Len(s)
<1>1. n \in Nat /\ DOMAIN s = 1..n
  BY LenProperties
<1> HIDE DEF n
<1>2. IsFiniteSet(1..n)
  BY <1>1, FS_Interval
<1>3. At(s, m) \in SUBSET (1..n)
  BY <1>1 DEF At
<1>4. IsFiniteSet(At(s, m))
  BY <1>2, <1>3, FS_Subset
<1> QED BY <1>4, FS_CardinalityType DEF Count, At

(* No message stands in the empty sequence.                                *)
LEMMA CountEmpty == ASSUME NEW m \in Message PROVE Count(<<>>, m) = 0
<1>1. {i \in DOMAIN <<>> : <<>>[i] = m} = {}
  OBVIOUS
<1> QED BY <1>1, FS_EmptySet DEF Count

(* A message stands once in the sequence of itself, and no other does.     *)
LEMMA CountOne == ASSUME NEW x, NEW m \in Message PROVE Count(<<x>>, m) = IF x = m THEN 1 ELSE 0
<1>1. CASE x = m
  <2>1. {i \in DOMAIN <<x>> : <<x>>[i] = m} = {1}
    BY <1>1
  <2> QED BY <1>1, <2>1, FS_Singleton DEF Count
<1>2. CASE x # m
  <2>1. {i \in DOMAIN <<x>> : <<x>>[i] = m} = {}
    BY <1>2
  <2> QED BY <1>2, <2>1, FS_EmptySet DEF Count
<1> QED BY <1>1, <1>2

(* u is s and then t. *)
Joined(u, s, t) ==
    /\ Len(u) = Len(s) + Len(t)
    /\ \A i \in 1..Len(s) : u[i] = s[i]
    /\ \A i \in 1..Len(t) : u[Len(s) + i] = t[i]

(* A sequence that is s and then t has the occurrences of both.             *)
LEMMA CountJoin ==
    ASSUME NEW s \in Seq(Message), NEW t \in Seq(Message), NEW u \in Seq(Message),
           Joined(u, s, t), NEW m \in Message
    PROVE  Count(u, m) = Count(s, m) + Count(t, m)
<1> USE DEF Joined
<1> DEFINE n == Len(s)
           T == {n + i : i \in At(t, m)}
           f == [i \in At(t, m) |-> n + i]
<1>1. /\ n \in Nat /\ Len(t) \in Nat
      /\ DOMAIN s = 1..n /\ DOMAIN t = 1..Len(t) /\ DOMAIN u = 1..(n + Len(t))
  BY LenProperties
<1>2. At(u, m) = At(s, m) \cup T
  <2>1. ASSUME NEW i \in At(u, m), i \notin At(s, m) PROVE i \in T
    <3>1. i \in 1..(n + Len(t)) /\ u[i] = m
      BY <2>1, <1>1 DEF At
    <3>2. ~(i \in 1..n)
      BY <3>1, <2>1, <1>1 DEF At
    <3>3. i - n \in 1..Len(t) /\ i = n + (i - n)
      BY <3>1, <3>2, <1>1
    <3>4. t[i - n] = m
      BY <3>1, <3>3
    <3> QED BY <3>3, <3>4, <1>1 DEF At
  <2>2. ASSUME NEW i \in At(s, m) PROVE i \in At(u, m)
    BY <1>1, <2>2 DEF At
  <2>3. ASSUME NEW i \in At(t, m) PROVE n + i \in At(u, m)
    BY <1>1, <2>3 DEF At
  <2> QED BY <2>1, <2>2, <2>3
<1>3. At(s, m) \cap T = {}
  BY <1>1 DEF At
<1>4. IsFiniteSet(T) /\ Cardinality(T) = Cardinality(At(t, m))
  <2>1. f \in Bijection(At(t, m), T)
    <3>1. \A i \in At(t, m) : i \in Nat
      BY <1>1 DEF At
    <3>2. f \in [At(t, m) -> T]
      OBVIOUS
    <3>3. \A i, j \in At(t, m) : f[i] = f[j] => i = j
      BY <3>1, <1>1
    <3>4. \A y \in T : \E i \in At(t, m) : f[i] = y
      OBVIOUS
    <3> HIDE DEF f, T
    <3> QED BY <3>2, <3>3, <3>4 DEF Bijection, Injection, Surjection, IsInjective
  <2>2. ExistsBijection(At(t, m), T) /\ IsFiniteSet(At(t, m))
    BY <2>1, CountNat DEF ExistsBijection
  <2> HIDE DEF T
  <2> QED BY <2>2, FS_Bijection
<1>5. Cardinality(At(s, m) \cup T)
        = Cardinality(At(s, m)) + Cardinality(T) - Cardinality(At(s, m) \cap T)
  <2> HIDE DEF T
  <2>1. IsFiniteSet(At(s, m))
    BY CountNat
  <2> QED BY <1>4, <2>1, FS_Union
<1>6. Cardinality(At(s, m) \cap T) = 0
  BY <1>3, FS_EmptySet
<1>7. /\ Count(u, m) = Cardinality(At(u, m)) /\ Count(s, m) = Cardinality(At(s, m))
      /\ Count(t, m) = Cardinality(At(t, m)) /\ Count(s, m) \in Nat /\ Count(t, m) \in Nat
  BY CountNat
<1> HIDE DEF T, f, n
<1> QED BY <1>2, <1>4, <1>5, <1>6, <1>7

(* What is queued at the end, taken from the front, or taken up to a place.  *)
LEMMA CountAppend ==
    ASSUME NEW s \in Seq(Message), NEW x \in Message, NEW m \in Message
    PROVE  Count(Append(s, x), m) = Count(s, m) + (IF x = m THEN 1 ELSE 0)
<1>1. Append(s, x) \in Seq(Message) /\ <<x>> \in Seq(Message) /\ Joined(Append(s, x), s, <<x>>)
  BY DEF Joined
<1>2. Count(Append(s, x), m) = Count(s, m) + Count(<<x>>, m)
  BY <1>1, CountJoin
<1> QED BY <1>2, CountOne

(* The first message counts for one.                                       *)
LEMMA CountTail ==
    ASSUME NEW s \in Seq(Message), s # <<>>, NEW m \in Message
    PROVE  Count(s, m) = Count(Tail(s), m) + (IF Head(s) = m THEN 1 ELSE 0)
<1> DEFINE x == <<Head(s)>>
<1>1. x \in Seq(Message) /\ Tail(s) \in Seq(Message)
  OBVIOUS
<1>2. Joined(s, x, Tail(s))
  <2>1. Len(x) = 1 /\ x[1] = s[1] /\ Len(s) = 1 + Len(Tail(s))
        /\ \A i \in 1..Len(Tail(s)) : Tail(s)[i] = s[1 + i]
    OBVIOUS
  <2> QED BY <2>1 DEF Joined
<1>3. Count(s, m) = Count(x, m) + Count(Tail(s), m)
  <2> HIDE DEF x
  <2> QED BY <1>1, <1>2, CountJoin
<1>4. Count(Tail(s), m) \in Nat
  BY <1>1, CountNat
<1> QED BY <1>3, <1>4, CountOne

(* What is taken from the front and what stays add up to the whole.        *)
LEMMA CountSplit ==
    ASSUME NEW s \in Seq(Message), NEW k \in 0..Len(s), NEW m \in Message
    PROVE  /\ SubSeq(s, 1, k) \in Seq(Message) /\ SubSeq(s, k + 1, Len(s)) \in Seq(Message)
           /\ Count(s, m) = Count(SubSeq(s, 1, k), m) + Count(SubSeq(s, k + 1, Len(s)), m)
<1> DEFINE a == SubSeq(s, 1, k)
           b == SubSeq(s, k + 1, Len(s))
<1>1. a \in Seq(Message) /\ b \in Seq(Message) /\ Joined(s, a, b)
  <2>1. /\ a \in Seq(Message) /\ Len(a) = k /\ k \in 0..Len(s) /\ Len(s) \in Nat
        /\ \A i \in 1..k : a[i] = s[i]
    OBVIOUS
  <2>2. /\ b \in Seq(Message) /\ Len(b) = Len(s) - k
        /\ \A i \in 1..(Len(s) - k) : b[i] = s[k + i]
    OBVIOUS
  <2> HIDE DEF a, b
  <2> QED BY <2>1, <2>2 DEF Joined
<1>2. Count(s, m) = Count(a, m) + Count(b, m)
  <2> HIDE DEF a, b
  <2> QED BY <1>1, CountJoin
<1> QED BY <1>1, <1>2

(* The messages of a batch. *)
Ids(b) == [i \in DOMAIN b |-> b[i].id]

(* The messages of a batch are messages, one for each of its entries.      *)
LEMMA IdsType ==
    ASSUME NEW b \in Seq(Entry)
    PROVE  Ids(b) \in Seq(Message) /\ Len(Ids(b)) = Len(b)
<1> DEFINE n == Len(b)
<1>1. DOMAIN b = 1..n /\ n \in Nat /\ \A i \in 1..n : b[i] \in Entry
  OBVIOUS
<1> HIDE DEF n
<1>2. \A i \in 1..n : b[i].id \in Message
  BY <1>1 DEF Entry
<1>3. Ids(b) = [i \in 1..n |-> b[i].id]
  BY <1>1 DEF Ids
<1>4. Ids(b) \in Seq(Message) /\ Len(Ids(b)) = n
  BY <1>1, <1>2, <1>3
<1> QED BY <1>4 DEF n

(* What a batch is made of. *)
LEMMA EntriesOf ==
    ASSUME NEW q \in Seq(Message)
    PROVE  /\ FreshMessages(q) \in Seq(Entry) /\ Len(FreshMessages(q)) = Len(q)
           /\ \A i \in 1..Len(q) : FreshMessages(q)[i].id = q[i]
           /\ Retried(q) \in Seq(Entry) /\ Len(Retried(q)) = Len(q)
           /\ \A i \in 1..Len(q) : Retried(q)[i].id = q[i]
<1> DEFINE n == Len(q)
           f == [i \in 1..n |-> [id |-> q[i], retried |-> FALSE]]
           g == [i \in 1..n |-> [id |-> q[i], retried |-> TRUE]]
<1>1. n \in Nat /\ DOMAIN q = 1..n /\ \A i \in 1..n : q[i] \in Message
  OBVIOUS
<1>2. FreshMessages(q) = f /\ Retried(q) = g
  BY <1>1 DEF FreshMessages, Retried
<1> HIDE DEF n
<1>3. \A i \in 1..n : f[i] \in Entry /\ f[i].id = q[i] /\ g[i] \in Entry /\ g[i].id = q[i]
  BY <1>1 DEF Entry
<1>4. DOMAIN f = 1..n /\ DOMAIN g = 1..n /\ f = [i \in 1..n |-> f[i]] /\ g = [i \in 1..n |-> g[i]]
  OBVIOUS
<1> HIDE DEF f, g
<1>5. f \in [1..n -> Entry] /\ g \in [1..n -> Entry]
  BY <1>3, <1>4
<1>6. f \in Seq(Entry) /\ g \in Seq(Entry) /\ Len(f) = n /\ Len(g) = n
  BY <1>1, <1>5
<1> QED BY <1>2, <1>3, <1>6 DEF n

(* The ids of a batch that is a queue and then retries.                     *)
LEMMA IdsTaken ==
    ASSUME NEW q \in Seq(Message), NEW r \in Seq(Message),
           NEW b, b = FreshMessages(q) \o Retried(r)
    PROVE  b \in Seq(Entry) /\ Ids(b) \in Seq(Message) /\ Joined(Ids(b), q, r)
<1> DEFINE f == FreshMessages(q)
           g == Retried(r)
<1>1. /\ f \in Seq(Entry) /\ Len(f) = Len(q) /\ \A i \in 1..Len(q) : f[i].id = q[i]
      /\ g \in Seq(Entry) /\ Len(g) = Len(r) /\ \A i \in 1..Len(r) : g[i].id = r[i]
      /\ b = f \o g
  BY EntriesOf
<1> HIDE DEF f, g
<1>2. /\ b \in Seq(Entry) /\ Len(b) = Len(f) + Len(g)
      /\ \A i \in 1 .. Len(f) + Len(g) : b[i] = IF i <= Len(f) THEN f[i] ELSE g[i - Len(f)]
  <2>1. f \in Seq(Entry) /\ g \in Seq(Entry) /\ b = f \o g
    BY <1>1
  <2> QED BY ONLY <2>1, ConcatProperties, Zenon
<1>3. /\ Ids(b) \in Seq(Message) /\ Len(Ids(b)) = Len(b)
      /\ \A i \in 1..Len(b) : Ids(b)[i] = b[i].id
  <2>1. DOMAIN b = 1..Len(b)
    BY <1>2
  <2> QED BY <1>2, <2>1, IdsType DEF Ids
<1> DEFINE p == Ids(b)
<1> HIDE DEF p
<1>4. Len(q) \in Nat /\ Len(r) \in Nat
  OBVIOUS
<1>5. Len(p) = Len(q) + Len(r) /\ \A i \in 1..(Len(q) + Len(r)) : p[i] = b[i].id
  BY <1>1, <1>2, <1>3 DEF p
<1>6. ASSUME NEW i \in 1..Len(q) PROVE p[i] = q[i]
  <2>1. i \in 1..(Len(q) + Len(r)) /\ i <= Len(f)
    BY <1>1, <1>4
  <2> QED BY <2>1, <1>1, <1>2, <1>5
<1>7. ASSUME NEW i \in 1..Len(r) PROVE p[Len(q) + i] = r[i]
  <2> DEFINE k == Len(q) + i
  <2>1. k \in 1..(Len(q) + Len(r)) /\ ~(k <= Len(f)) /\ k - Len(f) = i
    BY <1>1, <1>4
  <2> HIDE DEF k
  <2>2. p[k] = b[k].id /\ b[k] = g[i]
    BY <2>1, <1>1, <1>2, <1>5
  <2> QED BY <2>2, <1>1 DEF k
<1>8. Joined(p, q, r)
  BY <1>5, <1>6, <1>7 DEF Joined
<1> QED BY <1>2, <1>3, <1>8 DEF p

(* The ids of what is left of a batch after the first of it.                *)
LEMMA IdsTail ==
    ASSUME NEW b \in Seq(Entry), b # <<>>
    PROVE  /\ Tail(b) \in Seq(Entry) /\ Head(b) \in Entry
           /\ Ids(b) \in Seq(Message) /\ Ids(b) # <<>>
           /\ Ids(Tail(b)) = Tail(Ids(b)) /\ Head(Ids(b)) = Head(b).id
<1> DEFINE n == Len(b)
           c == Tail(b)
           p == Ids(b)
           t == Ids(c)
<1>1. /\ c \in Seq(Entry) /\ Head(b) \in Entry /\ Head(b) = b[1]
      /\ n \in Nat /\ n > 0 /\ Len(c) = n - 1
      /\ DOMAIN b = 1..n /\ DOMAIN c = 1..(n - 1)
      /\ \A i \in 1..(n - 1) : c[i] = b[i + 1]
  OBVIOUS
<1> HIDE DEF c
<1>2. p \in Seq(Message) /\ Len(p) = n /\ \A i \in 1..n : p[i] = b[i].id
  BY <1>1, IdsType DEF Ids
<1>3. t \in Seq(Message) /\ Len(t) = n - 1 /\ \A i \in 1..(n - 1) : t[i] = b[i + 1].id
  BY <1>1, IdsType DEF Ids
<1> HIDE DEF p, t, n
<1>4. p # <<>> /\ Head(p) = b[1].id
  BY <1>1, <1>2
<1>5. /\ Tail(p) \in Seq(Message) /\ Len(Tail(p)) = n - 1
      /\ \A i \in 1..(n - 1) : Tail(p)[i] = p[i + 1]
  BY <1>1, <1>2
<1>6. ASSUME NEW i \in 1..(n - 1) PROVE t[i] = Tail(p)[i]
  <2>1. i + 1 \in 1..n
    BY <1>1
  <2>2. p[i + 1] = b[i + 1].id /\ t[i] = b[i + 1].id /\ Tail(p)[i] = p[i + 1]
    BY <2>1, <1>2, <1>3, <1>5
  <2> QED BY <2>2
<1>7. t = Tail(p)
  BY <1>3, <1>5, <1>6, SeqEqual
<1> QED BY <1>1, <1>2, <1>4, <1>7 DEF c, p, t

(* Conserved counts a message in the batch by its entries.                 *)
LEMMA BatchCount == \A m \in Message : CountBatch(m) = Count(Ids(batch), m)
<1> SUFFICES ASSUME NEW m \in Message PROVE CountBatch(m) = Count(Ids(batch), m)
  OBVIOUS
<1>1. {i \in DOMAIN batch : batch[i].id = m} = {i \in DOMAIN Ids(batch) : Ids(batch)[i] = m}
  BY DEF Ids
<1> QED BY <1>1 DEF CountBatch, Count

(* The places of m: what Conserved adds up.                                 *)
Places(m) ==
    Count(queue, m) + Count(Ids(batch), m) + Count(retryQueue, m)
      + (IF m \in delivered THEN 1 ELSE 0) + (IF m \in gaveUp THEN 1 ELSE 0)

(* An accepted message has one place, any other none.                       *)
NInv ==
    /\ queue \in Seq(Message) /\ retryQueue \in Seq(Message) /\ batch \in Seq(Entry)
    /\ sent \subseteq Message /\ dropped \subseteq sent
    /\ worker # "deliver" => batch = <<>>
    /\ stopper = "out" /\ ~running => worker = "none"
    /\ \A m \in Message : Places(m) = IF m \in sent \ dropped THEN 1 ELSE 0

(* The counts that Places adds are naturals.                               *)
LEMMA CountsNat ==
    ASSUME NInv, NEW m \in Message
    PROVE  Count(queue, m) \in Nat /\ Count(Ids(batch), m) \in Nat /\ Count(retryQueue, m) \in Nat
BY CountNat, IdsType DEF NInv

(* At first every queue is empty, and no message was sent.                 *)
LEMMA NInitially == NotificationInit => NInv
<1> SUFFICES ASSUME NotificationInit PROVE NInv
  OBVIOUS
<1> USE DEF NotificationInit
<1>1. Ids(batch) = <<>>
  BY DEF Ids
<1>2. \A m \in Message : Places(m) = 0
  BY <1>1, CountEmpty DEF Places
<1> QED BY <1>2 DEF NInv

(* A message that is queued takes a place, unless the queue is full.       *)
LEMMA QueueStep == ASSUME NInv, NEW m \in Message, QueueNotification(m),
                          UNCHANGED <<retryQueue, batch, running, stopper, outcome>>
                   PROVE  NInv'
<1> DEFINE room == ~(Len(queue) >= queueMaxSize)
<1>1. /\ queue \in Seq(Message) /\ retryQueue \in Seq(Message) /\ batch \in Seq(Entry)
      /\ sent \subseteq Message /\ dropped \subseteq sent
      /\ m \notin sent /\ sent' = sent \cup {m}
      /\ retryQueue' = retryQueue /\ batch' = batch /\ delivered' = delivered /\ gaveUp' = gaveUp
      /\ IF room THEN queue' = Append(queue, m) /\ dropped' = dropped
                 ELSE queue' = queue /\ dropped' = dropped \cup {m}
  BY DEF NInv, QueueNotification, outcome
<1>2. \A k \in Message : Places(k) = IF k \in sent \ dropped THEN 1 ELSE 0
  BY DEF NInv
<1>3. Ids(batch)' = Ids(batch)
  BY <1>1 DEF Ids
<1>4. queue' \in Seq(Message)
  <2>1. Append(queue, m) \in Seq(Message)
    BY <1>1
  <2> HIDE DEF room
  <2> QED BY <1>1, <2>1
<1>5. ASSUME NEW k \in Message PROVE Places(k)' = IF k \in sent' \ dropped' THEN 1 ELSE 0
  <2>1. Count(queue', k) = Count(queue, k) + (IF m = k /\ room THEN 1 ELSE 0)
    <3>1. CASE room
      <4>1. queue' = Append(queue, m)
        BY <1>1, <3>1
      <4> QED BY <4>1, <3>1, <1>1, CountAppend
    <3>2. CASE ~room
      <4>1. queue' = queue /\ Count(queue, k) \in Nat
        BY <1>1, <3>2, CountNat
      <4> QED BY <4>1, <3>2
    <3> QED BY <3>1, <3>2
  <2>2. Places(k)' = Places(k) + (IF m = k /\ room THEN 1 ELSE 0)
    <3> HIDE DEF room
    <3> QED BY <2>1, <1>1, <1>3, CountsNat DEF Places
  <2> HIDE DEF room
  <2> QED BY <2>2, <1>1, <1>2
<1>6. /\ worker' # "deliver" => batch' = <<>>
      /\ stopper' = "out" /\ ~running' => worker' = "none"
  BY DEF NInv, QueueNotification
<1> QED BY <1>1, <1>4, <1>5, <1>6 DEF NInv

(* What is added to one place is taken from another.                        *)
LEMMA TakeStep == ASSUME NInv, Take PROVE NInv'
<1>1. /\ queue \in Seq(Message) /\ retryQueue \in Seq(Message)
      /\ sent' = sent /\ dropped' = dropped /\ delivered' = delivered /\ gaveUp' = gaveUp
      /\ queue' = <<>>
  BY DEF NInv, Take, outcome
<1>2. PICK ready \in 0 .. Len(retryQueue) :
          /\ batch' = FreshMessages(queue) \o Retried(SubSeq(retryQueue, 1, ready))
          /\ retryQueue' = SubSeq(retryQueue, ready + 1, Len(retryQueue))
  BY DEF Take
<1>3. batch = <<>> /\ running' = running /\ worker' = "deliver" /\ running
  BY DEF NInv, Take
<1> DEFINE r == SubSeq(retryQueue, 1, ready)
<1>4. /\ r \in Seq(Message) /\ retryQueue' \in Seq(Message)
      /\ \A k \in Message : Count(retryQueue, k) = Count(r, k) + Count(retryQueue', k)
  BY <1>1, <1>2, CountSplit
<1> HIDE DEF r
<1>5. batch' \in Seq(Entry) /\ Ids(batch') \in Seq(Message) /\ Joined(Ids(batch'), queue, r)
  BY <1>1, <1>2, <1>4, IdsTaken DEF r
<1>6. ASSUME NEW k \in Message PROVE Places(k)' = Places(k)
  <2>1. Count(Ids(batch'), k) = Count(queue, k) + Count(r, k)
    BY <1>1, <1>4, <1>5, CountJoin
  <2>2. Count(queue', k) = 0
    BY <1>1, CountEmpty
  <2>3. Count(Ids(batch), k) = 0
    <3>1. Ids(batch) = <<>>
      BY <1>3 DEF Ids
    <3> QED BY <3>1, CountEmpty
  <2>4. Count(queue, k) \in Nat /\ Count(r, k) \in Nat /\ Count(retryQueue', k) \in Nat
    BY <1>1, <1>4, CountNat
  <2> QED BY <1>1, <1>4, <2>1, <2>2, <2>3, <2>4 DEF Places
<1> QED BY <1>1, <1>3, <1>4, <1>5, <1>6 DEF NInv

(* The first of the batch leaves it. *)
LEMMA HeadLeaves ==
    ASSUME NInv, batch # <<>>, batch' = Tail(batch)
    PROVE  /\ batch' \in Seq(Entry) /\ Head(batch).id \in Message
           /\ \A k \in Message : /\ Count(Ids(batch'), k) \in Nat
                                 /\ Count(Ids(batch), k) = Count(Ids(batch'), k)
                                      + (IF Head(batch).id = k THEN 1 ELSE 0)
<1>1. batch \in Seq(Entry)
  BY DEF NInv
<1>2. /\ batch' \in Seq(Entry) /\ Head(batch) \in Entry
      /\ Ids(batch) \in Seq(Message) /\ Ids(batch) # <<>>
      /\ Ids(batch') = Tail(Ids(batch)) /\ Head(Ids(batch)) = Head(batch).id
  BY <1>1, IdsTail
<1>3. Head(batch).id \in Message
  BY <1>2 DEF Entry
<1>4. Ids(batch') \in Seq(Message)
  BY <1>2, IdsType
<1>5. ASSUME NEW k \in Message
      PROVE  /\ Count(Ids(batch'), k) \in Nat
             /\ Count(Ids(batch), k) = Count(Ids(batch'), k) + (IF Head(batch).id = k THEN 1 ELSE 0)
  BY <1>2, <1>4, CountTail, CountNat
<1> QED BY <1>2, <1>3, <1>5

(* A message that is delivered moves from the batch to the delivered.      *)
LEMMA DeliverStep == ASSUME NInv, Deliver PROVE NInv'
<1> DEFINE x == Head(batch).id
<1>1. /\ batch # <<>> /\ batch' = Tail(batch)
      /\ queue' = queue /\ retryQueue' = retryQueue
      /\ sent' = sent /\ dropped' = dropped /\ gaveUp' = gaveUp /\ delivered' = delivered \cup {x}
      /\ worker' = worker /\ worker = "deliver" /\ running' = running /\ stopper' = stopper
  BY DEF Deliver, queues
<1>2. /\ batch' \in Seq(Entry) /\ x \in Message
      /\ \A k \in Message : /\ Count(Ids(batch'), k) \in Nat
                            /\ Count(Ids(batch), k) = Count(Ids(batch'), k)
                                 + (IF x = k THEN 1 ELSE 0)
  BY <1>1, HeadLeaves
<1> HIDE DEF x
<1>3. ASSUME NEW k \in Message PROVE Places(k)' = IF k \in sent \ dropped THEN 1 ELSE 0
  <2>1. Places(k) = IF k \in sent \ dropped THEN 1 ELSE 0
    BY DEF NInv
  <2>2. x = k => k \notin delivered
    BY <1>2, <2>1, CountsNat DEF Places
  <2>3. Places(k)' = Places(k)
    BY <1>1, <1>2, <2>2, CountsNat DEF Places
  <2> QED BY <2>1, <2>3
<1> QED BY <1>1, <1>2, <1>3 DEF NInv

(* A message whose delivery fails moves to the retry queue or is given up. *)
LEMMA FailStep == ASSUME NInv, Fail PROVE NInv'
<1> DEFINE x == Head(batch).id
<1>1. /\ batch # <<>> /\ batch' = Tail(batch) /\ queue' = queue
      /\ sent' = sent /\ dropped' = dropped /\ delivered' = delivered
      /\ \/ retryQueue' = Append(retryQueue, x) /\ gaveUp' = gaveUp
         \/ retryQueue' = retryQueue /\ gaveUp' = gaveUp \cup {x}
      /\ worker' = worker /\ worker = "deliver" /\ running' = running /\ stopper' = stopper
  BY DEF Fail
<1>2. /\ batch' \in Seq(Entry) /\ x \in Message
      /\ \A k \in Message : /\ Count(Ids(batch'), k) \in Nat
                            /\ Count(Ids(batch), k) = Count(Ids(batch'), k)
                                 + (IF x = k THEN 1 ELSE 0)
  BY <1>1, HeadLeaves
<1> HIDE DEF x
<1>3. retryQueue \in Seq(Message) /\ retryQueue' \in Seq(Message)
  <2>1. retryQueue \in Seq(Message)
    BY DEF NInv
  <2>2. Append(retryQueue, x) \in Seq(Message)
    BY <1>2, <2>1
  <2> QED BY <1>1, <2>1, <2>2
<1>4. ASSUME NEW k \in Message PROVE Places(k)' = IF k \in sent \ dropped THEN 1 ELSE 0
  <2>1. Places(k) = IF k \in sent \ dropped THEN 1 ELSE 0
    BY DEF NInv
  <2>2. x = k => k \notin gaveUp
    BY <1>2, <2>1, CountsNat DEF Places
  <2>3. CASE retryQueue' = Append(retryQueue, x) /\ gaveUp' = gaveUp
    <3>1. Count(retryQueue', k) = Count(retryQueue, k) + (IF x = k THEN 1 ELSE 0)
      BY <2>3, <1>2, <1>3, CountAppend
    <3> QED BY <1>1, <1>2, <2>1, <2>3, <3>1, CountsNat DEF Places
  <2>4. CASE retryQueue' = retryQueue /\ gaveUp' = gaveUp \cup {x}
    <3>1. Places(k)' = Places(k)
      BY <1>1, <1>2, <2>2, <2>4, CountsNat DEF Places
    <3> QED BY <2>1, <3>1
  <2> QED BY <1>1, <2>3, <2>4
<1> QED BY <1>1, <1>2, <1>3, <1>4 DEF NInv

(* Every step of the service leaves each accepted message its one place.   *)
LEMMA NStep == NInv /\ [NotificationNext]_nvars => NInv'
<1> SUFFICES ASSUME NInv, [NotificationNext]_nvars PROVE NInv'
  OBVIOUS
<1> USE DEF outcome
<1>1. ASSUME NEW m \in Message, Send(m) PROVE NInv'
  BY <1>1, QueueStep DEF Send
<1>2. ASSUME NEW w \in Watcher, NEW m \in Message, QueueAlert(w, m) PROVE NInv'
  BY <1>2, QueueStep DEF QueueAlert
<1>3. ASSUME UNCHANGED <<queue, retryQueue, batch, sent, dropped, delivered, gaveUp>>,
             worker' # "deliver" => batch = <<>>,
             stopper' = "out" /\ ~running' => worker' = "none"
      PROVE  NInv'
  <2>1. ASSUME NEW m \in Message PROVE Places(m)' = Places(m)
    BY <1>3 DEF Places, Ids
  <2> QED BY <1>3, <2>1 DEF NInv
<1>4. ASSUME NEW w \in Watcher, ShouldSend(w) \/ RecordAlert(w) PROVE NInv'
  BY <1>3, <1>4 DEF ShouldSend, RecordAlert, queues, NInv
<1>5. CASE CooldownEnds
  BY <1>3, <1>5 DEF CooldownEnds, queues, NInv
<1>6. CASE Loop \/ FallAsleep \/ Sleep \/ Leave \/ PassEnds
  BY <1>3, <1>6 DEF Loop, FallAsleep, Sleep, Leave, PassEnds, queues, NInv
<1>7. CASE Stop \/ NotifyAll \/ Join \/ Start
  BY <1>3, <1>7 DEF Stop, NotifyAll, Join, Start, queues, NInv
<1>8. CASE UNCHANGED nvars
  BY <1>3, <1>8 DEF nvars, queues, NInv
<1> QED BY <1>1, <1>2, <1>4, <1>5, <1>6, <1>7, <1>8, TakeStep, DeliverStep, FailStep
        DEF NotificationNext, Worker

(* Through failures, retries, stops and restarts of the service each       *)
(* message it accepted stays in exactly one place: none is lost, and none  *)
(* is delivered twice. For any messages, watchers and size of the queue.   *)
THEOREM NothingDuplicated == NotificationSpec => []Conserved
<1>1. NInv => Conserved
  BY BatchCount DEF NInv, Conserved, Places
<1> QED BY <1>1, NInitially, NStep, PTL DEF NotificationSpec

(* One thread raises the resource alerts.                                   *)
OneWatcher == \E w : Watcher = {w}

(* A watcher that has found no cooldown is alone to send, and has sent once *)
(* only when it is about to start the cooldown.                             *)
AlertInv ==
    \E w : /\ Watcher = {w}
           /\ watcher \in [Watcher -> {"out", "queue", "record"}]
           /\ watcher[w] = "out" => alerts = IF cooldown THEN 1 ELSE 0
           /\ watcher[w] = "queue" => ~cooldown /\ alerts = 0
           /\ watcher[w] = "record" => ~cooldown /\ alerts = 1

(* No step of the only watcher sends a second alert in a cooldown.          *)
LEMMA AlertStep == AlertInv /\ [NotificationNext]_nvars => AlertInv'
  <1> SUFFICES ASSUME AlertInv, [NotificationNext]_nvars PROVE AlertInv'
    OBVIOUS
  <1>1. PICK w : /\ Watcher = {w}
                 /\ watcher \in [Watcher -> {"out", "queue", "record"}]
                 /\ watcher[w] = "out" => alerts = IF cooldown THEN 1 ELSE 0
                 /\ watcher[w] = "queue" => ~cooldown /\ alerts = 0
                 /\ watcher[w] = "record" => ~cooldown /\ alerts = 1
    BY DEF AlertInv
  <1>2. CASE UNCHANGED alerting
    BY <1>1, <1>2 DEF AlertInv, alerting
  <1>3. CASE ShouldSend(w)
    <2>1. /\ watcher' = [watcher EXCEPT ![w] = "queue"] /\ watcher[w] = "out"
          /\ ~cooldown /\ cooldown' = cooldown /\ alerts' = alerts
      BY <1>3 DEF ShouldSend
    <2>2. watcher' \in [Watcher -> {"out", "queue", "record"}] /\ watcher'[w] = "queue"
      BY <1>1, <2>1
    <2> QED BY <1>1, <2>1, <2>2 DEF AlertInv
  <1>4. ASSUME NEW m \in Message, QueueAlert(w, m) PROVE AlertInv'
    <2>1. /\ watcher' = [watcher EXCEPT ![w] = "record"] /\ watcher[w] = "queue"
          /\ cooldown' = cooldown /\ alerts' = alerts + 1
      BY <1>4 DEF QueueAlert
    <2>2. watcher' \in [Watcher -> {"out", "queue", "record"}] /\ watcher'[w] = "record"
      BY <1>1, <2>1
    <2> QED BY <1>1, <2>1, <2>2 DEF AlertInv
  <1>5. CASE RecordAlert(w)
    <2>1. /\ watcher' = [watcher EXCEPT ![w] = "out"] /\ watcher[w] = "record"
          /\ cooldown' = TRUE /\ alerts' = alerts
      BY <1>5 DEF RecordAlert
    <2>2. watcher' \in [Watcher -> {"out", "queue", "record"}] /\ watcher'[w] = "out"
      BY <1>1, <2>1
    <2> QED BY <1>1, <2>1, <2>2 DEF AlertInv
  <1>6. CASE CooldownEnds
    <2>1. /\ watcher[w] = "out" /\ watcher' = watcher
          /\ cooldown' = FALSE /\ alerts' = 0
      BY <1>1, <1>6 DEF CooldownEnds
    <2> QED BY <1>1, <2>1 DEF AlertInv
  <1>7. CASE \/ (\E m \in Message : Send(m)) \/ Worker
             \/ Stop \/ NotifyAll \/ Join \/ Start
    <2>1. UNCHANGED alerting
      BY <1>7 DEF Send, Worker, Loop, FallAsleep, Sleep, Leave, Take, Deliver, Fail, PassEnds,
                  Stop, NotifyAll, Join, Start, alerting
    <2> QED BY <1>2, <2>1
  <1>8. CASE UNCHANGED nvars
    BY <1>2, <1>8 DEF nvars
  <1> QED BY <1>1, <1>3, <1>4, <1>5, <1>6, <1>7, <1>8 DEF NotificationNext

(* When one thread raises resource alerts, the test of the cooldown and its *)
(* start, two steps with the queue between them, let one alert through in   *)
(* five minutes, whatever the others queue and whenever the service stops.  *)
THEOREM OneAlertPerCooldown == OneWatcher => (NotificationSpec => []OncePerCooldown)
  <1>1. OneWatcher /\ NotificationInit => AlertInv
    BY DEF OneWatcher, NotificationInit, AlertInv
  <1>2. AlertInv => OncePerCooldown
    <2> SUFFICES ASSUME AlertInv PROVE OncePerCooldown
      OBVIOUS
    <2>1. alerts = 0 \/ alerts = 1
      BY DEF AlertInv
    <2> QED BY <2>1 DEF OncePerCooldown
  <1> QED BY <1>1, <1>2, AlertStep, PTL DEF NotificationSpec

-----------------------------------------------------------------------------
(* RateLimiter.                                                            *)
Counts == [Requester -> [Endpoint -> [Window -> Nat]]]

(* The counts since the minute before the latest agree with the counters.   *)
RLInv ==
    /\ minuteCounters \in Counts /\ granted \in Counts
    /\ rules \subseteq RateRule
    /\ minute \in Window /\ latest \in Window /\ minute <= latest /\ latest <= minute + 1
    /\ \A c \in Requester, e \in Endpoint, w \in Window :
          latest <= w + 1 => granted[c][e][w] = minuteCounters[c][e][w]

RLStepAllowed ==
    \A c \in Requester, e \in Endpoint, w \in Window :
        granted'[c][e][w] > granted[c][e][w] =>
            \E r \in getRuleForEndpoint(e) :
                /\ granted'[c][e][w] <= r.perMinute
                /\ getRateLimitInfo(c, e, r).remaining > 0

(* The limiter before its first request.                                    *)
LEMMA RLInitially == RLInit => RLInv
  BY RateAssumption DEF RLInit, RLInv, Counts, NoRequests, Window

(* Every step of the limiter keeps the invariant and lets no request beyond *)
(* the limit pass.                                                          *)
LEMMA RLStep ==
    ASSUME MaxBack <= 1, RLInv, [RLNext]_rlvars
    PROVE  RLInv' /\ RLStepAllowed
  <1>1. ASSUME NEW c \in Requester, NEW e \in Endpoint, isAllowed(c, e)
        PROVE  RLInv' /\ RLStepAllowed
    <2>1. PICK r \in getRuleForEndpoint(e) :
              /\ minuteCounters[c][e][minute] < r.perMinute
              /\ minuteCounters' = [minuteCounters EXCEPT ![c][e][minute] = @ + 1]
              /\ granted' = [granted EXCEPT ![c][e][minute] = @ + 1]
              /\ UNCHANGED <<rules, minute, latest>>
      BY <1>1 DEF isAllowed
    <2>2. r.perMinute \in Nat
      BY DEF getRuleForEndpoint, RLInv, RateRule
    <2>3. /\ granted' \in Counts /\ granted'[c][e][minute] = granted[c][e][minute] + 1
          /\ \A d \in Requester, k \in Endpoint, v \in Window :
                 ~(d = c /\ k = e /\ v = minute) => granted'[d][k][v] = granted[d][k][v]
      BY <2>1 DEF RLInv, Counts
    <2>4. /\ minuteCounters' \in Counts
          /\ minuteCounters'[c][e][minute] = minuteCounters[c][e][minute] + 1
          /\ \A d \in Requester, k \in Endpoint, v \in Window :
                 ~(d = c /\ k = e /\ v = minute) =>
                    minuteCounters'[d][k][v] = minuteCounters[d][k][v]
      BY <2>1 DEF RLInv, Counts
    <2>5. /\ granted[c][e][minute] = minuteCounters[c][e][minute]
          /\ minuteCounters[c][e][minute] \in Nat /\ minute \in Window
      BY DEF RLInv, Counts
    <2>6. RLInv'
      BY <2>1, <2>3, <2>4, <2>5 DEF RLInv
    <2>7. granted'[c][e][minute] <= r.perMinute /\ getRateLimitInfo(c, e, r).remaining > 0
      BY <2>1, <2>2, <2>3, <2>5 DEF getRateLimitInfo
    <2>8. \A d \in Requester, k \in Endpoint, v \in Window : granted[d][k][v] \in Nat
      BY DEF RLInv, Counts
    <2>9. RLStepAllowed
      BY <2>1, <2>3, <2>7, <2>8 DEF RLStepAllowed
    <2> QED
      BY <2>6, <2>9
  <1>2. ASSUME NEW r \in AddedRule, addRule(r) PROVE RLInv' /\ RLStepAllowed
    BY <1>2, RateAssumption DEF addRule, RLInv, RLStepAllowed, Counts
  <1>3. ASSUME NEW c \in Requester, resetClient(c) PROVE RLInv' /\ RLStepAllowed
    <2>1. /\ granted' \in Counts /\ minuteCounters' \in Counts
          /\ \A d \in Requester, k \in Endpoint, v \in Window :
                /\ granted'[d][k][v] = IF d = c THEN 0 ELSE granted[d][k][v]
                /\ minuteCounters'[d][k][v] = IF d = c THEN 0 ELSE minuteCounters[d][k][v]
      <3>1. NoRequests \in [Endpoint -> [Window -> Nat]]
        BY DEF NoRequests
      <3>2. \A k \in Endpoint, v \in Window : NoRequests[k][v] = 0
        BY DEF NoRequests
      <3> QED
        BY <1>3, <3>1, <3>2 DEF resetClient, RLInv, Counts
    <2>2. UNCHANGED <<rules, minute, latest>>
      BY <1>3 DEF resetClient
    <2>3. \A d \in Requester, k \in Endpoint, v \in Window : granted[d][k][v] \in Nat
      BY DEF RLInv, Counts
    <2> QED
      BY <2>1, <2>2, <2>3 DEF RLInv, RLStepAllowed
  <1>4. CASE cleanupExpiredEntries
    <2>1. /\ minuteCounters' \in Counts
          /\ \A d \in Requester, k \in Endpoint, v \in Window :
                minuteCounters'[d][k][v] = IF v + 1 < minute THEN 0 ELSE minuteCounters[d][k][v]
      <3>1. \A d \in Requester, k \in Endpoint, v \in Window : minuteCounters[d][k][v] \in Nat
        BY DEF RLInv, Counts
      <3>2. minuteCounters' = [d \in Requester |-> [k \in Endpoint |-> [v \in Window |->
                IF v + 1 < minute THEN 0 ELSE minuteCounters[d][k][v]]]]
        BY <1>4 DEF cleanupExpiredEntries, DropOld
      <3> QED
        BY <3>1, <3>2 DEF Counts
    <2>2. UNCHANGED <<rules, minute, latest, granted>>
      BY <1>4 DEF cleanupExpiredEntries
    <2>3. \A d \in Requester, k \in Endpoint, v \in Window :
              granted[d][k][v] \in Nat
      BY DEF RLInv, Counts
    <2>4. \A v \in Window : latest <= v + 1 => ~(v + 1 < minute)
      BY RateAssumption DEF RLInv, Window
    <2> QED
      BY <2>1, <2>2, <2>3, <2>4 DEF RLInv, RLStepAllowed
  <1>5. CASE Clock
    BY <1>5, RateAssumption DEF Clock, RLInv, RLStepAllowed, Counts, Window
  <1>6. CASE UNCHANGED rlvars
    BY <1>6 DEF rlvars, RLInv, RLStepAllowed, Counts
  <1> QED
    BY <1>1, <1>2, <1>3, <1>4, <1>5, <1>6 DEF RLNext

(* No request passes beyond the limit of a rule in force, for any clients,   *)
(* endpoints and rules, while the clock goes back at most a minute: the     *)
(* clean-up keeps one minute, and a clock set further back meets counters   *)
(* that are gone.                                                          *)
THEOREM LimitHolds == MaxBack <= 1 /\ RLSpec => WithinLimit
  <1> SUFFICES ASSUME MaxBack <= 1 PROVE RLSpec => WithinLimit
    OBVIOUS
  <1>1. RLInv /\ [RLNext]_rlvars => RLInv' /\ RLStepAllowed
    BY RLStep
  <1> QED
    BY <1>1, RLInitially, PTL DEF RLSpec, WithinLimit, RLStepAllowed

-----------------------------------------------------------------------------
(* AuthManager.                                                            *)
SessionRow == [user : User, expires : Int, valid : BOOLEAN]

(* A row s that is valid has the hours it was made with; a revoked one is   *)
(* invalid.                                                                *)
SessionFits(s) ==
    sessions[s] # NoRow =>
        /\ sessions[s] \in SessionRow /\ created[s] # -1
        /\ sessions[s].valid => sessions[s].expires = created[s] + SessionHours
        /\ s \in revoked => ~sessions[s].valid

(* A copy that is about to be written makes no row valid.                  *)
CopyFits(c) ==
    /\ c.call = "insert session" => c.user \in User
    /\ c.call = "write session" =>
          /\ c.session \in SessionId /\ created[c.session] # -1
          /\ c.row \in SessionRow /\ ~c.row.valid

(* Copies of rows make no session valid, and a valid one is as it was made.  *)
AuInv ==
    /\ DOMAIN sessions = SessionId /\ op = [t \in AuthThread |-> op[t]]
    /\ created \in [SessionId -> Int] /\ hour \in Nat
    /\ \A s \in revoked : created[s] # -1
    /\ \A s \in SessionId : SessionFits(s)
    /\ \A t \in AuthThread : CopyFits(op[t])

AuStepAllowed ==
    \A t \in AuthThread, s \in SessionId :
        op'[t] = [call |-> "accepted", session |-> s] /\ op[t] # op'[t]
        => s \notin revoked /\ hour - created[s] < SessionHours + hoursWest

(* The tables before the first call.                                        *)
LEMMA AuInitially == AuInit => AuInv
  <1> SUFFICES ASSUME AuInit PROVE AuInv
    OBVIOUS
  <1>1. ASSUME NEW t \in AuthThread PROVE op[t].call = "idle"
    BY DEF NoOp, AuInit
  <1>2. op = [t \in AuthThread |-> op[t]] /\ DOMAIN sessions = SessionId
    BY DEF AuInit
  <1>3. created \in [SessionId -> Int] /\ hour \in Nat /\ revoked = {}
    BY DEF AuInit
  <1>4. \A s \in SessionId : SessionFits(s)
    BY DEF AuInit, SessionFits
  <1> QED
    BY <1>1, <1>2, <1>3, <1>4 DEF AuInv, CopyFits

(* A call that will write a copy of what it has read of s.                 *)
LEMMA CopyRead ==
    ASSUME AuInv, NEW s \in SessionId, sessions[s] # NoRow
    PROVE  LET row == sessionFromRow(sessions[s])
               gone == [row EXCEPT !.valid = FALSE]
           IN /\ row \in SessionRow /\ row.valid = sessions[s].valid
              /\ row.valid => row.expires = created[s] + SessionHours + hoursWest
              /\ gone \in SessionRow /\ ~gone.valid
              /\ created[s] # -1
  <1> DEFINE r == sessions[s]  row == sessionFromRow(r)  gone == [row EXCEPT !.valid = FALSE]
  <1>1. /\ r \in SessionRow /\ created[s] # -1
        /\ r.valid => r.expires = created[s] + SessionHours
    BY DEF AuInv, SessionFits
  <1>2. created[s] \in Int /\ SessionHours \in Int /\ hoursWest \in Int
    BY AuthAssumption DEF AuInv
  <1> HIDE DEF r
  <1>3. row \in SessionRow /\ row.valid = r.valid /\ row.expires = r.expires + hoursWest
    BY <1>1, <1>2 DEF sessionFromRow, SessionRow
  <1> HIDE DEF row
  <1>4. gone \in SessionRow /\ ~gone.valid
    BY <1>3 DEF SessionRow
  <1>5. row.valid => row.expires = created[s] + SessionHours + hoursWest
    <2>1. r.expires \in Int
      BY <1>1 DEF SessionRow
    <2> QED
      BY <1>1, <1>2, <1>3, <2>1
  <1> QED
    BY <1>1, <1>3, <1>4, <1>5 DEF r, row

(* The step of a thread that changes no session.                           *)
LEMMA CallStep ==
    ASSUME AuInv, NEW t \in AuthThread, NEW c, op' = [op EXCEPT ![t] = c], CopyFits(c),
           UNCHANGED <<sessions, hour, created, revoked>>,
           \A s \in SessionId : c = [call |-> "accepted", session |-> s] =>
               s \notin revoked /\ hour - created[s] < SessionHours + hoursWest
    PROVE  AuInv' /\ AuStepAllowed
  <1>1. op' = [v \in AuthThread |-> op'[v]] /\ \A v \in AuthThread : op'[v] = IF v = t THEN c ELSE op[v]
    BY DEF AuInv
  <1>2. AuStepAllowed
    BY <1>1 DEF AuStepAllowed
  <1>4. \A v \in AuthThread : CopyFits(op[v])'
    BY <1>1 DEF AuInv, CopyFits
  <1>5. AuInv'
    BY <1>1, <1>4 DEF AuInv, SessionFits
  <1> QED
    BY <1>2, <1>5

(* A call that has read no session, or one that has returned.               *)
LEMMA OtherCall ==
    ASSUME AuInv, NEW t \in AuthThread, NEW c, op' = [op EXCEPT ![t] = c],
           c.call \notin {"write session", "accepted"},
           c.call = "insert session" => c.user \in User,
           UNCHANGED <<sessions, hour, created, revoked>>
    PROVE  AuInv' /\ AuStepAllowed
  <1>1. \A s : [call |-> "accepted", session |-> s].call = "accepted"
    OBVIOUS
  <1> QED
    BY <1>1, CallStep DEF CopyFits

(* Every step of the manager keeps the invariant and accepts live sessions  *)
(* only.                                                                    *)
LEMMA AuStep ==
    ASSUME AuInv, [AuNext]_auvars
    PROVE  AuInv' /\ AuStepAllowed
  <1>1. ASSUME NEW t \in AuthThread, NEW u \in User, createUser(t, u) \/ createSession(t, u)
        PROVE  AuInv' /\ AuStepAllowed
    BY <1>1, OtherCall DEF createUser, createSession, Call
  <1>2. ASSUME NEW t \in AuthThread, NEW u \in User, NEW role \in Role,
               assignRole(t, u, role) \/ revokeRole(t, u, role)
        PROVE  AuInv' /\ AuStepAllowed
    BY <1>2, OtherCall DEF assignRole, revokeRole, Call
  <1>3. ASSUME NEW t \in AuthThread, InsertUser(t) \/ updateUser(t) \/ Answered(t)
        PROVE  AuInv' /\ AuStepAllowed
    BY <1>3, OtherCall DEF InsertUser, updateUser, Answered, Return, NoOp
  <1>4. ASSUME NEW t \in AuthThread, NEW s \in SessionId, validateSession(t, s)
        PROVE  AuInv' /\ AuStepAllowed
    <2> DEFINE row == sessionFromRow(sessions[s])
               gone == [row EXCEPT !.valid = FALSE]
    <2>1. UNCHANGED <<sessions, hour, created, revoked>> /\ sessions[s] # NoRow
      BY <1>4 DEF validateSession
    <2>2. /\ row \in SessionRow /\ row.valid = sessions[s].valid
          /\ row.valid => row.expires = created[s] + SessionHours + hoursWest
          /\ gone \in SessionRow /\ ~gone.valid
          /\ created[s] # -1
      BY <2>1, CopyRead
    <2>3. \/ op' = [op EXCEPT ![t] = [call |-> "refused"]]
          \/ /\ op' = [op EXCEPT ![t] = [call |-> "accepted", session |-> s]]
             /\ row.valid /\ hour < row.expires
          \/ op' = [op EXCEPT ![t] = [call |-> "write session", session |-> s,
                                       revoke |-> FALSE, row |-> gone]]
      BY <1>4 DEF validateSession, Call
    <2> HIDE DEF row, gone
    <2>4. CASE op' = [op EXCEPT ![t] = [call |-> "refused"]]
      BY <2>1, <2>4, OtherCall
    <2>5. CASE /\ op' = [op EXCEPT ![t] = [call |-> "accepted", session |-> s]]
               /\ row.valid /\ hour < row.expires
      <3>1. s \notin revoked
        BY <2>1, <2>2, <2>5 DEF AuInv, SessionFits
      <3>2. hour - created[s] < SessionHours + hoursWest
        BY <2>2, <2>5, AuthAssumption DEF AuInv, SessionRow
      <3> DEFINE c == [call |-> "accepted", session |-> s]
      <3>3. c.call = "accepted" /\ \A v : c = [call |-> "accepted", session |-> v] => v = s
        OBVIOUS
      <3> HIDE DEF c
      <3> QED
        BY <2>1, <2>5, <3>1, <3>2, <3>3, CallStep DEF CopyFits, c
    <2>6. CASE op' = [op EXCEPT ![t] = [call |-> "write session", session |-> s,
                                         revoke |-> FALSE, row |-> gone]]
      BY <2>1, <2>2, <2>6, CallStep DEF CopyFits
    <2> QED
      BY <2>3, <2>4, <2>5, <2>6
  <1>5. ASSUME NEW t \in AuthThread, NEW s \in SessionId, revokeSession(t, s)
        PROVE  AuInv' /\ AuStepAllowed
    <2> DEFINE row == sessionFromRow(sessions[s])
               gone == [row EXCEPT !.valid = FALSE]
    <2>1. /\ UNCHANGED <<sessions, hour, created, revoked>> /\ sessions[s] # NoRow
          /\ op' = [op EXCEPT ![t] = [call |-> "write session", session |-> s,
                                       revoke |-> TRUE, row |-> gone]]
      BY <1>5 DEF revokeSession, Call
    <2>2. gone \in SessionRow /\ ~gone.valid /\ created[s] # -1
      BY <2>1, CopyRead
    <2> HIDE DEF row, gone
    <2> QED
      BY <2>1, <2>2, CallStep DEF CopyFits
  <1>6. ASSUME NEW t \in AuthThread, InsertSession(t) PROVE AuInv' /\ AuStepAllowed
    <2>1. op' = [op EXCEPT ![t] = NoOp] /\ hour' = hour /\ revoked' = revoked
      BY <1>6 DEF InsertSession, Return
    <2>2. \A v \in AuthThread : op'[v] = IF v = t THEN NoOp ELSE op[v]
      BY <2>1 DEF AuInv
    <2>3. op' = [v \in AuthThread |-> op'[v]] /\ NoOp.call = "idle" /\ AuStepAllowed
      BY <2>1, <2>2 DEF AuInv, NoOp, AuStepAllowed
    <2>4. ASSUME NEW s \in SessionId, created[s] = -1, created' = [created EXCEPT ![s] = hour],
                 sessions' = [sessions EXCEPT ![s] =
                     [user |-> op[t].user, expires |-> hour + SessionHours, valid |-> TRUE]]
          PROVE  AuInv'
      <3> DEFINE row == [user |-> op[t].user, expires |-> hour + SessionHours, valid |-> TRUE]
      <3>1. row \in SessionRow /\ row.expires = hour + SessionHours
        <4>1. op[t].user \in User
          BY <1>6 DEF InsertSession, AuInv, CopyFits
        <4>2. hour + SessionHours \in Int
          BY AuthAssumption DEF AuInv
        <4> QED
          BY <4>1, <4>2 DEF SessionRow
      <3> HIDE DEF row
      <3>2. /\ DOMAIN sessions' = SessionId /\ created' \in [SessionId -> Int]
            /\ created'[s] = hour /\ sessions'[s] = row
            /\ \A v \in SessionId : v # s => /\ created'[v] = created[v]
                                             /\ sessions'[v] = sessions[v]
        BY <2>4 DEF AuInv, row
      <3>3. s \notin revoked
        BY <2>4 DEF AuInv
      <3>4. \A v \in SessionId : SessionFits(v)'
        <4>1. SessionFits(s)'
          BY <2>1, <3>1, <3>2, <3>3, AuthAssumption DEF AuInv, SessionFits
        <4>2. ASSUME NEW v \in SessionId, v # s PROVE SessionFits(v)'
          BY <2>1, <3>2, <4>2 DEF AuInv, SessionFits
        <4> QED
          BY <4>1, <4>2
      <3>5. \A c : c.call = "write session" /\ CopyFits(c) =>
                created'[c.session] = created[c.session]
        BY <2>4, <3>2 DEF CopyFits
      <3>6. \A v \in AuthThread : CopyFits(op[v])'
        BY <2>2, <2>3, <3>5 DEF AuInv, CopyFits
      <3> QED
        BY <2>1, <2>3, <2>4, <3>2, <3>3, <3>4, <3>6 DEF AuInv
    <2>5. CASE UNCHANGED <<created, sessions>>
      BY <2>1, <2>5, OtherCall DEF NoOp
    <2> QED
      BY <1>6, <2>3, <2>4, <2>5 DEF InsertSession
  <1>7. ASSUME NEW t \in AuthThread, updateSession(t) PROVE AuInv' /\ AuStepAllowed
    <2>1. op' = [op EXCEPT ![t] = NoOp] /\ hour' = hour /\ created' = created
      BY <1>7 DEF updateSession, Return
    <2>2. PICK s \in SessionId :
              /\ s = op[t].session /\ created[s] # -1 /\ op[t].call = "write session"
              /\ op[t].row \in SessionRow /\ ~op[t].row.valid
      BY <1>7 DEF updateSession, AuInv, CopyFits
    <2> DEFINE row == [user |-> sessions[s].user, expires |-> op[t].row.expires,
                       valid |-> op[t].row.valid]
    <2>3. CASE UNCHANGED <<sessions, revoked>>
      BY <2>1, <2>3, OtherCall DEF NoOp
    <2>4. CASE /\ sessions' = IF sessions[s] = NoRow THEN sessions
                              ELSE [sessions EXCEPT ![s] = row]
               /\ revoked' = IF op[t].revoke THEN revoked \union {s} ELSE revoked
      <3>1. \A v \in AuthThread : op'[v] = IF v = t THEN NoOp ELSE op[v]
        BY <2>1 DEF AuInv
      <3>2. op' = [v \in AuthThread |-> op'[v]] /\ NoOp.call = "idle" /\ AuStepAllowed
        BY <2>1, <3>1 DEF AuInv, NoOp, AuStepAllowed
      <3>3. \A v \in AuthThread : CopyFits(op[v])'
        BY <2>1, <3>1, <3>2 DEF AuInv, CopyFits
      <3>4. sessions[s] # NoRow => row \in SessionRow /\ ~row.valid
        BY <2>2 DEF AuInv, SessionFits, SessionRow
      <3>5. DOMAIN sessions = SessionId
        BY DEF AuInv
      <3> HIDE DEF row
      <3>6. /\ DOMAIN sessions' = SessionId
            /\ sessions'[s] = IF sessions[s] = NoRow THEN NoRow ELSE row
            /\ \A v \in SessionId : v # s => sessions'[v] = sessions[v]
        BY <2>2, <2>4, <3>5
      <3>7. revoked \subseteq revoked' /\ revoked' \subseteq revoked \union {s}
        BY <2>4
      <3>8. SessionFits(s)'
        BY <2>1, <2>2, <3>4, <3>6 DEF SessionFits
      <3>9. ASSUME NEW v \in SessionId, v # s PROVE SessionFits(v)'
        BY <2>1, <3>6, <3>7, <3>9 DEF AuInv, SessionFits
      <3> QED
        BY <2>1, <2>2, <3>2, <3>3, <3>6, <3>7, <3>8, <3>9 DEF AuInv
    <2> QED
      BY <1>7, <2>2, <2>3, <2>4 DEF updateSession
  <1>8. CASE \/ \E u \in User : deactivate(u) \/ generateJWTToken(u)
             \/ \E token \in jwts : refreshJWTToken(token)
    <2>1. UNCHANGED <<sessions, op, hour, created, revoked>>
      BY <1>8 DEF deactivate, generateJWTToken, refreshJWTToken
    <2> QED
      BY <2>1 DEF AuInv, AuStepAllowed, SessionFits, CopyFits
  <1>9. CASE deleteExpiredSessions \/ \E u \in User : deleteUser(u)
    <2>1. UNCHANGED <<op, hour, created, revoked>>
      BY <1>9 DEF deleteExpiredSessions, deleteUser
    <2>2. /\ DOMAIN sessions' = SessionId
          /\ \A s \in SessionId : sessions'[s] = NoRow \/ sessions'[s] = sessions[s]
      BY <1>9 DEF deleteExpiredSessions, deleteUser
    <2> QED
      BY <2>1, <2>2 DEF AuInv, AuStepAllowed, SessionFits, CopyFits
  <1>10. CASE HourPasses \/ UNCHANGED auvars
    <2>1. UNCHANGED <<sessions, op, created, revoked>> /\ hour' \in Nat
      BY <1>10 DEF HourPasses, auvars, AuInv
    <2> QED
      BY <2>1 DEF AuInv, AuStepAllowed, SessionFits, CopyFits
  <1> QED
    BY <1>1, <1>2, <1>3, <1>4, <1>5, <1>6, <1>7, <1>8, <1>9, <1>10 DEF AuNext

(* For any users, threads and sessions, and any distance of local time from *)
(* UTC: no validation accepts a session whose revocation was written, or one *)
(* past its hours and that distance, which the copies that are written back *)
(* never add a second time.                                                *)
THEOREM LiveSessionsOnly == AuSpec => AcceptsLiveSessions
  <1>1. AuInv /\ [AuNext]_auvars => AuInv' /\ AuStepAllowed
    BY AuStep
  <1> QED
    BY <1>1, AuInitially, PTL DEF AuSpec, AcceptsLiveSessions, AuStepAllowed
=============================================================================
