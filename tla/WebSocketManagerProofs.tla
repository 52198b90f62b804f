------------------------ MODULE WebSocketManagerProofs ------------------------
(***************************************************************************)
(* A message may go through the queue many times and be worked on by many   *)
(* threads; no connection is ever given it twice. After stop() of the       *)
(* broadcaster its threads have nothing left to send. The pool holds the    *)
(* connections that are open, but for those with a handler at work.         *)
(***************************************************************************)
EXTENDS WebSocketManager, FiniteSetTheorems, TLAPS

(* A connection has been given a message at most once, and not at all while *)
(* the message is not being sent or the connection is still on its list.    *)
HandedInv ==
    /\ at \in [Message -> Place]
    /\ rest \in [Message -> SUBSET Connection]
    /\ handed \in [Connection -> [Message -> Nat]]
    /\ connections \subseteq Connection
    /\ \A c \in Connection, m \in Message :
          /\ handed[c][m] <= 1
          /\ at[m] \notin {"sending", "sent"} => handed[c][m] = 0
          /\ at[m] = "sending" /\ c \in rest[m] => handed[c][m] = 0

(* Nothing is handed yet.                                                   *)
LEMMA HandedInit == WInit => HandedInv
  BY DEF WInit, BInit, HandedInv, Place, InCall

(* Moving a message between places where nothing was sent.                  *)
LEMMA HandedMove ==
    ASSUME HandedInv, NEW m \in Message, NEW place \in Place,
           at' = [at EXCEPT ![m] = place], UNCHANGED <<rest, handed, connections>>,
           at[m] \notin {"sending", "sent"},
           place # "sending"
    PROVE  HandedInv'
  BY DEF HandedInv, Place, InCall

(* A connection is given the message in hand.                               *)
LEMMA HandedSend ==
    ASSUME HandedInv, NEW m \in Message, NEW c \in Connection, Send(m, c)
    PROVE  HandedInv'
  <1> USE DEF HandedInv
  <1>1. /\ at[m] = "sending" /\ c \in rest[m]
        /\ rest' = [rest EXCEPT ![m] = @ \ {c}]
        /\ at' = at /\ connections' = connections
    BY DEF Send, SendTo
  <1>2. handed[c][m] = 0
    BY <1>1
  <1>3. rest' \in [Message -> SUBSET Connection]
    BY <1>1
  <1>4. CASE handed' = handed
    BY <1>1, <1>3, <1>4
  <1>5. CASE handed' = [handed EXCEPT ![c][m] = @ + 1]
    <2>1. handed'[c] = [handed[c] EXCEPT ![m] = 1]
      BY <1>2, <1>5
    <2>2. \A d \in Connection \ {c} : handed'[d] = handed[d]
      BY <1>5
    <2>3. handed' \in [Connection -> [Message -> Nat]]
      BY <2>1, <2>2, <1>5
    <2>4. ASSUME NEW d \in Connection, NEW n \in Message
          PROVE  /\ handed'[d][n] <= 1
                 /\ at'[n] \notin {"sending", "sent"} => handed'[d][n] = 0
                 /\ at'[n] = "sending" /\ d \in rest'[n] => handed'[d][n] = 0
      <3>1. CASE d = c /\ n = m
        BY <3>1, <2>1, <1>1
      <3>2. CASE d # c
        BY <3>2, <2>2, <1>1
      <3>3. CASE d = c /\ n # m
        BY <3>3, <2>1, <1>1
      <3> QED BY <3>1, <3>2, <3>3
    <2> QED BY <1>1, <1>3, <2>3, <2>4
  <1> QED BY <1>4, <1>5 DEF Send

(* The steps of a caller.                                                   *)
LEMMA HandedCall ==
    ASSUME HandedInv, NEW m \in Message, CallStep(m)
    PROVE  HandedInv'
  <1>1. CASE TestQueue(m) /\ UNCHANGED cvars
    BY <1>1, HandedMove DEF TestQueue, Moves, cvars, Place, InCall
  <1>2. CASE Push(m) /\ UNCHANGED cvars
    BY <1>2, HandedMove DEF Push, Moves, cvars, Place, InCall
  <1>3. CASE TakeConnections(m, active) /\ UNCHANGED cvars
    <2>1. active \in SUBSET Connection
      BY DEF active, HandedInv
    <2>2. /\ at[m] = "direct"
          /\ at' = [at EXCEPT ![m] = "sending"]
          /\ rest' = [rest EXCEPT ![m] = active]
          /\ handed' = handed /\ connections' = connections
      BY <1>3 DEF TakeConnections, cvars
    <2> QED BY <2>1, <2>2 DEF HandedInv, Place, InCall
  <1>4. CASE Sent(m) /\ UNCHANGED cvars
    BY <1>4 DEF Sent, Moves, cvars, HandedInv, Place, InCall
  <1>5. CASE \E c \in Connection : Send(m, c)
    BY <1>5, HandedSend
  <1> QED BY <1>1, <1>2, <1>3, <1>4, <1>5 DEF CallStep

(* The steps of a processor.                                                *)
LEMMA HandedProcessor ==
    ASSUME HandedInv, NEW t \in Processor, ProcessorStep(t)
    PROVE  HandedInv'
  <1> USE DEF ProcessorStep, cvars
  <1>1. CASE TakeBatch(t)
    BY <1>1 DEF TakeBatch, messageQueue, HandedInv, Place, InCall
  <1>2. CASE Leave(t)
    BY <1>2 DEF Leave, HandedInv
  <1>3. ASSUME NEW m \in Message, Process(t, m)
        PROVE  HandedInv'
    BY <1>3, HandedMove DEF Process, Moves, Batch, Place, InCall
  <1> QED BY <1>1, <1>2, <1>3

(* Every step of the manager keeps the invariant.                           *)
LEMMA HandedStep == HandedInv /\ [WNext]_wvars => HandedInv'
  <1> SUFFICES ASSUME HandedInv, [WNext]_wvars
               PROVE  HandedInv'
    OBVIOUS
  <1>1. ASSUME NEW m \in Message, Broadcast(m)
        PROVE  HandedInv'
    BY <1>1, HandedMove DEF Broadcast, Call, Moves, cvars, Place, InCall
  <1>2. ASSUME NEW c \in Connection, HandleUpgrade(c) \/ Handler(c)
        PROVE  HandedInv'
    BY <1>2 DEF HandleUpgrade, Handler, OnAccept, OnRead, PoolCall,
                AddConnection, RemoveConnection, RunPosted, bvars, HandedInv
  <1>3. CASE StopServer \/ JoinServer \/ StopManager \/ StopPool
    BY <1>3 DEF StopServer, JoinServer, StopManager, StopBroadcaster, StopPool,
                bvars, HandedInv
  <1>4. CASE (Drained \/ Joined \/ ClearQueue) /\ UNCHANGED cvars
    BY <1>4 DEF Drained, Joined, ClearQueue, cvars, HandedInv, Place, InCall
  <1>5. CASE UNCHANGED wvars
    BY <1>5 DEF wvars, bvars, cvars, HandedInv
  <1> QED BY <1>1, <1>2, <1>3, <1>4, <1>5, HandedCall, HandedProcessor
          DEF WNext, StopStep

(* No connection is given a message twice, for any messages, threads,       *)
(* connections, and sizes of the queue, the batches and the pool.           *)
THEOREM GivenOnce == WSpec => []HandedOnce
  <1>1. HandedInv => HandedOnce
    BY DEF HandedInv, HandedOnce
  <1> QED BY <1>1, HandedInit, HandedStep, PTL DEF WSpec
-----------------------------------------------------------------------------
(* A processing thread that has gone has no message, and after stop() has   *)
(* joined every one has gone.                                               *)
Busy == InCall \cup {"batch"}

GoneInv ==
    /\ at \in [Message -> Place]
    /\ by \in [Message -> Processor \cup {Client}]
    /\ processor \in [Processor -> {"loop", "gone"}]
    /\ \A m \in Message : at[m] = "new" => by[m] = Client
    /\ \A m \in Message, t \in Processor :
          processor[t] = "gone" /\ by[m] = t => at[m] \notin Busy
    /\ ~running /\ stopper \in {"clearing", "out"} =>
          \A t \in Processor : processor[t] = "gone"

(* No thread has ended yet.                                                 *)
LEMMA GoneInit == WInit => GoneInv
  BY BroadcasterAssumption DEF WInit, BInit, GoneInv, Place, InCall, Busy

(* A message that is already with a thread, or with a client, moves on.     *)
LEMMA GoneMove ==
    ASSUME GoneInv, NEW m \in Message, NEW place \in Place, place # "new",
           at' = [at EXCEPT ![m] = place],
           UNCHANGED <<running, by, processor, stopper>>,
           at[m] \in Busy \/ at[m] = "new"
    PROVE  GoneInv'
  BY BroadcasterAssumption DEF GoneInv, Place, InCall, Busy

(* The steps of a caller.                                                   *)
LEMMA GoneCall ==
    ASSUME GoneInv, NEW m \in Message, CallStep(m)
    PROVE  GoneInv'
  <1>1. CASE TestQueue(m)
    BY <1>1, GoneMove DEF TestQueue, Moves, Place, InCall, Busy
  <1>2. CASE Push(m)
    BY <1>2, GoneMove DEF Push, Moves, Place, InCall, Busy
  <1>3. CASE TakeConnections(m, active)
    BY <1>3, GoneMove DEF TakeConnections, Place, InCall, Busy
  <1>4. CASE Sent(m)
    BY <1>4, GoneMove DEF Sent, Moves, Place, InCall, Busy
  <1>5. CASE \E c \in Connection : Send(m, c)
    BY <1>5 DEF Send, SendTo, GoneInv
  <1> QED BY <1>1, <1>2, <1>3, <1>4, <1>5 DEF CallStep

(* The steps of a processor.                                                *)
LEMMA GoneProcessor ==
    ASSUME GoneInv, NEW t \in Processor, ProcessorStep(t)
    PROVE  GoneInv'
  <1>1. CASE TakeBatch(t)
    BY <1>1, BroadcasterAssumption
       DEF TakeBatch, messageQueue, GoneInv, Place, InCall, Busy
  <1>2. CASE Leave(t)
    BY <1>2 DEF Leave, Batch, Calls, GoneInv, Place, InCall, Busy
  <1>3. ASSUME NEW m \in Message, Process(t, m)
        PROVE  GoneInv'
    BY <1>3, GoneMove DEF Process, Moves, Batch, Place, InCall, Busy
  <1> QED BY <1>1, <1>2, <1>3 DEF ProcessorStep

(* Every step of the manager keeps the invariant.                           *)
LEMMA GoneStep == GoneInv /\ [WNext]_wvars => GoneInv'
  <1> SUFFICES ASSUME GoneInv, [WNext]_wvars
               PROVE  GoneInv'
    OBVIOUS
  <1>1. ASSUME NEW m \in Message, Broadcast(m)
        PROVE  GoneInv'
    BY <1>1, GoneMove DEF Broadcast, Call, Moves, Place, InCall, Busy
  <1>2. ASSUME NEW c \in Connection, HandleUpgrade(c) \/ Handler(c)
        PROVE  GoneInv'
    BY <1>2 DEF HandleUpgrade, Handler, OnAccept, OnRead, PoolCall,
                AddConnection, RemoveConnection, RunPosted, bvars, GoneInv
  <1>3. CASE StopServer \/ JoinServer \/ StopManager \/ StopPool
    BY <1>3 DEF StopServer, JoinServer, StopManager, StopBroadcaster, StopPool,
                bvars, GoneInv
  <1>4. CASE Drained \/ Joined
    BY <1>4 DEF Drained, Joined, GoneInv
  <1>5. CASE ClearQueue
    BY <1>5 DEF ClearQueue, GoneInv, Place, InCall, Busy
  <1>6. CASE UNCHANGED wvars
    BY <1>6 DEF wvars, bvars, GoneInv
  <1> QED BY <1>1, <1>2, <1>3, <1>4, <1>5, <1>6, GoneCall, GoneProcessor
          DEF WNext, StopStep

(* When stop() of the broadcaster has joined its threads, none of them has  *)
(* a message or sends one, then or later.                                   *)
THEOREM QuietWhenStopped == WSpec => []StoppedIsQuiet
  <1>1. GoneInv => StoppedIsQuiet
    BY DEF GoneInv, StoppedIsQuiet, Batch, Calls, Busy
  <1> QED BY <1>1, GoneInit, GoneStep, PTL DEF WSpec

-----------------------------------------------------------------------------
(* The pool while the manager runs: it is closed only after the manager's   *)
(* running_ is cleared. A connection is in it from AddConnection to          *)
(* RemoveConnection.                                                        *)
PoolInv ==
    /\ socket \in [Connection -> {"none", "handshake", "opening", "open", "closing", "closed"}]
    /\ connections \subseteq Connection
    /\ pooling => running
    /\ pooling => \A c \in Connection : c \in connections <=> socket[c] \in {"open", "closing"}

(* The threads: each handler that has not returned holds one, and no         *)
(* connection has two.                                                      *)
ThreadInv ==
    /\ socket \in [Connection -> {"none", "handshake", "opening", "open", "closing", "closed"}]
    /\ blocked \subseteq Connection /\ ended \in Nat
    /\ \A c \in blocked : ~Changing(c)
    /\ IsFiniteSet(InHandler) /\ Cardinality(InHandler) + ended <= IoThreads

(* A handler opens the connection before it adds it and closes it before it  *)
(* removes it, and closes the one that finds the pool full.                 *)
LEMMA PoolHandler ==
    ASSUME PoolInv, NEW c \in Connection, HandleUpgrade(c) \/ Handler(c)
    PROVE  PoolInv'
  <1>1. pooling' = pooling /\ running' = running
    BY DEF HandleUpgrade, Handler, OnAccept, OnRead, RunPosted, PoolCall, AddConnection,
           RemoveConnection, bvars
  <1>2. CASE HandleUpgrade(c) \/ OnAccept(c) \/ OnRead(c)
    <2>1. /\ connections' = connections
          /\ \/ socket[c] \in {"none", "handshake"} /\ socket' = [socket EXCEPT ![c] = "handshake"]
             \/ socket[c] = "handshake" /\ socket' = [socket EXCEPT ![c] = "opening"]
             \/ socket[c] = "open" /\ socket' = [socket EXCEPT ![c] = "closing"]
      BY <1>2 DEF HandleUpgrade, OnAccept, OnRead, HandleError
    <2> QED BY <1>1, <2>1 DEF PoolInv
  <1>3. CASE AddConnection(c)
    <2>1. /\ socket[c] = "opening"
          /\ \/ /\ connections' = connections \cup {c}
                /\ socket' = [socket EXCEPT ![c] = "open"]
             \/ connections' = connections /\ socket' = [socket EXCEPT ![c] = "closed"]
      BY <1>3 DEF AddConnection
    <2> QED BY <1>1, <2>1 DEF PoolInv
  <1>4. CASE RemoveConnection(c)
    BY <1>1, <1>4 DEF RemoveConnection, PoolInv
  <1>5. CASE RunPosted(c)
    BY <1>1, <1>5 DEF RunPosted, PoolInv
  <1> QED BY <1>2, <1>3, <1>4, <1>5 DEF Handler, PoolCall

(* One more handler on a free thread.                                       *)
LEMMA OneMore ==
    ASSUME NEW A, NEW B, NEW c, NEW n \in Nat, NEW k \in Nat, IsFiniteSet(A),
           Cardinality(A) + n < k, B \subseteq A \cup {c}
    PROVE  IsFiniteSet(B) /\ Cardinality(B) + n <= k
  <1>1. IsFiniteSet(A \cup {c}) /\ Cardinality(A) \in Nat
        /\ Cardinality(A \cup {c}) \in {Cardinality(A), Cardinality(A) + 1}
    BY FS_AddElement, FS_CardinalityType
  <1>2. /\ IsFiniteSet(B) /\ Cardinality(B) <= Cardinality(A \cup {c})
        /\ Cardinality(B) \in Nat
    BY <1>1, FS_Subset, FS_CardinalityType
  <1> QED BY <1>1, <1>2

(* A handler returns, or an exception ends its thread with it.              *)
LEMMA OneLess ==
    ASSUME NEW A, NEW c \in A, NEW n \in Nat, NEW k \in Nat, IsFiniteSet(A),
           Cardinality(A) + n <= k
    PROVE  IsFiniteSet(A \ {c}) /\ Cardinality(A \ {c}) + (n + 1) <= k
  <1>1. IsFiniteSet(A \ {c}) /\ Cardinality(A \ {c}) = Cardinality(A) - 1
    BY FS_RemoveElement
  <1>2. Cardinality(A) \in Nat
    BY FS_CardinalityType
  <1> QED BY <1>1, <1>2

(* A handler starts on a free thread and gives it back.                     *)
LEMMA ThreadHandler ==
    ASSUME ThreadInv, NEW c \in Connection, HandleUpgrade(c) \/ Handler(c)
    PROVE  ThreadInv'
  <1>0. IoThreads \in Nat /\ ended \in Nat
    BY ManagerAssumption DEF ThreadInv
  <1>1. CASE HandleUpgrade(c)
    <2>1. /\ socket[c] = "none" /\ socket' = [socket EXCEPT ![c] = "handshake"]
          /\ blocked' = blocked /\ ended' = ended
      BY <1>1 DEF HandleUpgrade
    <2>2. \A d \in Connection : Changing(d)' = Changing(d)
      BY <2>1 DEF ThreadInv, Changing
    <2> QED BY <2>1, <2>2 DEF ThreadInv, InHandler
  <1>2. CASE OnAccept(c) \/ OnRead(c)
    <2>1. /\ c \notin InHandler /\ ThreadFree /\ blocked' = blocked /\ ended' = ended
          /\ \/ socket' = [socket EXCEPT ![c] = "opening"]
             \/ socket' = [socket EXCEPT ![c] = "closing"]
      BY <1>2 DEF OnAccept, OnRead, HandleError, Dispatch
    <2>2. \A d \in Connection : Changing(d)' <=> Changing(d) \/ d = c
      BY <2>1 DEF ThreadInv, Changing
    <2>3. InHandler' \subseteq InHandler \cup {c}
      BY <2>1, <2>2 DEF InHandler
    <2>4. IsFiniteSet(InHandler') /\ Cardinality(InHandler') + ended <= IoThreads
      BY <1>0, <2>1, <2>3, OneMore DEF ThreadInv, ThreadFree
    <2> QED BY <2>1, <2>2, <2>4 DEF ThreadInv, InHandler
  <1>3. CASE RunPosted(c)
    <2>1. /\ c \notin InHandler /\ ThreadFree /\ socket' = socket /\ ended' = ended
          /\ blocked' = blocked \/ blocked' = blocked \cup {c}
      BY <1>3 DEF RunPosted, Dispatch
    <2>2. \A d \in Connection : Changing(d)' = Changing(d)
      BY <2>1 DEF Changing
    <2>3. InHandler' \subseteq InHandler \cup {c}
      BY <2>1, <2>2 DEF InHandler
    <2>4. IsFiniteSet(InHandler') /\ Cardinality(InHandler') + ended <= IoThreads
      BY <1>0, <2>1, <2>3, OneMore DEF ThreadInv, ThreadFree
    <2>5. ~Changing(c)
      BY <2>1 DEF InHandler
    <2> QED BY <2>1, <2>2, <2>4, <2>5 DEF ThreadInv
  <1>4. CASE PoolCall(c)
    <2>1. /\ Changing(c) /\ blocked' = blocked /\ ended' \in {ended, ended + 1}
          /\ socket' = [socket EXCEPT ![c] = "open"] \/ socket' = [socket EXCEPT ![c] = "closed"]
      BY <1>4 DEF PoolCall, AddConnection, RemoveConnection, Changing
    <2>2. \A d \in Connection : Changing(d)' <=> Changing(d) /\ d # c
      BY <2>1 DEF ThreadInv, Changing
    <2>3. c \notin blocked /\ c \in InHandler
      BY <2>1 DEF ThreadInv, InHandler
    <2>4. InHandler' = InHandler \ {c}
      BY <2>1, <2>2, <2>3 DEF InHandler
    <2>5. IsFiniteSet(InHandler') /\ Cardinality(InHandler') + (ended + 1) <= IoThreads
      BY <1>0, <2>3, <2>4, OneLess DEF ThreadInv
    <2>6. Cardinality(InHandler') \in Nat
      BY <2>5, FS_CardinalityType
    <2>7. ended' \in Nat /\ Cardinality(InHandler') + ended' <= IoThreads
      BY <1>0, <2>1, <2>5, <2>6
    <2> QED BY <2>1, <2>2, <2>5, <2>7 DEF ThreadInv
  <1> QED BY <1>1, <1>2, <1>3, <1>4 DEF Handler

(* What leaves the sockets and the threads alone.                           *)
LEMMA ThreadFrame == ASSUME ThreadInv, UNCHANGED <<socket, blocked, ended>> PROVE ThreadInv'
  <1>1. \A c \in Connection : Changing(c)' = Changing(c)
    BY DEF Changing
  <1>2. InHandler' = InHandler
    BY <1>1 DEF InHandler
  <1> QED BY <1>1, <1>2 DEF ThreadInv

(* Every step of the manager keeps both.                                    *)
LEMMA PoolStep == PoolInv /\ ThreadInv /\ [WNext]_wvars => PoolInv' /\ ThreadInv'
  <1> SUFFICES ASSUME PoolInv, ThreadInv, [WNext]_wvars PROVE PoolInv' /\ ThreadInv'
    OBVIOUS
  <1>1. CASE UNCHANGED <<connections, socket, pooling, running, blocked, ended>>
    BY <1>1, ThreadFrame DEF PoolInv
  <1>2. ASSUME NEW m \in Message, Broadcast(m) \/ CallStep(m) PROVE PoolInv' /\ ThreadInv'
    BY <1>1, <1>2 DEF Broadcast, Call, CallStep, TestQueue, Push, TakeConnections, Sent, Send,
                      SendTo, Moves, cvars
  <1>3. ASSUME NEW t \in Processor, ProcessorStep(t) PROVE PoolInv' /\ ThreadInv'
    BY <1>1, <1>3 DEF ProcessorStep, TakeBatch, Leave, Process, Moves, cvars
  <1>4. CASE StopServer \/ JoinServer
    BY <1>1, <1>4 DEF StopServer, JoinServer, bvars
  <1>5. CASE StopManager
    BY <1>5, ThreadFrame DEF StopManager, PoolInv
  <1>6. CASE StopPool
    BY <1>6, ThreadFrame DEF StopPool, bvars, PoolInv
  <1>7. CASE (Drained \/ Joined \/ ClearQueue) /\ UNCHANGED cvars
    BY <1>1, <1>7 DEF Drained, Joined, ClearQueue, cvars
  <1>8. CASE UNCHANGED wvars
    BY <1>1, <1>8 DEF wvars, bvars, cvars
  <1> QED BY <1>2, <1>3, <1>4, <1>5, <1>6, <1>7, <1>8, PoolHandler, ThreadHandler
          DEF WNext, StopStep

(* For any connections, sizes of the pool and numbers of I/O threads: while  *)
(* the manager runs, the pool differs from the open connections only in      *)
(* those of which a handler has set isOpen_ and not yet called the pool, and *)
(* no more of them than there are threads left.                              *)
THEOREM PoolHoldsOpen == WSpec => []PoolIsOpen
  <1>1. WInit => PoolInv /\ ThreadInv
    <2> SUFFICES ASSUME WInit PROVE PoolInv /\ ThreadInv
      OBVIOUS
    <2>1. InHandler = {}
      BY DEF WInit, InHandler, Changing
    <2>2. IsFiniteSet(InHandler) /\ Cardinality(InHandler) + 0 <= IoThreads
      BY <2>1, FS_EmptySet, ManagerAssumption
    <2>3. \A c \in Connection : ~Changing(c)
      BY DEF WInit, Changing
    <2> QED BY <2>2, <2>3 DEF WInit, BInit, PoolInv, ThreadInv
  <1>2. PoolInv /\ ThreadInv => PoolIsOpen
    BY DEF PoolInv, ThreadInv, PoolIsOpen, IsOpen, Changing
  <1> QED BY <1>1, <1>2, PoolStep, PTL DEF WSpec
=============================================================================
