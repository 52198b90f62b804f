-------------------------- MODULE ConnectionPoolManager --------------------------
(***************************************************************************)
(* The pool of HTTP sessions. A caller of acquireConnection brings an       *)
(* accepted socket and leaves with a session, or throws: an idle session is *)
(* used again, a new one is made while there is room, and otherwise the     *)
(* socket is queued and the caller sleeps until a session is idle, the pool *)
(* shuts down or the wait times out. A session that is used again keeps the *)
(* socket it was made with: the socket the caller brought is closed without *)
(* an answer. Every operation holds poolMutex_, so each is one step; the    *)
(* sleep divides acquireConnection in two. Statistics are left out.         *)
(***************************************************************************)
EXTENDS PooledSession, QueueFilter

CONSTANTS
    Caller,           \* threads that call acquireConnection
    maxConnections,
    maxQueueSize

ASSUME PoolAssumption == maxConnections \in Nat /\ maxQueueSize \in Nat

VARIABLES
    idle,       \* idleConnections_, a queue of sessions
    active,     \* activeConnections_
    queue,      \* requestQueue_: [client, late], late once maxQueueWaitTime_ has passed
    shutdown,   \* shutdownRequested_
    cleanup,    \* the cleanup timer is armed
    wired,      \* the WebSocket manager is set; without a handler start() throws
    caller,     \* what every caller is doing
    client      \* what has become of every client

pvars == <<svars, idle, active, queue, shutdown, cleanup, wired, caller, client>>

NoCall == [at |-> "out", client |-> NoClient, session |-> NoClient]

Pooled == {idle[i] : i \in DOMAIN idle}
Unmade == {s \in Session : ~sess[s].made}
Unseen == {c \in Client : client[c] = "new"}
Live(q) == Kept(q, {i \in DOMAIN q : ~q[i].late})
ClientsOf(q) == {q[i].client : i \in DOMAIN q}

(* The clients that get a 503 and are closed, and what becomes of c.        *)
Answer(refused, c, fate) ==
    client' = [x \in Client |-> IF x \in refused THEN "refused"
                                ELSE IF x = c THEN fate ELSE client[x]]

Returns(t, s) == caller' = [caller EXCEPT ![t] = [at |-> "run", client |-> NoClient, session |-> s]]
Throws(t) == caller' = [caller EXCEPT ![t] = NoCall]

(* The first idle session is reset, becomes active and is returned.         *)
TakeIdle(t) ==
    LET s == Head(idle)
    IN  /\ idle' = Tail(idle)
        /\ active' = active \cup {s}
        /\ Becomes(s, reset(sess[s]), cancelTimeouts(timers[s]))
        /\ Returns(t, s)

(* A session for the client, if the dependencies are there.                 *)
createNewSession(t, c, late) ==
    IF wired
    THEN LET s == CHOOSE s \in Unmade : TRUE
         IN
           /\ Unmade # {}
           /\ Becomes(s, Created(c), NoTimers)
           /\ active' = active \cup {s}
           /\ Returns(t, s)
           /\ Answer(late, c, "held")
    ELSE Answer(late \cup {c}, c, "refused") /\ UNCHANGED <<svars, active, caller>>

(* At capacity: the request is refused or queued, and the caller sleeps.    *)
Enqueue(t, c, late) ==
    /\ UNCHANGED <<svars, active>>
    /\ IF Len(Live(queue)) >= maxQueueSize
       THEN Answer(late \cup {c}, c, "refused") /\ queue' = Live(queue) /\ UNCHANGED caller
       ELSE /\ Answer(late, c, "queued")
            /\ queue' = Append(Live(queue), [client |-> c, late |-> FALSE])
            /\ caller' = [caller EXCEPT ![t] = [at |-> "wait", client |-> c, session |-> NoClient]]

(* No more sessions may be created.                                         *)
Full == Cardinality(active) + Len(idle) >= maxConnections

(* acquireConnection up to its end or its sleep, on behalf of a new client. *)
(* The expired requests of the queue are refused first.                     *)
acquireConnection(t, c) ==
    LET late == ClientsOf(queue) \ ClientsOf(Live(queue))
    IN  /\ caller[t].at = "out" /\ client[c] = "new"
        /\ UNCHANGED <<shutdown, cleanup, wired>>
        /\ \/ /\ shutdown
              /\ Answer({}, c, "refused")
              /\ UNCHANGED <<svars, idle, active, queue, caller>>
           \/ /\ ~shutdown /\ idle # <<>>
              /\ TakeIdle(t)
              /\ queue' = Live(queue)
              /\ Answer(late, c, "dropped")
           \/ /\ ~shutdown /\ idle = <<>>
              /\ ~Full
              /\ createNewSession(t, c, late)
              /\ queue' = Live(queue) /\ UNCHANGED idle
           \/ /\ ~shutdown /\ idle = <<>>
              /\ Full
              /\ Enqueue(t, c, late)
              /\ UNCHANGED idle

(* Mutant: the sleep has no time limit.                                     *)
WakeUntimed(t) ==
    /\ caller[t].at = "wait"
    /\ UNCHANGED <<shutdown, cleanup, wired, svars, idle, active, queue, client>>
    /\ shutdown /\ Throws(t)

(* The sleep ends: by the shutdown, which leaves the request in the queue;  *)
(* with an idle session, which leaves it there as well; or by the timeout,  *)
(* which refuses the first late request of the queue, whosever it is.       *)
Wake(t) ==
    /\ caller[t].at = "wait"
    /\ UNCHANGED <<shutdown, cleanup, wired>>
    /\ \/ /\ shutdown
          /\ Throws(t)
          /\ UNCHANGED <<svars, idle, active, queue, client>>
       \/ /\ ~shutdown /\ idle # <<>>
          /\ TakeIdle(t)
          /\ UNCHANGED <<queue, client>>
       \/ /\ ~shutdown /\ idle = <<>>
          /\ caller[t].client \notin ClientsOf(Live(queue))
          /\ Throws(t)
          /\ IF queue # <<>> /\ Head(queue).late
             THEN queue' = Tail(queue) /\ Answer({Head(queue).client}, NoClient, "refused")
             ELSE UNCHANGED <<queue, client>>
          /\ UNCHANGED <<svars, idle, active>>

(* maxQueueWaitTime_ passes for the oldest request that still waits.        *)
RequestLapses ==
    /\ \E i \in DOMAIN queue :
          /\ ~queue[i].late /\ \A j \in 1..i-1 : queue[j].late
          /\ queue' = [queue EXCEPT ![i].late = TRUE]
    /\ UNCHANGED <<svars, idle, active, shutdown, cleanup, wired, caller, client>>

(* With the active sessions in use, the idle sessions q, the sessions x and *)
(* their timers t: the late requests at the head of the queue are refused,  *)
(* and every other takes an idle session, which is reset and run with the   *)
(* socket it has. The queued socket is closed.                              *)
processQueuedRequests(in_use, q, x, t) ==
    LET n == IF Len(q) < Len(Live(queue)) THEN Len(q) ELSE Len(Live(queue))
        taken == {q[i] : i \in 1..n}
        late == IF q = <<>> THEN {} ELSE ClientsOf(queue) \ ClientsOf(Live(queue))
        dropped == ClientsOf(SubSeq(Live(queue), 1, n))
    IN  /\ active' = in_use \cup taken
        /\ idle' = SubSeq(q, n + 1, Len(q))
        /\ queue' = IF q = <<>> THEN queue ELSE SubSeq(Live(queue), n + 1, Len(Live(queue)))
        /\ client' = [c \in Client |-> IF c \in late THEN "refused"
                                       ELSE IF c \in dropped THEN "dropped" ELSE client[c]]
        /\ sess' = [s \in Session |-> IF s \in taken THEN run(reset(x[s])) ELSE x[s]]
        /\ \E a \in [taken -> Address] :
              timers' = [s \in Session |->
                            IF s \in taken THEN startConnectionTimeout(cancelTimeouts(t[s]), a[s])
                            ELSE t[s]]
        /\ UNCHANGED <<fired, calling>>

(* Mutant: the session is put into the idle queue without being idle.       *)
ReleaseBusy(s) ==
    /\ s \in active /\ ~shutdown
    /\ processQueuedRequests(active \ {s}, Append(idle, s),
                             [sess EXCEPT ![s] = setIdle(@, TRUE)], timers)
    /\ UNCHANGED <<shutdown, cleanup, wired, caller>>

(* Mutant: the queue is not looked at.                                      *)
ReleaseIgnoresQueue(s) ==
    /\ s \in active /\ ~shutdown /\ isIdle(sess[s])
    /\ active' = active \ {s} /\ idle' = Append(idle, s)
    /\ UNCHANGED <<svars, queue, shutdown, cleanup, wired, caller, client>>

(* releaseConnection: a session that is not idle leaves the pool.           *)
releaseConnection(s) ==
    /\ s \in active
    /\ UNCHANGED <<shutdown, cleanup, wired, caller>>
    /\ \/ /\ shutdown
          /\ active' = active \ {s}
          /\ UNCHANGED <<svars, idle, queue, client>>
       \/ /\ ~shutdown /\ isIdle(sess[s])
          /\ processQueuedRequests(active \ {s}, Append(idle, s),
                                   [sess EXCEPT ![s] = setIdle(@, TRUE)], timers)
       \/ /\ ~shutdown /\ ~isIdle(sess[s])
          /\ processQueuedRequests(active \ {s}, idle, sess, timers)

(* The cleanup timer: the sessions that have been idle for too long are     *)
(* closed and forgotten, and the timer is armed again.                      *)
handleCleanupTimer ==
    LET old == {s \in Pooled : sess[s].lapsed}
    IN  /\ cleanup
        /\ idle' = Kept(idle, {i \in DOMAIN idle : ~sess[idle[i]].lapsed})
        /\ sess' = [s \in Session |-> IF s \in old THEN doClose(sess[s]) ELSE sess[s]]
        /\ timers' = [s \in Session |-> IF s \in old THEN cancelTimeouts(timers[s]) ELSE timers[s]]
        /\ cleanup' = ~shutdown
        /\ UNCHANGED <<fired, calling, active, queue, shutdown, wired, caller, client>>

(* shutdown(): the sessions are forgotten and the sleepers are woken.       *)
Shutdown ==
    /\ shutdown' = TRUE
    /\ cleanup' = FALSE
    /\ idle' = <<>> /\ active' = {}
    /\ UNCHANGED <<svars, queue, wired, caller, client>>
=============================================================================
