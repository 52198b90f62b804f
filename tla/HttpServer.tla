------------------------------- MODULE HttpServer -------------------------------
(***************************************************************************)
(* The HTTP server: the acceptor, the session pool, the sessions and their  *)
(* timers on one io_context. The acceptor accepts one socket at a time and  *)
(* acquires its session in the handler, so an I/O thread sleeps while the   *)
(* pool is full. Nothing in the server calls releaseConnection; Releaser    *)
(* says whether somebody else does. stop() stops the io_context, joins the  *)
(* threads, whatever their handlers wait for, and only then shuts the pool. *)
(***************************************************************************)
EXTENDS ConnectionPoolManager

CONSTANTS
    Listener,    \* the caller that is the acceptor; the others are users of the pool
    Releaser     \* BOOLEAN: somebody releases sessions

ASSUME ServerAssumption == Listener \in Caller /\ Releaser \in BOOLEAN

VARIABLES
    server,      \* "down", "up", "joining"
    accepting    \* the acceptor listens

hvars == <<pvars, server, accepting>>

HInit ==
    /\ TInit
    /\ sess = [s \in Session |-> Fresh]
    /\ idle = <<>> /\ active = {} /\ queue = <<>>
    /\ shutdown = FALSE /\ cleanup = FALSE /\ wired \in BOOLEAN
    /\ caller = [t \in Caller |-> NoCall]
    /\ client = [c \in Client |-> "new"]
    /\ server = "down" /\ accepting = FALSE

(* start(): a pool and timers of its own; whether the address could be      *)
(* bound or not, the server counts as running.                              *)
start ==
    /\ server = "down" /\ ~shutdown
    /\ server' = "up"
    /\ accepting' \in BOOLEAN
    /\ cleanup' = TRUE
    /\ UNCHANGED <<svars, idle, active, queue, shutdown, wired, caller, client>>

(* onAccept, first half: the session is acquired.                           *)
onAccept(t, c) ==
    /\ t = Listener => server = "up" /\ accepting
    /\ acquireConnection(t, c)
    /\ UNCHANGED <<server, accepting>>

(* onAccept, second half: the session runs, with a connection timer.        *)
RunSession(t) ==
    LET s == caller[t].session
    IN  /\ caller[t].at = "run"
        /\ \E a \in Address : Becomes(s, run(sess[s]), startConnectionTimeout(timers[s], a))
        /\ Throws(t)
        /\ UNCHANGED <<idle, active, queue, shutdown, cleanup, wired, client, server, accepting>>

WakeCaller(t) == Wake(t) /\ UNCHANGED <<server, accepting>>

(* A handler of the io_context, which runs while it is not stopped.         *)
Handler ==
    /\ server = "up"
    /\ \/ /\ \/ \E s \in Session : SessionHandler(s)
             \/ TimerStep
          /\ UNCHANGED <<idle, active, queue, shutdown, cleanup, wired, caller, client>>
       \/ handleCleanupTimer
    /\ UNCHANGED <<server, accepting>>

(* A handler that has begun goes on when the io_context is stopped.         *)
Continue ==
    /\ \/ \E s \in Session : sendResponse(s)
       \/ \E f \in calling : sessionTimeout(f)
    /\ UNCHANGED <<idle, active, queue, shutdown, cleanup, wired, caller, client, server, accepting>>

Time ==
    /\ \/ RequestLapses
       \/ /\ \E s \in Pooled : Lapse(s)
          /\ UNCHANGED <<idle, active, queue, shutdown, cleanup, wired, caller, client>>
    /\ UNCHANGED <<server, accepting>>

Release ==
    /\ Releaser
    /\ \E s \in active : (\A t \in Caller : caller[t].session # s) /\ releaseConnection(s)
    /\ UNCHANGED <<server, accepting>>

(* stop(), first half: no more cleanup, no more accepts, no more handlers.  *)
stop ==
    /\ server = "up"
    /\ server' = "joining"
    /\ accepting' = FALSE /\ cleanup' = FALSE
    /\ UNCHANGED <<svars, idle, active, queue, shutdown, wired, caller, client>>

(* stop(), second half: every thread is out of its handler and joined, then *)
(* the pool is shut down and the timers are cancelled.                      *)
Joined ==
    /\ caller[Listener].at = "out"
    /\ calling = {}
    /\ \A s \in Session : ~sess[s].handling

stopJoined ==
    /\ server = "joining" /\ Joined
    /\ server' = "down"
    /\ shutdown' = TRUE /\ cleanup' = FALSE
    /\ idle' = <<>> /\ active' = {}
    /\ timers' = [s \in Session |-> NoTimers] /\ fired' = {}
    /\ sess' = [s \in Session |-> Fresh]
    /\ UNCHANGED <<calling, queue, wired, caller, client, accepting>>

(* setRequestHandler or setWebSocketManager of a running server: the pool   *)
(* is shut down and another made, but the acceptor keeps the old one.       *)
setRequestHandler ==
    /\ server = "up"
    /\ Shutdown
    /\ UNCHANGED <<server, accepting>>

HNext ==
    \/ start \/ stop \/ stopJoined \/ setRequestHandler
    \/ \E t \in Caller :
          \/ Unseen # {} /\ onAccept(t, CHOOSE c \in Unseen : TRUE)
          \/ RunSession(t)
          \/ WakeCaller(t)
    \/ Handler \/ Continue \/ Time \/ Release

HSpec == HInit /\ [][HNext]_hvars

(* Sleeps end, time passes, handlers that have begun end, and stop() joins. *)
HFairness ==
    /\ \A t \in Caller : WF_hvars(RunSession(t)) /\ WF_hvars(WakeCaller(t))
    /\ WF_hvars(Continue) /\ WF_hvars(Time) /\ WF_hvars(stopJoined)

HFairSpec == HSpec /\ HFairness
-----------------------------------------------------------------------------
(* The pool's session count never exceeds maxConnections, no session is     *)
(* queued twice, and none is both lent and idle, although a session leaves  *)
(* the queue, is run and comes back in steps of several threads.            *)
SessionsBounded ==
    /\ Cardinality(active) + Len(idle) <= maxConnections
    /\ Cardinality(Pooled) = Len(idle)
    /\ active \cap Pooled = {}
    /\ Len(queue) <= maxQueueSize

(* A session has one request in hand: a read posted or outstanding, its     *)
(* handler running, or its reply being written, and never two of them. A    *)
(* session that is released and lent again has finished its last request,   *)
(* although timeouts close it from other threads meanwhile. The 408 of a    *)
(* request timeout is not the reply: NoticeStandsAlone is about it.         *)
SessionServesOne ==
    \A s \in Session :
        LET x == sess[s]
            busy == x.posted + x.reads + (IF x.handling THEN 1 ELSE 0) + x.replies
        IN  busy <= 1

(* A 408 is the only write of its stream, as Beast demands. This is false:  *)
(* handleTimeout writes it outside the strand, whatever the session does,   *)
(* so it may be outstanding beside the reply or another 408.                *)
NoticeStandsAlone ==
    \A s \in Session : sess[s].notices > 0 => sess[s].notices + sess[s].replies = 1

(* No request waits in the queue while a session waits in the pool.         *)
NoIdleWhileQueued == ~(idle # <<>> /\ queue # <<>> /\ ~shutdown)

(* A session whose request has been answered becomes available again:       *)
(* "mark as idle for potential reuse".                                      *)
FinishedIsReused ==
    \A s \in Session : (s \in active /\ isIdle(sess[s])) ~> (s \notin active \/ ~isIdle(sess[s]))

(* stop() returns, although it joins a thread that may sleep in the pool    *)
(* before it shuts the pool down.                                           *)
HttpStops == (server = "joining") ~> (server = "down")
=============================================================================
