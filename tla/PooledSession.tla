------------------------------ MODULE PooledSession ------------------------------
(***************************************************************************)
(* One HTTP session: an asynchronous read, the request handler, and an      *)
(* asynchronous write, whose handlers run one at a time on the session's    *)
(* strand. The callbacks of its timers run outside the strand, so a timeout *)
(* may come between any two handlers, and while the request handler works.  *)
(* A session is a record; the operations are functions from a session to    *)
(* the sessions it may become, so that the pool can use them under its lock.*)
(* lastActivity_ is kept as the one comparison made with it: whether the    *)
(* idle timeout has passed since.                                           *)
(***************************************************************************)
EXTENDS TimeoutManager

CONSTANTS
    Client,     \* accepted sockets
    NoClient

ASSUME SessionAssumption == NoClient \notin Client

VARIABLES
    sess        \* every session

svars == <<tvars, sess>>

Sess == [made : BOOLEAN,            \* created by the pool
         idle : BOOLEAN,            \* isIdle_
         processing : BOOLEAN,      \* processingRequest_
         posted : Nat,              \* doRead handlers posted
         reads : Nat,               \* async_reads outstanding
         handling : BOOLEAN,        \* the request handler is running
         replies : Nat,             \* async_writes of responses outstanding
         notices : Nat,             \* async_writes of 408 outstanding
         socket : {"open", "shut", "released"},
         owner : Client \cup {NoClient},  \* the client at the other end
         lapsed : BOOLEAN]          \* idleTimeout_ has passed since lastActivity_

Fresh == [made |-> FALSE, idle |-> FALSE, processing |-> FALSE, posted |-> 0,
          reads |-> 0, handling |-> FALSE, replies |-> 0, notices |-> 0,
          socket |-> "open", owner |-> NoClient, lapsed |-> FALSE]

updateLastActivity(x) == [x EXCEPT !.lapsed = FALSE]
setIdle(x, b) == [x EXCEPT !.idle = b, !.lapsed = IF b THEN FALSE ELSE @]
isIdle(x) == x.idle /\ ~x.processing

(* The session as it is after construction with an accepted socket.         *)
Created(c) == [Fresh EXCEPT !.made = TRUE, !.owner = c]

(* reset() without the timers, which it cancels.                            *)
reset(x) == setIdle([x EXCEPT !.processing = FALSE, !.idle = FALSE], TRUE)

(* run() without the connection timer, which it starts: doRead is posted.   *)
run(x) == [setIdle(updateLastActivity(x), FALSE) EXCEPT !.posted = @ + 1]

(* doClose() without the timers, which it cancels.                          *)
doClose(x) == [x EXCEPT !.idle = FALSE, !.processing = FALSE,
                        !.socket = IF @ = "open" THEN "shut" ELSE @]

(* The session becomes x, and its timers t.                                 *)
Becomes(s, x, t) ==
    /\ sess' = [sess EXCEPT ![s] = x]
    /\ timers' = [timers EXCEPT ![s] = t]
    /\ UNCHANGED <<fired, calling>>

Close(s, x) == Becomes(s, doClose(x), cancelTimeouts(timers[s]))

(* doRead: the request timer starts, and a read.                            *)
doRead(s) ==
    /\ sess[s].posted > 0
    /\ \E a \in Address :
          Becomes(s, [updateLastActivity(sess[s]) EXCEPT
                         !.posted = @ - 1, !.processing = TRUE, !.reads = @ + 1],
                  startRequestTimeout(timers[s], a))

(* A read ends: the client has gone, the read failed, the request is an     *)
(* upgrade that the WebSocket manager takes, or the request handler begins. *)
(* The session exists only if both dependencies do.                         *)
onRead(s) ==
    LET x == [updateLastActivity(sess[s]) EXCEPT !.reads = @ - 1]
    IN  /\ sess[s].reads > 0
        /\ \/ Close(s, [x EXCEPT !.processing = FALSE])
           \/ Becomes(s, [x EXCEPT !.processing = FALSE], timers[s])
           \/ Becomes(s, [x EXCEPT !.processing = FALSE, !.socket = "released"],
                      cancelTimeouts(timers[s]))
           \/ Becomes(s, [x EXCEPT !.handling = TRUE], timers[s])

(* The handler has answered, or thrown: either way a response is written.   *)
sendResponse(s) ==
    /\ sess[s].handling
    /\ Becomes(s, [updateLastActivity(sess[s]) EXCEPT
                      !.handling = FALSE, !.replies = @ + 1], timers[s])

(* A write of the given kind ends: it failed, it asks to close, as the 408  *)
(* always does, or the session is idle and its request timer is cancelled.  *)
onWrite(s, kind) ==
    LET x == [updateLastActivity(sess[s]) EXCEPT ![kind] = @ - 1, !.processing = FALSE]
    IN  /\ sess[s][kind] > 0
        /\ \/ Becomes(s, x, timers[s])
           \/ Close(s, x)
           \/ /\ kind = "replies"
              /\ Becomes(s, setIdle(x, TRUE), cancelRequestTimeout(timers[s]))

(* The callback of a timer: a connection timeout closes the session, a      *)
(* request timeout writes a 408.                                            *)
sessionTimeout(f) ==
    LET s == f.session
        x == updateLastActivity(sess[s])
    IN  /\ f \in calling
        /\ calling' = calling \ {f}
        /\ fired' = fired
        /\ IF f.kind = "conn"
           THEN /\ sess' = [sess EXCEPT ![s] = doClose(sess[s])]
                /\ timers' = [timers EXCEPT ![s] = cancelTimeouts(@)]
           ELSE /\ sess' = [sess EXCEPT ![s] = [x EXCEPT !.notices = @ + 1]]
                /\ UNCHANGED timers

(* The idle timeout passes for a session that is waiting in the pool.       *)
Lapse(s) ==
    /\ sess[s].idle /\ ~sess[s].lapsed
    /\ sess' = [sess EXCEPT ![s].lapsed = TRUE]
    /\ UNCHANGED tvars

(* A handler of the session's strand: none runs beside the request handler. *)
SessionHandler(s) ==
    /\ ~sess[s].handling
    /\ doRead(s) \/ onRead(s) \/ \E k \in {"replies", "notices"} : onWrite(s, k)
TimerStep ==
    \/ \E s \in Session, k \in Kind : Expire(s, k) /\ UNCHANGED sess
    \/ \E f \in fired : handleTimeout(f) /\ UNCHANGED sess
=============================================================================
