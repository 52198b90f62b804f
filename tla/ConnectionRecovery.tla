------------------------- MODULE ConnectionRecovery -------------------------
(***************************************************************************)
(* The heartbeat of one WebSocket connection and what its errors do. The    *)
(* timer of the heartbeat holds the connection: each of its handlers        *)
(* schedules the next one while heartbeatActive_ is set. Handlers of the    *)
(* connection run one at a time on its executor; setRecoveryConfig is       *)
(* called between them. A recovery closes the connection and leaves the     *)
(* timer running: only a later error that is not recovered from stops it.   *)
(***************************************************************************)
EXTENDS CircuitBreaker

CONSTANTS
    maxReconnectAttempts, maxMissedHeartbeats,
    MaxSettings   \* bound: calls of setRecoveryConfig

ASSUME ConnectionAssumption ==
    maxReconnectAttempts \in Nat /\ maxMissedHeartbeats \in Nat \ {0} /\ MaxSettings \in Nat

VARIABLES
    cstate,     \* "new", "open", or "closed": isOpen_
    reading,    \* an async_read is outstanding
    manager,    \* manager_ can be locked
    enabled_,   \* recoveryConfig_.enableHeartbeat
    active,     \* heartbeatActive_
    wait,       \* the wait of heartbeatTimer_ is pending
    ticks,      \* handlers of the timer that are to run, none cancelled
    stale,      \* more than heartbeatInterval since lastHeartbeat_
    missed, reconnects, stuck,   \* missedHeartbeats, reconnectAttempts, isRecovering
    soon,       \* the delay since lastReconnectAttempt has not passed
    cbreaker,   \* circuitBreaker_
    settings    \* calls of setRecoveryConfig

cvars == <<cstate, reading, manager, enabled_, active, wait, ticks, stale, missed, reconnects,
           stuck, soon, cbreaker, settings>>

CInit ==
    /\ cstate = "new" /\ reading = FALSE /\ manager = TRUE
    /\ enabled_ = TRUE /\ active = FALSE /\ wait = FALSE /\ ticks = 0 /\ stale = FALSE
    /\ missed = 0 /\ reconnects = 0 /\ stuck = FALSE /\ soon = FALSE
    /\ cbreaker = NewBreaker /\ settings = 0

Accept ==
    /\ cstate = "new" /\ cstate' = "open" /\ reading' = TRUE
    /\ UNCHANGED <<manager, enabled_, active, wait, ticks, stale, missed, reconnects, stuck, soon,
                   cbreaker, settings>>

-----------------------------------------------------------------------------
(* scheduleHeartbeat arms the timer, and cancels a wait that is pending.    *)

startHeartbeat ==
    /\ active' = TRUE
    /\ IF active THEN UNCHANGED <<wait, stale>> ELSE wait' = TRUE /\ stale' = FALSE

stopHeartbeat == active' = FALSE /\ wait' = FALSE

setRecoveryConfig(heartbeat) ==
    /\ settings < MaxSettings /\ settings' = settings + 1
    /\ enabled_' = heartbeat
    /\ IF heartbeat
       THEN IF cstate = "open" THEN startHeartbeat ELSE UNCHANGED <<active, wait, stale>>
       ELSE stopHeartbeat /\ UNCHANGED stale
    /\ UNCHANGED <<cstate, reading, manager, ticks, missed, reconnects, stuck, soon, cbreaker>>

TimerExpires ==
    /\ wait /\ wait' = FALSE /\ ticks' = ticks + 1
    /\ UNCHANGED <<cstate, reading, manager, enabled_, active, stale, missed, reconnects, stuck,
                   soon, cbreaker, settings>>

-----------------------------------------------------------------------------
(* handleError counts a failure, so an open breaker cannot have expired.    *)

shouldRecover(permanent, b) ==
    /\ ~permanent /\ Allowed(b, FALSE)
    /\ reconnects < maxReconnectAttempts /\ ~soon

(* No new socket is made: the connection is closed and leaves the manager.  *)
attemptReconnect ==
    /\ IF stuck THEN UNCHANGED <<reconnects, soon, stuck, cstate>>
       ELSE /\ reconnects' = reconnects + 1 /\ soon' = TRUE
            /\ stuck' = ~manager
            /\ cstate' = IF manager THEN "closed" ELSE cstate
    /\ UNCHANGED active

(* Mutant: the end of the connection leaves its heartbeat active.          *)
EndOnly(permanent) ==
    LET b == onFailure(cbreaker) IN
    /\ cbreaker' = b
    /\ IF shouldRecover(permanent, b) THEN attemptReconnect
       ELSE cstate' = "closed" /\ UNCHANGED <<active, reconnects, soon, stuck>>

handleError(permanent) ==
    LET b == onFailure(cbreaker) IN
    /\ cbreaker' = b
    /\ IF shouldRecover(permanent, b) THEN attemptReconnect
       ELSE cstate' = "closed" /\ active' = FALSE /\ UNCHANGED <<reconnects, soon, stuck>>

(* The handler of the timer: the check, the ping, the next wait.           *)
onHeartbeatTimer ==
    /\ ticks > 0 /\ ticks' = ticks - 1
    /\ IF ~active
       THEN UNCHANGED <<cstate, active, wait, missed, reconnects, stuck, soon, cbreaker>>
       ELSE LET late == enabled_ /\ stale
                n == IF late THEN missed + 1 ELSE missed IN
            /\ missed' = IF n > maxMissedHeartbeats THEN missed ELSE n
            /\ IF late /\ n >= maxMissedHeartbeats THEN handleError(FALSE)
               ELSE UNCHANGED <<cstate, active, reconnects, stuck, soon, cbreaker>>
            /\ wait' = active'
    /\ UNCHANGED <<reading, manager, enabled_, stale, settings>>

PingFails ==
    /\ active /\ cstate = "open" /\ missed < maxMissedHeartbeats /\ missed' = missed + 1
    /\ UNCHANGED <<cstate, reading, manager, enabled_, active, wait, ticks, stale, reconnects,
                   stuck, soon, cbreaker, settings>>

-----------------------------------------------------------------------------
onRead ==
    /\ reading /\ reading' = (cstate = "open")
    /\ IF enabled_ THEN stale' = FALSE /\ missed' = 0 ELSE UNCHANGED <<stale, missed>>
    /\ cbreaker' = onSuccess(cbreaker)
    /\ UNCHANGED <<cstate, manager, enabled_, active, wait, ticks, reconnects, stuck, soon, settings>>

ReadClosed ==
    /\ reading /\ reading' = FALSE /\ cstate' = "closed" /\ stopHeartbeat
    /\ UNCHANGED <<manager, enabled_, ticks, stale, missed, reconnects, stuck, soon, cbreaker, settings>>

ReadFails(permanent) ==
    /\ reading /\ reading' = FALSE /\ handleError(permanent)
    /\ wait' = (wait /\ active')
    /\ UNCHANGED <<manager, enabled_, ticks, stale, missed, settings>>

(* send() asks the breaker, write results tell it.                         *)
SendAllowed(expired) ==
    /\ cstate = "open" /\ cbreaker' = allowOperation(cbreaker, expired)
    /\ UNCHANGED <<cstate, reading, manager, enabled_, active, wait, ticks, stale, missed,
                   reconnects, stuck, soon, settings>>

onWrite ==
    /\ cstate = "open" /\ cbreaker' = onSuccess(cbreaker)
    /\ UNCHANGED <<cstate, reading, manager, enabled_, active, wait, ticks, stale, missed,
                   reconnects, stuck, soon, settings>>

doClose ==
    /\ cstate = "open" /\ cstate' = "closed"
    /\ UNCHANGED <<reading, manager, enabled_, active, wait, ticks, stale, missed, reconnects,
                   stuck, soon, cbreaker, settings>>

(* Time, and the end of the manager.                                       *)
HeartbeatAges ==
    /\ ~stale /\ stale' = TRUE
    /\ UNCHANGED <<cstate, reading, manager, enabled_, active, wait, ticks, missed, reconnects,
                   stuck, soon, cbreaker, settings>>

BackoffPasses ==
    /\ soon /\ soon' = FALSE
    /\ UNCHANGED <<cstate, reading, manager, enabled_, active, wait, ticks, stale, missed,
                   reconnects, stuck, cbreaker, settings>>

ManagerEnds ==
    /\ manager /\ manager' = FALSE
    /\ UNCHANGED <<cstate, reading, enabled_, active, wait, ticks, stale, missed, reconnects,
                   stuck, soon, cbreaker, settings>>

CNext ==
    \/ Accept \/ (\E h \in BOOLEAN : setRecoveryConfig(h)) \/ TimerExpires \/ onHeartbeatTimer
    \/ PingFails \/ onRead \/ ReadClosed \/ (\E p \in BOOLEAN : ReadFails(p))
    \/ (\E e \in BOOLEAN : SendAllowed(e)) \/ onWrite \/ doClose
    \/ HeartbeatAges \/ BackoffPasses \/ ManagerEnds

CFairness ==
    WF_cvars(TimerExpires) /\ WF_cvars(onHeartbeatTimer) /\ WF_cvars(HeartbeatAges)

(* A closed connection is released: its heartbeat, which holds it, ends.    *)
HeartbeatEnds == cstate = "closed" ~> ~active
=============================================================================
