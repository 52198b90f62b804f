----------------------------- MODULE TimeoutManager -----------------------------
(***************************************************************************)
(* The timers of the HTTP sessions. A session has at most one connection    *)
(* timer and one request timer in the maps; a timer that has expired has    *)
(* its handler queued in the io_context, and cancelling it then comes too   *)
(* late. The handler removes the timer from its map if it is still the one  *)
(* that fired, which it sees by the address of the timer alone, unlocks,    *)
(* and only then calls the session. Durations are left to the expiry, which *)
(* may happen at any time; an address may be used again once it is free.    *)
(***************************************************************************)
EXTENDS Naturals, Sequences, FiniteSets

CONSTANTS
    Session,   \* PooledSession objects
    Address,   \* addresses the allocator gives to timers
    NoTimer

ASSUME TimerAssumption == NoTimer \notin Address /\ Address # {}

Kind == {"conn", "req"}
Firing == [session : Session, kind : Kind, timer : Address]

VARIABLES
    timers,   \* connectionTimers_ and requestTimers_: [conn, req] of every session
    fired,    \* handlers queued with success, not yet run
    calling   \* handlers between the unlock and the session's callback

tvars == <<timers, fired, calling>>

NoTimers == [conn |-> NoTimer, req |-> NoTimer]

TTypeOK ==
    /\ timers \in [Session -> [Kind -> Address \cup {NoTimer}]]
    /\ fired \subseteq Firing
    /\ calling \subseteq Firing

TInit ==
    /\ timers = [s \in Session |-> NoTimers]
    /\ fired = {} /\ calling = {}

(* The timers of a session once a timer is started at address a: the one it  *)
(* replaces is cancelled and freed first, so a may be the old address.      *)
startConnectionTimeout(t, a) == [t EXCEPT !.conn = a]
startRequestTimeout(t, a) == [t EXCEPT !.req = a]

cancelTimeouts(t) == NoTimers
cancelRequestTimeout(t) == [t EXCEPT !.req = NoTimer]

(* The steady_timer expires: its handler is queued, its entry stays.        *)
Expire(s, k) ==
    /\ timers[s][k] # NoTimer
    /\ [session |-> s, kind |-> k, timer |-> timers[s][k]] \notin fired
    /\ fired' = fired \cup {[session |-> s, kind |-> k, timer |-> timers[s][k]]}
    /\ UNCHANGED <<timers, calling>>

(* The first half of the handler: the entry goes if it is the fired timer.  *)
handleTimeout(f) ==
    /\ f \in fired
    /\ fired' = fired \ {f}
    /\ calling' = calling \cup {f}
    /\ timers' = [timers EXCEPT ![f.session][f.kind] =
                     IF @ = f.timer THEN NoTimer ELSE @]

=============================================================================
