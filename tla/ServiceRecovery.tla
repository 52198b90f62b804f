--------------------------- MODULE ServiceRecovery ---------------------------
(***************************************************************************)
(* How the job monitor guards itself: its log broadcasts run behind the     *)
(* circuit breaker, a failed one may start a detached thread that tries to  *)
(* recover after a delay, and a thread checks the health of the components  *)
(* while it is configured. The tests and stores of the recovery state are   *)
(* atomics of their own, so the threads interleave between them. The queues *)
(* for the degraded mode are only ever emptied: nothing fills them, so      *)
(* processQueuedEvents and both degraded modes change no state.             *)
(***************************************************************************)
EXTENDS CircuitBreaker, FiniteSets

CONSTANTS
    Caller,              \* threads that broadcast
    Recoverer,           \* bound: recovery threads at a time
    maxRecoveryAttempts,
    maxFailedHealthChecks,
    MaxConfigs           \* bound: calls of setRecoveryConfig

ASSUME RecoveryAssumption ==
    maxRecoveryAttempts \in Nat /\ maxFailedHealthChecks \in Nat \ {0} /\ MaxConfigs \in Nat

VARIABLES
    up,          \* whether the components work: the environment
    breaker,     \* circuitBreaker_
    healthy, recovering, attempts, failedChecks,  \* recoveryState_
    lastAttempt, \* lastRecoveryAttempt: long ago, within the delay, or min()
    caller,      \* where each caller is
    recoverer,   \* where each recovery thread is
    checking,    \* healthCheckRunning_
    checker,     \* where the health thread is
    configs      \* calls of setRecoveryConfig

srvars == <<up, breaker, healthy, recovering, attempts, failedChecks, lastAttempt,
            caller, recoverer, checking, checker, configs>>

SRInit ==
    /\ up = TRUE /\ breaker = NewBreaker
    /\ healthy = TRUE /\ recovering = FALSE /\ attempts = 0 /\ failedChecks = 0
    /\ lastAttempt = "long ago"
    /\ caller = [c \in Caller |-> "idle"]
    /\ recoverer = [r \in Recoverer |-> "none"]
    /\ checking = FALSE /\ checker = "none" /\ configs = 0

-----------------------------------------------------------------------------
(* tryOperation: the operation runs without a lock.                        *)

Try(c, expired) ==
    /\ caller[c] = "idle" /\ Allowed(breaker, expired)
    /\ breaker' = allowOperation(breaker, expired)
    /\ caller' = [caller EXCEPT ![c] = "running"]
    /\ UNCHANGED <<up, healthy, recovering, attempts, failedChecks, lastAttempt, recoverer,
                   checking, checker, configs>>

TryBeforeTimeout(c) == Try(c, FALSE)
TryAfterTimeout(c) == breaker.state = "OPEN" /\ Try(c, TRUE)

Succeed(c) ==
    /\ caller[c] = "running" /\ up
    /\ breaker' = onSuccess(breaker)
    /\ caller' = [caller EXCEPT ![c] = "idle"]
    /\ UNCHANGED <<up, healthy, recovering, attempts, failedChecks, lastAttempt, recoverer,
                   checking, checker, configs>>

handleServiceError(c) ==
    /\ caller[c] = "running" /\ ~up
    /\ breaker' = onFailure(breaker)
    /\ caller' = [caller EXCEPT ![c] = "failed"]
    /\ UNCHANGED <<up, healthy, recovering, attempts, failedChecks, lastAttempt, recoverer,
                   checking, checker, configs>>

(* After reset() the time since the last attempt overflows: the difference  *)
(* of the clock and min() is undefined, and either answer is possible.      *)
shouldAttemptRecovery ==
    IF attempts >= maxRecoveryAttempts THEN {FALSE}
    ELSE CASE lastAttempt = "long ago" -> {TRUE}
           [] lastAttempt = "recent" -> {FALSE}
           [] OTHER -> BOOLEAN

ScheduleRecovery(c) ==
    /\ caller[c] = "failed"
    /\ caller' = [caller EXCEPT ![c] = "idle"]
    /\ \/ FALSE \in shouldAttemptRecovery /\ UNCHANGED recoverer
       \/ /\ TRUE \in shouldAttemptRecovery
          /\ \E r \in Recoverer :
                recoverer[r] = "none" /\ recoverer' = [recoverer EXCEPT ![r] = "sleeping"]
    /\ UNCHANGED <<up, breaker, healthy, recovering, attempts, failedChecks, lastAttempt,
                   checking, checker, configs>>

-----------------------------------------------------------------------------
(* attemptRecovery, on its thread: two may pass the tests together.         *)

DelayPasses ==
    /\ lastAttempt = "recent" /\ lastAttempt' = "long ago"
    /\ UNCHANGED <<up, breaker, healthy, recovering, attempts, failedChecks, caller, recoverer,
                   checking, checker, configs>>

Wake(r) ==
    /\ recoverer[r] = "sleeping"
    /\ \E should \in shouldAttemptRecovery :
          recoverer' = [recoverer EXCEPT ![r] = IF should /\ ~recovering THEN "claim" ELSE "none"]
    /\ UNCHANGED <<up, breaker, healthy, recovering, attempts, failedChecks, lastAttempt, caller,
                   checking, checker, configs>>

attemptRecovery(r) ==
    /\ recoverer[r] = "claim"
    /\ recovering' = TRUE /\ attempts' = attempts + 1 /\ lastAttempt' = "recent"
    /\ recoverer' = [recoverer EXCEPT ![r] = "check"]
    /\ UNCHANGED <<up, breaker, healthy, failedChecks, caller, checking, checker, configs>>

(* A healthy answer resets the state, then tells the breaker; any other is  *)
(* one failure more for it.                                                *)
RecoveryWorks(r) ==
    /\ recoverer[r] = "check" /\ up
    /\ healthy' = TRUE /\ recovering' = FALSE /\ attempts' = 0 /\ failedChecks' = 0
    /\ lastAttempt' = "min"
    /\ recoverer' = [recoverer EXCEPT ![r] = "report"]
    /\ UNCHANGED <<up, breaker, caller, checking, checker, configs>>

RecoveryReports(r) ==
    /\ recoverer[r] = "report"
    /\ breaker' = onSuccess(breaker)
    /\ recoverer' = [recoverer EXCEPT ![r] = "end"]
    /\ UNCHANGED <<up, healthy, recovering, attempts, failedChecks, lastAttempt, caller,
                   checking, checker, configs>>

RecoveryFails(r) ==
    /\ recoverer[r] = "check" /\ ~up
    /\ breaker' = onFailure(breaker)
    /\ recoverer' = [recoverer EXCEPT ![r] = "end"]
    /\ UNCHANGED <<up, healthy, recovering, attempts, failedChecks, lastAttempt, caller,
                   checking, checker, configs>>

RecoveryEnds(r) ==
    /\ recoverer[r] = "end"
    /\ recovering' = FALSE
    /\ recoverer' = [recoverer EXCEPT ![r] = "none"]
    /\ UNCHANGED <<up, breaker, healthy, attempts, failedChecks, lastAttempt, caller,
                   checking, checker, configs>>

-----------------------------------------------------------------------------
(* The health thread. setRecoveryConfig starts it, or stops and joins it.   *)

startHealthMonitoring ==
    /\ configs < MaxConfigs /\ ~checking /\ checker = "none"
    /\ checking' = TRUE /\ checker' = "test" /\ configs' = configs + 1
    /\ UNCHANGED <<up, breaker, healthy, recovering, attempts, failedChecks, lastAttempt,
                   caller, recoverer>>

stopHealthMonitoring ==
    /\ configs < MaxConfigs /\ checking
    /\ checking' = FALSE /\ configs' = configs + 1
    /\ UNCHANGED <<up, breaker, healthy, recovering, attempts, failedChecks, lastAttempt,
                   caller, recoverer, checker>>

healthCheckLoop ==
    /\ checker = "test"
    /\ checker' = IF checking THEN "check" ELSE "none"
    /\ UNCHANGED <<up, breaker, healthy, recovering, attempts, failedChecks, lastAttempt,
                   caller, recoverer, checking, configs>>

performComponentHealthChecks ==
    /\ checker = "check"
    /\ checker' = IF up THEN "good" ELSE "bad"
    /\ UNCHANGED <<up, breaker, healthy, recovering, attempts, failedChecks, lastAttempt,
                   caller, recoverer, checking, configs>>

HealthRestored ==
    /\ checker = "good"
    /\ failedChecks' = 0
    /\ healthy' = TRUE
    /\ breaker' = IF healthy THEN breaker ELSE onSuccess(breaker)
    /\ checker' = "test"
    /\ UNCHANGED <<up, recovering, attempts, lastAttempt, caller, recoverer, checking, configs>>

(* failedChecks is kept at the limit, from which on the code only compares. *)
HealthFailed ==
    /\ checker = "bad"
    /\ LET n == failedChecks + 1 IN
       /\ failedChecks' = IF n > maxFailedHealthChecks THEN failedChecks ELSE n
       /\ healthy' = IF n >= maxFailedHealthChecks THEN FALSE ELSE healthy
       /\ breaker' = IF n >= maxFailedHealthChecks THEN onFailure(breaker) ELSE breaker
    /\ checker' = "test"
    /\ UNCHANGED <<up, recovering, attempts, lastAttempt, caller, recoverer, checking, configs>>

(* The components fail and come back.                                      *)
Outage ==
    /\ up' = ~up
    /\ UNCHANGED <<breaker, healthy, recovering, attempts, failedChecks, lastAttempt, caller,
                   recoverer, checking, checker, configs>>

CallerStep(c) == Succeed(c) \/ handleServiceError(c) \/ ScheduleRecovery(c)
RecovererStep(r) == Wake(r) \/ attemptRecovery(r) \/ RecoveryWorks(r) \/ RecoveryReports(r)
                    \/ RecoveryFails(r) \/ RecoveryEnds(r)
CheckerStep == healthCheckLoop \/ performComponentHealthChecks \/ HealthRestored \/ HealthFailed

SRNext ==
    \/ \E c \in Caller : TryBeforeTimeout(c) \/ TryAfterTimeout(c) \/ CallerStep(c)
    \/ \E r \in Recoverer : RecovererStep(r)
    \/ startHealthMonitoring \/ stopHealthMonitoring \/ CheckerStep
    \/ DelayPasses \/ Outage

(* Threads run on, the timeout of the breaker passes, and one caller after  *)
(* another broadcasts again: without traffic an open breaker stays open.    *)
SRFairness ==
    /\ WF_srvars(CheckerStep)
    /\ \A r \in Recoverer : WF_srvars(RecovererStep(r))
    /\ \A c \in Caller :
          /\ WF_srvars(CallerStep(c))
          /\ WF_srvars(TryBeforeTimeout(c)) /\ WF_srvars(TryAfterTimeout(c))

(* isHealthy()                                                             *)
isHealthy == healthy /\ breaker.state # "OPEN"

(* Once the components work for good and the health thread runs, the        *)
(* monitor is healthy and its breaker closed for good: no failure that was  *)
(* under way, no recovery thread and no earlier count stands in the way.    *)
RecoversWithTraffic == <>[](up /\ checking) => <>[](isHealthy /\ breaker.state = "CLOSED")
=============================================================================
