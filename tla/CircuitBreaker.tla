--------------------------- MODULE CircuitBreaker ---------------------------
(***************************************************************************)
(* The circuit breaker that guards the operations of a service: it opens    *)
(* after failureThreshold failures in a row, lets operations through again  *)
(* once its timeout has passed since the last failure, and closes after     *)
(* successThreshold successes. Every method runs under the mutex of the     *)
(* breaker, so each is one value for another. The breakers of connections   *)
(* and of notifications are the same code with other thresholds.           *)
(***************************************************************************)
EXTENDS Naturals

CONSTANTS failureThreshold, successThreshold

ASSUME ThresholdAssumption == failureThreshold \in Nat \ {0} /\ successThreshold \in Nat \ {0}

Breaker == [state : {"CLOSED", "OPEN", "HALF_OPEN"},
            failures : 0 .. failureThreshold, successes : 0 .. successThreshold]

NewBreaker == [state |-> "CLOSED", failures |-> 0, successes |-> 0]

(* The breaker after allowOperation: expired tells whether its timeout has  *)
(* passed since the last failure. While it is half open everything passes.  *)
allowOperation(b, expired) ==
    IF b.state = "OPEN" /\ expired THEN [b EXCEPT !.state = "HALF_OPEN", !.successes = 0] ELSE b

Allowed(b, expired) == b.state # "OPEN" \/ expired

(* Mutant: a half open breaker counts its successes and stays half open.   *)
CountOnly(b) ==
    CASE b.state = "CLOSED" -> [b EXCEPT !.failures = 0]
      [] b.state = "HALF_OPEN" -> [b EXCEPT !.successes = successThreshold]
      [] OTHER -> b

onSuccess(b) ==
    CASE b.state = "CLOSED" -> [b EXCEPT !.failures = 0]
      [] b.state = "HALF_OPEN" ->
            IF b.successes + 1 >= successThreshold
            THEN [state |-> "CLOSED", failures |-> 0, successes |-> successThreshold]
            ELSE [b EXCEPT !.successes = @ + 1]
      [] OTHER -> b

onFailure(b) ==
    CASE b.state = "CLOSED" ->
            [b EXCEPT !.failures = @ + 1,
                      !.state = IF b.failures + 1 >= failureThreshold THEN "OPEN" ELSE @]
      [] OTHER -> [b EXCEPT !.state = "OPEN"]
=============================================================================
