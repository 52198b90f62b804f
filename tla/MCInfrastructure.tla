-------------------------- MODULE MCInfrastructure --------------------------
(* What the components stand on: the pool of database connections, the      *)
(* notifications and the ordered locks. They share no state: each behaviour *)
(* is one of them, with the others at rest.                                *)
EXTENDS DatabaseConnectionPool, NotificationService, LockUtils, TLC

CONSTANTS config, list

VARIABLE part
infrastructure == <<part, poolVars, nvars, lvars>>

LevelOf == [m \in Mutex |-> IF m = config THEN 1 ELSE 2]

Init ==
    /\ part \in {"pool", "alerts", "locks"}
    /\ PoolInit /\ NotificationInit /\ LInit
    /\ part # "pool" => idleConnections = <<>>

Next ==
    \/ part = "pool" /\ PoolNext /\ UNCHANGED <<part, nvars, lvars>>
    \/ part = "alerts" /\ NotificationNext /\ UNCHANGED <<part, poolVars, lvars>>
    \/ part = "locks" /\ LNext /\ UNCHANGED <<part, poolVars, nvars>>

(* PoolFairness and NotificationFairness, each where its part is the one     *)
(* that runs.                                                              *)
FairSpec ==
    /\ Init /\ [][Next]_infrastructure
    /\ \A c \in Client : WF_poolVars(part = "pool" /\ ClientStep(c))
    /\ WF_poolVars(part = "pool" /\ HealthStep)
    /\ WF_poolVars(part = "pool" /\ ShutdownStep)
    /\ WF_nvars(part = "alerts" /\ Worker)
    /\ WF_nvars(part = "alerts" /\ NotifyAll)
    /\ WF_nvars(part = "alerts" /\ Join)
    /\ SF_nvars(part = "alerts" /\ TakeRetry)
=============================================================================
