----------------------------- MODULE MCServices -----------------------------
(* The services share no state: each behaviour is one of the monitor's      *)
(* recovery, of a connection's heartbeat, of the limiter, of the users and  *)
(* sessions or of the keys, with the others at rest.                       *)
EXTENDS ServiceRecovery, ConnectionRecovery, RateLimiter, AuthManager, JWTKeyManager

VARIABLE service
services == <<service, srvars, cvars, rlvars, auvars, jvars>>

MCDefaultRules ==
    {[endpoint |-> <<"api", "jobs">>, perMinute |-> 2, perHour |-> 3]}
MCAddedRules ==
    {[endpoint |-> <<"api", "jobs", "logs">>, perMinute |-> 1, perHour |-> 2]}
MCEndpoints == {<<"api", "jobs">>, <<"api", "jobs", "logs">>, <<"api">>}

Init ==
    /\ service \in {"recovery", "heartbeat", "limiter", "auth", "keys"}
    /\ SRInit /\ CInit /\ RLInit /\ AuInit /\ JInit
    /\ service # "keys" => hmac

Next ==
    \/ service = "recovery" /\ SRNext /\ UNCHANGED <<service, cvars, rlvars, auvars, jvars>>
    \/ service = "heartbeat" /\ CNext /\ UNCHANGED <<service, srvars, rlvars, auvars, jvars>>
    \/ service = "limiter" /\ RLNext /\ UNCHANGED <<service, srvars, cvars, auvars, jvars>>
    \/ service = "auth" /\ AuNext /\ UNCHANGED <<service, srvars, cvars, rlvars, jvars>>
    \/ service = "keys" /\ JNext /\ UNCHANGED <<service, srvars, cvars, rlvars, auvars>>

Spec == Init /\ [][Next]_services

(* SRFairness and CFairness, each where its part is the one that runs.      *)
FairSpec ==
    /\ Spec
    /\ WF_srvars(service = "recovery" /\ CheckerStep)
    /\ \A r \in Recoverer : WF_srvars(service = "recovery" /\ RecovererStep(r))
    /\ \A c \in Caller :
          /\ WF_srvars(service = "recovery" /\ CallerStep(c))
          /\ WF_srvars(service = "recovery" /\ TryBeforeTimeout(c))
          /\ WF_srvars(service = "recovery" /\ TryAfterTimeout(c))
    /\ WF_cvars(service = "heartbeat" /\ TimerExpires)
    /\ WF_cvars(service = "heartbeat" /\ onHeartbeatTimer)
    /\ WF_cvars(service = "heartbeat" /\ HeartbeatAges)
=============================================================================
