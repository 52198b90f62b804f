----------------------------- MODULE RateLimiter -----------------------------
(***************************************************************************)
(* The limiter of requests: fixed windows of a minute and of an hour, kept  *)
(* for each client and each full endpoint, with the limits of the longest   *)
(* rule that is a prefix of the endpoint. Every method holds the mutex. The *)
(* windows come from the system clock, which may be set back.               *)
(***************************************************************************)
EXTENDS Naturals, SequencesExt

CONSTANTS
    Requester,    \* client identifiers
    Endpoint,     \* endpoints, as sequences of path segments
    DefaultRule,  \* rules of initializeDefaultRules: endpoint, perMinute, perHour
    AddedRule,    \* rules addRule may add
    HourMinutes,  \* 60
    MaxMinute,    \* bound: last minute of the clock
    MaxBack       \* bound: how far the clock is set back, in minutes

RateRule == [endpoint : Seq(STRING), perMinute : Nat, perHour : Nat]

ASSUME RateAssumption ==
    /\ \A r \in DefaultRule \union AddedRule : r \in RateRule
    /\ HourMinutes \in Nat \ {0} /\ MaxMinute \in Nat /\ MaxBack \in Nat

VARIABLES
    rules,          \* rules_, sorted when they change
    minuteCounters, hourCounters,  \* clientData_: the count of each window
    minute,         \* the minute of the system clock
    latest,         \* the latest minute the clock has shown
    granted         \* history: requests let through in each minute

rlvars == <<rules, minuteCounters, hourCounters, minute, latest, granted>>

Hour(m) == m \div HourMinutes
Window == 0 .. MaxMinute

NoRequests == [e \in Endpoint |-> [w \in Window |-> 0]]

RLInit ==
    /\ rules = DefaultRule
    /\ minuteCounters = [c \in Requester |-> NoRequests]
    /\ hourCounters = [c \in Requester |-> NoRequests]
    /\ granted = [c \in Requester |-> NoRequests]
    /\ minute = 0 /\ latest = 0

(* The first rule that matches, in descending length: of two that match     *)
(* with one length, added for the same endpoint, the sort puts either first.*)
getRuleForEndpoint(e) ==
    LET matching == {r \in rules : IsPrefix(r.endpoint, e)} IN
    {r \in matching : \A q \in matching : Len(q.endpoint) <= Len(r.endpoint)}

addRule(r) ==
    /\ r \notin rules /\ rules' = rules \union {r}
    /\ UNCHANGED <<minuteCounters, hourCounters, minute, latest, granted>>

(* A request that is let through; a refused one, and one no rule matches,   *)
(* changes no count.                                                       *)
isAllowed(c, e) ==
    \E r \in getRuleForEndpoint(e) :
       /\ minuteCounters[c][e][minute] < r.perMinute
       /\ hourCounters[c][e][Hour(minute)] < r.perHour
       /\ minuteCounters' = [minuteCounters EXCEPT ![c][e][minute] = @ + 1]
       /\ hourCounters' = [hourCounters EXCEPT ![c][e][Hour(minute)] = @ + 1]
       /\ granted' = [granted EXCEPT ![c][e][minute] = @ + 1]
       /\ UNCHANGED <<rules, minute, latest>>

(* What the headers of a response say: the minute window only.             *)
getRateLimitInfo(c, e, r) ==
    LET used == minuteCounters[c][e][minute] IN
    [limit |-> r.perMinute, reset |-> minute + 1,
     remaining |-> IF used >= r.perMinute THEN 0 ELSE r.perMinute - used]

resetClient(c) ==
    /\ minuteCounters' = [minuteCounters EXCEPT ![c] = NoRequests]
    /\ hourCounters' = [hourCounters EXCEPT ![c] = NoRequests]
    /\ granted' = [granted EXCEPT ![c] = NoRequests]
    /\ UNCHANGED <<rules, minute, latest>>

(* Mutant: only the window of now is kept.                                 *)
KeepCurrent(counters, current) ==
    [c \in Requester |-> [e \in Endpoint |-> [w \in Window |->
        IF w < current THEN 0 ELSE counters[c][e][w]]]]

(* The window before this one is kept: the clock may return to it.         *)
DropOld(counters, current) ==
    [c \in Requester |-> [e \in Endpoint |-> [w \in Window |->
        IF w + 1 < current THEN 0 ELSE counters[c][e][w]]]]

cleanupExpiredEntries ==
    /\ minuteCounters' = DropOld(minuteCounters, minute)
    /\ hourCounters' = DropOld(hourCounters, Hour(minute))
    /\ UNCHANGED <<rules, minute, latest, granted>>

Clock ==
    /\ \E m \in Window :
          /\ m = minute + 1 \/ (m < minute /\ m + MaxBack >= latest)
          /\ minute' = m /\ latest' = IF m > latest THEN m ELSE latest
    /\ UNCHANGED <<rules, minuteCounters, hourCounters, granted>>

RLNext ==
    \/ \E c \in Requester, e \in Endpoint : isAllowed(c, e)
    \/ \E r \in AddedRule : addRule(r)
    \/ \E c \in Requester : resetClient(c)
    \/ cleanupExpiredEntries \/ Clock

RLSpec == RLInit /\ [][RLNext]_rlvars

(* However often the counters are cleaned up and the clock is set back a    *)
(* minute, a request passes only while its minute, counted apart from the   *)
(* counters, stays within the limit of a rule in force, and its client was  *)
(* told that requests remain.                                              *)
WithinLimit ==
    [][\A c \in Requester, e \in Endpoint, w \in Window :
          granted'[c][e][w] > granted[c][e][w] =>
             \E r \in getRuleForEndpoint(e) :
                /\ granted'[c][e][w] <= r.perMinute
                /\ getRateLimitInfo(c, e, r).remaining > 0]_rlvars
=============================================================================
