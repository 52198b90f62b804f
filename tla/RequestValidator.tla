-------------------------- MODULE RequestValidator --------------------------
(***************************************************************************)
(* The validator of whole requests: the shape of the request, the limit on  *)
(* the requests of a client, refused words, and what each endpoint asks     *)
(* for. A request has a method, a target, a sequence of headers (pairs of a *)
(* name and a text) and a body. An error is its code.                      *)
(***************************************************************************)
EXTENDS InputValidator, QueueFilter

CONSTANTS
    Validated,               \* the requests that arrive
    ValidatorConfig,         \* configurations, the first in force is StartConfig
    StartConfig,
    inPath, traversal,       \* segments of valid characters; those with two dots
    badName, badValue,       \* header names and symbols that are refused
    refusedSql, refusedXss,  \* words with a keyword of checkForSqlInjection, ...
    Minute,                  \* the ticks of a minute
    MaxNow, MaxValidated     \* bounds: the clock, the requests validated

ASSUME ValidatorAssumption ==
    /\ StartConfig \in ValidatorConfig /\ {Minute, MaxNow, MaxValidated} \subseteq Nat \ {0}
    /\ \A c \in ValidatorConfig : c.maxRequestsPerMinute \in Nat

VARIABLES
    vconfig,        \* config_
    vstats,         \* stats_
    rateLimitMap,   \* the times of the requests of each client
    now,
    admitted,       \* history: the times of the requests a limit let pass
    validated       \* history: requests validated

rvvars == <<vconfig, vstats, rateLimitMap, now, admitted, validated>>

Verb == {"GET", "POST", "PUT", "PATCH", "DELETE", "HEAD", "OPTIONS"}
NoRequests == [c \in {} |-> <<>>]
ZeroStats == [total |-> 0, valid |-> 0, invalid |-> 0, security |-> 0, rate |-> 0]

RVInit ==
    /\ vconfig = StartConfig /\ vstats = ZeroStats
    /\ rateLimitMap = NoRequests /\ admitted = NoRequests
    /\ now = 0 /\ validated = 0

Timestamps(map, c) == IF c \in DOMAIN map THEN map[c] ELSE <<>>
PutTimes(map, c, times) ==
    [d \in DOMAIN map \union {c} |-> IF d = c THEN times ELSE map[d]]

lowerHeaders(r) ==
    LET at(k) == {i \in DOMAIN r.headers : Lower(r.headers[i][1]) = k} IN
    [k \in {Lower(h[1]) : h \in ToSet(r.headers)} |-> r.headers[Max(at(k))][2]]

checkForSqlInjection(text) == \E i \in DOMAIN text : text[i] \in refusedSql
checkForXssAttempts(text) == \E i \in DOMAIN text : text[i] \in refusedXss

TargetText(target) == target.path \o FlattenSeq(target.query)

validatePath(path) ==
    AllErrors({<<path = <<>>, "INVALID_PATH_FORMAT">>,
               <<ToSet(path) \intersect traversal # {}, "PATH_TRAVERSAL">>,
               <<ToSet(path) \intersect controls # {}, "NULL_BYTE_IN_PATH">>,
               <<\E i \in DOMAIN path : path[i] \notin inPath \union {""},
                 "INVALID_PATH_CHARS">>})

isValidHeaderName(name) == name # "" /\ name \notin badName
isValidHeaderValue(value) == ToSet(value) \intersect badValue = {}

(* Headers past the limit are not looked at.                               *)
validateHeaders(r) ==
    LET n == Min({Len(r.headers), vconfig.maxHeaderCount})
        seen == ToSet(SubSeq(r.headers, 1, n))
    IN AllErrors({<<n < Len(r.headers), "TOO_MANY_HEADERS">>,
                  <<\E h \in seen : Size(<<h[1]>>) + Size(h[2]) > vconfig.maxHeaderSize,
                    "HEADER_TOO_LARGE">>,
                  <<\E h \in seen : ~isValidHeaderName(h[1]), "INVALID_HEADER_NAME">>,
                  <<\E h \in seen : ~isValidHeaderValue(h[2]), "INVALID_HEADER_VALUE">>})

validateParameters(target) ==
    LET n == Min({Len(target.query), vconfig.maxQueryParamCount})
        seen == ToSet(SubSeq(target.query, 1, n))
    IN AllErrors({<<n < Len(target.query), "TOO_MANY_PARAMS">>,
                  <<\E p \in seen : Len(p) = 1, "INVALID_PARAM_FORMAT">>,
                  <<\E p \in seen : Len(p) = 2 /\ p[1] = "", "EMPTY_PARAM_NAME">>,
                  <<vconfig.sql /\ \E p \in seen : Len(p) = 2 /\ checkForSqlInjection(p),
                    "SQL_INJECTION">>,
                  <<vconfig.xss /\ \E p \in seen : Len(p) = 2 /\ checkForXssAttempts(p),
                    "XSS_ATTEMPT">>})

validateContentLength(r) ==
    AllErrors({<<Size(r.body) > vconfig.maxRequestSize, "REQUEST_TOO_LARGE">>})

validateRequestBasics(r) ==
    LET size == Size(TargetText(r.target)) IN
    Checked(FirstError(<< <<r.method = "", "MISSING_METHOD">>,
                          <<size = 0, "MISSING_PATH">>,
                          <<size > vconfig.maxPathLength, "PATH_TOO_LONG">> >>),
            {<<TRUE, e>> : e \in validatePath(r.target.path) \union validateHeaders(r)
                \union (IF r.target.asked THEN validateParameters(r.target) ELSE {})
                \union validateContentLength(r)})

(* The first address of the first header that has one.                     *)
extractClientIp(r) ==
    LET headers == lowerHeaders(r)
        first(k) == LET cut == FirstFrom(1, Len(headers[k]), LAMBDA i : headers[k][i] = ",") IN
                    Trim(SubSeq(headers[k], 1, cut - 1))
        named == SelectSeq(<<"x-forwarded-for", "x-real-ip", "x-client-ip", "cf-connecting-ip">>,
                           LAMBDA k : k \in DOMAIN headers /\ first(k) # <<>>)
    IN IF named = <<>> THEN <<"unknown">> ELSE first(named[1])

validateHttpsRequirement(r) ==
    LET headers == lowerHeaders(r) IN
    IF "x-forwarded-proto" \in DOMAIN headers
    THEN headers["x-forwarded-proto"] = <<"https">>
    ELSE /\ "x-forwarded-ssl" \in DOMAIN headers
         /\ headers["x-forwarded-ssl"] = <<"on">>

(* The requests of the last minute among those made at the times given.     *)
Recent(times) == {i \in DOMAIN times : now - times[i] < Minute}

(* Mutant: each request within the limit forgets those before the last.    *)
LastOnly(c) ==
    LET times == Timestamps(rateLimitMap, c)
        recent == Kept(times, Recent(times))
    IN IF Len(recent) >= vconfig.maxRequestsPerMinute THEN [ok |-> FALSE, times |-> recent]
       ELSE [ok |-> TRUE, times |-> <<now>>]

(* A refused request is not recorded; one refused later for its endpoint is. *)
checkRateLimit(c) ==
    LET times == Timestamps(rateLimitMap, c)
        recent == Kept(times, Recent(times))
    IN IF Len(recent) >= vconfig.maxRequestsPerMinute THEN [ok |-> FALSE, times |-> recent]
       ELSE [ok |-> TRUE, times |-> Append(recent, now)]

SecurityIssues(r) ==
    AllErrors({<<vconfig.requireHttps /\ ~validateHttpsRequirement(r), "HTTPS">>,
               <<vconfig.sql /\ checkForSqlInjection(TargetText(r.target) \o r.body), "SQL">>,
               <<vconfig.xss /\ checkForXssAttempts(TargetText(r.target) \o r.body), "XSS">>})

validateBearerToken(token) ==
    FirstError(<< <<token = <<>>, "EMPTY_TOKEN">>,
                  <<~isValidToken(token), "INVALID_TOKEN_FORMAT">> >>)
validateAuthenticationHeader(value) ==
    Checked(FirstError(<< <<value = <<>>, "EMPTY_AUTH_HEADER">>,
                <<SubSeq(value, 1, 2) # <<"Bearer", " ">>, "INVALID_AUTH_FORMAT">> >>),
            {<<TRUE, e>> : e \in validateBearerToken(SubSeq(value, 3, Len(value)))})

Authenticated(r) ==
    LET headers == lowerHeaders(r) IN
    IF "authorization" \in DOMAIN headers
    THEN validateAuthenticationHeader(headers["authorization"]) ELSE {"MISSING_AUTH"}

validateAuthEndpoint(r) ==
    CASE r.target.path = <<"api", "auth", "login">> ->
           AllErrors({<<r.method # "POST", "INVALID_METHOD">>}) \union
           (IF r.body = <<>> THEN {"MISSING_BODY"} ELSE validateLoginRequest(r.body))
      [] r.target.path = <<"api", "auth", "logout">> ->
           AllErrors({<<r.method # "POST", "INVALID_METHOD">>}) \union Authenticated(r)
      [] r.target.path = <<"api", "auth", "profile">> ->
           AllErrors({<<r.method # "GET", "INVALID_METHOD">>}) \union Authenticated(r)
      [] OTHER -> {}

(* What follows the prefix, without the slashes at its end.                *)
JobIdSegments(path) ==
    LET kept == {i \in 3 .. Len(path) : path[i] # ""} IN
    IF kept = {} THEN <<>> ELSE SubSeq(path, 3, Max(kept))

validateJobsEndpoint(r) ==
    LET path == r.target.path id == JobIdSegments(path) IN
    CASE path = <<"api", "jobs">> ->
           IF r.method = "GET" THEN validateJobQueryParams(parseQueryString(r.target.query))
           ELSE IF r.method # "POST" THEN {"INVALID_METHOD"}
           ELSE IF r.body = <<>> THEN {"MISSING_BODY"} ELSE validateJobCreationRequest(r.body)
      [] Len(path) > 2 /\ path[2] = "jobs" ->
           FirstError(<< <<id = <<>>, "INVALID_JOB_ID">>,
                         <<~isValidJobId(id), "INVALID_JOB_ID_FORMAT">> >>) \union
           (IF r.method \in {"PUT", "PATCH"}
            THEN IF r.body = <<>> THEN {"MISSING_BODY"} ELSE validateJobUpdateRequest(r.body)
            ELSE AllErrors({<<r.method \notin {"GET", "DELETE"}, "INVALID_METHOD">>}))
      [] OTHER -> {}

validateLogsEndpoint(r) ==
    LET params == parseQueryString(r.target.query)
        given(k) == k \in DOMAIN params
    IN IF r.method # "GET" THEN {"INVALID_METHOD"}
       ELSE AllErrors(
         {<<given("level") /\ params["level"] \notin {"debug", "info", "warn", "error", "critical"},
            "INVALID_LOG_LEVEL">>,
          <<given("limit") /\ ~Integer(params["limit"]), "INVALID_LIMIT_FORMAT">>,
          <</\ given("limit") /\ Integer(params["limit"])
            /\ number[params["limit"]] \notin 1 .. 10000, "INVALID_LIMIT">>})

validateMonitoringEndpoint(r) ==
    IF r.method # "GET" THEN {"INVALID_METHOD"}
    ELSE validateMonitoringParams(parseQueryString(r.target.query))

validateHealthEndpoint(r) == AllErrors({<<r.method # "GET", "INVALID_METHOD">>})

Api(name) == <<"api", name>>
isHealth(path) == path \in {Api("health"), Api("status")}
                  \/ (Len(path) > 2 /\ SubSeq(path, 1, 2) = Api("health"))

(* The methods of each endpoint that has its own.                          *)
allowedMethodsPerEndpoint(path) ==
    CASE path \in {<<"api", "auth", "login">>, <<"api", "auth", "logout">>} -> {"POST"}
      [] path = Api("jobs") -> {"GET", "POST"}
      [] path \in {<<"api", "auth", "profile">>, Api("logs"), <<"api", "monitor", "jobs">>,
                   <<"api", "monitor", "status">>, <<"api", "monitor", "metrics">>,
                   Api("health"), Api("status")} -> {"GET"}
      [] OTHER -> {}

isKnownEndpoint(path) ==
    \/ allowedMethodsPerEndpoint(path) # {}
    \/ Len(path) > 2 /\ SubSeq(path, 1, 2) = Api("jobs") /\ Size(path) + Len(path) > 10
    \/ Len(path) > 2 /\ SubSeq(path, 1, 2) = Api("health")

isValidMethod(method, path) ==
    method \in IF allowedMethodsPerEndpoint(path) = {} THEN Verb
               ELSE allowedMethodsPerEndpoint(path)

EndpointErrors(r) ==
    CASE StartsWith(r.target, Api("auth")) -> validateAuthEndpoint(r)
      [] StartsWith(r.target, Api("jobs")) -> validateJobsEndpoint(r)
      [] StartsWith(r.target, Api("logs")) -> validateLogsEndpoint(r)
      [] StartsWith(r.target, Api("monitor")) -> validateMonitoringEndpoint(r)
      [] isHealth(r.target.path) -> validateHealthEndpoint(r)
      [] OTHER -> AllErrors({<<~isKnownEndpoint(r.target.path), "UNKNOWN_ENDPOINT">>})

Count(stats, names) == [n \in DOMAIN stats |-> stats[n] + (IF n \in names THEN 1 ELSE 0)]

(* A request of a bad shape ends before its client is looked up.           *)
RefuseShape(r) ==
    /\ validateRequestBasics(r) # {}
    /\ vstats' = Count(vstats, {"total", "invalid"})
    /\ UNCHANGED <<rateLimitMap, admitted>>

CheckRest(r) ==
    /\ validateRequestBasics(r) = {}
    /\ LET c == extractClientIp(r)
           limit == IF vconfig.maxRequestsPerMinute = 0
                    THEN [ok |-> TRUE, times |-> Timestamps(rateLimitMap, c)]
                    ELSE checkRateLimit(c)
           secure == SecurityIssues(r) = {}
           valid == limit.ok /\ secure /\ EndpointErrors(r) = {}
       IN /\ rateLimitMap' = PutTimes(rateLimitMap, c, limit.times)
          /\ admitted' = IF limit.ok /\ vconfig.maxRequestsPerMinute > 0
                         THEN PutTimes(admitted, c, Append(Timestamps(admitted, c), now))
                         ELSE admitted
          /\ vstats' = Count(vstats, {"total", IF valid THEN "valid" ELSE "invalid"}
                          \union (IF secure THEN {} ELSE {"security"})
                          \union (IF limit.ok THEN {} ELSE {"rate"}))

validateRequest(r) ==
    /\ validated < MaxValidated /\ validated' = validated + 1
    /\ RefuseShape(r) \/ CheckRest(r)
    /\ UNCHANGED <<vconfig, now>>

updateValidator(c) ==
    vconfig' = c /\ c # vconfig
    /\ UNCHANGED <<vstats, rateLimitMap, now, admitted, validated>>
resetValidatorStats ==
    vstats' = ZeroStats /\ UNCHANGED <<vconfig, rateLimitMap, now, admitted, validated>>
ValidatorTick ==
    /\ now < MaxNow /\ now' = now + 1
    /\ UNCHANGED <<vconfig, vstats, rateLimitMap, admitted, validated>>

RVNext ==
    \/ \E r \in Validated : validateRequest(r)
    \/ \E c \in ValidatorConfig : updateValidator(c)
    \/ resetValidatorStats \/ ValidatorTick

RVSpec == RVInit /\ [][RVNext]_rvvars

---------------------------------------------------------------------------
(* The checks that are offered one by one.                                 *)
validateEndpoint(method, path) ==
    validatePath(path) \union
    AllErrors({<<~isValidMethod(method, path), "METHOD_NOT_ALLOWED">>,
               <<~isKnownEndpoint(path), "UNKNOWN_ENDPOINT">>})

validateJsonBody(body) == IF body = <<>> THEN {"EMPTY_BODY"} ELSE validateJson(body)

validateBody(body, type) ==
    IF type # <<>> /\ type[1] = "application/json" THEN validateJsonBody(body)
    ELSE AllErrors({<<Size(body) > vconfig.maxRequestSize, "BODY_TOO_LARGE">>,
                    <<vconfig.sql /\ checkForSqlInjection(body), "SQL_INJECTION">>,
                    <<vconfig.xss /\ checkForXssAttempts(body), "XSS_ATTEMPT">>})

validateContentType(type, path) ==
    AllErrors({<</\ path \in {<<"api", "auth", "login">>, Api("jobs")}
                 /\ type # <<>> /\ "application/json" \notin ToSet(type),
                 "INVALID_CONTENT_TYPE">>})

---------------------------------------------------------------------------
(* Whatever the configurations in between, a request passes the limit of    *)
(* its client only when fewer than the limit of now have passed it within   *)
(* the last minute.                                                        *)
WithinMinute ==
    [][\A c \in DOMAIN admitted' :
          Timestamps(admitted, c) # admitted'[c] =>
             Cardinality(Recent(Timestamps(admitted, c))) < vconfig.maxRequestsPerMinute]_rvvars
=============================================================================
