-------------------------- MODULE ResponseBuilder ---------------------------
(***************************************************************************)
(* The fluent builder of responses: what the setters leave in it goes into  *)
(* the next response, whichever method builds it, and is then reset.       *)
(***************************************************************************)
EXTENDS Naturals, Functions, FiniteSets

CONSTANTS
    HeaderSet,     \* headers setHeader may set: pairs of a name and a value
    BadName,       \* header names that are refused
    MimeType,      \* types setContentType may be given, with the type each stands for
    RequestId,     \* request ids
    MaxSent        \* bound: responses built

VARIABLES
    bconfig,    \* config_: the default type, and whether the parts are included
    current,    \* currentStatus_, currentContentType_, currentHeaders_, ...
    stats,      \* stats_
    sent,       \* the last response
    given       \* history: the names of the headers set since the last response

bvars == <<bconfig, current, stats, sent, given>>

NoHeaders == [n \in {} |-> ""]
Status == {200, 204, 302, 400, 401, 403, 404, 405, 409, 429, 500, 503}

Fresh(type) ==
    [status |-> 200, type |-> type, headers |-> NoHeaders, keepAlive |-> FALSE, requestId |-> ""]
NoStats == [total |-> 0, success |-> 0, errors |-> 0, counts |-> [s \in Status |-> 0]]

BInit ==
    /\ bconfig = [type |-> "json", cors |-> TRUE, exposes |-> FALSE, credentials |-> FALSE,
                  timestamp |-> TRUE, requestId |-> TRUE]
    /\ current = Fresh("json") /\ stats = NoStats
    /\ sent = [status |-> 0, headers |-> NoHeaders] /\ given = {}

With(headers, name, value) ==
    [n \in DOMAIN headers \union {name} |-> IF n = name THEN value ELSE headers[n]]

setHeader(name, value) ==
    /\ current' = IF name \in BadName THEN current
                  ELSE [current EXCEPT !.headers = With(@, name, value)]
    /\ given' = given \union {name}
    /\ UNCHANGED <<bconfig, stats, sent>>

(* A type given by its name is also a header, and stays when a method sets  *)
(* the type of its body.                                                   *)
setContentType(mime) ==
    /\ current' = [current EXCEPT !.type = MimeType[mime],
                                  !.headers = With(@, "content-type", mime)]
    /\ given' = given \union {"content-type"}
    /\ UNCHANGED <<bconfig, stats, sent>>

setRequestId(id) ==
    /\ current' = [current EXCEPT !.requestId = id, !.keepAlive = TRUE]
    /\ UNCHANGED <<bconfig, stats, sent, given>>

contentTypeToString(type) ==
    CASE type = "json" -> "application/json"
      [] type = "xml" -> "application/xml"
      [] type = "html" -> "text/html; charset=utf-8"
      [] type = "text" -> "text/plain; charset=utf-8"
      [] OTHER -> "application/octet-stream"

applyDefaultHeaders(c) ==
    [n \in {"server", "content-type"}
           \union (IF bconfig.requestId /\ c.requestId # "" THEN {"x-request-id"} ELSE {})
           \union (IF bconfig.timestamp THEN {"x-timestamp"} ELSE {}) |->
        CASE n = "content-type" -> contentTypeToString(c.type)
          [] n = "x-request-id" -> c.requestId
          [] OTHER -> n]

applyCorsHeaders ==
    [n \in (IF bconfig.cors
            THEN {"access-control-allow-origin", "access-control-allow-methods",
                  "access-control-allow-headers", "access-control-max-age"} ELSE {})
           \union (IF bconfig.cors /\ bconfig.exposes
                   THEN {"access-control-expose-headers"} ELSE {})
           \union (IF bconfig.cors /\ bconfig.credentials
                   THEN {"access-control-allow-credentials"} ELSE {}) |-> n]

applySecurityHeaders(c) ==
    [n \in {"x-content-type-options", "x-frame-options", "x-xss-protection", "referrer-policy"}
           \union (IF c.type = "html" THEN {"content-security-policy"} ELSE {}) |-> n]

(* Later headers replace earlier ones of the same name.                    *)
Over(f, g) == [n \in DOMAIN f \union DOMAIN g |-> IF n \in DOMAIN g THEN g[n] ELSE f[n]]

updateStats(s) ==
    stats' = [stats EXCEPT !.total = @ + 1, !.counts[s] = @ + 1,
                           !.success = IF s \in 200 .. 299 THEN @ + 1 ELSE @,
                           !.errors = IF s \in 200 .. 299 THEN @ ELSE @ + 1]

(* Mutant: the headers stay.                                               *)
KeepHeaders == [Fresh(bconfig.type) EXCEPT !.headers = current.headers]

resetState == Fresh(bconfig.type)

(* What every method ends with, given the state it leaves in the builder.  *)
buildResponse(c) ==
    /\ stats.total < MaxSent
    /\ sent' = [status |-> c.status,
                headers |-> Over(Over(Over(applyDefaultHeaders(c), c.headers),
                                      applyCorsHeaders), applySecurityHeaders(c))]
    /\ updateStats(c.status)
    /\ current' = resetState /\ given' = {}
    /\ UNCHANGED bconfig

success(type) == buildResponse([current EXCEPT !.status = 200, !.type = type])

error(status, extra) ==
    buildResponse([current EXCEPT !.status = status, !.type = "json",
                                  !.headers = Over(@, extra)])

(* A reply of its own to each error, with the header it adds.              *)
Errors ==
    {<<400, NoHeaders>>, <<401, NoHeaders>>, <<403, NoHeaders>>, <<404, NoHeaders>>,
     <<405, [allow |-> "GET, POST, PUT, OPTIONS"]>>, <<409, NoHeaders>>,
     <<429, [n \in {"retry-after"} |-> "60"]>>, <<500, NoHeaders>>,
     <<503, [n \in {"retry-after"} |-> "300"]>>,
     <<401, [n \in {"www-authenticate"} |-> "Bearer"]>>}

fromException(code) ==
    LET status ==
        CASE code \in {"INVALID_INPUT", "MISSING_FIELD", "INVALID_RANGE"} -> 400
          [] code \in {"UNAUTHORIZED", "TOKEN_EXPIRED"} -> 401
          [] code \in {"FORBIDDEN", "ACCESS_DENIED"} -> 403
          [] code = "JOB_NOT_FOUND" -> 404
          [] code \in {"CONSTRAINT_VIOLATION", "JOB_ALREADY_RUNNING", "INVALID_JOB_STATE"} -> 409
          [] code = "RATE_LIMIT_EXCEEDED" -> 429
          [] code \in {"COMPONENT_UNAVAILABLE", "MEMORY_ERROR", "THREAD_POOL_EXHAUSTED"} -> 503
          [] OTHER -> 500
    IN error(status, NoHeaders)

healthCheck(healthy) ==
    buildResponse([current EXCEPT !.status = IF healthy THEN 200 ELSE 503, !.type = "json"])
corsPreflightResponse == buildResponse([current EXCEPT !.status = 204, !.type = "text"])
redirect == buildResponse([current EXCEPT !.status = 302, !.headers = With(@, "location", "url")])
Cached(extra) ==
    buildResponse([current EXCEPT !.status = 200, !.headers = Over(@, extra)])
cached == Cached([n \in {"cache-control", "expires"} |-> "public"])
noCache == Cached([n \in {"cache-control", "expires", "pragma"} |-> "no-cache"])

(* The type of the next response stays that of the configuration before.   *)
updateConfig(type, flag) ==
    /\ bconfig' = [type |-> type, cors |-> flag, exposes |-> flag, credentials |-> flag,
                   timestamp |-> flag, requestId |-> flag]
    /\ UNCHANGED <<current, stats, sent, given>>

resetStats == stats' = NoStats /\ UNCHANGED <<bconfig, current, sent, given>>

BNext ==
    \/ \E h \in HeaderSet : setHeader(h[1], h[2])
    \/ \E t \in DOMAIN MimeType : setContentType(t)
    \/ \E id \in RequestId : setRequestId(id)
    \/ \E t \in {"json", "html", "binary"} : success(t)
    \/ \E e \in Errors : error(e[1], e[2])
    \/ \E code \in {"INVALID_INPUT", "JOB_NOT_FOUND", "DISK_FULL"} : fromException(code)
    \/ \E h \in BOOLEAN : healthCheck(h)
    \/ corsPreflightResponse \/ redirect \/ cached \/ noCache
    \/ \E c \in {<<"json", TRUE>>, <<"text", FALSE>>} : updateConfig(c[1], c[2])
    \/ resetStats

BSpec == BInit /\ [][BNext]_bvars

(* The headers the builder and its methods add by themselves.              *)
OwnHeader ==
    {"server", "content-type", "x-timestamp", "x-request-id", "access-control-allow-origin",
     "access-control-allow-methods", "access-control-allow-headers", "access-control-expose-headers",
     "access-control-max-age", "access-control-allow-credentials",
     "x-content-type-options", "x-frame-options", "x-xss-protection", "referrer-policy",
     "content-security-policy", "allow", "retry-after", "www-authenticate", "location",
     "cache-control", "expires", "pragma"}

(* Whatever was set for a response goes out with it and with no later one:  *)
(* apart from those the builder adds, its headers are those set with a      *)
(* valid name since the response before, and the counts of the statuses     *)
(* stay those of the successes and the errors.                             *)
OnlyItsOwn ==
    [][stats'.total > stats.total =>
          /\ DOMAIN sent'.headers \ OwnHeader = given \ (BadName \union OwnHeader)
          /\ stats'.success + stats'.errors = stats'.total]_bvars
=============================================================================
