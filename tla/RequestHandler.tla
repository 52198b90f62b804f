--------------------------- MODULE RequestHandler ---------------------------
(***************************************************************************)
(* The handling of requests by worker threads: the checks that come first,  *)
(* the routing, the handlers of each group of endpoints over the rows of    *)
(* the job manager (jobs_, in the order they were added), and the answer.   *)
(* A handler gives an answer or throws; what it throws becomes an answer.   *)
(* A health request reads the jobs four times, under a lock of its own each *)
(* time, while the jobs go on: the thread that runs them changes a status   *)
(* without the lock, also while cancelJob holds it. The limiter, the users  *)
(* and the state of the other components are inputs: what they answer is a  *)
(* choice.                                                                 *)
(***************************************************************************)
EXTENDS InputValidator, ErrorCodes

CONSTANTS
    Worker,             \* threads that serve requests
    Arriving,           \* the requests that arrive
    jwt,                \* ETL_ENABLE_JWT
    canonical,          \* the name Beast gives a known header
    validTokens,        \* tokens validateJWTToken accepts
    trustProxy, numTrustedHops,
    newId,              \* the id of a job made in each second
    withoutFirst,       \* a segment without its first character
    StoredRow,          \* rows only the database has
    StartJobs,          \* the rows in memory at the start
    MaxRows, MaxServed, MaxSeconds  \* bounds: rows, requests, the clock

RowStatus == {"PENDING", "RUNNING", "COMPLETED", "FAILED", "CANCELLED"}
RowType == {"extract", "transform", "load", "full_etl"}
JobRow == [id : STRING, status : RowStatus, type : RowType, createdAt : Int]

ASSUME HandlerAssumption ==
    /\ {jwt, trustProxy} \subseteq BOOLEAN /\ {MaxRows, MaxServed, MaxSeconds} \subseteq Nat
    /\ numTrustedHops \in Nat
    /\ newId \in [0 .. MaxSeconds -> STRING]
    /\ StartJobs \in Seq(JobRow) /\ StoredRow \subseteq JobRow /\ IsFiniteSet(StoredRow)

VARIABLES
    jobRows,     \* jobs_: sequence of id, status, type and createdAt
    seconds,     \* the clock that names new jobs
    serving,     \* of each worker: what it is doing, its request and what it has read
    answers,     \* of each worker: its last answer
    served,
    inHand,      \* the job that runs: its row, what comes next, the status last set
    cancelling   \* the row cancelJob has found PENDING, holding jobMutex_, or 0

jobsGoOn == <<inHand, cancelling>>
rhvars == <<jobRows, seconds, serving, answers, served, jobsGoOn>>

Idle == [at |-> "idle"]
NoJob == [at |-> "none", row |-> 0, status |-> "PENDING"]
None == Response(0, <<>>)

RHInit ==
    /\ jobRows = StartJobs /\ seconds = 0
    /\ serving = [w \in Worker |-> Idle] /\ answers = [w \in Worker |-> None] /\ served = 0
    /\ inHand = NoJob /\ cancelling = 0

---------------------------------------------------------------------------
(* The headers of the request that is handled: each name as Beast writes it *)
(* back, of two with one name the later.                                   *)
CopiedName(name) == IF name \in DOMAIN canonical THEN canonical[name] ELSE name
extractHeaders(r) ==
    LET at(k) == {i \in DOMAIN r.headers : CopiedName(r.headers[i][1]) = k} IN
    [k \in {CopiedName(h[1]) : h \in ToSet(r.headers)} |-> r.headers[Max(at(k))][2]]

HasBearer(value) == Len(value) > 1 /\ value[1] = "Bearer" /\ value[2] = " "
validateJWTToken(r) ==
    LET headers == extractHeaders(r) IN
    /\ "authorization" \in DOMAIN headers /\ HasBearer(headers["authorization"])
    /\ SubSeq(headers["authorization"], 3, Len(headers["authorization"])) \in validTokens

isProtectedEndpoint(target) ==
    \E path \in {<<"api", "etl", "jobs">>, <<"api", "logs">>, <<"api", "monitor">>,
                 <<"api", "auth", "profile">>, <<"api", "auth", "logout">>} :
        StartsWith(target, path)

getClientId(r) ==
    LET headers == extractHeaders(r)
        listed == headers["x-forwarded-for"]
        hops == SelectSeq(listed, LAMBDA s : s # "," /\ s \notin Blank)
        n == Len(hops)
        fallback == IF "x-real-ip" \in DOMAIN headers THEN headers["x-real-ip"]
                    ELSE <<"default_client">>
    IN CASE "x-forwarded-for" \notin DOMAIN headers -> fallback
         [] ~(trustProxy /\ numTrustedHops > 0) /\ "x-forwarded-for" \in DOMAIN headers ->
              SubSeq(listed, 1, FirstFrom(1, Len(listed), LAMBDA i : listed[i] = ",") - 1)
         [] OTHER -> IF n > numTrustedHops THEN <<hops[n - numTrustedHops]>>
                     ELSE IF n > 0 THEN <<hops[n]>> ELSE fallback

validateBasics(r) ==
    LET headers == extractHeaders(r) IN
    validateEndpointPath(r.target)
    \union (IF r.target.asked THEN validateQueryParameters(r.target.query) ELSE {})
    \union validateRequestHeaders(headers)
    \union AllErrors(
        {<<~isValidHttpMethod(r.method, {"GET", "POST", "PUT", "DELETE", "OPTIONS", "PATCH"}),
           "METHOD_NOT_ALLOWED">>,
         <<~isValidRequestSize(Size(r.body)), "BODY_TOO_LARGE">>,
         <</\ r.method \in {"POST", "PUT", "PATCH"} /\ "content-type" \in DOMAIN headers
           /\ ~isValidContentType(headers["content-type"]), "INVALID_CONTENT_TYPE">>})

---------------------------------------------------------------------------
(* Answers. Those of exceptions of the program's own come from the registry *)
(* of handlers, those of others from the mapper.                           *)
createSuccessResponse(body) == Response(200, body)
Preflight == [status |-> 200, type |-> "", body |-> <<>>]
Refuse(code, given) == HanaHandle(ValidationException(code, given))
Invalid == Refuse("INVALID_INPUT", {"field", "value"})
Broken(code) == HanaHandle(SystemException(code))
StandardError == mapToResponse(FromStandard, <<>>, <<>>)
Words(names) == Object([i \in DOMAIN names |-> Member(names[i], Text("text"))])

Is(r, method, path) == r.method = method /\ r.target.path = path /\ ~r.target.asked

(* The handlers: the answers each may give.                                *)
Login(r) ==
    IF ~jwt THEN {Refuse("UNAUTHORIZED", {})}
    ELSE IF validateLoginRequest(r.body) # {} THEN {Invalid}
    ELSE {Invalid, Refuse("UNAUTHORIZED", {}), Refuse("INTERNAL_ERROR", {}),
          createSuccessResponse(Words(<<"token", "user_id", "username", "expires_in",
                                        "token_type">>))}
Logout(r) ==
    IF r.body # <<>> /\ validateLogoutRequest(r.body) # {} THEN {Invalid}
    ELSE {createSuccessResponse(Words(<<"message">>))}
Profile(r) ==
    {Refuse("UNAUTHORIZED", {})} \union
    (IF jwt /\ validateJWTToken(r)
     THEN {createSuccessResponse(Words(<<"user_id", "username", "email", "roles", "is_active",
                                         "created_at">>))} ELSE {})

handleAuth(r) ==
    CASE r.method = "OPTIONS" -> {Preflight}
      [] Is(r, "POST", <<"api", "auth", "login">>) -> Login(r)
      [] Is(r, "POST", <<"api", "auth", "logout">>) -> Logout(r)
      [] Is(r, "GET", <<"api", "auth", "profile">>) -> Profile(r)
      [] OTHER -> {Invalid}

handleLogs(r) ==
    CASE r.method = "OPTIONS" -> {Preflight}
      [] r.method = "GET" /\ (Is(r, "GET", <<"api", "logs">>) \/
            (Len(r.target.path) > 2 /\ SubSeq(r.target.path, 1, 2) = <<"api", "logs">>)) ->
           {createSuccessResponse(Words(<<"logs", "total", "message">>))}
      [] Is(r, "POST", <<"api", "logs", "search">>) ->
           {createSuccessResponse(Words(<<"results", "total", "message">>))}
      [] OTHER -> {Invalid}

FirstRow(id) == {i \in DOMAIN jobRows : /\ jobRows[i].id = id
                                        /\ \A j \in 1 .. i - 1 : jobRows[j].id # id}
MutexFree == cancelling = 0

(* The row getJob finds; one of the database is kept from then on. A lock   *)
(* that is not had in time counts as not found.                            *)
getJob(id) ==
    {[row |-> {}, rows |-> jobRows]} \union
    {[row |-> {jobRows[i]}, rows |-> jobRows] : i \in {k \in FirstRow(id) : MutexFree}} \union
    (IF FirstRow(id) # {} \/ ~MutexFree THEN {}
     ELSE {[row |-> {s}, rows |-> Append(jobRows, s)] : s \in {t \in StoredRow : t.id = id}})

Outcome(answer, rows) == [answer |-> answer, rows |-> rows]
Unchanged(set) == {Outcome(a, jobRows) : a \in set}

(* The id is what lies between "/api/jobs/" and the word at the end.       *)
extractJobIdFromPath(target) ==
    IF Len(target.path) = 4 THEN <<target.path[3]>> ELSE <<>>

JobStatus(r) ==
    LET id == extractJobIdFromPath(r.target) IN
    IF ~isValidJobId(id) THEN Unchanged({Invalid})
    ELSE {Outcome(IF j.row = {} THEN HanaHandle(BusinessException("JOB_NOT_FOUND", {"jobId"}))
                  ELSE createSuccessResponse(Words(<<"jobId", "type", "status", "createdAt",
                         "startedAt", "completedAt", "executionTimeMs">>)), j.rows)
            : j \in getJob(id[1])}
JobMetrics(r) ==
    LET id == extractJobIdFromPath(r.target) IN
    IF ~isValidJobId(id) THEN Unchanged({Invalid})
    ELSE {Outcome(IF j.row = {} THEN HanaHandle(BusinessException("JOB_NOT_FOUND", {"jobId"}))
                  ELSE createSuccessResponse(Words(<<"jobId", "recordsProcessed",
                         "processingRate", "successRate", "executionTimeMs", "status">>)), j.rows)
            : j \in getJob(id[1])}

(* With no rows in memory those of the database are taken in.              *)
getAllJobs ==
    IF ~MutexFree THEN {}
    ELSE IF jobRows # <<>> THEN {jobRows} ELSE {SetToSeq(s) : s \in SUBSET StoredRow}
Listed(rows) == <<"{">> \o Text("jobs") \o <<":", "[">>
    \o Joined([i \in DOMAIN rows |-> Object(<<Member("id", Text(rows[i].id)),
                                             Member("status", Text(rows[i].status))>>)])
    \o <<"]", "}">>
ListJobs(r) ==
    IF validateJobQueryParams(parseQueryString(r.target.query)) # {} THEN Unchanged({Invalid})
    ELSE Unchanged({StandardError}) \union
         {Outcome(createSuccessResponse(Listed(rows)), rows) : rows \in getAllJobs}

(* Two braces at each end. An id is the second the job was made in.        *)
Doubled(id, status) ==
    <<"{">> \o Object(<<Member("job_id", Text(id)), Member("status", Text(status))>>) \o <<"}">>
CreateJob(r) ==
    IF validateJobCreationRequest(r.body) # {} THEN Unchanged({Invalid})
    ELSE LET row == [id |-> newId[seconds], status |-> "PENDING", type |-> "full_etl",
                     createdAt |-> seconds]
         IN Unchanged({StandardError, Broken("PROCESSING_FAILED")}) \union
            {o \in {Outcome(createSuccessResponse(Doubled(row.id, "scheduled")),
                            Append(jobRows, row))} : MutexFree /\ Len(jobRows) < MaxRows}

(* Eleven characters are taken off, one more than the prefix has.          *)
UpdateJob(r) ==
    LET rest == IF Len(r.target.path) = 3 THEN withoutFirst[r.target.path[3]] ELSE <<>> IN
    CASE r.target.path = <<"api", "jobs", "">> -> Unchanged({StandardError})
      [] OTHER ->
           IF ~isValidJobId(rest) \/ validateJobUpdateRequest(r.body) # {}
           THEN Unchanged({Invalid})
           ELSE Unchanged({createSuccessResponse(Doubled(rest[1], "updated"))})

UnderJobs(target) ==
    Len(target.path) > 2 /\ SubSeq(target.path, 1, 2) = <<"api", "jobs">>

handleETLJobs(r) ==
    CASE r.method = "OPTIONS" -> Unchanged({Preflight})
      [] r.method = "GET" /\ UnderJobs(r.target) /\ Last(r.target.path) = "status" -> JobStatus(r)
      [] r.method = "GET" /\ UnderJobs(r.target) /\ Last(r.target.path) = "metrics" -> JobMetrics(r)
      [] Is(r, "GET", <<"api", "jobs">>) -> ListJobs(r)
      [] Is(r, "POST", <<"api", "jobs">>) -> CreateJob(r)
      [] r.method = "PUT" /\ UnderJobs(r.target) -> UpdateJob(r)
      [] OTHER -> Unchanged({Invalid})

(* The filters on the rows, one after another.                             *)
stringToJobStatus(s) ==
    CASE s = "running" -> "RUNNING" [] s = "completed" -> "COMPLETED" [] s = "failed" -> "FAILED"
      [] s = "cancelled" -> "CANCELLED" [] OTHER -> "PENDING"
Filtered(rows, params) ==
    LET given(k) == k \in DOMAIN params
        kept == SelectSeq(rows, LAMBDA row :
                   /\ given("status") => row.status = stringToJobStatus(params["status"])
                   /\ given("type") => row.type = params["type"]
                   /\ given("from") => row.createdAt >= moment[params["from"]]
                   /\ given("to") => row.createdAt <= moment[params["to"]])
    IN IF given("limit") /\ Len(kept) > number[params["limit"]]
       THEN SubSeq(kept, 1, number[params["limit"]]) ELSE kept

MonitorJobs(params) ==
    IF validateMonitoringParams(params) # {} THEN Unchanged({Invalid})
    ELSE Unchanged({StandardError}) \union
         {Outcome(createSuccessResponse(Listed(Filtered(rows, params))), rows) : rows \in getAllJobs}
MonitorStatus ==
    Unchanged({createSuccessResponse(Words(<<"server_status", "db_connected",
                                             "etl_manager_running">>))})
MonitorMetrics(params) ==
    Unchanged({IF validateMetricsParams(params) # {} THEN Invalid
               ELSE createSuccessResponse(Words(<<"total_jobs", "running_jobs",
                                                  "completed_jobs", "failed_jobs">>))})

handleMonitoring(r) ==
    LET params == parseQueryString(r.target.query) IN
    CASE r.method = "OPTIONS" -> Unchanged({Preflight})
      [] r.method = "GET" /\ StartsWith(r.target, <<"api", "monitor", "jobs">>) ->
           MonitorJobs(params)
      [] Is(r, "GET", <<"api", "monitor", "status">>) -> MonitorStatus
      [] Is(r, "GET", <<"api", "monitor", "metrics">>) -> MonitorMetrics(params)
      [] OTHER -> Unchanged({Invalid})

---------------------------------------------------------------------------
(* Health: what is reported of the database, its pool and the WebSockets,   *)
(* each up or not, and of the jobs read.                                   *)
Up(h) == h.db /\ h.pool /\ h.ws
Report(status, parts) ==
    createSuccessResponse(Object(<<Member("status", Text(status)), Member("timestamp", Text("now"))>>
        \o [i \in DOMAIN parts |-> Member(parts[i], Text("text"))]))

BasicHealth(h) == Report(IF Up(h) THEN "healthy" ELSE "degraded", <<>>)
StatusHealth(h) == Report("healthy", <<"version", "uptime", "components">>)
ReadyHealth(h) == Report(IF Up(h) THEN "ready" ELSE "not_ready", <<"database", "websocket">>)
LiveHealth(h) == Report("alive", <<"pid", "memory">>)
MetricsHealth(h) == Report("healthy", <<"metrics">>)
DatabaseHealth(h) == Report(IF h.db THEN "healthy" ELSE "unhealthy", <<"database">>)
WebSocketHealth(h) == Report(IF h.ws THEN "healthy" ELSE "unhealthy", <<"websocket">>)
MemoryHealth(h) == Report("healthy", <<"memory">>)
SystemHealth(h) == Report("healthy", <<"system">>)
JobsHealth(h) == Report("healthy", <<"jobs">>)
ParameterHealth(h, params) ==
    IF "format" \in DOMAIN params /\ params["format"] \notin {"json", "text"} THEN Invalid
    ELSE Report(IF Up(h) THEN "healthy" ELSE "degraded",
                IF "detailed" \in DOMAIN params /\ params["detailed"] = "true"
                THEN <<"detailed">> ELSE <<>>)

handleHealth(r, h) ==
    LET path == r.target.path
        part == IF r.target.asked THEN "" ELSE Last(path)
    IN CASE r.target.asked /\ path = <<"api", "health">> ->
              ParameterHealth(h, parseQueryString(r.target.query))
         [] ~r.target.asked /\ Len(path) = 2 -> BasicHealth(h)
         [] Len(path) = 3 /\ part = "status" -> StatusHealth(h)
         [] Len(path) = 3 /\ part = "ready" -> ReadyHealth(h)
         [] Len(path) = 3 /\ part = "live" -> LiveHealth(h)
         [] Len(path) = 3 /\ part = "metrics" -> MetricsHealth(h)
         [] Len(path) = 3 /\ part = "database" -> DatabaseHealth(h)
         [] Len(path) = 3 /\ part = "websocket" -> WebSocketHealth(h)
         [] Len(path) = 3 /\ part = "memory" -> MemoryHealth(h)
         [] Len(path) = 3 /\ part = "system" -> SystemHealth(h)
         [] Len(path) = 3 /\ part = "jobs" -> JobsHealth(h)
         [] OTHER -> Broken("NETWORK_ERROR")

---------------------------------------------------------------------------
IsHealth(target) ==
    \/ target.path \in {<<"api", "health">>, <<"api", "status">>} /\ ~target.asked
    \/ Len(target.path) > 2 /\ SubSeq(target.path, 1, 2) = <<"api", "health">>

Route(r) ==
    CASE StartsWith(r.target, <<"api", "auth">>) -> Unchanged(handleAuth(r))
      [] StartsWith(r.target, <<"api", "logs">>) -> Unchanged(handleLogs(r))
      [] StartsWith(r.target, <<"api", "jobs">>) -> handleETLJobs(r)
      [] StartsWith(r.target, <<"api", "monitor">>) -> handleMonitoring(r)
      [] OTHER -> Unchanged({Broken("NETWORK_ERROR")})

Receive(w, r) ==
    /\ serving[w].at = "idle" /\ served < MaxServed
    /\ serving' = [serving EXCEPT ![w] = [at |-> "received", request |-> r]]
    /\ served' = served + 1
    /\ UNCHANGED <<jobRows, seconds, answers, jobsGoOn>>

Answer(w, answer) ==
    /\ serving' = [serving EXCEPT ![w] = [at |-> "answered", request |-> serving[w].request]]
    /\ answers' = [answers EXCEPT ![w] = answer]

(* allowed is the answer of the limiter.                                   *)
Refused(r, allowed) ==
    CASE validateBasics(r) # {} -> {Refuse("INVALID_INPUT", {})}
      [] validateBasics(r) = {} /\ ~allowed -> {Refuse("RATE_LIMIT_EXCEEDED", {})}
      [] OTHER -> IF jwt /\ isProtectedEndpoint(r.target) /\ ~validateJWTToken(r)
                  THEN {Refuse("UNAUTHORIZED", {})} ELSE {}

(* A worker that reads the jobs: the statuses read, the jobs it has seen,   *)
(* and those that had started when it began and no cancel has hit since.   *)
Reading(r, step, seen, begun) ==
    [at |-> "health", request |-> r, step |-> step, seen |-> seen, begun |-> begun]

validateAndHandleRequest(w) ==
    LET r == serving[w].request IN
    /\ serving[w].at = "received"
    /\ \E allowed \in BOOLEAN :
          LET refused == Refused(r, allowed) IN
          \/ \E a \in refused : Answer(w, a) /\ UNCHANGED jobRows
          \/ /\ refused = {} /\ ~IsHealth(r.target)
             /\ \E o \in Route(r) : Answer(w, o.answer) /\ jobRows' = o.rows
          \/ /\ refused = {} /\ IsHealth(r.target)
             /\ serving' = [serving EXCEPT ![w] = Reading(r, 0, {},
                   {jobRows[i].id : i \in {j \in DOMAIN jobRows :
                       jobRows[j].status \in {"RUNNING", "COMPLETED", "FAILED"}}})]
             /\ UNCHANGED <<answers, jobRows>>
    /\ UNCHANGED <<seconds, served, jobsGoOn>>

(* Mutant: those that have ended are read first.                           *)
EndedFirst == <<"COMPLETED", "FAILED", "RUNNING">>

ReadOrder == <<"RUNNING", "COMPLETED", "FAILED">>

(* The rows of one status, or those of the database if memory has none.    *)
getJobsByStatus(status) ==
    LET found == {jobRows[i].id : i \in {j \in DOMAIN jobRows : jobRows[j].status = status}} IN
    IF ~MutexFree THEN {} ELSE IF found # {} THEN {found} ELSE SUBSET {s.id : s \in StoredRow}

ReadAll(w) ==
    /\ serving[w].at = "health" /\ serving[w].step = 0
    /\ \E rows \in getAllJobs : jobRows' = rows
    /\ serving' = [serving EXCEPT ![w].step = 1]
    /\ UNCHANGED <<seconds, answers, served, jobsGoOn>>
ReadStatus(w) ==
    /\ serving[w].at = "health" /\ serving[w].step \in DOMAIN ReadOrder
    /\ \E found \in getJobsByStatus(ReadOrder[serving[w].step]) :
          serving' = [serving EXCEPT ![w] = Reading(@.request, @.step + 1, @.seen \union found, @.begun)]
    /\ UNCHANGED <<jobRows, seconds, answers, served, jobsGoOn>>
(* A lock that is not had in time ends the reading; the rest stays zero.    *)
ReadFails(w) ==
    /\ serving[w].at = "health" /\ serving[w].step < 4
    /\ serving' = [serving EXCEPT ![w].step = 5]
    /\ UNCHANGED <<jobRows, seconds, answers, served, jobsGoOn>>
AnswerHealth(w) ==
    /\ serving[w].at = "health" /\ serving[w].step > 3
    /\ \E up \in [{"db", "pool", "ws"} -> BOOLEAN] :
          Answer(w, handleHealth(serving[w].request, up))
    /\ UNCHANGED <<jobRows, seconds, served, jobsGoOn>>

Respond(w) ==
    /\ serving[w].at = "answered" /\ serving' = [serving EXCEPT ![w] = Idle]
    /\ answers' = [answers EXCEPT ![w] = None]
    /\ UNCHANGED <<jobRows, seconds, served, jobsGoOn>>

---------------------------------------------------------------------------
(* The jobs go on. One thread runs them: it looks whether the row is        *)
(* PENDING, then sets RUNNING, then an end, whatever was set meanwhile, and  *)
(* each time publishJobStatusUpdate sets the same status once more, in the  *)
(* first row that has the id, or there is no monitor. Their queue is left   *)
(* out: any PENDING row may come next.                                     *)
SetStatus(rows, status) ==
    jobRows' = [j \in DOMAIN jobRows |->
                   IF j \in rows THEN [jobRows[j] EXCEPT !.status = status] ELSE jobRows[j]]

JobTaken(i) ==
    /\ inHand.at = "none" /\ jobRows[i].status = "PENDING"
    /\ inHand' = [at |-> "taken", row |-> i, status |-> "PENDING"]
    /\ UNCHANGED <<jobRows, seconds, serving, answers, served, cancelling>>

Sets(status, at) ==
    /\ SetStatus({inHand.row}, status)
    /\ inHand' = [at |-> at, row |-> inHand.row, status |-> status]
    /\ UNCHANGED <<seconds, serving, answers, served, cancelling>>
JobStarts == inHand.at = "taken" /\ Sets("RUNNING", "started")
JobEnds == inHand.at = "running" /\ \E s \in {"COMPLETED", "FAILED"} : Sets(s, "ended")

publishJobStatusUpdate ==
    /\ inHand.at \in {"started", "ended"}
    /\ \/ SetStatus(FirstRow(jobRows[inHand.row].id), inHand.status)
       \/ UNCHANGED jobRows
    /\ inHand' = IF inHand.at = "started" THEN [inHand EXCEPT !.at = "running"] ELSE NoJob
    /\ UNCHANGED <<seconds, serving, answers, served, cancelling>>

(* cancelJob tests the first PENDING row of its id and then sets CANCELLED, *)
(* over RUNNING or an end if the job has gone on in between.               *)
CancelFinds(i) ==
    /\ MutexFree /\ jobRows[i].status = "PENDING"
    /\ \A j \in 1 .. i - 1 : jobRows[j].id = jobRows[i].id => jobRows[j].status # "PENDING"
    /\ cancelling' = i
    /\ UNCHANGED <<jobRows, seconds, serving, answers, served, inHand>>

Forgotten(h, id) == IF h.at = "health" THEN [h EXCEPT !.begun = @ \ {id}] ELSE h
CancelWrites ==
    /\ ~MutexFree
    /\ SetStatus({cancelling}, "CANCELLED")
    /\ cancelling' = 0
    /\ serving' = [w \in Worker |-> Forgotten(serving[w], jobRows[cancelling].id)]
    /\ UNCHANGED <<seconds, answers, served, inHand>>

Second ==
    /\ seconds < MaxSeconds /\ seconds' = seconds + 1
    /\ UNCHANGED <<jobRows, serving, answers, served, jobsGoOn>>

RHNext ==
    \/ \E w \in Worker : \/ \E r \in Arriving : Receive(w, r)
                         \/ validateAndHandleRequest(w) \/ ReadAll(w) \/ ReadStatus(w)
                         \/ ReadFails(w) \/ AnswerHealth(w) \/ Respond(w)
    \/ \E i \in DOMAIN jobRows : JobTaken(i) \/ CancelFinds(i)
    \/ JobStarts \/ JobEnds \/ publishJobStatusUpdate \/ CancelWrites
    \/ Second

RHSpec == RHInit /\ [][RHNext]_rhvars

---------------------------------------------------------------------------
OnlyRow(id) == Cardinality({i \in DOMAIN jobRows : jobRows[i].id = id}) = 1

(* A job that had started when a health request began, that no cancel has   *)
(* hit since, and whose id no other row has, is counted in the answer as    *)
(* running, completed or failed, unless a read failed: no job is missed for *)
(* moving on between two reads. (cancelJob may set CANCELLED over RUNNING;  *)
(* such a job is in none of the counts.)                                   *)
NoJobMissed ==
    \A w \in Worker : serving[w].at = "health" /\ serving[w].step = 4 =>
        \A id \in serving[w].begun : OnlyRow(id) => id \in serving[w].seen

(* The documented requests with a query are answered.                      *)
QueryAnswered ==
    \A w \in Worker :
        /\ serving[w].at = "answered" /\ serving[w].request.target.asked
        /\ serving[w].request.target.path = <<"api", "monitor", "jobs">>
        /\ validateMonitoringParams(parseQueryString(serving[w].request.target.query)) = {}
        => answers[w].status # 400

(* A request with a valid token in an Authorization header is not refused   *)
(* for want of one.                                                        *)
BearerAccepted ==
    \A w \in Worker :
        /\ serving[w].at = "answered" /\ serving[w].request.target.path = <<"api", "logs">>
        /\ \E h \in ToSet(serving[w].request.headers) :
              /\ Lower(h[1]) = "authorization" /\ HasBearer(h[2])
              /\ SubSeq(h[2], 3, Len(h[2])) \in validTokens
        => answers[w] # Refuse("UNAUTHORIZED", {})
=============================================================================
