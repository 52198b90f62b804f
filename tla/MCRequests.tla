----------------------------- MODULE MCRequests -----------------------------
(* The small instance of the parts that handle requests.                    *)
EXTENDS Requests, TLC

(* The threads that serve requests, and those that change filters, are      *)
(* interchangeable.                                                        *)
Symmetry == Permutations(Worker) \union Permutations(FilterThread)

(* Words and what each check makes of them.                                *)
MClength ==
    ("username" :> 8 @@ "password" :> 8 @@ "user1" :> 5 @@ "Secret12" :> 8 @@ "FULL_ETL" :> 8
     @@ "source" :> 6 @@ "job_id" :> 6 @@ "j1" :> 2 @@ "drop table" :> 10 @@ "token1" :> 20)
MClower == ("Authorization" :> "authorization" @@ "Content-Type" :> "content-type"
            @@ "X-Forwarded-For" :> "x-forwarded-for" @@ "Bearer" :> "bearer")
MCplain == {"health", "jobs", "logs", "monitor", "auth", "login", "profile", "status", "metrics",
            "j1", "j2", "1", "search"}
MCinPath == MCplain \union {"api", "nothing", ".."}
MClonger == {<<"jobsx", "jobs">>}
MCvalidTokens == {<<"token1">>}
MCnumber == ("1" :> 1 @@ "5" :> 5)
MCmoment == ("t0" :> 0 @@ "t1" :> 1)
MCwithoutFirst == [s \in MCplain \union {"", "jobsx", "api"} |->
                      IF s = "j1" THEN <<"1">> ELSE <<>>]
MCnewId == [s \in 0 .. 1 |-> IF s = 0 THEN "job_0" ELSE "job_1"]
MCcanonical ==
    ("authorization" :> "Authorization" @@ "Authorization" :> "Authorization"
     @@ "content-type" :> "Content-Type" @@ "Content-Type" :> "Content-Type")

At(path) == [path |-> path, asked |-> FALSE, query |-> <<>>]
Asking(path, query) == [path |-> path, asked |-> TRUE, query |-> query]
Req(method, target, headers, text) ==
    [method |-> method, target |-> target, headers |-> headers, body |-> text]
Value(word) == Quoted(word)
JobBody == Written(<< <<"type", Value("FULL_ETL")>>, <<"source_config", Value("source")>>,
                      <<"target_config", Value("source")>> >>, <<>>, <<>>)
LoginBody == Written(<< <<"username", Value("user1")>>, <<"password", Value("Secret12")>> >>,
                     <<" ">>, <<" ">>)
Token == << <<"authorization", <<"Bearer", " ", "token1">>>> >>

MCArriving ==
    {Req("GET", At(<<"api", "health", "jobs">>), <<>>, <<>>),
     Req("GET", At(<<"api", "jobs">>), <<>>, <<>>),
     Req("POST", At(<<"api", "jobs">>), <<>>, JobBody),
     Req("PUT", At(<<"api", "jobs", "j1">>), <<>>,
         Written(<< <<"status", Value("cancelled")>> >>, <<" ">>, <<>>)),
     Req("GET", At(<<"api", "jobs", "j1", "status">>), <<>>, <<>>),
     Req("POST", At(<<"api", "auth", "login">>), <<>>, LoginBody),
     Req("GET", At(<<"api", "logs">>), Token, <<>>),
     Req("OPTIONS", At(<<"api", "logs">>), <<>>, <<>>),
     Req("GET", Asking(<<"api", "monitor", "jobs">>, << <<"status", "completed">> >>), <<>>, <<>>),
     Req("HEAD", At(<<"api", "monitor", "status">>), <<>>, <<>>)}

From(c) == << <<"X-Forwarded-For", <<c, ",", " ", "proxy">>>> >>
MCValidated ==
    {Req("GET", At(<<"api", "jobs">>), From("ip1"), <<>>),
     Req("POST", At(<<"api", "jobs">>), From("ip1"), JobBody),
     Req("GET", At(<<"api", "nothing">>), From("ip2"), <<>>),
     Req("GET", At(<<"api", "..">>), From("ip2"), <<>>),
     Req("GET", At(<<"api", "logs">>), <<>>, <<"drop table">>)}

MCStartConfig ==
    [maxHeaderCount |-> 2, maxHeaderSize |-> 100, maxQueryParamCount |-> 2, maxPathLength |-> 100,
     maxRequestSize |-> 200, maxRequestsPerMinute |-> 2, requireHttps |-> FALSE, sql |-> TRUE,
     xss |-> TRUE]
MCValidatorConfig ==
    {MCStartConfig, [MCStartConfig EXCEPT !.maxRequestsPerMinute = 1, !.sql = FALSE],
     [MCStartConfig EXCEPT !.maxRequestsPerMinute = 0]}

MCRateOptions == {[allowed |-> 2, window |-> 1], [allowed |-> 1, window |-> 3]}
MCsecurityConfig ==
    [maxRequestSize |-> 200, maxHeaderCount |-> 2, maxHeaderSize |-> 100, sql |-> TRUE,
     xss |-> TRUE, sanitize |-> TRUE]
MCStored == {[id |-> "j2", status |-> "FAILED", type |-> "full_etl", createdAt |-> 0]}
MCStartJobs == << [id |-> "j1", status |-> "PENDING", type |-> "full_etl", createdAt |-> 0] >>
MCHeaderSet == {<<"x-a", "1">>, <<"x-bad", "1">>}
MCMimeType == ("text/html" :> "html")

(* Bodies of one to three fields, in every order, with and without blanks.  *)
Fields ==
    UNION {{[i \in 1 .. n |-> <<k[i], v[i]>>] :
              k \in {f \in [1 .. n -> {"status", "config", "type"}] : IsInjective(f)},
              v \in [1 .. n -> {Value("j1"), <<"5">>, <<"\"", "j1", " ", "5", "\"">>}]}
           : n \in 1 .. 3}
MCBodies == [fields : Fields, colon : {<<>>, <<" ">>}, comma : {<<>>, <<" ">>, <<" ", " ">>}]

(* Arguments of the filter manager.                                        *)
MCFilterBody ==
    {filtersToJson([NoFilters EXCEPT !.jobIds = << <<"j1">> >>, !.messageTypes = <<"error_message">>]),
     filtersToJson([NoFilters EXCEPT !.logLevels = << <<"LOUD">> >>])}
MCTestMessages == {WsMessage("job_log_message", Epoch, <<>>, {<<"j1">>}, {<<"ERROR">>})}
MCGivenFilters == {[NoFilters EXCEPT !.logLevels = << <<"WARN">> >>]}
MCJobArgument == {<<"j1">>}
MCLevelArgument == {<<"ERROR">>}
MCTypeArgument == {<<"nonsense">>}
MChundredths == ("0" :> "0.00" @@ "1.5" :> "1.50")

(* Records whose texts may look like fields, end in a backslash, or close    *)
(* what they stand in.                                                     *)
Texts ==
    {<<>>, <<"j1">>, <<"status">>, <<"\\">>, <<"}">>, <<"a", "\n">>,
     <<"\"", ",", "\"", "status", "\"", ":", "\"", "failed">>,
     <<"\\", "\"", "jobId", "\"", ":", "\"", "j2", "\"">>}
Time == [ms |-> "t0", below |-> 1]
SomeMetrics == [NoMetrics EXCEPT !.recordsFailed = "5", !.cpuUsage = "1.5"]
Updates ==
    [jobId : Texts, status : {"running", "failed"}, previousStatus : {"pending"},
     timestamp : {Time}, progressPercent : {"5"}, currentStep : Texts,
     errorMessage : {{}, {<<"status">>}}, metrics : {SomeMetrics}]
Data ==
    [jobId : {<<"j1">>}, jobType : {"load"}, status : {"failed"}, progressPercent : {"5"},
     currentStep : {<<"status">>}, startTime : {Time}, createdAt : {Epoch}, completedAt : {Time},
     executionTime : {"5"}, metrics : {SomeMetrics}, recentLogs : {<<>>} \union {<<t>> : t \in Texts},
     errorMessage : {{}} \union {{text} : text \in Texts}]
Logs ==
    [jobId : Texts, level : {<<"INFO">>, <<"jobId">>}, component : {<<"jobId">>}, message : Texts,
     timestamp : {Time}, context : {<<>>, << <<<<"status">>, <<"\"">>>> >>}]
Messages ==
    {createLogMessage(l, Time) : l \in Logs} \union {createErrorMessage(t, Time) : t \in Texts}
    \union {createJobStatusUpdate(u, Time) : u \in {v \in Updates : v.currentStep = <<>>}}
    \union {createMetricsUpdate(t, SomeMetrics, Time) : t \in Texts} \union {createConnectionAck(Time)}
Lists(values) == {<<>>} \union {<<a>> : a \in values} \union {<<a, <<"j1">>>> : a \in values}
Filters ==
    [jobIds : Lists(Texts \union {<<"]">>}), logLevels : Lists({<<"ERROR">>, <<"jobIds">>}),
     messageTypes : {<<>>, <<"error_message", "job_log_message">>}, system : BOOLEAN]
Of(kind, values) == {[kind |-> kind, value |-> v] : v \in values}
MCSamples ==
    Of("metrics", {SomeMetrics}) \union Of("update", Updates) \union Of("data", Data)
    \union Of("log", Logs) \union Of("message", Messages) \union Of("filters", Filters)
=============================================================================
