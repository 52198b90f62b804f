------------------------ MODULE JobMonitoringModels ------------------------
(***************************************************************************)
(* The records of job monitoring, their JSON texts, and the filters of a    *)
(* connection. A text is a sequence of symbols: quotes, colons, brackets,   *)
(* backslashes, words (a number is one), and the blanks of quoted texts.    *)
(* fromJson looks for each field on its own with a regular expression: the  *)
(* first place of the text where the quoted name, a colon and a value of    *)
(* the right form follow one another. What is not found keeps its default.  *)
(***************************************************************************)
EXTENDS QueueFilter, SequencesExt

CONSTANTS
    numerals,      \* words "\d+" matches
    decimals,      \* words "[0-9.]+" matches
    hundredths,    \* the word each number with decimals is written as
    idWords,       \* words of letters, digits, underscores and dashes
    instants,      \* words for times, in milliseconds
    textWords      \* the other words of texts

ASSUME ModelsAssumption ==
    /\ "0" \in numerals /\ numerals \subseteq decimals
    /\ hundredths \in [DOMAIN hundredths -> decimals]

---------------------------------------------------------------------------
(* Writing.                                                                *)

(* Mutant: texts are written as they are. *)
NoEscapes(text) == text

escapeJsonString(text) ==
    LET written(s) == CASE s = "\"" -> <<"\\", "\"">> [] s = "\\" -> <<"\\", "\\">>
                        [] s = "\n" -> <<"\\", "n">> [] OTHER -> <<s>>
    IN FlattenSeq([i \in DOMAIN text |-> written(text[i])])

JText(text) == <<"\"">> \o escapeJsonString(text) \o <<"\"">>
JWord(word) == <<"\"", word, "\"">>
JField(name, value) == <<"\"", name, "\"", ":">> \o value
JJoined(parts) ==
    FlattenSeq([i \in DOMAIN parts |-> (IF i = 1 THEN <<>> ELSE <<",">>) \o parts[i]])
JObject(fields) == <<"{">> \o JJoined(fields) \o <<"}">>
JList(values) == <<"[">> \o JJoined(values) \o <<"]">>
JOptional(name, given) ==
    IF given = {} THEN <<>> ELSE <<JField(name, JText(CHOOSE t \in given : TRUE))>>

---------------------------------------------------------------------------
(* Reading.                                                                *)
Least(places) == {k \in places : \A n \in places : k <= n}
FirstPlace(start, text, Is(_)) ==
    LET places == {k \in start .. Len(text) : Is(k)} IN
    IF places = {} THEN Len(text) + 1 ELSE Min(places)

(* Where the value of a field of this name begins.                         *)
ValuePlaces(text, name) ==
    {i + 4 : i \in {k \in 1 .. Len(text) - 4 : SubSeq(text, k, k + 3) = JField(name, <<>>)}}

(* The value of the first field of the name whose value has the form, as    *)
(* the place where it ends says: at most one.                              *)
FirstValue(text, name, EndOf(_)) ==
    {SubSeq(text, v, EndOf(v)) :
        v \in Least({k \in ValuePlaces(text, name) : EndOf(k) \in k .. Len(text)})}

Enclosed(text, open, close, v) ==
    IF text[v] = open THEN FirstPlace(v + 1, text, LAMBDA k : text[k] = close) ELSE 0
Inner(text) == SubSeq(text, 2, Len(text) - 1)

FirstEnclosed(text, name, open, close) ==
    FirstValue(text, name, LAMBDA k : Enclosed(text, open, close, k))
readText(text, name) == {Inner(v) : v \in FirstEnclosed(text, name, "\"", "\"")}
readWord(text, name, words) ==
    {v[1] : v \in FirstValue(text, name, LAMBDA k : IF text[k] \in words THEN k ELSE 0)}
readObject(text, name) == FirstEnclosed(text, name, "{", "}")

(* The texts between the first quote and the second, the third and fourth.. *)
Quotations(list) ==
    LET quotes == Kept([k \in DOMAIN list |-> k], {k \in DOMAIN list : list[k] = "\""}) IN
    [n \in 1 .. Len(quotes) \div 2 |-> SubSeq(list, quotes[2 * n - 1] + 1, quotes[2 * n] - 1)]
readList(text, name) == {Quotations(Inner(v)) : v \in FirstEnclosed(text, name, "[", "]")}

Given(found, default) == IF found = {} THEN default ELSE CHOOSE v \in found : TRUE

---------------------------------------------------------------------------
(* Names, with what an unknown one stands for.                             *)
JobStatusNames == {"pending", "running", "completed", "failed", "cancelled"}
JobTypeNames == {"extract", "transform", "load", "full_etl"}
MessageTypeNames == {"job_status_update", "job_progress_update", "job_log_message",
                     "job_metrics_update", "system_notification", "connection_ack",
                     "error_message"}
stringToNamed(text, names, other) ==
    IF Len(text) = 1 /\ text[1] \in names THEN text[1] ELSE other
toJobStatus(text) == stringToNamed(text, JobStatusNames, "pending")
toJobType(text) == stringToNamed(text, JobTypeNames, "full_etl")
stringToMessageType(text) == stringToNamed(text, MessageTypeNames, "error_message")

(* A time is its milliseconds and what lies below them.                    *)
Epoch == [ms |-> "epoch", below |-> 0]
formatTimestamp(time) == JWord(time.ms)
parseTimestamp(text) ==
    [ms |-> IF Len(text) = 1 /\ text[1] \in instants THEN text[1] ELSE "year 1900", below |-> 0]
readTime(text, name) == {parseTimestamp(t) : t \in readText(text, name)}

---------------------------------------------------------------------------
WholeMetrics ==
    {"recordsProcessed", "recordsSuccessful", "recordsFailed", "memoryUsage", "executionTime",
     "peakMemoryUsage", "totalBytesProcessed", "totalBytesWritten", "totalBatches",
     "consecutiveErrors", "timeToFirstError"}
DecimalMetrics ==
    {"processingRate", "cpuUsage", "peakCpuUsage", "averageProcessingRate", "averageBatchSize",
     "errorRate", "throughputMBps", "memoryEfficiency", "cpuEfficiency"}
MetricNames ==
    <<"recordsProcessed", "recordsSuccessful", "recordsFailed", "processingRate", "memoryUsage",
      "cpuUsage", "executionTime", "peakMemoryUsage", "peakCpuUsage", "averageProcessingRate",
      "totalBytesProcessed", "totalBytesWritten", "totalBatches", "averageBatchSize", "errorRate",
      "consecutiveErrors", "timeToFirstError", "throughputMBps", "memoryEfficiency",
      "cpuEfficiency">>
NoMetrics == [f \in WholeMetrics \union DecimalMetrics |-> "0"]

metricsToJson(metrics) ==
    JObject([i \in DOMAIN MetricNames |->
        LET f == MetricNames[i] IN
        JField(f, <<IF f \in DecimalMetrics THEN hundredths[metrics[f]] ELSE metrics[f]>>)])
metricsFromJson(text) ==
    [f \in DOMAIN NoMetrics |->
        Given(readWord(text, f, IF f \in DecimalMetrics THEN decimals ELSE numerals), "0")]
readMetrics(text) ==
    Given({metricsFromJson(m) : m \in readObject(text, "metrics")}, NoMetrics)

updateToJson(u) ==
    JObject(<<JField("jobId", JText(u.jobId)), JField("status", JWord(u.status)),
              JField("previousStatus", JWord(u.previousStatus)),
              JField("timestamp", formatTimestamp(u.timestamp)),
              JField("progressPercent", <<u.progressPercent>>),
              JField("currentStep", JText(u.currentStep)),
              JField("metrics", metricsToJson(u.metrics))>> \o
            JOptional("errorMessage", u.errorMessage))
(* A status that is not found is not initialised.                          *)
updateFromJson(text) ==
    [jobId |-> Given(readText(text, "jobId"), <<>>),
     status |-> Given({toJobStatus(t) : t \in readText(text, "status")}, "uninitialised"),
     previousStatus |->
        Given({toJobStatus(t) : t \in readText(text, "previousStatus")}, "uninitialised"),
     timestamp |-> Given(readTime(text, "timestamp"), Epoch),
     progressPercent |-> Given(readWord(text, "progressPercent", numerals), "0"),
     currentStep |-> Given(readText(text, "currentStep"), <<>>),
     errorMessage |-> readText(text, "errorMessage"),
     metrics |-> readMetrics(text)]

dataToJson(d) ==
    JObject(<<JField("jobId", JText(d.jobId)), JField("jobType", JWord(d.jobType)),
              JField("status", JWord(d.status)),
              JField("progressPercent", <<d.progressPercent>>),
              JField("currentStep", JText(d.currentStep)),
              JField("startTime", formatTimestamp(d.startTime)),
              JField("createdAt", formatTimestamp(d.createdAt)),
              JField("completedAt", formatTimestamp(d.completedAt)),
              JField("executionTime", <<d.executionTime>>),
              JField("metrics", metricsToJson(d.metrics)),
              JField("recentLogs", JList([i \in DOMAIN d.recentLogs |-> JText(d.recentLogs[i])]))>>
            \o JOptional("errorMessage", d.errorMessage))
(* The recent logs are not read.                                           *)
dataFromJson(text) ==
    [jobId |-> Given(readText(text, "jobId"), <<>>),
     jobType |-> Given({toJobType(t) : t \in readText(text, "jobType")}, "uninitialised"),
     status |-> Given({toJobStatus(t) : t \in readText(text, "status")}, "uninitialised"),
     progressPercent |-> Given(readWord(text, "progressPercent", numerals), "0"),
     currentStep |-> Given(readText(text, "currentStep"), <<>>),
     startTime |-> Given(readTime(text, "startTime"), Epoch),
     createdAt |-> Given(readTime(text, "createdAt"), Epoch),
     completedAt |-> Given(readTime(text, "completedAt"), Epoch),
     executionTime |-> Given(readWord(text, "executionTime", numerals), "0"),
     errorMessage |-> readText(text, "errorMessage"),
     metrics |-> readMetrics(text), recentLogs |-> <<>>]

logToJson(l) ==
    JObject(<<JField("jobId", JText(l.jobId)), JField("level", JText(l.level)),
              JField("component", JText(l.component)), JField("message", JText(l.message)),
              JField("timestamp", formatTimestamp(l.timestamp)),
              JField("context", JObject([i \in DOMAIN l.context |->
                  JText(l.context[i][1]) \o <<":">> \o JText(l.context[i][2])]))>>)
(* The context is not read.                                                *)
logFromJson(text) ==
    [jobId |-> Given(readText(text, "jobId"), <<>>), level |-> Given(readText(text, "level"), <<>>),
     component |-> Given(readText(text, "component"), <<>>),
     message |-> Given(readText(text, "message"), <<>>),
     timestamp |-> Given(readTime(text, "timestamp"), Epoch), context |-> <<>>]

---------------------------------------------------------------------------
(* A message to WebSocket clients: its data is a JSON text of its own.      *)
wsMessageToJson(w) ==
    JObject(<<JField("type", JWord(w.type)), JField("timestamp", formatTimestamp(w.timestamp)),
              JField("data", w.data)>>
            \o JOptional("targetJobId", w.targetJobId) \o JOptional("targetLevel", w.targetLevel))
wsMessageFromJson(text) ==
    [type |-> Given({stringToMessageType(t) : t \in readText(text, "type")}, "uninitialised"),
     timestamp |-> Given(readTime(text, "timestamp"), Epoch),
     data |-> Given(readObject(text, "data"), <<>>),
     targetJobId |-> readText(text, "targetJobId"), targetLevel |-> readText(text, "targetLevel")]

WsMessage(type, now, data, job, level) ==
    [type |-> type, timestamp |-> now, data |-> data, targetJobId |-> job, targetLevel |-> level]
createJobStatusUpdate(u, now) ==
    WsMessage("job_status_update", now, updateToJson(u), {u.jobId}, {})
createLogMessage(l, now) ==
    WsMessage("job_log_message", now, logToJson(l), {l.jobId}, {l.level})
createMetricsUpdate(jobId, metrics, now) ==
    WsMessage("job_metrics_update", now,
        JObject(<<JField("jobId", JText(jobId)), JField("metrics", metricsToJson(metrics))>>),
        {jobId}, {})
createErrorMessage(error, now) ==
    WsMessage("error_message", now, JObject(<<JField("error", JText(error))>>), {}, {})
createConnectionAck(now) ==
    WsMessage("connection_ack", now, JObject(<<JField("status", JText(<<"connected">>))>>), {}, {})

---------------------------------------------------------------------------
(* The filters of a connection. An empty list wants everything.             *)
NoFilters == [jobIds |-> <<>>, logLevels |-> <<>>, messageTypes |-> <<>>, system |-> TRUE]

filtersToJson(f) ==
    JObject(<<JField("jobIds", JList([i \in DOMAIN f.jobIds |-> JText(f.jobIds[i])])),
              JField("logLevels", JList([i \in DOMAIN f.logLevels |-> JText(f.logLevels[i])])),
              JField("messageTypes",
                     JList([i \in DOMAIN f.messageTypes |-> JWord(f.messageTypes[i])])),
              JField("includeSystemNotifications", <<IF f.system THEN "true" ELSE "false">>)>>)
filtersFromJson(text) ==
    LET types == Given(readList(text, "messageTypes"), <<>>) IN
    [jobIds |-> Given(readList(text, "jobIds"), <<>>),
     logLevels |-> Given(readList(text, "logLevels"), <<>>),
     messageTypes |-> [i \in DOMAIN types |-> stringToMessageType(types[i])],
     system |-> Given(readWord(text, "includeSystemNotifications", {"true", "false"}), "true")
                = "true"]

Wants(list, value) == list = <<>> \/ value \in ToSet(list)
shouldReceiveMessage(f, message) ==
    /\ Wants(f.messageTypes, message.type)
    /\ \A job \in message.targetJobId : Wants(f.jobIds, job)
    /\ \A level \in message.targetLevel : Wants(f.logLevels, level)
    /\ message.type = "system_notification" => f.system

AddTo(list, value) == IF value \in ToSet(list) THEN list ELSE Append(list, value)
(* The first of its kind.                                                  *)
RemoveFrom(list, value) ==
    IF value \in ToSet(list)
    THEN RemoveAt(list, FirstPlace(1, list, LAMBDA i : list[i] = value)) ELSE list

validateJobId(text) == Len(text) = 1 /\ text[1] \in idWords
validateLogLevel(text) ==
    Len(text) = 1 /\ text[1] \in {"DEBUG", "INFO", "WARN", "ERROR", "FATAL"}
validateMessageType(text) == Len(text) = 1 /\ text[1] \in MessageTypeNames
isValid(f) ==
    /\ \A i \in DOMAIN f.jobIds : validateJobId(f.jobIds[i])
    /\ \A i \in DOMAIN f.logLevels : validateLogLevel(f.logLevels[i])

---------------------------------------------------------------------------
PlainText(text) == ToSet(text) \intersect {"\"", "\\", "\n"} = {}
SameFields(v, read, texts, others) ==
    /\ \A f \in texts : PlainText(v[f]) => read[f] = v[f]
    /\ \A f \in others : read[f] = v[f]
SameMetrics(v, read) ==
    \A f \in DOMAIN v : read[f] = IF f \in DecimalMetrics THEN hundredths[v[f]] ELSE v[f]
SameTimes(v, read, times) == \A f \in times : read[f] = [ms |-> v[f].ms, below |-> 0]
SameOption(v, read) == (\A text \in v : PlainText(text)) => read = v

SameUpdate(v, read) ==
    /\ SameFields(v, read, {"jobId", "currentStep"},
                  {"status", "previousStatus", "progressPercent"})
    /\ SameOption(v.errorMessage, read.errorMessage)
    /\ SameTimes(v, read, {"timestamp"}) /\ SameMetrics(v.metrics, read.metrics)
SameData(v, read) ==
    /\ SameFields(v, read, {"jobId", "currentStep"},
                  {"jobType", "status", "progressPercent", "executionTime"})
    /\ SameOption(v.errorMessage, read.errorMessage)
    /\ SameTimes(v, read, {"startTime", "createdAt", "completedAt"})
    /\ SameMetrics(v.metrics, read.metrics)
SameLog(v, read) ==
    /\ SameFields(v, read, {"jobId", "level", "component", "message"}, {})
    /\ SameTimes(v, read, {"timestamp"})
SameMessage(v, read) ==
    /\ read.type = v.type /\ SameTimes(v, read, {"timestamp"})
    /\ SameOption(v.targetJobId, read.targetJobId)
    /\ SameOption(v.targetLevel, read.targetLevel)
SameFilters(v, read) ==
    /\ read.messageTypes = v.messageTypes /\ read.system = v.system
    /\ isValid(v) => read = v

(* The records that are written: texts hold anything, the rest is of its kind. *)
(* The data of a message is a JSON object, which must not name the fields    *)
(* that follow it.                                                         *)
Marks == {"\"", "\\", "\n", ":", ",", "{", "}", "[", "]"}
FieldNames ==
    DOMAIN NoMetrics \union
    {"jobId", "jobType", "status", "previousStatus", "timestamp", "progressPercent", "currentStep",
     "startTime", "createdAt", "completedAt", "metrics", "errorMessage", "recentLogs", "level",
     "component", "message", "context", "type", "data", "targetJobId", "targetLevel", "jobIds",
     "logLevels", "messageTypes", "includeSystemNotifications"}
Symbols ==
    Marks \union FieldNames \union JobStatusNames \union JobTypeNames \union MessageTypeNames
    \union {"true", "false", "n"} \union decimals \union idWords \union instants \union textWords
AnyText == Seq(Symbols)

ASSUME WordsAssumption ==
    /\ (decimals \union idWords \union instants) \intersect Marks = {}
    /\ decimals \intersect FieldNames = {}

Unnamed(text, name) ==
    \A k \in 1 .. Len(text) - 3 : SubSeq(text, k, k + 3) # JField(name, <<>>)
IsTime(time) == time.ms \in instants
IsOption(given) == (\A t \in given : t \in AnyText) /\ \A s, t \in given : s = t
IsMetrics(m) ==
    /\ DOMAIN m = DOMAIN NoMetrics
    /\ \A f \in WholeMetrics : m[f] \in numerals
    /\ \A f \in DecimalMetrics : m[f] \in DOMAIN hundredths
IsUpdate(u) ==
    /\ u.jobId \in AnyText /\ u.currentStep \in AnyText /\ IsOption(u.errorMessage)
    /\ u.status \in JobStatusNames /\ u.previousStatus \in JobStatusNames
    /\ IsTime(u.timestamp) /\ u.progressPercent \in numerals /\ IsMetrics(u.metrics)
IsData(d) ==
    /\ d.jobId \in AnyText /\ d.currentStep \in AnyText /\ IsOption(d.errorMessage)
    /\ d.jobType \in JobTypeNames /\ d.status \in JobStatusNames
    /\ d.progressPercent \in numerals /\ d.executionTime \in numerals
    /\ IsTime(d.startTime) /\ IsTime(d.createdAt) /\ IsTime(d.completedAt)
    /\ IsMetrics(d.metrics) /\ d.recentLogs \in Seq(AnyText)
IsLog(l) ==
    /\ l.jobId \in AnyText /\ l.level \in AnyText
    /\ l.component \in AnyText /\ l.message \in AnyText
    /\ IsTime(l.timestamp) /\ l.context \in Seq(AnyText \X AnyText)
IsMessage(w) ==
    /\ w.type \in MessageTypeNames /\ IsTime(w.timestamp)
    /\ w.data \in AnyText /\ Len(w.data) > 1 /\ w.data[1] = "{" /\ w.data[Len(w.data)] = "}"
    /\ Unnamed(w.data, "targetJobId") /\ Unnamed(w.data, "targetLevel")
    /\ IsOption(w.targetJobId) /\ IsOption(w.targetLevel)
IsFilters(f) ==
    f \in [jobIds : Seq(AnyText), logLevels : Seq(AnyText), messageTypes : Seq(MessageTypeNames),
           system : BOOLEAN]
IsRecord(kind, v) ==
    \/ kind = "metrics" /\ IsMetrics(v)
    \/ kind = "update" /\ IsUpdate(v)
    \/ kind = "data" /\ IsData(v)
    \/ kind = "log" /\ IsLog(v)
    \/ kind = "message" /\ IsMessage(v)
    \/ kind = "filters" /\ IsFilters(v)

(* Whatever the texts of a record hold, reading what was written of it gives *)
(* every other field back: its plain texts, names, counts and metrics, and   *)
(* its times to the millisecond. (Texts with quotes, backslashes or line     *)
(* ends, recent logs, contexts, and an object with another in it do not come *)
(* back as they were.)                                                     *)
ReadsBack(kind, v) ==
    CASE kind = "metrics" -> SameMetrics(v, metricsFromJson(metricsToJson(v)))
      [] kind = "update" -> SameUpdate(v, updateFromJson(updateToJson(v)))
      [] kind = "data" -> SameData(v, dataFromJson(dataToJson(v)))
      [] kind = "log" -> SameLog(v, logFromJson(logToJson(v)))
      [] kind = "message" -> SameMessage(v, wsMessageFromJson(wsMessageToJson(v)))
      [] kind = "filters" -> SameFilters(v, filtersFromJson(filtersToJson(v)))
=============================================================================
