--------------------------- MODULE InputValidator ---------------------------
(***************************************************************************)
(* The checks on the inputs of a request. A text is a sequence of symbols:  *)
(* the characters the code looks for, and words, whose lengths and classes  *)
(* are constants. A check answers the set of the codes of its errors; a     *)
(* valid input has none. A target is a path of segments, with the pairs of  *)
(* its query if a question mark was given.                                  *)
(***************************************************************************)
EXTENDS Integers, SequencesExt

CONSTANTS
    length,      \* the length of each word; other symbols have length 1
    lower,       \* the words that change in lower case
    jobIds, userIds, emails, tokens,  \* the words each pattern matches
    plain,       \* the words of letters, digits, underscores and dashes
    controls,    \* symbols with control characters
    classes,     \* of a word: which of "upper", "lower", "digit" it has
    sqlWords, xssWords,    \* words that hold one of the refused patterns
    longer,      \* pairs of segments: the first begins with the second
    number,      \* the words std::stoi reads, and what it reads
    moment,      \* the ISO 8601 words, and the time each means
    MaxBody      \* 1024 * 1024

ASSUME InputAssumption == MaxBody \in Nat \ {0}

Blank == {" ", "\t", "\n", "\r"}
JobStatuses == {"pending", "running", "completed", "failed", "cancelled"}

Size(text) ==
    FoldLeft(LAMBDA n, s : n + (IF s \in DOMAIN length THEN length[s] ELSE 1), 0, text)
Lower(s) == IF s \in DOMAIN lower THEN lower[s] ELSE s
IsWord(text, words) == Len(text) = 1 /\ text[1] \in words

(* A target that begins with the text of a path.                           *)
StartsWith(target, prefix) ==
    LET n == Len(prefix) IN
    /\ Len(target.path) >= n
    /\ SubSeq(target.path, 1, n - 1) = SubSeq(prefix, 1, n - 1)
    /\ \/ target.path[n] = prefix[n]
       \/ <<target.path[n], prefix[n]>> \in longer

(* The code of the first check that fails, and the codes of all that do.   *)
FirstError(checks) ==
    LET failed == SelectSeq(checks, LAMBDA c : c[1]) IN
    IF failed = <<>> THEN {} ELSE {Head(failed)[2]}
AllErrors(checks) == {c[2] : c \in {d \in checks : d[1]}}

isValidString(text, minLength, maxLength) ==
    /\ Size(text) >= minLength /\ Size(text) <= maxLength
    /\ \A i \in DOMAIN text : text[i] \notin controls

isValidEmail(text) == isValidString(text, 5, 254) /\ IsWord(text, emails)
isValidPassword(text) ==
    /\ isValidString(text, 8, 128)
    /\ \A c \in {"upper", "lower", "digit"} :
          \E i \in DOMAIN text : text[i] \in DOMAIN classes /\ c \in classes[text[i]]
isValidJobId(text) == IsWord(text, jobIds)
isValidUserId(text) == IsWord(text, userIds)
isValidToken(text) == IsWord(text, tokens)
containsSqlInjection(text) == \E i \in DOMAIN text : text[i] \in sqlWords
containsXss(text) == \E i \in DOMAIN text : text[i] \in xssWords
isValidStatus(text) == Len(text) = 1 /\ Lower(text[1]) \in JobStatuses
isValidHttpMethod(method, allowed) == method \in allowed
isValidContentType(value) ==
    /\ value # <<>>
    /\ value[1] \in {"application/json", "application/x-www-form-urlencoded"}
    /\ Len(value) > 1 => value[2] = ";"
isValidRequestSize(size) == size <= MaxBody

(* Brackets are counted, each kind on its own; those in strings are not.   *)
ScanJson(s, c) ==
    IF s.escaped THEN [s EXCEPT !.escaped = FALSE]
    ELSE IF c = "\\" THEN [s EXCEPT !.escaped = TRUE]
    ELSE IF c = "\"" THEN [s EXCEPT !.inString = ~@]
    ELSE IF s.inString THEN s
    ELSE LET braces == s.braces + (IF c = "{" THEN 1 ELSE IF c = "}" THEN -1 ELSE 0)
             brackets == s.brackets + (IF c = "[" THEN 1 ELSE IF c = "]" THEN -1 ELSE 0)
         IN [s EXCEPT !.braces = braces, !.brackets = brackets,
                      !.ok = @ /\ braces >= 0 /\ brackets >= 0]
isValidJsonStructure(text) ==
    LET end == FoldLeft(ScanJson, [escaped |-> FALSE, inString |-> FALSE,
                  braces |-> 0, brackets |-> 0, ok |-> TRUE], text)
    IN text # <<>> /\ end.ok /\ end.braces = 0 /\ end.brackets = 0 /\ ~end.inString

FirstFrom(start, n, Found(_)) ==
    LET hits == {i \in start .. n : Found(i)} IN
    IF hits = {} THEN n + 1 ELSE Min(hits)

(* Mutant: the blanks after the colon are not passed over.                 *)
NoBlanks(text, field) ==
    LET n == Len(text)
        at == FirstFrom(1, n, LAMBDA i : i + 2 <= n /\
                 SubSeq(text, i, i + 2) = <<"\"", field, "\"">>)
        colon == FirstFrom(at + 3, n, LAMBDA i : text[i] = ":")
    IN colon + 1

(* The first place that reads "field", wherever it is, and the value after  *)
(* the next colon; past the end of the text when there is none.            *)
findJsonFieldStart(text, field) ==
    LET n == Len(text)
        at == FirstFrom(1, n, LAMBDA i : i + 2 <= n /\
                 SubSeq(text, i, i + 2) = <<"\"", field, "\"">>)
        colon == FirstFrom(at + 3, n, LAMBDA i : text[i] = ":")
    IN FirstFrom(colon + 1, n, LAMBDA i : text[i] \notin Blank)

Trim(text) ==
    LET kept == {i \in DOMAIN text : text[i] \notin Blank} IN
    IF kept = {} THEN <<>> ELSE SubSeq(text, Min(kept), Max(kept))

Unquoted(text) ==
    IF Len(text) >= 2 /\ Head(text) = "\"" /\ Last(text) = "\""
    THEN SubSeq(text, 2, Len(text) - 1) ELSE text

(* The quotes are taken off before the blanks.                             *)
extractJsonValue(text, start, end) == Trim(Unquoted(SubSeq(text, start, end - 1)))

extractJsonField(text, field) ==
    LET start == findJsonFieldStart(text, field)
        end == FirstFrom(start, Len(text), LAMBDA i : text[i] \in {",", "}", "\n", "\r"})
    IN extractJsonValue(text, start, end)

validateJson(text) ==
    FirstError(<<
        <<text = <<>>, "EMPTY_BODY">>, <<Size(text) > MaxBody, "BODY_TOO_LARGE">>,
        <<~isValidJsonStructure(text), "INVALID_JSON">>,
        <<containsSqlInjection(text) \/ containsXss(text), "SECURITY_VIOLATION">> >>)

(* A body that passes the checks of its whole, and those of its fields.    *)
Checked(whole, parts) == IF whole = {} THEN AllErrors(parts) ELSE whole

validateJsonStructure(text, required) ==
    Checked(validateJson(text),
            {<<extractJsonField(text, f) = <<>>, "MISSING_FIELD">> : f \in required})

validateLoginRequest(text) ==
    LET user == extractJsonField(text, "username")
        password == extractJsonField(text, "password")
        isMail == \E i \in DOMAIN user : user[i] = "@" \/ user[i] \in emails
    IN Checked(validateJsonStructure(text, {"username", "password"}),
          {<<~isValidString(user, 3, 100) \/ (~isMail /\ ~isValidUserId(user)),
             "INVALID_USERNAME">>,
           <<isMail /\ isValidString(user, 3, 100) /\ ~isValidEmail(user), "INVALID_EMAIL">>,
           <<~isValidString(password, 1, 128), "INVALID_PASSWORD">>})

validateLogoutRequest(text) ==
    LET token == extractJsonField(text, "token") IN
    Checked(validateJson(text), {<<token # <<>> /\ ~isValidToken(token), "INVALID_TOKEN">>})

validateJobCreationRequest(text) ==
    LET field(f) == extractJsonField(text, f) IN
    Checked(validateJsonStructure(text, {"type", "source_config", "target_config"}),
      {<<~IsWord(field("type"), {"FULL_ETL", "INCREMENTAL_ETL", "DATA_SYNC", "VALIDATION"}),
         "INVALID_JOB_TYPE">>,
       <<~isValidString(field("source_config"), 1, 1024), "INVALID_SOURCE_CONFIG">>,
       <<~isValidString(field("target_config"), 1, 1024), "INVALID_TARGET_CONFIG">>,
       <<field("job_id") # <<>> /\ ~isValidJobId(field("job_id")), "INVALID_JOB_ID">>})

validateJobUpdateRequest(text) ==
    LET status == extractJsonField(text, "status")
        config == extractJsonField(text, "config")
    IN Checked(
          Checked(validateJson(text), {<<status = <<>> /\ config = <<>>, "NO_UPDATE_FIELDS">>}),
          {<<status # <<>> /\ ~isValidStatus(status), "INVALID_STATUS">>,
           <<config # <<>> /\ ~isValidString(config, 1, 2048), "INVALID_CONFIG">>})

Integer(v) == v \in DOMAIN number

(* A pair without "=" is left out; of two with one name the later counts.  *)
parseQueryString(query) ==
    LET pairs == SelectSeq(query, LAMBDA p : Len(p) = 2)
        last(k) == Max({i \in DOMAIN pairs : pairs[i][1] = k})
    IN [k \in {p[1] : p \in ToSet(pairs)} |-> pairs[last(k)][2]]

validateJobQueryParams(params) ==
    UNION {LET v == params[k] IN
        CASE k = "status" -> AllErrors({<<~isValidStatus(<<v>>), "INVALID_STATUS_FILTER">>})
          [] k = "limit" -> AllErrors({<<~Integer(v) \/ number[v] \notin 1 .. 1000,
                                         "INVALID_LIMIT">>})
          [] k = "offset" -> AllErrors({<<~Integer(v) \/ number[v] < 0, "INVALID_OFFSET">>})
          [] k = "job_id" -> AllErrors({<<~isValidJobId(<<v>>), "INVALID_JOB_ID">>})
          [] OTHER -> {"UNKNOWN_PARAMETER"} : k \in DOMAIN params}

validateMetricsParams(params) ==
    UNION {AllErrors(
        {<<k = "metric_type" /\ params[k] \notin {"performance", "errors", "system", "jobs"},
           "INVALID_METRIC_TYPE">>,
         <<k = "time_range" /\ params[k] \notin {"1h", "24h", "7d", "30d"},
           "INVALID_TIME_RANGE">>,
         <<k \notin {"metric_type", "time_range"}, "UNKNOWN_PARAMETER">>}) : k \in DOMAIN params}

validateMonitoringParams(params) ==
    LET given(k) == k \in DOMAIN params IN AllErrors(
        {<<given("status") /\ ~isValidStatus(<<params["status"]>>), "INVALID_STATUS">>,
         <<given("type") /\ params["type"] \notin {"extract", "transform", "load", "full_etl"},
           "INVALID_TYPE">>,
         <<given("limit") /\ (~Integer(params["limit"]) \/ number[params["limit"]] \notin 1 .. 1000),
           "INVALID_LIMIT">>,
         <<\E k \in {"from", "to"} : given(k) /\ params[k] \notin DOMAIN moment,
           "INVALID_TIMESTAMP">>,
         <</\ \A k \in {"from", "to"} : given(k) /\ params[k] \in DOMAIN moment
           /\ moment[params["from"]] >= moment[params["to"]], "INVALID_RANGE">>})

(* The pattern has no question mark: a path with a query does not match.   *)
validateEndpointPath(target) ==
    LET path == target.path n == Len(path) IN FirstError(<<
        <<path = <<>>, "EMPTY_PATH">>, <<Size(path) + n > 512, "PATH_TOO_LONG">>,
        <<\/ target.asked \/ n < 2 \/ Head(path) # "api"
          \/ \E i \in 2 .. n : path[i] \notin plain \union {""}, "INVALID_PATH">>,
        <<\E i \in 2 .. n - 1 : path[i] = "", "SECURITY_VIOLATION">> >>)

validateQueryParameters(query) ==
    LET params == parseQueryString(query)
        texts == DOMAIN params \union Range(params)
    IN FirstError(<<
        <<Size(FlattenSeq(query)) + 2 * Len(query) > 2049, "QUERY_TOO_LONG">>,
        <<\E t \in texts : t \in sqlWords \union xssWords, "SECURITY_VIOLATION">> >>)

(* The scheme is compared without regard to case.                          *)
validateAuthorizationHeader(value) ==
    FirstError(<< <<value = <<>>, "MISSING_AUTH">>,
        <<Len(value) < 2 \/ Lower(value[1]) # "bearer" \/ value[2] # " ", "INVALID_AUTH_SCHEME">>,
        <<~isValidToken(SubSeq(value, 3, Len(value))), "INVALID_TOKEN">> >>)

validateRequestHeaders(headers) ==
    LET types == {k \in DOMAIN headers : Lower(k) = "content-type"} IN
    UNION {AllErrors(
        {<<k \in types /\ \A j \in types : ~isValidContentType(headers[j]),
           "INVALID_CONTENT_TYPE">>,
         <<k \in xssWords \/ containsXss(headers[k]), "SECURITY_VIOLATION">>,
         <<Size(headers[k]) > 8192, "HEADER_TOO_LONG">>}) : k \in DOMAIN headers}

sanitizeString(text) ==
    [i \in DOMAIN text |-> IF text[i] = "\"" THEN "'"
                           ELSE IF text[i] \in {"\n", "\r", "\t"} THEN " " ELSE text[i]]

---------------------------------------------------------------------------
(* A flat object of the given fields, written with or without blanks after  *)
(* the colon and after the comma.                                          *)
Quoted(word) == <<"\"", word, "\"">>
Written(fields, afterColon, afterComma) ==
    LET member(i) == Quoted(fields[i][1]) \o <<":">> \o afterColon \o fields[i][2] IN
    <<"{">> \o FlattenSeq([i \in DOMAIN fields |->
        (IF i = 1 THEN <<>> ELSE <<",">> \o afterComma) \o member(i)]) \o <<"}">>

(* A body passes for JSON, and each field is read as it was written.        *)
FieldsRead(fields, afterColon, afterComma) ==
    LET text == Written(fields, afterColon, afterComma) IN
    /\ isValidJsonStructure(text)
    /\ \A i \in DOMAIN fields : extractJsonField(text, fields[i][1]) = Unquoted(fields[i][2])
=============================================================================
