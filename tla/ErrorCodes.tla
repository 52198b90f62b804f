----------------------------- MODULE ErrorCodes -----------------------------
(***************************************************************************)
(* Error codes, the exceptions that carry them and the responses made of    *)
(* them. Three tables give a code its HTTP status: that of the codes, that  *)
(* of the exception mapper, and that of the handlers the request handler    *)
(* registers, which look at the kind of the exception only. A body is a     *)
(* sequence of brackets, quotes, colons, commas and words.                 *)
(***************************************************************************)
EXTENDS Naturals, SequencesExt

ValidationCodes == {"INVALID_INPUT", "MISSING_FIELD", "INVALID_RANGE", "CONSTRAINT_VIOLATION"}
AuthCodes == {"UNAUTHORIZED", "FORBIDDEN", "TOKEN_EXPIRED", "ACCESS_DENIED"}
SystemCodes ==
    {"DATABASE_ERROR", "NETWORK_ERROR", "FILE_ERROR", "MEMORY_ERROR", "CONFIGURATION_ERROR",
     "LOCK_TIMEOUT", "RATE_LIMIT_EXCEEDED", "DISK_FULL", "THREAD_POOL_EXHAUSTED",
     "SERVICE_STARTUP_FAILED", "COMPONENT_UNAVAILABLE", "INTERNAL_ERROR"}
PoolCodes == {"INVALID_CONNECTION", "POOL_NOT_RUNNING", "POOL_CAPACITY_EXCEEDED"}
BusinessCodes ==
    {"JOB_NOT_FOUND", "JOB_ALREADY_RUNNING", "INVALID_JOB_STATE", "PROCESSING_FAILED",
     "TRANSFORMATION_ERROR", "DATA_INTEGRITY_ERROR"}
ErrorCode == ValidationCodes \union AuthCodes \union SystemCodes \union PoolCodes
             \union BusinessCodes

getErrorCategory(code) ==
    CASE code \in ValidationCodes -> "Validation"
      [] code \in {"UNAUTHORIZED", "TOKEN_EXPIRED"} -> "Authentication"
      [] code \in {"FORBIDDEN", "ACCESS_DENIED"} -> "Authorization"
      [] code \in SystemCodes -> "System"
      [] code \in BusinessCodes -> "Business"
      [] OTHER -> "Unknown"

isRetryableError(code) ==
    code \in {"DATABASE_ERROR", "NETWORK_ERROR", "FILE_ERROR", "MEMORY_ERROR", "LOCK_TIMEOUT",
              "RATE_LIMIT_EXCEEDED", "THREAD_POOL_EXHAUSTED", "COMPONENT_UNAVAILABLE",
              "PROCESSING_FAILED"}

(* A code the table has no row for, those of the pools, is an error 500.   *)
getDefaultHttpStatus(code) ==
    CASE code \in {"INVALID_INPUT", "MISSING_FIELD", "INVALID_RANGE"} -> 400
      [] code \in {"UNAUTHORIZED", "TOKEN_EXPIRED"} -> 401
      [] code \in {"FORBIDDEN", "ACCESS_DENIED"} -> 403
      [] code = "JOB_NOT_FOUND" -> 404
      [] code \in {"CONSTRAINT_VIOLATION", "JOB_ALREADY_RUNNING", "INVALID_JOB_STATE"} -> 409
      [] code \in {"TRANSFORMATION_ERROR", "DATA_INTEGRITY_ERROR"} -> 422
      [] code = "RATE_LIMIT_EXCEEDED" -> 429
      [] code = "NETWORK_ERROR" -> 502
      [] code \in {"MEMORY_ERROR", "LOCK_TIMEOUT", "THREAD_POOL_EXHAUSTED",
                   "COMPONENT_UNAVAILABLE"} -> 503
      [] code = "DISK_FULL" -> 507
      [] OTHER -> 500

(* The codes of before, by the code that replaces them.                    *)
Consolidates ==
    [INVALID_INPUT |-> {"INVALID_INPUT", "INVALID_FORMAT", "INVALID_TYPE"},
     MISSING_FIELD |-> {"MISSING_REQUIRED_FIELD"}, INVALID_RANGE |-> {"VALUE_OUT_OF_RANGE"},
     UNAUTHORIZED |-> {"INVALID_CREDENTIALS", "TOKEN_INVALID"},
     TOKEN_EXPIRED |-> {"TOKEN_EXPIRED"}, FORBIDDEN |-> {"INSUFFICIENT_PERMISSIONS"},
     ACCESS_DENIED |-> {"ACCOUNT_LOCKED"},
     DATABASE_ERROR |-> {"CONNECTION_FAILED", "QUERY_FAILED", "TRANSACTION_FAILED",
                         "DEADLOCK_DETECTED", "CONNECTION_TIMEOUT"},
     CONSTRAINT_VIOLATION |-> {"CONSTRAINT_VIOLATION"},
     NETWORK_ERROR |-> {"REQUEST_TIMEOUT", "CONNECTION_REFUSED", "INVALID_RESPONSE",
                        "SERVICE_UNAVAILABLE"},
     RATE_LIMIT_EXCEEDED |-> {"RATE_LIMIT_EXCEEDED"},
     PROCESSING_FAILED |-> {"JOB_EXECUTION_FAILED", "EXTRACT_FAILED", "LOAD_FAILED"},
     TRANSFORMATION_ERROR |-> {"DATA_TRANSFORMATION_ERROR"},
     JOB_NOT_FOUND |-> {"JOB_NOT_FOUND"}, JOB_ALREADY_RUNNING |-> {"JOB_ALREADY_RUNNING"},
     CONFIGURATION_ERROR |-> {"CONFIG_NOT_FOUND", "CONFIG_PARSE_ERROR", "INVALID_CONFIG_VALUE",
                              "MISSING_CONFIG_SECTION"},
     MEMORY_ERROR |-> {"OUT_OF_MEMORY", "RESOURCE_EXHAUSTED"},
     FILE_ERROR |-> {"FILE_NOT_FOUND", "PERMISSION_DENIED"}, DISK_FULL |-> {"DISK_FULL"},
     SERVICE_STARTUP_FAILED |-> {"SERVICE_STARTUP_FAILED"},
     COMPONENT_UNAVAILABLE |-> {"COMPONENT_UNAVAILABLE"},
     THREAD_POOL_EXHAUSTED |-> {"THREAD_POOL_EXHAUSTED"},
     INTERNAL_ERROR |-> {"INTERNAL_ERROR", "UNKNOWN_ERROR"}]

LegacyCode == UNION {Consolidates[c] : c \in DOMAIN Consolidates}

migrateLegacyErrorCode(legacy) ==
    IF legacy \in LegacyCode THEN CHOOSE c \in DOMAIN Consolidates : legacy \in Consolidates[c]
    ELSE "INTERNAL_ERROR"

---------------------------------------------------------------------------
(* An exception: its kind, its code and the keys of its context.           *)
Exception(kind, code, context) == [kind |-> kind, code |-> code, context |-> context]
ValidationException(code, given) == Exception("validation", code, given)
SystemException(code) == Exception("system", code, {"component"})
BusinessException(code, given) == Exception("business", code, {"operation"} \union given)

mapErrorCodeToStatus(code, defaultStatus) ==
    CASE code \in {"COMPONENT_UNAVAILABLE", "MEMORY_ERROR", "THREAD_POOL_EXHAUSTED",
                   "DATABASE_ERROR", "NETWORK_ERROR"} -> 503
      [] code \in ValidationCodes \union AuthCodes \union
           {"JOB_NOT_FOUND", "JOB_ALREADY_RUNNING", "INVALID_JOB_STATE", "RATE_LIMIT_EXCEEDED"}
           -> getDefaultHttpStatus(code)
      [] OTHER -> defaultStatus

Text(word) == <<"\"", word, "\"">>
Member(key, value) == Text(key) \o <<":">> \o value
Joined(members) ==
    FlattenSeq([i \in DOMAIN members |-> (IF i = 1 THEN <<>> ELSE <<",">>) \o members[i]])
Object(members) == <<"{">> \o Joined(members) \o <<"}">>
ContextObject(context) ==
    LET keys == SetToSeq(context) IN
    Object([i \in DOMAIN keys |-> Member(keys[i], Text("text"))])

(* The body the mapper writes: its fields, and the context if there is one. *)
toJson(fields, context) ==
    Object([i \in DOMAIN fields |-> Member(fields[i], Text("text"))] \o
           (IF context = {} THEN <<>> ELSE <<Member("context", ContextObject(context))>>))
createErrorFormat(ex) ==
    toJson(<<"status", "message", "code", "correlationId", "timestamp">>, ex.context)

Response(status, body) == [status |-> status, type |-> "application/json", body |-> body]

createDefaultResponse(ex) ==
    Response(500, Object(<<Member("status", Text("error")), Member("code", Text(ex.code))>>))

(* A handler for the code comes before one for the kind of the exception.  *)
mapToResponse(ex, codeHandlers, typeHandlers) ==
    CASE ex.code \in DOMAIN codeHandlers -> codeHandlers[ex.code]
      [] ex.code \notin DOMAIN codeHandlers /\ ex.kind \in DOMAIN typeHandlers ->
           typeHandlers[ex.kind]
      [] OTHER -> Response(mapErrorCodeToStatus(ex.code, 500), createErrorFormat(ex))

(* What an exception that is not of the program's own becomes.             *)
FromStandard == Exception("system", "INTERNAL_ERROR", {"component", "original_type"})

(* The body of a registered handler: the object of the exception is closed, *)
(* then its context is added, and then it is closed again.                 *)
HandlerBody(fields, details, ex) ==
    Object([i \in DOMAIN fields |-> Member(fields[i], Text("text"))])
    \o (IF ex.context = {} THEN <<>>
        ELSE <<",">> \o Member(details, ContextObject(ex.context)))
    \o <<"}">>

makeValidationErrorHandler(ex) ==
    Response(400, HandlerBody(<<"status", "message", "field", "value", "operation">>,
                              "validation_details", ex))
makeSystemErrorHandler(ex) ==
    Response(500, HandlerBody(<<"status", "message", "component", "operation">>,
                              "system_details", ex))
makeBusinessErrorHandler(ex) ==
    Response(422, HandlerBody(<<"status", "message", "operation", "request_operation">>,
                              "business_details", ex))

HanaHandle(ex) ==
    CASE ex.kind = "validation" -> makeValidationErrorHandler(ex)
      [] ex.kind = "system" -> makeSystemErrorHandler(ex)
      [] ex.kind = "business" -> makeBusinessErrorHandler(ex)
      [] OTHER -> createDefaultResponse(ex)
=============================================================================
