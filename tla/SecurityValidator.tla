------------------------- MODULE SecurityValidator -------------------------
(***************************************************************************)
(* The security checks on texts, headers, tokens and uploads, and the limit *)
(* on the requests of a client, whose history is kept for two minutes       *)
(* whatever the window that is asked for.                                  *)
(***************************************************************************)
EXTENDS InputValidator, QueueFilter

CONSTANTS
    securityConfig,          \* config_: switches and limits
    screenedSql, screenedXss,   \* words the two patterns match
    climbing,                \* words with "../"
    shellSymbols,            \* words with a symbol of the shell
    nulls,                   \* symbols that are a null byte
    allowedTypes,            \* content types of uploads
    extension,               \* the extension of each file name, in lower case
    RateOptions,             \* limits: the requests allowed, and the window in ticks
    Sender,                  \* clients
    KeptFor,                 \* the ticks of two minutes
    MaxTicks, MaxAsked       \* bounds: the clock, the requests of a client

ASSUME SecurityAssumption ==
    /\ {KeptFor, MaxTicks, MaxAsked} \subseteq Nat \ {0}
    /\ \A o \in RateOptions : o.window \in Nat /\ o.allowed \in Nat

VARIABLES
    rateLimitStore,   \* the times of the requests of each client
    ticks,
    passed            \* history: the times of the requests that were let pass

svvars == <<rateLimitStore, ticks, passed>>

SVInit ==
    /\ rateLimitStore = [c \in {} |-> <<>>]
    /\ ticks = 0 /\ passed = [c \in Sender |-> <<>>]

validateSqlInjection(text) ==
    AllErrors({<<ToSet(text) \intersect screenedSql # {}, "SQL_PATTERN">>,
               <<containsSqlInjection(text), "SQL_TEXT">>})
validateXss(text) == AllErrors({<<ToSet(text) \intersect screenedXss # {}, "XSS">>})

validateInput(text) ==
    AllErrors({<<ToSet(text) \intersect nulls # {}, "NULL_BYTES">>,
               <<Size(text) > securityConfig.maxRequestSize, "TOO_LARGE">>,
               <<ToSet(text) \intersect climbing # {}, "PATH_TRAVERSAL">>,
               <<ToSet(text) \intersect shellSymbols # {}, "COMMAND">>})
    \union (IF securityConfig.sql THEN validateSqlInjection(text) ELSE {})
    \union (IF securityConfig.xss THEN validateXss(text) ELSE {})

validateCsrfToken(token, expected) ==
    Checked(FirstError(<< <<token = <<>>, "MISSING">> >>),
            {<<Size(token) < 32, "TOO_SHORT">>, <<token # expected, "REFUSED">>})

validateRequestSize(size) ==
    AllErrors({<<size > securityConfig.maxRequestSize, "TOO_LARGE">>})

HeaderIssues(headers) ==
    AllErrors({<<Cardinality(DOMAIN headers) > securityConfig.maxHeaderCount, "TOO_MANY">>} \union
      UNION {{<<Size(<<k>>) > 256, "NAME_TOO_LONG">>,
              <<Size(headers[k]) > securityConfig.maxHeaderSize, "VALUE_TOO_LONG">>,
              <<({k} \union ToSet(headers[k])) \intersect nulls # {}, "NULL_BYTES">>}
             : k \in DOMAIN headers})

isValidFileExtension(name) ==
    extension[name] \in {".txt", ".csv", ".json", ".xml", ".jpg", ".jpeg", ".png", ".gif"}

validateFileUpload(name, type, size) ==
    validateRequestSize(size) \union
    AllErrors({<<name \in climbing, "PATH_TRAVERSAL">>,
               <<~isValidFileExtension(name), "EXTENSION">>,
               <<type \notin allowedTypes, "CONTENT_TYPE">>})

escapeHtml(text) ==
    LET entity == [c \in {"&", "<", ">", "\"", "'", "/"} |->
                      CASE c = "&" -> "&amp;" [] c = "<" -> "&lt;" [] c = ">" -> "&gt;"
                        [] c = "\"" -> "&quot;" [] c = "'" -> "&#x27;" [] OTHER -> "&#x2F;"]
    IN [i \in DOMAIN text |-> IF text[i] \in DOMAIN entity THEN entity[text[i]] ELSE text[i]]
removeNullBytes(text) == SelectSeq(text, LAMBDA c : c \notin nulls)

sanitizeInput(text, context) ==
    LET whole == removeNullBytes(text)
        escaped == IF context \in {"html", "web"} THEN escapeHtml(whole) ELSE whole
    IN IF securityConfig.sanitize
       THEN SelectSeq(escaped, LAMBDA c : c \notin controls \ {"\n", "\t"}) ELSE text

generateSecurityHeaders ==
    {"Content-Security-Policy", "X-XSS-Protection", "X-Content-Type-Options", "X-Frame-Options",
     "Referrer-Policy", "Permissions-Policy"}

---------------------------------------------------------------------------
(* Mutant: the clients are dropped with their history.                     *)
DropClients == [c \in {} |-> <<>>]

(* The requests made in the last two minutes, among those at the times given. *)
Unexpired(times) == {i \in DOMAIN times : times[i] >= ticks - KeptFor}

cleanupExpiredRateLimitEntries ==
    LET kept(c) == Kept(rateLimitStore[c], Unexpired(rateLimitStore[c])) IN
    [c \in {d \in DOMAIN rateLimitStore : kept(d) # <<>>} |-> kept(c)]

InWindow(times, options) == {i \in DOMAIN times : times[i] > ticks - options.window}

(* A request of a client that is let pass is recorded, one that is not is   *)
(* not.                                                                    *)
isRateLimitExceeded(c, options) ==
    LET store == cleanupExpiredRateLimitEntries
        times == IF c \in DOMAIN store THEN store[c] ELSE <<>>
        pass == Cardinality(InWindow(times, options)) < options.allowed
        next == IF pass THEN Append(times, ticks) ELSE times
    IN /\ Len(passed[c]) < MaxAsked
       /\ rateLimitStore' = [d \in DOMAIN store \union {c} |-> IF d = c THEN next ELSE store[d]]
       /\ passed' = IF pass THEN [passed EXCEPT ![c] = Append(@, ticks)] ELSE passed
       /\ UNCHANGED ticks

SecurityTick == ticks < MaxTicks /\ ticks' = ticks + 1 /\ UNCHANGED <<rateLimitStore, passed>>

SVNext ==
    \/ \E c \in Sender, o \in RateOptions : isRateLimitExceeded(c, o)
    \/ SecurityTick

SVSpec == SVInit /\ [][SVNext]_svvars

(* Whatever windows the requests before it asked for, those of other clients *)
(* among them: a request passes exactly if fewer than the limit passed in   *)
(* its window, of which the last two minutes are looked at.                *)
HistoryKept ==
    [][\A c \in Sender, o \in RateOptions : isRateLimitExceeded(c, o) =>
          (passed'[c] # passed[c]
           <=> Cardinality(InWindow(passed[c], o) \intersect Unexpired(passed[c])) < o.allowed)]_svvars
=============================================================================
