--------------------------- MODULE RequestsProofs ---------------------------
(***************************************************************************)
(* What is proved about the parts that handle requests: transactions, the   *)
(* builder of responses, the counts of a health answer, the limits, the     *)
(* filters of connections, and the reading of a flat body.                  *)
(***************************************************************************)
EXTENDS Requests, QueueFilterProofs, SequenceTheorems

-----------------------------------------------------------------------------
(* ExceptionHandler. Unless it is excused, a transaction is open exactly    *)
(* while the code, its rollback or the destructor of an uncommitted scope    *)
(* is still to come, it is that of the scope, and the exception in flight   *)
(* tells a commit from a failure.                                          *)
HoldsOpen ==
    /\ open = {scope.transaction} /\ commits = 0
    /\ ~scope.committed /\ scope.rollbackOnDestroy

XInv ==
    /\ phase \in {"attempt", "body", "rollback", "destroy", "caught", "returned", "thrown"}
    /\ phase \in {"attempt", "body"} => raised = NoError
    /\ phase \in {"rollback", "caught"} => raised # NoError
    /\ begun \in Nat
    /\ scope \in [transaction : Nat, committed : BOOLEAN, rollbackOnDestroy : BOOLEAN]
    /\ ~excused =>
          /\ phase \in {"attempt", "caught", "thrown"} => open = {} /\ commits = 0
          /\ phase \in {"body", "rollback"} => HoldsOpen
          /\ phase = "destroy" =>
                IF raised = NoError THEN open = {} /\ commits = 1 /\ scope.committed
                ELSE \/ open = {} /\ commits = 0 /\ scope.committed
                     \/ HoldsOpen
          /\ phase = "returned" => open = {} /\ commits = 1

(* The scopes before the first attempt.                                     *)
LEMMA XInitially == XInit => XInv
  BY DEF XInit, XInv, NewScope, NoError

(* Every step of the scopes keeps the invariant.                            *)
LEMMA XStep == XInv /\ [XNext]_xvars => XInv'
  <1> SUFFICES ASSUME XInv, [XNext]_xvars PROVE XInv'
    OBVIOUS
  <1> USE DEF XInv, NoError
  <1>1. CASE BeginFails
    BY <1>1 DEF BeginFails, HoldsOpen
  <1>2. CASE Begin
    BY <1>2 DEF Begin, HoldsOpen, NewScope
  <1>3. CASE MoveAssign
    <2>1. PICK how \in {"done", "refused"} :
              /\ open' = (IF how = "done" THEN open \ {scope.transaction} ELSE open)
                         \union {begun + 1}
              /\ excused' = (excused \/ how = "refused")
      BY <1>3 DEF MoveAssign
    <2>2. /\ phase = "body" /\ phase' = phase /\ raised' = raised /\ commits' = commits
          /\ begun' = begun + 1 /\ scope' = NewScope(begun + 1)
      BY <1>3 DEF MoveAssign
    <2>3. ~excused' => ~excused /\ open' = {begun + 1}
      BY <2>1, <2>2 DEF HoldsOpen
    <2> QED
      BY <2>2, <2>3 DEF HoldsOpen, NewScope
  <1>4. CASE setRollbackOnDestroy
    BY <1>4 DEF setRollbackOnDestroy, HoldsOpen
  <1>5. CASE \E e \in Thrown : BodyThrows(e)
    BY <1>5, RetryAssumption DEF BodyThrows, HoldsOpen
  <1>6. CASE commit
    <2>1. scope' = [transaction |-> scope.transaction, committed |-> TRUE,
                    rollbackOnDestroy |-> scope.rollbackOnDestroy]
      BY <1>6 DEF commit
    <2>2. scope' \in [transaction : Nat, committed : BOOLEAN, rollbackOnDestroy : BOOLEAN]
      BY <2>1
    <2> QED
      BY <1>6, <2>1, <2>2 DEF commit, HoldsOpen
  <1>7. CASE CommitFails
    BY <1>7 DEF CommitFails, HoldsOpen
  <1>8. CASE rollback
    BY <1>8 DEF rollback, HoldsOpen, Undone
  <1>9. CASE Destroy
    BY <1>9 DEF Destroy, HoldsOpen, Undone
  <1>10. CASE Retry
    BY <1>10 DEF Retry, HoldsOpen, shouldRetry
  <1>11. CASE Connection
    BY <1>11 DEF Connection, HoldsOpen
  <1>12. CASE UNCHANGED xvars
    BY <1>12 DEF xvars, HoldsOpen
  <1> QED
    BY <1>1, <1>2, <1>3, <1>4, <1>5, <1>6, <1>7, <1>8, <1>9, <1>10, <1>11, <1>12 DEF XNext

(* An operation in a transaction happens once or not at all, whatever the    *)
(* code throws, however often it is tried and whichever scopes it assigns,  *)
(* unless the database refused an end or its answer was lost.               *)
THEOREM Transactional == XSpec => []AllOrNothing
  <1>1. XInv => AllOrNothing
    BY DEF XInv, AllOrNothing
  <1> QED
    BY <1>1, XInitially, XStep, PTL DEF XSpec

-----------------------------------------------------------------------------
(* ResponseBuilder. The names set since the last response are in it, apart  *)
(* from the refused ones and from its own, and every response has been      *)
(* counted once.                                                           *)
IsBuilder(c) ==
    c = [status |-> c.status, type |-> c.type, headers |-> c.headers,
         keepAlive |-> c.keepAlive, requestId |-> c.requestId]

BInv ==
    /\ IsBuilder(current)
    /\ stats \in [total : Nat, success : Nat, errors : Nat, counts : [Status -> Nat]]
    /\ stats.success + stats.errors = stats.total
    /\ DOMAIN current.headers \ OwnHeader = given \ (BadName \union OwnHeader)

(* A response goes out with the headers of the builder and with its own.    *)
LEMMA BuiltHeaders ==
    ASSUME NEW c, buildResponse(c)
    PROVE  DOMAIN sent'.headers \ OwnHeader = DOMAIN c.headers \ OwnHeader
  <1> DEFINE d == applyDefaultHeaders(c)  s == applySecurityHeaders(c)
  <1>1. DOMAIN d \subseteq OwnHeader
    BY DEF applyDefaultHeaders, OwnHeader
  <1>2. DOMAIN applyCorsHeaders \subseteq OwnHeader
    BY DEF applyCorsHeaders, OwnHeader
  <1>3. DOMAIN s \subseteq OwnHeader
    BY DEF applySecurityHeaders, OwnHeader
  <1>4. sent'.headers = Over(Over(Over(d, c.headers), applyCorsHeaders), s)
    BY DEF buildResponse
  <1> HIDE DEF d, s
  <1> DEFINE o == Over(d, c.headers)  p == Over(o, applyCorsHeaders)
  <1>5. DOMAIN o = DOMAIN d \union DOMAIN c.headers
    BY DEF Over
  <1>6. DOMAIN p = DOMAIN o \union DOMAIN applyCorsHeaders
    BY DEF Over
  <1>7. DOMAIN Over(p, s) = DOMAIN p \union DOMAIN s
    BY DEF Over
  <1> QED
    BY <1>1, <1>2, <1>3, <1>4, <1>5, <1>6, <1>7

(* One more response is counted once.                                       *)
LEMMA StatusCounted ==
    ASSUME NEW s \in Status, updateStats(s),
           stats \in [total : Nat, success : Nat, errors : Nat, counts : [Status -> Nat]],
           stats.success + stats.errors = stats.total
    PROVE  /\ stats' \in [total : Nat, success : Nat, errors : Nat, counts : [Status -> Nat]]
           /\ stats'.success + stats'.errors = stats'.total
  <1> DEFINE n == [stats.counts EXCEPT ![s] = @ + 1]
  <1>1. n \in [Status -> Nat]
    <2>1. stats.counts \in [Status -> Nat]
      OBVIOUS
    <2> QED
      BY <2>1
  <1>2. stats' = [total |-> stats.total + 1,
                  success |-> IF s \in 200 .. 299 THEN stats.success + 1 ELSE stats.success,
                  errors |-> IF s \in 200 .. 299 THEN stats.errors ELSE stats.errors + 1,
                  counts |-> n]
    BY DEF updateStats
  <1> HIDE DEF n
  <1> QED
    BY <1>1, <1>2

BStepAllowed ==
    stats'.total > stats.total =>
        /\ DOMAIN sent'.headers \ OwnHeader = given \ (BadName \union OwnHeader)
        /\ stats'.success + stats'.errors = stats'.total

(* What a method does, given the state it leaves in the builder.           *)
LEMMA MethodAnswers ==
    ASSUME BInv, NEW c, c.status \in Status, buildResponse(c),
           DOMAIN c.headers \ OwnHeader = DOMAIN current.headers \ OwnHeader
    PROVE  BInv' /\ BStepAllowed
  <1>1. current' = Fresh(bconfig.type) /\ given' = {} /\ updateStats(c.status)
    BY DEF buildResponse, resetState
  <1>2. IsBuilder(current') /\ DOMAIN current'.headers = {}
    BY <1>1 DEF IsBuilder, Fresh, NoHeaders
  <1> QED
    BY <1>1, <1>2, StatusCounted, BuiltHeaders DEF BInv, BStepAllowed

(* A setter sends nothing.                                                 *)
LEMMA OnlySet ==
    ASSUME BInv, UNCHANGED stats, IsBuilder(current'),
           DOMAIN current'.headers \ OwnHeader = given' \ (BadName \union OwnHeader)
    PROVE  BInv' /\ BStepAllowed
  BY DEF BInv, BStepAllowed

(* Every step of the builder keeps the invariant and sends only what was    *)
(* set.                                                                     *)
LEMMA BStep ==
    ASSUME BInv, [BNext]_bvars
    PROVE  BInv' /\ BStepAllowed
  <1>1. ASSUME NEW h \in HeaderSet, setHeader(h[1], h[2]) PROVE BInv' /\ BStepAllowed
    <2>1. CASE h[1] \in BadName
      BY <1>1, <2>1, OnlySet DEF setHeader, BInv
    <2>2. CASE h[1] \notin BadName
      <3> DEFINE hs == With(current.headers, h[1], h[2])
      <3>1. current' = [current EXCEPT !.headers = hs]
        BY <1>1, <2>2 DEF setHeader
      <3>2. DOMAIN hs = DOMAIN current.headers \union {h[1]}
        BY DEF With
      <3> HIDE DEF hs
      <3>3. IsBuilder(current') /\ current'.headers = hs
        BY <3>1 DEF BInv, IsBuilder
      <3> QED
        BY <1>1, <2>2, <3>2, <3>3, OnlySet DEF setHeader, BInv
    <2> QED
      BY <2>1, <2>2
  <1>2. ASSUME NEW m \in DOMAIN MimeType, setContentType(m) PROVE BInv' /\ BStepAllowed
    <2> DEFINE hs == With(current.headers, "content-type", m)
    <2>1. current' = [current EXCEPT !.type = MimeType[m], !.headers = hs]
      BY <1>2 DEF setContentType
    <2>2. DOMAIN hs = DOMAIN current.headers \union {"content-type"}
      BY DEF With
    <2> HIDE DEF hs
    <2>3. IsBuilder(current') /\ current'.headers = hs
      BY <2>1 DEF BInv, IsBuilder
    <2> QED
      BY <1>2, <2>2, <2>3, OnlySet DEF setContentType, BInv, OwnHeader
  <1>3. ASSUME NEW id \in RequestId, setRequestId(id) PROVE BInv' /\ BStepAllowed
    BY <1>3, OnlySet DEF setRequestId, BInv, IsBuilder
  <1>4. ASSUME NEW st \in Status, NEW type,
               buildResponse([current EXCEPT !.status = st, !.type = type])
        PROVE  BInv' /\ BStepAllowed
    <2> DEFINE c == [current EXCEPT !.status = st, !.type = type]
    <2>1. c.status = st /\ c.headers = current.headers
      BY DEF BInv, IsBuilder
    <2> HIDE DEF c
    <2> QED
      BY <1>4, <2>1, MethodAnswers DEF c
  <1>5. ASSUME NEW st \in Status, NEW extra, DOMAIN extra \subseteq OwnHeader, NEW c,
               c = [current EXCEPT !.status = st, !.headers = Over(@, extra)]
                   \/ c = [current EXCEPT !.status = st, !.type = "json",
                                          !.headers = Over(@, extra)],
               buildResponse(c)
        PROVE  BInv' /\ BStepAllowed
    <2> DEFINE hs == Over(current.headers, extra)
    <2>1. DOMAIN hs = DOMAIN current.headers \union DOMAIN extra
      BY DEF Over
    <2> HIDE DEF hs
    <2>2. c.status = st /\ c.headers = hs
      BY <1>5 DEF BInv, IsBuilder, hs
    <2> QED
      BY <1>5, <2>1, <2>2, MethodAnswers
  <1>6. ASSUME NEW e \in Errors, error(e[1], e[2]) PROVE BInv' /\ BStepAllowed
    <2> DEFINE allow == [allow |-> "GET, POST, PUT, OPTIONS"]
               minute == [n \in {"retry-after"} |-> "60"]
               later == [n \in {"retry-after"} |-> "300"]
               bearer == [n \in {"www-authenticate"} |-> "Bearer"]
               Extra == {NoHeaders, allow, minute, later, bearer}
    <2>1. \A x \in Extra : DOMAIN x \subseteq OwnHeader
      <3>1. DOMAIN NoHeaders = {}
        BY DEF NoHeaders
      <3>2. /\ DOMAIN allow = {"allow"} /\ DOMAIN bearer = {"www-authenticate"}
            /\ DOMAIN minute = {"retry-after"} /\ DOMAIN later = {"retry-after"}
        OBVIOUS
      <3> HIDE DEF allow, minute, later, bearer
      <3> QED
        BY <3>1, <3>2 DEF OwnHeader
    <2>2. Errors = {<<400, NoHeaders>>, <<401, NoHeaders>>, <<403, NoHeaders>>,
                    <<404, NoHeaders>>, <<405, allow>>, <<409, NoHeaders>>, <<429, minute>>,
                    <<500, NoHeaders>>, <<503, later>>, <<401, bearer>>}
      BY Zenon DEF Errors
    <2> HIDE DEF allow, minute, later, bearer
    <2>3. e[1] \in Status /\ e[2] \in Extra
      BY <2>2 DEF Status
    <2> HIDE DEF Extra
    <2> QED
      BY <1>5, <1>6, <2>1, <2>3 DEF error
  <1>7. ASSUME NEW code, fromException(code) PROVE BInv' /\ BStepAllowed
    <2>1. PICK st \in Status : error(st, NoHeaders)
      BY <1>7 DEF fromException, Status
    <2>2. DOMAIN NoHeaders \subseteq OwnHeader
      BY DEF NoHeaders
    <2> QED
      BY <1>5, <2>1, <2>2 DEF error
  <1>8. CASE redirect
    <2> DEFINE hs == With(current.headers, "location", "url")
               c == [current EXCEPT !.status = 302, !.headers = hs]
    <2>1. DOMAIN hs = DOMAIN current.headers \union {"location"}
      BY DEF With
    <2> HIDE DEF hs
    <2>2. c.status = 302 /\ c.headers = hs
      BY DEF BInv, IsBuilder
    <2>3. buildResponse(c)
      BY <1>8 DEF redirect, hs
    <2> HIDE DEF c
    <2> QED
      BY <2>1, <2>2, <2>3, MethodAnswers DEF Status, OwnHeader
  <1>9. CASE cached \/ noCache
    <2>1. PICK extra : Cached(extra) /\ DOMAIN extra \subseteq OwnHeader
      BY <1>9 DEF cached, noCache, OwnHeader
    <2> DEFINE c == [current EXCEPT !.status = 200, !.headers = Over(@, extra)]
    <2>2. buildResponse(c)
      BY <2>1 DEF Cached
    <2>3. c = [current EXCEPT !.status = 200, !.headers = Over(@, extra)]
      OBVIOUS
    <2> HIDE DEF c
    <2>4. 200 \in Status
      BY DEF Status
    <2> QED
      BY <1>5, <2>1, <2>2, <2>3, <2>4
  <1>10. CASE (\E c \in {<<"json", TRUE>>, <<"text", FALSE>>} : updateConfig(c[1], c[2]))
              \/ UNCHANGED bvars
    BY <1>10 DEF updateConfig, bvars, BInv, BStepAllowed
  <1>11. CASE resetStats
    <2>1. NoStats.counts \in [Status -> Nat]
      BY DEF NoStats
    <2> QED
      BY <1>11, <2>1 DEF resetStats, NoStats, BInv, BStepAllowed
  <1>12. CASE \/ \E t \in {"json", "html", "binary"} : success(t)
              \/ \E h \in BOOLEAN : healthCheck(h)
              \/ corsPreflightResponse
    <2>1. 200 \in Status /\ 503 \in Status /\ 204 \in Status
      BY DEF Status
    <2>2. ASSUME NEW type, success(type) PROVE BInv' /\ BStepAllowed
      BY <1>4, <2>1, <2>2 DEF success
    <2>3. ASSUME NEW h \in BOOLEAN, healthCheck(h) PROVE BInv' /\ BStepAllowed
      <3>1. (IF h THEN 200 ELSE 503) \in Status
        BY <2>1
      <3> QED
        BY <1>4, <2>3, <3>1 DEF healthCheck
    <2>4. CASE corsPreflightResponse
      BY <1>4, <2>1, <2>4 DEF corsPreflightResponse
    <2> QED
      BY <1>12, <2>2, <2>3, <2>4
  <1> QED
    BY <1>1, <1>2, <1>3, <1>6, <1>7, <1>8, <1>9, <1>10, <1>11, <1>12 DEF BNext

(* A header set for a response goes out with it and with no later one, and  *)
(* the counts of the responses agree, whatever headers, types and request   *)
(* ids are given and however many responses are built.                     *)
THEOREM GoesOutOnce == BSpec => OnlyItsOwn
  <1>1. BInit => BInv
    <2>1. NoStats.counts \in [Status -> Nat]
      BY DEF NoStats
    <2>2. IsBuilder(Fresh("json")) /\ DOMAIN Fresh("json").headers = {}
      BY DEF IsBuilder, Fresh, NoHeaders
    <2>3. /\ NoStats \in [total : Nat, success : Nat, errors : Nat, counts : [Status -> Nat]]
          /\ NoStats.success + NoStats.errors = NoStats.total
      BY <2>1 DEF NoStats
    <2> QED
      BY <2>2, <2>3 DEF BInit, BInv
  <1>2. BInv /\ [BNext]_bvars => BInv' /\ BStepAllowed
    BY BStep
  <1> QED
    BY <1>1, <1>2, PTL DEF BSpec, OnlyItsOwn, BStepAllowed

-----------------------------------------------------------------------------
(* RequestHandler. The rows only grow, but for those of the database taken  *)
(* in when there are none: an index a health request has seen a job at      *)
(* stays that of the job.                                                  *)
Grown(rows) ==
    \/ rows = jobRows
    \/ \E x \in JobRow : rows = Append(jobRows, x)
    \/ jobRows = <<>> /\ rows \in Seq(JobRow)

(* The rows of the database in some order.                                  *)
LEMMA StoredAsSeq == ASSUME NEW s \in SUBSET StoredRow PROVE SetToSeq(s) \in Seq(JobRow)
  <1>1. IsFiniteSet(s)
    BY FS_Subset, HandlerAssumption
  <1>2. Cardinality(s) \in Nat /\ \E f : f \in Bijection(1 .. Cardinality(s), s)
    BY <1>1, FS_CardinalityType DEF ExistsBijection
  <1>3. \E f \in [1 .. Cardinality(s) -> s] : IsInjective(f)
    BY <1>2 DEF Bijection, Injection, IsInjective
  <1>4. SetToSeq(s) \in [1 .. Cardinality(s) -> s]
    BY <1>3 DEF SetToSeq
  <1>5. s \subseteq JobRow
    BY HandlerAssumption
  <1> QED
    BY <1>2, <1>4, <1>5

(* getAllJobs.                                                              *)
LEMMA AllJobsGrown == ASSUME NEW rows \in getAllJobs PROVE Grown(rows)
  BY StoredAsSeq DEF getAllJobs, Grown

(* getJob.                                                                  *)
LEMMA OneJobGrown == ASSUME NEW id, NEW j \in getJob(id) PROVE Grown(j.rows)
  BY HandlerAssumption DEF getJob, Grown

(* An answer that changes no row.                                           *)
LEMMA SameGrown == ASSUME NEW S, NEW o \in Unchanged(S) PROVE Grown(o.rows)
  BY DEF Unchanged, Outcome, Grown

(* An answer with the rows it leaves.                                       *)
LEMMA OutcomeGrown == ASSUME NEW a, NEW rows, Grown(rows) PROVE Grown(Outcome(a, rows).rows)
  BY DEF Outcome

(* The status of a job.                                                     *)
LEMMA StatusGrown == ASSUME NEW r, NEW o \in JobStatus(r) PROVE Grown(o.rows)
  <1> DEFINE id == extractJobIdFromPath(r.target)
  <1>1. CASE ~isValidJobId(id)
    BY <1>1, SameGrown DEF JobStatus
  <1>2. CASE isValidJobId(id)
    <2>1. PICK j \in getJob(id[1]) : \E a : o = Outcome(a, j.rows)
      BY <1>2 DEF JobStatus
    <2> QED
      BY <2>1, OneJobGrown, OutcomeGrown
  <1> QED
    BY <1>1, <1>2

(* The metrics of a job.                                                    *)
LEMMA MetricsGrown == ASSUME NEW r, NEW o \in JobMetrics(r) PROVE Grown(o.rows)
  <1> DEFINE id == extractJobIdFromPath(r.target)
  <1>1. CASE ~isValidJobId(id)
    BY <1>1, SameGrown DEF JobMetrics
  <1>2. CASE isValidJobId(id)
    <2>1. PICK j \in getJob(id[1]) : \E a : o = Outcome(a, j.rows)
      BY <1>2 DEF JobMetrics
    <2> QED
      BY <2>1, OneJobGrown, OutcomeGrown
  <1> QED
    BY <1>1, <1>2

(* The creation of a job.                                                   *)
LEMMA CreatedGrown ==
    ASSUME seconds \in 0 .. MaxSeconds, NEW r, NEW o \in CreateJob(r)
    PROVE  Grown(o.rows)
  <1> DEFINE row == [id |-> newId[seconds], status |-> "PENDING", type |-> "full_etl",
                     createdAt |-> seconds]
  <1>1. row \in JobRow
    <2>1. newId[seconds] \in STRING /\ seconds \in Int
      BY HandlerAssumption
    <2> QED
      BY <2>1 DEF JobRow, RowStatus, RowType
  <1>2. Grown(Append(jobRows, row))
    BY <1>1 DEF Grown
  <1>3. \/ \E S : o \in Unchanged(S)
        \/ \E a : o = Outcome(a, Append(jobRows, row))
    BY DEF CreateJob
  <1> QED
    BY <1>2, <1>3, SameGrown, OutcomeGrown

(* The list of the jobs.                                                    *)
LEMMA ListedGrown == ASSUME NEW r, NEW o \in ListJobs(r) PROVE Grown(o.rows)
  <1>1. \/ \E S : o \in Unchanged(S)
        \/ \E rows \in getAllJobs : \E a : o = Outcome(a, rows)
    BY DEF ListJobs
  <1> QED
    BY <1>1, SameGrown, OutcomeGrown, AllJobsGrown

(* The update of a job.                                                     *)
LEMMA UpdatedGrown == ASSUME NEW r, NEW o \in UpdateJob(r) PROVE Grown(o.rows)
  BY SameGrown DEF UpdateJob

(* The jobs for monitoring.                                                 *)
LEMMA MonitoredGrown == ASSUME NEW params, NEW o \in MonitorJobs(params) PROVE Grown(o.rows)
  <1>1. \/ \E S : o \in Unchanged(S)
        \/ \E rows \in getAllJobs : \E a : o = Outcome(a, rows)
    BY DEF MonitorJobs
  <1> QED
    BY <1>1, SameGrown, OutcomeGrown, AllJobsGrown

(* Whatever the route of a request, it only lets the rows grow.             *)
LEMMA RouteGrown ==
    ASSUME seconds \in 0 .. MaxSeconds, NEW r, NEW o \in Route(r)
    PROVE  Grown(o.rows)
  <1>1. \/ \E S : o \in Unchanged(S)
        \/ o \in handleETLJobs(r) \/ o \in handleMonitoring(r)
    BY DEF Route
  <1>2. ASSUME o \in handleETLJobs(r) PROVE Grown(o.rows)
    <2>1. \/ \E S : o \in Unchanged(S)
          \/ o \in JobStatus(r) \/ o \in JobMetrics(r) \/ o \in ListJobs(r)
          \/ o \in CreateJob(r) \/ o \in UpdateJob(r)
      BY <1>2 DEF handleETLJobs
    <2> QED
      BY <2>1, SameGrown, StatusGrown, MetricsGrown, ListedGrown, CreatedGrown, UpdatedGrown
  <1>3. ASSUME o \in handleMonitoring(r) PROVE Grown(o.rows)
    <2>1. \/ \E S : o \in Unchanged(S)
          \/ \E params : o \in MonitorJobs(params)
      BY <1>3 DEF handleMonitoring, MonitorStatus, MonitorMetrics
    <2> QED
      BY <2>1, SameGrown, MonitoredGrown
  <1> QED
    BY <1>1, <1>2, <1>3, SameGrown

(* A row whose id no other row has.                                        *)
Alone(rows, i) == \A j \in DOMAIN rows : rows[j].id = rows[i].id => j = i

(* The jobs that had started when h began, and that no cancel has hit since, *)
(* have rows, and such a row, if it is alone, is one the reads to come will  *)
(* find unless h has seen it.                                               *)
Fits(h, rows) ==
    \A id \in h.begun :
        /\ \E i \in DOMAIN rows : rows[i].id = id
        /\ \A i \in DOMAIN rows : rows[i].id = id /\ Alone(rows, i) =>
              /\ rows[i].status \in {"RUNNING", "COMPLETED", "FAILED"}
              /\ h.step \in 2 .. 4 => id \in h.seen \/ rows[i].status \in {"COMPLETED", "FAILED"}
              /\ h.step \in 3 .. 4 => id \in h.seen \/ rows[i].status = "FAILED"
              /\ h.step = 4 => id \in h.seen

IsReader(h) ==
    /\ h = [at |-> "health", request |-> h.request, step |-> h.step, seen |-> h.seen,
            begun |-> h.begun]
    /\ h.step \in 0 .. 5

(* The row in the hand of the thread that runs the jobs has the status it    *)
(* set last, or a cancel has set CANCELLED since.                           *)
HandFits(hand, rows) ==
    /\ hand = [at |-> hand.at, row |-> hand.row, status |-> hand.status]
    /\ hand.at \in {"none", "taken", "started", "running", "ended"}
    /\ hand.status \in RowStatus
    /\ hand.at # "none" =>
          hand.row \in DOMAIN rows /\ rows[hand.row].status \in {hand.status, "CANCELLED"}
    /\ hand.at = "taken" => hand.status = "PENDING"
    /\ hand.at \in {"started", "running"} => hand.status = "RUNNING"
    /\ hand.at = "ended" => hand.status \in {"COMPLETED", "FAILED"}

RHInv ==
    /\ jobRows \in Seq(JobRow) /\ seconds \in 0 .. MaxSeconds
    /\ serving = [w \in Worker |-> serving[w]]
    /\ HandFits(inHand, jobRows) /\ cancelling \in {0} \union DOMAIN jobRows
    /\ \A w \in Worker : serving[w].at = "health" =>
          IsReader(serving[w]) /\ Fits(serving[w], jobRows)

(* Rows that grow fit what a health request has seen.                       *)
LEMMA GrownFits ==
    ASSUME jobRows \in Seq(JobRow), NEW rows, Grown(rows), NEW h, Fits(h, jobRows)
    PROVE  rows \in Seq(JobRow) /\ Fits(h, rows)
  <1>1. CASE rows = jobRows
    BY <1>1
  <1>2. ASSUME NEW x \in JobRow, rows = Append(jobRows, x) PROVE rows \in Seq(JobRow) /\ Fits(h, rows)
    <2>1. /\ rows \in Seq(JobRow) /\ DOMAIN jobRows \subseteq DOMAIN rows
          /\ \A i \in DOMAIN jobRows : rows[i] = jobRows[i]
      BY <1>2
    <2>2. ASSUME NEW id \in h.begun, NEW i \in DOMAIN rows, rows[i].id = id, Alone(rows, i)
          PROVE  i \in DOMAIN jobRows /\ jobRows[i] = rows[i] /\ Alone(jobRows, i)
      <3>1. PICK j \in DOMAIN jobRows : jobRows[j].id = id
        BY DEF Fits
      <3>2. j = i
        BY <2>1, <2>2, <3>1 DEF Alone
      <3> QED
        BY <2>1, <2>2, <3>1, <3>2 DEF Alone
    <2>3. ASSUME NEW id \in h.begun PROVE \E i \in DOMAIN rows : rows[i].id = id
      BY <2>1 DEF Fits
    <2> QED
      BY <2>1, <2>2, <2>3 DEF Fits
  <1>3. CASE jobRows = <<>> /\ rows \in Seq(JobRow)
    <2>1. h.begun = {}
      BY <1>3 DEF Fits
    <2> QED
      BY <1>3, <2>1 DEF Fits
  <1> QED
    BY <1>1, <1>2, <1>3 DEF Grown

(* Setting the status of a row keeps the rest of it.                        *)
LEMMA StatusSet ==
    ASSUME NEW x \in JobRow, NEW s \in RowStatus
    PROVE  LET y == [x EXCEPT !.status = s] IN y \in JobRow /\ y.id = x.id /\ y.status = s
  BY DEF JobRow

(* The rows that a status is set in keep the rest, and the others all.      *)
LEMMA SetRows ==
    ASSUME jobRows \in Seq(JobRow), NEW S, NEW s \in RowStatus, SetStatus(S, s)
    PROVE  /\ jobRows' \in Seq(JobRow) /\ DOMAIN jobRows' = DOMAIN jobRows
           /\ \A j \in DOMAIN jobRows :
                 /\ jobRows'[j].id = jobRows[j].id
                 /\ j \in S => jobRows'[j].status = s
                 /\ j \notin S => jobRows'[j] = jobRows[j]
  <1>1. /\ DOMAIN jobRows' = DOMAIN jobRows
        /\ jobRows' = [j \in DOMAIN jobRows |-> jobRows'[j]]
        /\ \A j \in DOMAIN jobRows :
              jobRows'[j] = IF j \in S THEN [jobRows[j] EXCEPT !.status = s] ELSE jobRows[j]
    BY DEF SetStatus
  <1>2. \A j \in DOMAIN jobRows : jobRows[j] \in JobRow
    OBVIOUS
  <1>3. ASSUME NEW j \in DOMAIN jobRows
        PROVE  /\ jobRows'[j] \in JobRow /\ jobRows'[j].id = jobRows[j].id
               /\ j \in S => jobRows'[j].status = s
               /\ j \notin S => jobRows'[j] = jobRows[j]
    <2>1. CASE j \notin S
      BY <1>1, <1>2, <2>1
    <2>2. CASE j \in S
      <3> DEFINE x == jobRows[j]
      <3>1. jobRows'[j] = [x EXCEPT !.status = s] /\ x \in JobRow
        BY <1>1, <1>2, <2>2
      <3>2. [x EXCEPT !.status = s] \in JobRow /\ [x EXCEPT !.status = s].id = x.id
            /\ [x EXCEPT !.status = s].status = s
        <4> HIDE DEF x
        <4> QED
          BY <3>1, StatusSet
      <3> QED
        BY <2>2, <3>1, <3>2
    <2> QED
      BY <2>1, <2>2
  <1>4. Len(jobRows) \in Nat /\ DOMAIN jobRows = 1 .. Len(jobRows)
    OBVIOUS
  <1>5. jobRows' \in [1 .. Len(jobRows) -> JobRow]
    BY <1>1, <1>3, <1>4
  <1> QED
    BY <1>1, <1>3, <1>4, <1>5

(* What a health request has seen fits rows in which a status is set, if     *)
(* each row it has to find is at its end now and was RUNNING, or has the     *)
(* status it had.                                                           *)
LEMMA SetFits ==
    ASSUME jobRows \in Seq(JobRow), NEW h, Fits(h, jobRows), NEW S, NEW s \in RowStatus,
           SetStatus(S, s),
           \A i \in S \intersect DOMAIN jobRows : jobRows[i].id \in h.begun /\ Alone(jobRows, i) =>
              \/ jobRows[i].status = "RUNNING" /\ s \in {"COMPLETED", "FAILED"}
              \/ jobRows[i].status = s
    PROVE  Fits(h, jobRows')
  <1>1. /\ DOMAIN jobRows' = DOMAIN jobRows
        /\ \A j \in DOMAIN jobRows :
              /\ jobRows'[j].id = jobRows[j].id
              /\ j \in S => jobRows'[j].status = s
              /\ j \notin S => jobRows'[j] = jobRows[j]
    BY SetRows
  <1>2. ASSUME NEW id \in h.begun PROVE \E i \in DOMAIN jobRows' : jobRows'[i].id = id
    BY <1>1 DEF Fits
  <1>3. ASSUME NEW i \in DOMAIN jobRows, Alone(jobRows', i) PROVE Alone(jobRows, i)
    BY <1>1, <1>3 DEF Alone
  <1>4. ASSUME NEW id \in h.begun, NEW i \in DOMAIN jobRows', jobRows'[i].id = id,
               Alone(jobRows', i)
        PROVE  /\ jobRows'[i].status \in {"RUNNING", "COMPLETED", "FAILED"}
               /\ h.step \in 2 .. 4 =>
                     id \in h.seen \/ jobRows'[i].status \in {"COMPLETED", "FAILED"}
               /\ h.step \in 3 .. 4 => id \in h.seen \/ jobRows'[i].status = "FAILED"
               /\ h.step = 4 => id \in h.seen
    <2>1. i \in DOMAIN jobRows /\ jobRows[i].id = id /\ Alone(jobRows, i)
      BY <1>1, <1>3, <1>4
    <2>2. /\ jobRows[i].status \in {"RUNNING", "COMPLETED", "FAILED"}
          /\ h.step \in 2 .. 4 => id \in h.seen \/ jobRows[i].status \in {"COMPLETED", "FAILED"}
          /\ h.step \in 3 .. 4 => id \in h.seen \/ jobRows[i].status = "FAILED"
          /\ h.step = 4 => id \in h.seen
      BY <2>1 DEF Fits
    <2>3. CASE i \notin S
      BY <1>1, <2>1, <2>2, <2>3
    <2>4. CASE i \in S
      <3>1. jobRows'[i].status = s
        BY <1>1, <2>1, <2>4
      <3>2. \/ jobRows[i].status = "RUNNING" /\ s \in {"COMPLETED", "FAILED"}
            \/ jobRows[i].status = s
        BY <2>1, <2>4
      <3> QED
        BY <2>2, <3>1, <3>2
    <2> QED
      BY <2>3, <2>4
  <1> QED
    BY <1>1, <1>2, <1>4 DEF Fits

(* The handler before its first request.                                    *)
LEMMA RHInitially == RHInit => RHInv
  <1>1. ASSUME RHInit, NEW w \in Worker PROVE serving[w].at # "health"
    BY <1>1 DEF RHInit, Idle
  <1>2. RHInit => HandFits(inHand, jobRows)
    BY DEF RHInit, HandFits, NoJob, RowStatus
  <1> QED
    BY <1>1, <1>2, HandlerAssumption DEF RHInit, RHInv

(* A step of one worker.                                                   *)
LEMMA WorkerStep ==
    ASSUME RHInv, NEW w \in Worker, NEW h, serving' = [serving EXCEPT ![w] = h],
           Grown(jobRows'), seconds' = seconds, UNCHANGED jobsGoOn,
           h.at = "health" => IsReader(h) /\ Fits(h, jobRows)
    PROVE  RHInv'
  <1> USE DEF jobsGoOn
  <1>4. HandFits(inHand', jobRows') /\ cancelling' \in {0} \union DOMAIN jobRows'
    <2>1. inHand' = inHand /\ cancelling' = cancelling
      OBVIOUS
    <2>2. \/ /\ DOMAIN jobRows \subseteq DOMAIN jobRows'
             /\ \A i \in DOMAIN jobRows : jobRows'[i] = jobRows[i]
          \/ jobRows = <<>>
      <3>1. jobRows \in Seq(JobRow)
        BY DEF RHInv
      <3>2. ASSUME NEW x \in JobRow, jobRows' = Append(jobRows, x)
            PROVE  /\ DOMAIN jobRows \subseteq DOMAIN jobRows'
                   /\ \A i \in DOMAIN jobRows : jobRows'[i] = jobRows[i]
        BY <3>1, <3>2
      <3> QED
        BY <3>2 DEF Grown
    <2> QED
      BY <2>1, <2>2 DEF RHInv, HandFits
  <1>1. jobRows' \in Seq(JobRow) /\ \A g : Fits(g, jobRows) => Fits(g, jobRows')
    <2>1. Fits([begun |-> {}], jobRows)
      BY DEF Fits
    <2> QED
      BY <2>1, GrownFits DEF RHInv
  <1>2. \A v \in Worker : serving'[v] = IF v = w THEN h ELSE serving[v]
    BY DEF RHInv
  <1>3. serving' = [v \in Worker |-> serving'[v]]
    BY DEF RHInv
  <1> QED
    BY <1>1, <1>2, <1>3, <1>4 DEF RHInv

(* The thread that runs the jobs sets a status and no request goes on.       *)
LEMMA HandStep ==
    ASSUME RHInv, NEW S, NEW s \in RowStatus, SetStatus(S, s),
           serving' = serving, seconds' = seconds, cancelling' = cancelling,
           HandFits(inHand', jobRows'),
           \A i \in S \intersect DOMAIN jobRows : Alone(jobRows, i) =>
              \/ jobRows[i].status \in {"PENDING", "CANCELLED"}
              \/ jobRows[i].status = "RUNNING" /\ s \in {"COMPLETED", "FAILED"}
              \/ jobRows[i].status = s
    PROVE  RHInv'
  <1>1. jobRows' \in Seq(JobRow) /\ DOMAIN jobRows' = DOMAIN jobRows
    BY SetRows DEF RHInv
  <1>2. ASSUME NEW w \in Worker, serving[w].at = "health" PROVE Fits(serving[w], jobRows')
    <2>1. Fits(serving[w], jobRows)
      BY <1>2 DEF RHInv
    <2>2. ASSUME NEW i \in S \intersect DOMAIN jobRows, jobRows[i].id \in serving[w].begun,
                 Alone(jobRows, i)
          PROVE  \/ jobRows[i].status = "RUNNING" /\ s \in {"COMPLETED", "FAILED"}
                 \/ jobRows[i].status = s
      BY <2>1, <2>2 DEF Fits
    <2> QED
      BY <2>1, <2>2, SetFits DEF RHInv
  <1> QED
    BY <1>1, <1>2 DEF RHInv

(* A step of the thread that runs the jobs.                                 *)
LEMMA JobStep ==
    ASSUME RHInv,
           (\E i \in DOMAIN jobRows : JobTaken(i)) \/ JobStarts \/ JobEnds \/ publishJobStatusUpdate
    PROVE  RHInv'
  <1>1. jobRows \in Seq(JobRow) /\ HandFits(inHand, jobRows)
    BY DEF RHInv
  <1>2. ASSUME NEW s \in RowStatus, NEW at, Sets(s, at), inHand.at \in {"taken", "running"},
               \/ at = "started" /\ s = "RUNNING"
               \/ at = "ended" /\ s \in {"COMPLETED", "FAILED"},
               \/ jobRows[inHand.row].status \in {"PENDING", "CANCELLED"}
               \/ jobRows[inHand.row].status = "RUNNING" /\ s \in {"COMPLETED", "FAILED"}
        PROVE  RHInv'
    <2>1. /\ SetStatus({inHand.row}, s) /\ inHand.row \in DOMAIN jobRows
          /\ inHand' = [at |-> at, row |-> inHand.row, status |-> s]
          /\ serving' = serving /\ seconds' = seconds /\ cancelling' = cancelling
      BY <1>1, <1>2 DEF Sets, HandFits
    <2>2. DOMAIN jobRows' = DOMAIN jobRows /\ jobRows'[inHand.row].status = s
      BY <1>1, <2>1, SetRows
    <2>3. HandFits(inHand', jobRows')
      BY <1>2, <2>1, <2>2 DEF HandFits
    <2> QED
      BY <1>2, <2>1, <2>3, HandStep
  <1>3. ASSUME NEW i \in DOMAIN jobRows, JobTaken(i) PROVE RHInv'
    <2>1. /\ jobRows' = jobRows /\ serving' = serving /\ seconds' = seconds
          /\ cancelling' = cancelling
          /\ inHand' = [at |-> "taken", row |-> i, status |-> "PENDING"]
          /\ jobRows[i].status = "PENDING"
      BY <1>3 DEF JobTaken
    <2>2. HandFits(inHand', jobRows')
      BY <2>1 DEF HandFits, RowStatus
    <2> QED
      BY <2>1, <2>2 DEF RHInv
  <1>4. CASE JobStarts
    <2>1. /\ Sets("RUNNING", "started") /\ inHand.at = "taken"
          /\ jobRows[inHand.row].status \in {"PENDING", "CANCELLED"}
      BY <1>1, <1>4 DEF JobStarts, HandFits
    <2>2. "RUNNING" \in RowStatus
      BY DEF RowStatus
    <2>3. ASSUME NEW at, NEW s, at = "started", s = "RUNNING"
          PROVE  /\ Sets(s, at) /\ s \in RowStatus
                 /\ \/ at = "started" /\ s = "RUNNING"
                    \/ at = "ended" /\ s \in {"COMPLETED", "FAILED"}
      BY <2>1, <2>2, <2>3
    <2> QED
      BY <1>2, <2>1, <2>3
  <1>5. CASE JobEnds
    <2>1. PICK s \in {"COMPLETED", "FAILED"} : Sets(s, "ended")
      BY <1>5 DEF JobEnds
    <2>2. /\ inHand.at = "running" /\ s \in RowStatus
          /\ jobRows[inHand.row].status \in {"RUNNING", "CANCELLED"}
      BY <1>1, <1>5 DEF JobEnds, HandFits, RowStatus
    <2> QED
      BY <1>2, <2>1, <2>2
  <1>6. CASE publishJobStatusUpdate
    <2> DEFINE s == inHand.status
               S == FirstRow(jobRows[inHand.row].id)
    <2>1. /\ serving' = serving /\ seconds' = seconds /\ cancelling' = cancelling
          /\ inHand.at \in {"started", "ended"} /\ s \in RowStatus /\ inHand.row \in DOMAIN jobRows
          /\ jobRows[inHand.row].status \in {s, "CANCELLED"}
          /\ SetStatus(S, s) \/ jobRows' = jobRows
          /\ \/ inHand.at = "started" /\ inHand' = [inHand EXCEPT !.at = "running"]
             \/ inHand' = NoJob
      BY <1>1, <1>6 DEF publishJobStatusUpdate, HandFits
    <2>2. DOMAIN jobRows' = DOMAIN jobRows /\ jobRows'[inHand.row].status \in {s, "CANCELLED"}
      <3>1. CASE jobRows' = jobRows
        BY <2>1, <3>1
      <3>2. CASE SetStatus(S, s)
        <4> HIDE DEF s, S
        <4> QED
          BY <1>1, <2>1, <3>2, SetRows
      <3> QED
        BY <2>1, <3>1, <3>2
    <2>3. HandFits(inHand', jobRows')
      <3>1. CASE inHand' = NoJob
        BY <3>1 DEF NoJob, HandFits, RowStatus
      <3>2. CASE inHand.at = "started" /\ inHand' = [inHand EXCEPT !.at = "running"]
        <4>1. inHand'.at = "running" /\ inHand'.row = inHand.row /\ inHand'.status = s
          BY <1>1, <3>2 DEF HandFits
        <4> QED
          BY <1>1, <2>1, <2>2, <3>2, <4>1 DEF HandFits
      <3> QED
        BY <2>1, <3>1, <3>2
    <2>4. ASSUME NEW i \in S \intersect DOMAIN jobRows, Alone(jobRows, i) PROVE i = inHand.row
      BY <2>1, <2>4 DEF FirstRow, Alone
    <2>5. CASE SetStatus(S, s)
      <3> HIDE DEF s, S
      <3> QED
        BY <2>1, <2>3, <2>4, <2>5, HandStep
    <2>6. CASE jobRows' = jobRows
      BY <2>1, <2>3, <2>6 DEF RHInv
    <2> QED
      BY <2>1, <2>5, <2>6
  <1> QED
    BY <1>3, <1>4, <1>5, <1>6

(* cancelJob sets CANCELLED, and its job is one no request has to find.      *)
LEMMA CancelStep == ASSUME RHInv, CancelWrites PROVE RHInv'
  <1> DEFINE id == jobRows[cancelling].id
  <1>1. /\ jobRows \in Seq(JobRow) /\ cancelling \in DOMAIN jobRows
        /\ SetStatus({cancelling}, "CANCELLED") /\ "CANCELLED" \in RowStatus
        /\ inHand' = inHand /\ seconds' = seconds /\ cancelling' = 0
        /\ serving' = [w \in Worker |-> Forgotten(serving[w], id)]
    BY DEF CancelWrites, MutexFree, RHInv, RowStatus
  <1> HIDE DEF id
  <1>2. /\ jobRows' \in Seq(JobRow) /\ DOMAIN jobRows' = DOMAIN jobRows
        /\ \A j \in DOMAIN jobRows :
              IF j = cancelling THEN jobRows'[j].status = "CANCELLED" ELSE jobRows'[j] = jobRows[j]
    BY <1>1, SetRows
  <1>3. HandFits(inHand', jobRows')
    BY <1>1, <1>2 DEF RHInv, HandFits
  <1>4. ASSUME NEW w \in Worker, serving'[w].at = "health"
        PROVE  IsReader(serving'[w]) /\ Fits(serving'[w], jobRows')
    <2> DEFINE g == serving[w]
               h == [at |-> "health", request |-> g.request, step |-> g.step, seen |-> g.seen,
                     begun |-> g.begun \ {id}]
    <2>1. serving'[w] = Forgotten(g, id)
      BY <1>1
    <2>2. g.at = "health" /\ IsReader(g) /\ Fits(g, jobRows)
      BY <1>4, <2>1 DEF Forgotten, RHInv
    <2>3. serving'[w] = h
      BY <2>1, <2>2 DEF Forgotten, IsReader
    <2>4. IsReader(h)
      BY <2>2 DEF IsReader
    <2>5. Fits(h, jobRows)
      BY <2>2 DEF Fits
    <2>6. jobRows[cancelling].id \notin h.begun
      BY DEF id
    <2> HIDE DEF h
    <2>7. Fits(h, jobRows')
      BY <1>1, <2>5, <2>6, SetFits
    <2> QED
      BY <2>3, <2>4, <2>7
  <1>5. serving' = [w \in Worker |-> serving'[w]]
    BY <1>1
  <1> QED
    BY <1>1, <1>2, <1>3, <1>4, <1>5 DEF RHInv

(* Every step of the handler keeps the invariant.                           *)
LEMMA RHStep == ASSUME RHInv, [RHNext]_rhvars PROVE RHInv'
  <1>1. ASSUME NEW w \in Worker, NEW r, Receive(w, r) PROVE RHInv'
    BY <1>1, WorkerStep DEF Receive, Grown
  <1>2. ASSUME NEW w \in Worker, Respond(w) PROVE RHInv'
    BY <1>2, WorkerStep DEF Respond, Grown, Idle
  <1>3. ASSUME NEW w \in Worker, NEW a, Answer(w, a), Grown(jobRows'), seconds' = seconds,
               UNCHANGED jobsGoOn
        PROVE  RHInv'
    BY <1>3, WorkerStep DEF Answer
  <1>4. ASSUME NEW w \in Worker, AnswerHealth(w) PROVE RHInv'
    BY <1>3, <1>4 DEF AnswerHealth, Grown
  <1>5. ASSUME NEW w \in Worker, validateAndHandleRequest(w) PROVE RHInv'
    <2> DEFINE r == serving[w].request
               h == [at |-> "health", request |-> r, step |-> 0, seen |-> {},
                     begun |-> {jobRows[i].id : i \in {j \in DOMAIN jobRows :
                                   jobRows[j].status \in {"RUNNING", "COMPLETED", "FAILED"}}}]
    <2>1. seconds' = seconds /\ UNCHANGED jobsGoOn
      BY <1>5 DEF validateAndHandleRequest
    <2>2. \/ (\E a : Answer(w, a)) /\ jobRows' = jobRows
          \/ \E o \in Route(r) : Answer(w, o.answer) /\ jobRows' = o.rows
          \/ serving' = [serving EXCEPT ![w] = h] /\ jobRows' = jobRows
      BY <1>5 DEF validateAndHandleRequest, Reading
    <2>3. IsReader(h) /\ Fits(h, jobRows)
      <3>1. /\ h.step = 0
            /\ h.begun = {jobRows[i].id : i \in {j \in DOMAIN jobRows :
                              jobRows[j].status \in {"RUNNING", "COMPLETED", "FAILED"}}}
        OBVIOUS
      <3>2. IsReader(h)
        BY DEF IsReader
      <3> HIDE DEF h
      <3>3. ASSUME NEW i \in DOMAIN jobRows, Alone(jobRows, i), jobRows[i].id \in h.begun
            PROVE  jobRows[i].status \in {"RUNNING", "COMPLETED", "FAILED"}
        BY <3>1, <3>3 DEF Alone
      <3> QED
        BY <3>1, <3>2, <3>3 DEF Fits
    <2> HIDE DEF h
    <2>4. CASE \E o \in Route(r) : Answer(w, o.answer) /\ jobRows' = o.rows
      BY <1>3, <2>1, <2>4, RouteGrown DEF RHInv
    <2> QED
      BY <1>3, <2>1, <2>2, <2>3, <2>4, WorkerStep DEF Grown
  <1>6. ASSUME NEW w \in Worker, NEW h, serving' = [serving EXCEPT ![w] = h],
               NEW k \in 0 .. 5, NEW seen,
               h = [at |-> "health", request |-> serving[w].request, step |-> k,
                    seen |-> seen, begun |-> serving[w].begun],
               Grown(jobRows'), seconds' = seconds, UNCHANGED jobsGoOn, Fits(h, jobRows)
        PROVE  RHInv'
    <2>1. IsReader(h)
      BY <1>6 DEF IsReader
    <2> QED
      BY <1>6, <2>1, WorkerStep
  <1>7. ASSUME NEW w \in Worker, ReadAll(w) PROVE RHInv'
    <2> DEFINE h == [serving[w] EXCEPT !.step = 1]
    <2>1. serving' = [serving EXCEPT ![w] = h] /\ serving[w].at = "health"
      BY <1>7 DEF ReadAll
    <2>2. /\ h = [at |-> "health", request |-> serving[w].request, step |-> 1,
                  seen |-> serving[w].seen, begun |-> serving[w].begun]
          /\ serving[w].step = 0
      BY <1>7 DEF ReadAll, RHInv, IsReader
    <2>3. Grown(jobRows') /\ seconds' = seconds /\ UNCHANGED jobsGoOn
      BY <1>7, AllJobsGrown DEF ReadAll
    <2> HIDE DEF h
    <2>4. Fits(h, jobRows)
      BY <2>1, <2>2 DEF RHInv, Fits
    <2>5. 1 \in 0 .. 5 /\ 5 \in 0 .. 5
      OBVIOUS
    <2> QED
      BY <1>6, <2>1, <2>2, <2>3, <2>4, <2>5
  <1>8. ASSUME NEW w \in Worker, ReadFails(w) PROVE RHInv'
    <2> DEFINE h == [serving[w] EXCEPT !.step = 5]
    <2>1. serving' = [serving EXCEPT ![w] = h] /\ serving[w].at = "health"
      BY <1>8 DEF ReadFails
    <2>2. h = [at |-> "health", request |-> serving[w].request, step |-> 5,
               seen |-> serving[w].seen, begun |-> serving[w].begun]
      BY <1>8 DEF ReadFails, RHInv, IsReader
    <2>3. Grown(jobRows') /\ seconds' = seconds /\ UNCHANGED jobsGoOn
      BY <1>8 DEF ReadFails, Grown
    <2> HIDE DEF h
    <2>4. Fits(h, jobRows)
      BY <2>1, <2>2 DEF RHInv, Fits
    <2>5. 1 \in 0 .. 5 /\ 5 \in 0 .. 5
      OBVIOUS
    <2> QED
      BY <1>6, <2>1, <2>2, <2>3, <2>4, <2>5
  <1>9. ASSUME NEW w \in Worker, ReadStatus(w) PROVE RHInv'
    <2> DEFINE g == serving[w]
    <2>1. PICK found \in getJobsByStatus(ReadOrder[g.step]) :
              serving' = [serving EXCEPT
                  ![w] = Reading(@.request, @.step + 1, @.seen \union found, @.begun)]
      BY <1>9 DEF ReadStatus
    <2>2. g.at = "health" /\ IsReader(g) /\ Fits(g, jobRows) /\ g.step \in 1 .. 3
      BY <1>9 DEF ReadStatus, ReadOrder, RHInv
    <2> DEFINE h == [at |-> "health", request |-> g.request, step |-> g.step + 1,
                     seen |-> g.seen \union found, begun |-> g.begun]
    <2>3. serving' = [serving EXCEPT ![w] = h]
      BY <2>1 DEF Reading
    <2>4. ASSUME NEW i \in DOMAIN jobRows, jobRows[i].status = ReadOrder[g.step]
          PROVE  jobRows[i].id \in found
      BY <2>1, <2>4 DEF getJobsByStatus
    <2>5. /\ g.step = 1 => ReadOrder[g.step] = "RUNNING"
          /\ g.step = 2 => ReadOrder[g.step] = "COMPLETED"
          /\ g.step = 3 => ReadOrder[g.step] = "FAILED"
      BY DEF ReadOrder
    <2>6. Fits(h, jobRows)
      BY <2>2, <2>4, <2>5 DEF Fits
    <2>7. Grown(jobRows') /\ seconds' = seconds /\ UNCHANGED jobsGoOn
      BY <1>9 DEF ReadStatus, Grown
    <2>8. g.step + 1 \in 0 .. 5
      BY <2>2
    <2> QED
      BY <1>6, <2>3, <2>6, <2>7, <2>8
  <1>10. ASSUME NEW i \in DOMAIN jobRows, CancelFinds(i) PROVE RHInv'
    BY <1>10 DEF CancelFinds, RHInv
  <1>11. CASE Second
    BY <1>11, HandlerAssumption DEF Second, RHInv, jobsGoOn
  <1>12. CASE UNCHANGED rhvars
    BY <1>12 DEF rhvars, RHInv, jobsGoOn
  <1> QED
    BY <1>1, <1>2, <1>4, <1>5, <1>7, <1>8, <1>9, <1>10, <1>11, <1>12, JobStep, CancelStep
        DEF RHNext

(* There are finitely many rows.                                            *)
LEMMA RowsFinite == ASSUME Len(jobRows) \in Nat PROVE IsFiniteSet(1 .. Len(jobRows))
BY FS_Interval

(* No job that no cancel hits meanwhile is missed by a health request for   *)
(* moving on between two reads, for any jobs, workers and requests, with    *)
(* the test and the write of a cancel, and the writes of the thread that    *)
(* runs the jobs, in any order.                                             *)
THEOREM EveryJobCounted == RHSpec => []NoJobMissed
  <1>1. RHInv => NoJobMissed
    <2> SUFFICES ASSUME RHInv, NEW w \in Worker, serving[w].at = "health", serving[w].step = 4,
                        NEW id \in serving[w].begun, OnlyRow(id)
                 PROVE  id \in serving[w].seen
      BY DEF NoJobMissed
    <2> DEFINE rows == {i \in DOMAIN jobRows : jobRows[i].id = id}
    <2>1. IsFiniteSet(rows)
      <3>1. Len(jobRows) \in Nat /\ DOMAIN jobRows = 1 .. Len(jobRows)
        BY DEF RHInv
      <3>2. IsFiniteSet(1 .. Len(jobRows))
        BY <3>1, RowsFinite
      <3> QED
        BY <3>1, <3>2, FS_Subset
    <2>2. PICK i : rows = {i}
      BY <2>1, FS_Singleton DEF OnlyRow
    <2>3. i \in DOMAIN jobRows /\ jobRows[i].id = id /\ Alone(jobRows, i)
      BY <2>2 DEF Alone
    <2> QED
      BY <2>3 DEF RHInv, Fits
  <1> QED
    BY <1>1, RHInitially, RHStep, PTL DEF RHSpec

-----------------------------------------------------------------------------
(* RequestValidator.                                                       *)

Time == Nat

(* Of the requests of the last minute among those at the times past, each   *)
(* has a place of its own among the times remembered.                       *)
Covers(times, past) ==
    \E f \in [Recent(past) -> DOMAIN times] :
       /\ \A i \in Recent(past) : times[f[i]] = past[i]
       /\ \A i, j \in Recent(past) : f[i] = f[j] => i = j

RVInv ==
    /\ vconfig \in ValidatorConfig /\ now \in Time
    /\ DOMAIN admitted \subseteq DOMAIN rateLimitMap
    /\ \A c \in DOMAIN rateLimitMap :
          /\ rateLimitMap[c] \in Seq(Time) /\ Timestamps(admitted, c) \in Seq(Time)
          /\ Covers(rateLimitMap[c], Timestamps(admitted, c))

(* What is remembered counts at least what passed.                          *)
LEMMA CoversCounts ==
    ASSUME NEW times \in Seq(Time), NEW past \in Seq(Time), Covers(times, past)
    PROVE  /\ Cardinality(Recent(times)) \in Nat /\ Cardinality(Recent(past)) \in Nat
           /\ Cardinality(Recent(past)) <= Cardinality(Recent(times))
<1>1. /\ IsFiniteSet(Recent(times)) /\ Cardinality(Recent(times)) \in Nat
      /\ Cardinality(Recent(past)) \in Nat
  <2>1. Recent(times) \in SUBSET (DOMAIN times) /\ Recent(past) \in SUBSET (DOMAIN past)
    BY DEF Recent
  <2>2. DOMAIN times = 1..Len(times) /\ Len(times) \in Int /\ 1 \in Int
    OBVIOUS
  <2>3. IsFiniteSet(DOMAIN times)
    BY <2>2, FS_Interval
  <2>4. IsFiniteSet(Recent(times))
    BY <2>1, <2>3, FS_Subset
  <2> QED BY <2>1, <2>4, FS_CardinalityType, KeptFacts
<1>2. PICK f \in [Recent(past) -> DOMAIN times] :
         /\ \A i \in Recent(past) : times[f[i]] = past[i]
         /\ \A i, j \in Recent(past) : f[i] = f[j] => i = j
  BY DEF Covers
<1>3. \A i \in Recent(past) : f[i] \in Recent(times)
  BY <1>2 DEF Recent
<1>4. f \in Injection(Recent(past), Recent(times))
  BY <1>2, <1>3 DEF Injection, IsInjective
<1> QED BY <1>1, <1>4, FS_Injection

(* Of a client that is unknown there is nothing to remember.               *)
LEMMA CoversNothing == Covers(<<>>, <<>>)
<1>1. Recent(<<>>) = {}
  BY DEF Recent
<1>2. [i \in {} |-> 1] \in [Recent(<<>>) -> DOMAIN <<>>]
  BY <1>1
<1> QED BY <1>1, <1>2 DEF Covers

(* What is forgotten is older than a minute.                                *)
LEMMA CoversKept ==
    ASSUME NEW times \in Seq(Time), NEW past \in Seq(Time), Covers(times, past)
    PROVE  Covers(Kept(times, Recent(times)), past)
<1>0. PICK D \in SUBSET (DOMAIN times) : D = Recent(times)
  BY DEF Recent
<1> DEFINE kept == Kept(times, D)
<1>2. PICK e : Origins(times, D, kept, e)
  BY KeptOrigins
<1>3. PICK f \in [Recent(past) -> DOMAIN times] :
         /\ \A i \in Recent(past) : times[f[i]] = past[i]
         /\ \A i, j \in Recent(past) : f[i] = f[j] => i = j
  BY DEF Covers
<1>4. \A i \in Recent(past) : f[i] \in D
  BY <1>0, <1>3 DEF Recent
<1> HIDE DEF kept
<1> DEFINE g == [i \in Recent(past) |-> CHOOSE k \in DOMAIN kept : e[k] = f[i]]
<1>5. ASSUME NEW i \in Recent(past) PROVE g[i] \in DOMAIN kept /\ e[g[i]] = f[i]
  BY <1>2, <1>4 DEF Origins
<1>6. g \in [Recent(past) -> DOMAIN kept]
  BY <1>5
<1> HIDE DEF g
<1>7. \A i \in Recent(past) : kept[g[i]] = past[i]
  BY <1>2, <1>3, <1>5 DEF Origins
<1>8. \A i, j \in Recent(past) : g[i] = g[j] => i = j
  BY <1>3, <1>5
<1> QED BY <1>0, <1>6, <1>7, <1>8 DEF Covers, kept

(* A request that passes is remembered.                                     *)
LEMMA CoversAppend ==
    ASSUME NEW times \in Seq(Time), NEW past \in Seq(Time), Covers(times, past), now \in Time
    PROVE  Covers(Append(times, now), Append(past, now))
<1> DEFINE T == Append(times, now)
           P == Append(past, now)
           n == Len(times) + 1
           p == Len(past) + 1
<1>1. /\ n \in Nat \ {0} /\ p \in Nat \ {0} /\ DOMAIN times = 1..(n - 1) /\ DOMAIN past = 1..(p - 1)
      /\ DOMAIN T = 1..n /\ T[n] = now /\ \A i \in 1..(n - 1) : T[i] = times[i]
      /\ DOMAIN P = 1..p /\ P[p] = now /\ \A i \in 1..(p - 1) : P[i] = past[i]
  BY DEF Time
<1>2. PICK f \in [Recent(past) -> DOMAIN times] :
         /\ \A i \in Recent(past) : times[f[i]] = past[i]
         /\ \A i, j \in Recent(past) : f[i] = f[j] => i = j
  BY DEF Covers
<1> HIDE DEF T, P, n, p
<1>3. ASSUME NEW i \in Recent(P), i # p PROVE i \in Recent(past) /\ P[i] = past[i]
  BY <1>1, <1>3 DEF Recent
<1> DEFINE g == [i \in Recent(P) |-> IF i = p THEN n ELSE f[i]]
<1>4. ASSUME NEW i \in Recent(P)
      PROVE  g[i] \in 1..n /\ T[g[i]] = P[i] /\ (g[i] = n <=> i = p)
  <2>1. CASE i = p
    <3>1. g[i] = n
      BY <2>1
    <3> HIDE DEF g
    <3> QED BY <1>1, <2>1, <3>1
  <2>2. CASE i # p
    <3>1. i \in Recent(past) /\ f[i] \in 1..(n - 1) /\ g[i] = f[i]
      BY <1>1, <1>2, <1>3, <2>2
    <3>2. g[i] \in 1..n /\ g[i] # n
      BY <1>1, <3>1
    <3>3. T[g[i]] = times[f[i]]
      BY <1>1, <3>1
    <3> HIDE DEF g
    <3> QED BY <1>2, <1>3, <2>2, <3>1, <3>2, <3>3
  <2> QED BY <2>1, <2>2
<1>5. ASSUME NEW i \in Recent(P), NEW j \in Recent(P), g[i] = g[j] PROVE i = j
  <2>1. CASE i = p \/ j = p
    BY <1>4, <1>5, <2>1
  <2>2. CASE i # p /\ j # p
    <3>1. i \in Recent(past) /\ j \in Recent(past) /\ f[i] = f[j]
      BY <1>3, <1>5, <2>2
    <3> QED BY <1>2, <3>1
  <2> QED BY <2>1, <2>2
<1>6. g \in [Recent(P) -> DOMAIN T]
  BY <1>1, <1>4
<1> HIDE DEF g
<1> QED BY <1>4, <1>5, <1>6 DEF Covers, T, P

(* Time that passes makes fewer requests recent.                            *)
LEMMA CoversTick ==
    ASSUME NEW times \in Seq(Time), NEW past \in Seq(Time), Covers(times, past), now \in Time,
           now' = now + 1
    PROVE  Covers(times, past)'
<1>1. PICK f \in [Recent(past) -> DOMAIN times] :
         /\ \A i \in Recent(past) : times[f[i]] = past[i]
         /\ \A i, j \in Recent(past) : f[i] = f[j] => i = j
  BY DEF Covers
<1> DEFINE R == {i \in DOMAIN past : now' - past[i] < Minute}
<1>2. R = Recent(past)' /\ R \subseteq Recent(past)
  BY ValidatorAssumption DEF Recent, Time
<1> HIDE DEF R
<1> DEFINE g == [i \in R |-> f[i]]
<1>3. g \in [R -> DOMAIN times] /\ \A i \in R : g[i] = f[i]
  BY <1>1, <1>2
<1> HIDE DEF g
<1>4. \A i \in R : times[g[i]] = past[i]
  BY <1>1, <1>2, <1>3
<1>5. \A i, j \in R : g[i] = g[j] => i = j
  BY <1>1, <1>2, <1>3
<1> QED BY <1>2, <1>3, <1>4, <1>5 DEF Covers

(* What is remembered of a client, known or not, covers what passed.       *)
LEMMA Remembered ==
    ASSUME RVInv, NEW c
    PROVE  /\ Timestamps(rateLimitMap, c) \in Seq(Time) /\ Timestamps(admitted, c) \in Seq(Time)
           /\ Covers(Timestamps(rateLimitMap, c), Timestamps(admitted, c))
<1>1. CASE c \in DOMAIN rateLimitMap
  BY <1>1 DEF RVInv, Timestamps, Time
<1>2. CASE c \notin DOMAIN rateLimitMap
  <2>1. Timestamps(rateLimitMap, c) = <<>> /\ Timestamps(admitted, c) = <<>>
    BY <1>2 DEF RVInv, Timestamps
  <2> QED BY <2>1, CoversNothing
<1> QED BY <1>1, <1>2

(* What the limit lets pass, and what it remembers.                         *)
LEMMA LimitFacts ==
    ASSUME RVInv, NEW c, NEW past, past = Timestamps(admitted, c),
           NEW limit, limit = checkRateLimit(c)
    PROVE  /\ limit.ok \in BOOLEAN /\ limit.times \in Seq(Time)
           /\ limit.ok => /\ Cardinality(Recent(past)) < vconfig.maxRequestsPerMinute
                          /\ Covers(limit.times, Append(past, now))
           /\ ~limit.ok => Covers(limit.times, past)
<1>1. PICK times \in Seq(Time) : times = Timestamps(rateLimitMap, c)
  BY Remembered
<1>2. PICK D \in SUBSET (DOMAIN times) : D = Recent(times)
  BY DEF Recent
<1>3. PICK recent \in Seq(Time) : recent = Kept(times, D) /\ Len(recent) = Cardinality(D)
  BY KeptFacts
<1>4. past \in Seq(Time) /\ Covers(times, past) /\ now \in Time
        /\ vconfig.maxRequestsPerMinute \in Nat
  BY <1>1, Remembered, ValidatorAssumption DEF RVInv
<1>5. Covers(recent, past)
  BY <1>2, <1>3, <1>4, CoversKept
<1>6. /\ Cardinality(D) \in Nat /\ Cardinality(Recent(past)) \in Nat
      /\ Cardinality(Recent(past)) <= Cardinality(D)
  BY <1>2, <1>4, CoversCounts
<1>7. limit = IF Cardinality(D) >= vconfig.maxRequestsPerMinute
              THEN [ok |-> FALSE, times |-> recent]
              ELSE [ok |-> TRUE, times |-> Append(recent, now)]
  BY <1>1, <1>2, <1>3 DEF checkRateLimit
<1>8. CASE Cardinality(D) >= vconfig.maxRequestsPerMinute
  <2>1. limit.ok = FALSE /\ limit.times = recent
    BY <1>7, <1>8
  <2> QED BY <1>5, <2>1
<1>9. CASE ~(Cardinality(D) >= vconfig.maxRequestsPerMinute)
  <2>1. limit.ok = TRUE /\ limit.times = Append(recent, now)
    BY <1>7, <1>9
  <2>2. Append(recent, now) \in Seq(Time)
    BY <1>4
  <2>3. Covers(Append(recent, now), Append(past, now))
    BY <1>4, <1>5, CoversAppend
  <2>4. Cardinality(Recent(past)) < vconfig.maxRequestsPerMinute
    BY <1>4, <1>6, <1>9
  <2> QED BY <2>1, <2>2, <2>3, <2>4
<1> QED BY <1>8, <1>9

(* A step of the requests, without its restriction to the history. *)
RVStepAllowed ==
    \A c \in DOMAIN admitted' :
        Timestamps(admitted, c) # admitted'[c] =>
            Cardinality(Recent(Timestamps(admitted, c))) < vconfig.maxRequestsPerMinute

(* At first no client is known.                                            *)
LEMMA RVInitially == RVInit => RVInv
BY ValidatorAssumption DEF RVInit, RVInv, NoRequests, Time

(* A request that gets to its limit is counted, and passes only below it.  *)
LEMMA RVRequest ==
    ASSUME RVInv, NEW r, CheckRest(r), UNCHANGED <<vconfig, now>>
    PROVE  RVInv' /\ RVStepAllowed
<1> DEFINE c == extractClientIp(r)
           past == Timestamps(admitted, c)
           limit == IF vconfig.maxRequestsPerMinute = 0
                    THEN [ok |-> TRUE, times |-> Timestamps(rateLimitMap, c)]
                    ELSE checkRateLimit(c)
           admits == limit.ok /\ vconfig.maxRequestsPerMinute > 0
           past2 == IF admits THEN Append(past, now) ELSE past
<1>1. /\ rateLimitMap' = PutTimes(rateLimitMap, c, limit.times)
      /\ admitted' = IF admits THEN PutTimes(admitted, c, Append(past, now)) ELSE admitted
  BY DEF CheckRest
<1>2. /\ limit.times \in Seq(Time) /\ past2 \in Seq(Time) /\ Covers(limit.times, past2)
      /\ admits => Cardinality(Recent(past)) < vconfig.maxRequestsPerMinute
  <2>1. past \in Seq(Time) /\ now \in Time /\ vconfig.maxRequestsPerMinute \in Nat
    BY Remembered, ValidatorAssumption DEF RVInv
  <2>2. Append(past, now) \in Seq(Time)
    BY <2>1
  <2>3. CASE vconfig.maxRequestsPerMinute = 0
    <3>1. limit.times = Timestamps(rateLimitMap, c) /\ ~admits /\ past2 = past
      BY <2>3
    <3> HIDE DEF limit, past2, admits
    <3> QED BY <3>1, Remembered
  <2>4. CASE vconfig.maxRequestsPerMinute # 0
    <3>1. limit = checkRateLimit(c) /\ (admits <=> limit.ok)
      BY <2>1, <2>4
    <3>2. past2 = IF admits THEN Append(past, now) ELSE past
      OBVIOUS
    <3>3. past = Timestamps(admitted, c)
      OBVIOUS
    <3> HIDE DEF limit, past2, past, admits
    <3> QED BY <2>1, <2>2, <3>1, <3>2, <3>3, LimitFacts
  <2> QED BY <2>3, <2>4
<1>3. past2 = IF admits THEN Append(past, now) ELSE past
  OBVIOUS
<1>4. past = Timestamps(admitted, c)
  OBVIOUS
<1> HIDE DEF c, past, past2, limit, admits
<1>5. /\ DOMAIN rateLimitMap' = DOMAIN rateLimitMap \union {c}
      /\ \A d \in DOMAIN rateLimitMap' :
            rateLimitMap'[d] = IF d = c THEN limit.times ELSE rateLimitMap[d]
  BY <1>1 DEF PutTimes
<1>6. DOMAIN admitted' \subseteq DOMAIN admitted \union {c}
  BY <1>1 DEF PutTimes
<1>7. Timestamps(admitted', c) = past2
  BY <1>1, <1>3, <1>4 DEF PutTimes, Timestamps
<1>8. ASSUME NEW d, d # c PROVE Timestamps(admitted', d) = Timestamps(admitted, d)
  BY <1>1, <1>8 DEF PutTimes, Timestamps
<1>9. ASSUME NEW d \in DOMAIN rateLimitMap'
      PROVE  /\ rateLimitMap'[d] \in Seq(Time) /\ Timestamps(admitted', d) \in Seq(Time)
             /\ Covers(rateLimitMap'[d], Timestamps(admitted', d))
  <2>1. CASE d = c
    BY <1>2, <1>5, <1>7, <2>1
  <2>2. CASE d # c
    <3>1. d \in DOMAIN rateLimitMap /\ rateLimitMap'[d] = rateLimitMap[d]
      BY <1>5, <2>2
    <3> QED BY <1>8, <2>2, <3>1 DEF RVInv, Time
  <2> QED BY <2>1, <2>2
<1>10. RVInv'
  <2>1. ASSUME NEW d \in DOMAIN rateLimitMap'
        PROVE  Covers(rateLimitMap[d], Timestamps(admitted, d))'
    <3>1. PICK past3 : past3 = Timestamps(admitted', d)
      OBVIOUS
    <3>2. Timestamps(admitted, d)' = past3
      BY <3>1 DEF Timestamps
    <3>3. Recent(past3) = {i \in DOMAIN past3 : now' - past3[i] < Minute}
      BY DEF Recent
    <3>4. Recent(Timestamps(admitted, d))' = Recent(past3)
      BY <3>2, <3>3 DEF Recent
    <3>5. Covers(rateLimitMap'[d], past3)
      BY <1>9, <3>1
    <3> QED BY <3>2, <3>4, <3>5 DEF Covers
  <2>2. \A d \in DOMAIN rateLimitMap' : Timestamps(admitted, d)' \in Seq(Time)
    BY <1>9 DEF Timestamps
  <2> QED BY <1>5, <1>6, <1>9, <2>1, <2>2 DEF RVInv, Time
<1>11. RVStepAllowed
  <2> SUFFICES ASSUME NEW d \in DOMAIN admitted', Timestamps(admitted, d) # admitted'[d]
               PROVE  Cardinality(Recent(Timestamps(admitted, d))) < vconfig.maxRequestsPerMinute
    BY DEF RVStepAllowed
  <2>1. Timestamps(admitted', d) = admitted'[d]
    BY DEF Timestamps
  <2>2. d = c /\ admits
    BY <1>3, <1>4, <1>7, <1>8, <2>1
  <2> QED BY <1>2, <1>4, <2>2
<1> QED BY <1>10, <1>11

(* A step that leaves the requests alone. *)
LEMMA RVFrame ==
    ASSUME RVInv, UNCHANGED <<rateLimitMap, admitted>>, vconfig' \in ValidatorConfig,
           now' = now \/ now' = now + 1
    PROVE  RVInv' /\ RVStepAllowed
<1>1. ASSUME NEW c \in DOMAIN rateLimitMap
      PROVE  Covers(rateLimitMap[c], Timestamps(admitted, c))' /\ Timestamps(admitted, c)' \in Seq(Time)
  <2>1. PICK times \in Seq(Time), past \in Seq(Time) :
           times = rateLimitMap[c] /\ past = Timestamps(admitted, c)
    BY DEF RVInv, Time
  <2>2. Covers(times, past) /\ now \in Time
    BY <2>1 DEF RVInv, Time
  <2>3. Covers(times, past)'
    <3>1. CASE now' = now
      BY <2>2, <3>1 DEF Covers, Recent
    <3>2. CASE now' = now + 1
      BY <2>2, <3>2, CoversTick
    <3> QED BY <3>1, <3>2
  <2>4. rateLimitMap[c]' = times /\ Timestamps(admitted, c)' = past
    BY <2>1 DEF Timestamps
  <2>5. Recent(Timestamps(admitted, c))' = Recent(past)'
    BY <2>4 DEF Recent
  <2> QED BY <2>1, <2>3, <2>4, <2>5 DEF Covers
<1>2. now' \in Time
  BY DEF RVInv, Time
<1>3. RVInv'
  <2>1. DOMAIN admitted' \subseteq DOMAIN rateLimitMap' /\ rateLimitMap' = rateLimitMap
    BY DEF RVInv
  <2>2. \A c \in DOMAIN rateLimitMap : rateLimitMap[c] \in Seq(Time)
    BY DEF RVInv
  <2> QED BY <1>1, <1>2, <2>1, <2>2 DEF RVInv
<1>4. RVStepAllowed
  BY DEF RVStepAllowed, Timestamps
<1> QED BY <1>3, <1>4

(* Every step of the validator keeps what is remembered.                   *)
LEMMA RVStep == ASSUME RVInv, [RVNext]_rvvars PROVE RVInv' /\ RVStepAllowed
<1>0. vconfig \in ValidatorConfig
  BY DEF RVInv
<1>1. ASSUME NEW r \in Validated, validateRequest(r) PROVE RVInv' /\ RVStepAllowed
  <2>1. UNCHANGED <<vconfig, now>> /\ (RefuseShape(r) \/ CheckRest(r))
    BY <1>1 DEF validateRequest
  <2>2. CASE RefuseShape(r)
    <3>1. UNCHANGED <<vconfig, now, rateLimitMap, admitted>>
      BY <2>1, <2>2 DEF RefuseShape
    <3> QED BY <1>0, <3>1, RVFrame
  <2>3. CASE CheckRest(r)
    BY <2>1, <2>3, RVRequest
  <2> QED BY <2>1, <2>2, <2>3
<1>2. ASSUME NEW c \in ValidatorConfig, updateValidator(c) PROVE RVInv' /\ RVStepAllowed
  BY <1>2, RVFrame DEF updateValidator
<1>3. CASE resetValidatorStats \/ UNCHANGED rvvars
  BY <1>0, <1>3, RVFrame DEF resetValidatorStats, rvvars
<1>4. CASE ValidatorTick
  BY <1>0, <1>4, RVFrame DEF ValidatorTick
<1> QED BY <1>1, <1>2, <1>3, <1>4 DEF RVNext

(* For any configurations, clients and changes of the limit while the      *)
(* validator runs: a request passes only when fewer than the limit of the  *)
(* moment passed in the minute before it.                                  *)
THEOREM LimitPerMinute == RVSpec => WithinMinute
<1>1. RVInv /\ [RVNext]_rvvars => RVInv' /\ RVStepAllowed
  BY RVStep
<1> QED BY <1>1, RVInitially, PTL DEF RVSpec, WithinMinute, RVStepAllowed

-----------------------------------------------------------------------------
(* SecurityValidator. The requests of a client that are remembered.         *)
Stored(c) == IF c \in DOMAIN rateLimitStore THEN rateLimitStore[c] ELSE <<>>

(* s is what p ends in, from a on, and what comes before is older than m.   *)
EndOf(s, p, a, m) ==
    /\ a \in 1..(Len(p) + 1)
    /\ s = SubSeq(p, a, Len(p))
    /\ \A i \in 1..(a - 1) : p[i] < m

(* Of each client the end of what passed is remembered, all of the last two *)
(* minutes among it.                                                       *)
SVInv ==
    /\ ticks \in Nat
    /\ passed \in [Sender -> Seq(Time)]
    /\ DOMAIN rateLimitStore \subseteq Sender
    /\ \A c \in Sender :
          /\ Ascends(passed[c]) /\ \A i \in DOMAIN passed[c] : passed[c][i] <= ticks
          /\ \E a \in 1..(Len(passed[c]) + 1) : EndOf(Stored(c), passed[c], a, ticks - KeptFor)

(* The end of a queue, element by element.                                  *)
LEMMA EndFacts ==
    ASSUME NEW S, NEW q \in Seq(S), NEW b \in 1..(Len(q) + 1)
    PROVE  /\ SubSeq(q, b, Len(q)) \in Seq(S) /\ Len(SubSeq(q, b, Len(q))) = Len(q) - b + 1
           /\ \A k \in 1..(Len(q) - b + 1) : SubSeq(q, b, Len(q))[k] = q[b + k - 1]
OBVIOUS

(* To drop what is older than m leaves an end.                              *)
LEMMA EndKept ==
    ASSUME NEW p \in Seq(Time), Ascends(p), NEW m \in Int,
           NEW a \in 1..(Len(p) + 1), NEW s \in Seq(Time), EndOf(s, p, a, m),
           NEW D \in SUBSET (DOMAIN s), D = {i \in DOMAIN s : s[i] >= m}
    PROVE  \E b \in 1..(Len(p) + 1) :
              EndOf(Kept(s, D), p, b, m) /\ \A i \in b..Len(p) : p[i] >= m
<1> DEFINE n == Len(p)
<1>1. /\ n \in Nat /\ DOMAIN p = 1..n /\ p \in Seq(Int) /\ \A i \in 1..n : p[i] \in Int
  BY DEF Time
<1>2. PICK b \in 1..(n + 1) : {i \in DOMAIN p : p[i] >= m} = b..n
  BY <1>1, LargeAtEnd
<1>3. /\ a \in 1..(n + 1) /\ \A i \in 1..(a - 1) : p[i] < m
      /\ s = SubSeq(p, a, n)
  BY DEF EndOf
<1>4. /\ s \in Seq(Time) /\ Len(s) = n - a + 1 /\ DOMAIN s = 1..(n - a + 1)
      /\ \A i \in 1..(n - a + 1) : s[i] = p[a + i - 1]
  BY <1>1, <1>3
<1> HIDE DEF n
<1>5. a <= b
  <2> SUFFICES ASSUME b < a PROVE FALSE
    BY <1>1, <1>2, <1>3
  <2>1. b \in b..n /\ b \in 1..(a - 1)
    BY <1>1, <1>2, <1>3
  <2>2. p[b] >= m /\ p[b] < m
    BY <1>2, <1>3, <2>1
  <2> QED BY <1>1, <1>2, <1>3, <2>2
<1> DEFINE c == b - a + 1
<1>6. c \in 1..(Len(s) + 1)
  BY <1>1, <1>2, <1>3, <1>4, <1>5
<1>7. D = c..Len(s)
  <2>1. ASSUME NEW i \in 1..(n - a + 1) PROVE s[i] >= m <=> i >= c
    <3>1. a + i - 1 \in 1..n /\ s[i] = p[a + i - 1]
      BY <1>1, <1>3, <1>4
    <3>2. p[a + i - 1] >= m <=> a + i - 1 \in b..n
      BY <1>1, <1>2, <3>1
    <3> QED BY <1>1, <1>2, <1>3, <3>1, <3>2
  <2>2. D = {i \in 1..(n - a + 1) : i >= c}
    BY <1>4, <2>1
  <2> QED BY <1>1, <1>2, <1>3, <1>4, <1>6, <2>2
<1> DEFINE r == Kept(s, D)
<1>8. r = SubSeq(s, c, Len(s))
  <2> HIDE DEF c
  <2> QED BY <1>4, <1>6, <1>7, KeptEnd
<1>9. SubSeq(s, c, Len(s)) = SubSeq(p, b, n)
  <2>1. SubSeq(s, c, Len(s)) = [k \in 1..(Len(s) - c + 1) |-> s[c + k - 1]]
    BY <1>1, <1>2, <1>3, <1>4, <1>5
  <2>2. SubSeq(p, b, n) = [k \in 1..(n - b + 1) |-> p[b + k - 1]]
    BY <1>1, <1>2
  <2>3. Len(s) - c + 1 = n - b + 1
    BY <1>1, <1>2, <1>3, <1>4
  <2>4. ASSUME NEW k \in 1..(n - b + 1) PROVE s[c + k - 1] = p[b + k - 1]
    <3>1. c + k - 1 \in 1..(n - a + 1) /\ a + (c + k - 1) - 1 = b + k - 1
      BY <1>1, <1>2, <1>3, <1>5
    <3> HIDE DEF c
    <3> QED BY <1>4, <3>1
  <2> HIDE DEF c
  <2> QED BY <2>1, <2>2, <2>3, <2>4
<1>10. EndOf(r, p, b, m)
  <2>1. ASSUME NEW i \in 1..(b - 1) PROVE p[i] < m
    <3>1. i \in 1..n /\ i \notin b..n
      BY <1>1, <1>2
    <3>2. ~(p[i] >= m)
      BY <1>1, <1>2, <3>1
    <3> QED BY <1>1, <3>1, <3>2
  <2> HIDE DEF r, c
  <2> QED BY <1>2, <1>8, <1>9, <2>1 DEF EndOf, n
<1>11. \A i \in b..n : p[i] >= m
  BY <1>2
<1> QED BY <1>2, <1>10, <1>11 DEF n

(* Nothing is kept of nothing. *)
LEMMA KeptOfNothing == ASSUME NEW D, D = {} PROVE Kept(<<>>, D) = <<>>
<1>1. Cardinality(D) = 0
  BY FS_EmptySet
<1>2. 1..0 = {}
  OBVIOUS
<1>3. Kept(<<>>, D)
        = [k \in 1..0 |-> <<>>[CHOOSE i \in D : Cardinality({j \in D : j <= i}) = k]]
  BY <1>1 DEF Kept
<1> QED BY <1>2, <1>3

(* The clean-up filters the times of every client.                          *)
LEMMA Cleaned ==
    ASSUME NEW c, NEW store, store = cleanupExpiredRateLimitEntries
    PROVE  /\ DOMAIN store \subseteq DOMAIN rateLimitStore
           /\ (IF c \in DOMAIN store THEN store[c] ELSE <<>>) = Kept(Stored(c), Unexpired(Stored(c)))
<1> DEFINE kept(d) == Kept(rateLimitStore[d], Unexpired(rateLimitStore[d]))
<1>1. store = [d \in {x \in DOMAIN rateLimitStore : kept(x) # <<>>} |-> kept(d)]
  BY DEF cleanupExpiredRateLimitEntries
<1>2. CASE c \in DOMAIN rateLimitStore
  <2>1. Kept(Stored(c), Unexpired(Stored(c))) = kept(c)
    BY <1>2 DEF Stored
  <2> HIDE DEF kept
  <2> QED BY <1>1, <1>2, <2>1
<1>3. CASE c \notin DOMAIN rateLimitStore
  <2>1. Stored(c) = <<>> /\ Unexpired(<<>>) = {}
    BY <1>3 DEF Stored, Unexpired
  <2>2. Kept(Stored(c), Unexpired(Stored(c))) = <<>>
    BY <2>1, KeptOfNothing
  <2> HIDE DEF kept
  <2> QED BY <1>1, <1>3, <2>2
<1> QED BY <1>1, <1>2, <1>3

(* The requests that passed in a window, as far as the last two minutes reach. *)
WindowOf(p, o) == InWindow(p, o) \intersect Unexpired(p)

(* In the end that is remembered as many requests are in a window as passed *)
(* in it in the last two minutes.                                          *)
LEMMA WindowCounted ==
    ASSUME NEW p \in Seq(Time), NEW s \in Seq(Time), NEW b, EndOf(s, p, b, ticks - KeptFor),
           \A i \in b..Len(p) : p[i] >= ticks - KeptFor, ticks \in Nat, NEW o \in RateOptions
    PROVE  Cardinality(InWindow(s, o)) = Cardinality(WindowOf(p, o))
<1> DEFINE n == Len(p)
           f == [i \in WindowOf(p, o) |-> i - b + 1]
<1>1. /\ n \in Nat /\ DOMAIN p = 1..n /\ \A i \in 1..n : p[i] \in Nat
      /\ b \in 1..(n + 1) /\ s = SubSeq(p, b, n) /\ \A i \in 1..(b - 1) : p[i] < ticks - KeptFor
      /\ \A i \in b..n : p[i] >= ticks - KeptFor
  BY DEF EndOf, Time
<1>2. KeptFor \in Nat /\ o.window \in Nat
  BY SecurityAssumption
<1>3. /\ Len(s) = n - b + 1 /\ DOMAIN s = 1..(n - b + 1)
      /\ \A i \in 1..(n - b + 1) : s[i] = p[b + i - 1]
  BY <1>1
<1> HIDE DEF n
<1>4. ASSUME NEW i \in WindowOf(p, o) PROVE i \in b..n /\ i - b + 1 \in InWindow(s, o)
  <2>1. i \in 1..n /\ p[i] > ticks - o.window /\ p[i] >= ticks - KeptFor
    BY <1>1 DEF WindowOf, InWindow, Unexpired
  <2>2. ~(p[i] < ticks - KeptFor)
    BY <1>1, <1>2, <2>1
  <2>3. i \in b..n
    BY <1>1, <2>1, <2>2
  <2>4. i - b + 1 \in 1..(n - b + 1) /\ b + (i - b + 1) - 1 = i
    BY <1>1, <2>3
  <2>5. s[i - b + 1] = p[i]
    BY <1>3, <2>4
  <2> QED BY <1>3, <2>1, <2>3, <2>4, <2>5 DEF InWindow
<1>5. ASSUME NEW k \in InWindow(s, o)
      PROVE  b + k - 1 \in WindowOf(p, o) /\ (b + k - 1) - b + 1 = k
  <2>1. k \in 1..(n - b + 1) /\ s[k] > ticks - o.window
    BY <1>3 DEF InWindow
  <2>2. b + k - 1 \in b..n /\ b + k - 1 \in 1..n /\ (b + k - 1) - b + 1 = k
    BY <1>1, <2>1
  <2>3. p[b + k - 1] > ticks - o.window /\ p[b + k - 1] >= ticks - KeptFor
    BY <1>1, <1>3, <2>1, <2>2
  <2> QED BY <1>1, <2>2, <2>3 DEF WindowOf, InWindow, Unexpired
<1>6. f \in Bijection(WindowOf(p, o), InWindow(s, o))
  <2>1. \A i, j \in WindowOf(p, o) : f[i] = f[j] => i = j
    BY <1>1, <1>4
  <2>2. f \in [WindowOf(p, o) -> InWindow(s, o)]
    BY <1>4
  <2>3. \A k \in InWindow(s, o) : \E i \in WindowOf(p, o) : f[i] = k
    BY <1>5
  <2> HIDE DEF f
  <2> QED BY <2>1, <2>2, <2>3 DEF Bijection, Injection, IsInjective, Surjection
<1>7. IsFiniteSet(WindowOf(p, o))
  <2>1. IsFiniteSet(1..n)
    BY <1>1, FS_Interval
  <2>2. WindowOf(p, o) \in SUBSET (1..n)
    BY <1>1 DEF WindowOf, InWindow
  <2> QED BY <2>1, <2>2, FS_Subset
<1>8. ExistsBijection(WindowOf(p, o), InWindow(s, o))
  <2> HIDE DEF f
  <2> QED BY <1>6 DEF ExistsBijection
<1> QED BY <1>7, <1>8, FS_Bijection

(* What passed, p, and what is remembered of it, s, with one more time x at  *)
(* the end: q and r.                                                       *)
Longer(p, s, b, m, x, q, r, D) ==
    /\ b \in 1..(Len(p) + 1) /\ EndOf(s, p, b, m) /\ \A i \in b..Len(p) : p[i] >= m
    /\ x >= m /\ q = Append(p, x) /\ r = Append(s, x)
    /\ D = {i \in DOMAIN q : q[i] >= m}

(* A request that passes now is remembered at the end.                      *)
LEMMA EndPushed ==
    ASSUME NEW p \in Seq(Time), NEW s \in Seq(Time), NEW b, NEW m \in Int, NEW x \in Time,
           NEW q \in Seq(Time), NEW r \in Seq(Time), NEW D, Longer(p, s, b, m, x, q, r, D)
    PROVE  EndOf(r, q, b, m) /\ r = Kept(q, D)
<1> DEFINE n == Len(p)
<1>1. /\ n \in Nat /\ DOMAIN p = 1..n /\ \A i \in 1..n : p[i] \in Nat
      /\ b \in 1..(n + 1) /\ s = SubSeq(p, b, n) /\ \A i \in 1..(b - 1) : p[i] < m
  <2>1. n \in Nat /\ DOMAIN p = 1..n /\ \A i \in 1..n : p[i] \in Nat
    BY DEF Time
  <2>2. EndOf(s, p, b, m)
    BY DEF Longer
  <2> QED BY <2>1, <2>2 DEF EndOf
<1>2. /\ q \in Seq(Time) /\ Len(q) = n + 1 /\ DOMAIN q = 1..(n + 1) /\ q[n + 1] = x
      /\ \A i \in 1..n : q[i] = p[i]
  BY DEF Longer
<1>3. r = SubSeq(q, b, n + 1)
  <2>1. /\ Len(s) = n - b + 1 /\ \A k \in 1..(n - b + 1) : s[k] = p[b + k - 1]
    BY <1>1
  <2>2. /\ r \in Seq(Time) /\ Len(r) = n - b + 2 /\ r[n - b + 2] = x
        /\ \A k \in 1..(n - b + 1) : r[k] = s[k]
    BY <1>1, <2>1 DEF Longer
  <2>3. /\ SubSeq(q, b, n + 1) \in Seq(Time) /\ Len(SubSeq(q, b, n + 1)) = n - b + 2
        /\ \A k \in 1..(n - b + 2) : SubSeq(q, b, n + 1)[k] = q[b + k - 1]
    <3>1. b \in 1..(Len(q) + 1) /\ Len(q) = n + 1
      BY <1>1, <1>2
    <3>2. /\ SubSeq(q, b, Len(q)) \in Seq(Time) /\ Len(SubSeq(q, b, Len(q))) = Len(q) - b + 1
          /\ \A k \in 1..(Len(q) - b + 1) : SubSeq(q, b, Len(q))[k] = q[b + k - 1]
      BY <1>2, <3>1, EndFacts
    <3>3. Len(q) - b + 1 = n - b + 2
      BY <1>1, <3>1
    <3> HIDE DEF n
    <3> QED BY <3>1, <3>2, <3>3
  <2> DEFINE t == SubSeq(q, b, n + 1)
  <2> HIDE DEF t, n
  <2>4. ASSUME NEW k \in 1..(n - b + 2) PROVE r[k] = t[k]
    <3>1. CASE k = n - b + 2
      <4>1. b + k - 1 = n + 1
        BY <1>1, <3>1
      <4> QED BY <1>2, <2>2, <2>3, <3>1, <4>1 DEF t
    <3>2. CASE k # n - b + 2
      <4>1. k \in 1..(n - b + 1) /\ b + k - 1 \in 1..n
        BY <1>1, <3>2
      <4> QED BY <1>2, <2>1, <2>2, <2>3, <4>1 DEF t
    <3> QED BY <3>1, <3>2
  <2>5. Len(t) = Len(r) /\ \A k \in 1..Len(r) : r[k] = t[k]
    BY <2>2, <2>3, <2>4 DEF t
  <2>6. r \in Seq(Time) /\ t \in Seq(Time)
    BY <2>2, <2>3 DEF t
  <2>7. r = t
    BY <2>5, <2>6, SeqEqual
  <2> QED BY <2>7 DEF t
<1> HIDE DEF n
<1>4. ASSUME NEW i \in 1..(n + 1) PROVE q[i] >= m <=> i >= b
  <2>1. CASE i = n + 1
    BY <1>1, <1>2, <2>1 DEF Longer
  <2>2. CASE i \in 1..n
    <3>1. CASE i < b
      <4>1. i \in 1..(b - 1) /\ q[i] = p[i] /\ p[i] \in Nat
        BY <1>1, <1>2, <2>2, <3>1
      <4> QED BY <1>1, <3>1, <4>1
    <3>2. CASE i >= b
      <4>1. i \in b..Len(p) /\ q[i] = p[i]
        BY <1>1, <1>2, <2>2, <3>2 DEF n
      <4>2. \A j \in b..Len(p) : p[j] >= m
        BY DEF Longer
      <4> QED BY <3>2, <4>1, <4>2
    <3> QED BY <1>1, <2>2, <3>1, <3>2
  <2> QED BY <1>1, <2>1, <2>2
<1>5. D = b..(n + 1)
  BY <1>1, <1>2, <1>4 DEF Longer
<1>6. Kept(q, b..Len(q)) = SubSeq(q, b, Len(q))
  <2>1. b \in 1..(Len(q) + 1)
    BY <1>1, <1>2
  <2> QED BY <1>2, <2>1, KeptEnd
<1>7. EndOf(r, q, b, m)
  <2>1. \A i \in 1..(b - 1) : q[i] < m
    BY <1>1, <1>2
  <2>2. b \in 1..(Len(q) + 1)
    BY <1>1, <1>2
  <2> QED BY <1>2, <1>3, <2>1, <2>2 DEF EndOf
<1> QED BY <1>2, <1>3, <1>5, <1>6, <1>7

(* Whether a request of client c passes is decided by what passed before.   *)
Decides(c, o) == passed'[c] # passed[c] <=> Cardinality(WindowOf(passed[c], o)) < o.allowed

(* A step of the requests of clients, without its restriction to the history. *)
SVStepAllowed ==
    \A c \in Sender, o \in RateOptions : isRateLimitExceeded(c, o) => Decides(c, o)

(* What a client keeps that is remembered as the end of what passed.        *)
KeepsEnd(s, p, m) ==
    /\ Ascends(p) /\ \A i \in DOMAIN p : p[i] <= ticks
    /\ \E a \in 1..(Len(p) + 1) : EndOf(s, p, a, m)

(* At first nothing has passed, and nothing is remembered.                  *)
LEMMA SVInitially == SVInit => SVInv
<1> SUFFICES ASSUME SVInit PROVE SVInv
  OBVIOUS
<1>1. \A c \in Sender : passed[c] = <<>> /\ Stored(c) = <<>>
  BY DEF SVInit, Stored
<1>2. EndOf(<<>>, <<>>, 1, ticks - KeptFor) /\ 1 \in 1..(Len(<<>>) + 1) /\ Ascends(<<>>)
  BY DEF EndOf, Ascends
<1>3. passed \in [Sender -> Seq(Time)]
  BY DEF SVInit, Time
<1>4. ticks \in Nat /\ DOMAIN rateLimitStore \subseteq Sender
  BY DEF SVInit
<1>5. \A c \in Sender : \A i \in DOMAIN passed[c] : passed[c][i] <= ticks
  BY <1>1
<1> QED BY <1>1, <1>2, <1>3, <1>4, <1>5 DEF SVInv

(* The order of the times of a client when one more request passes.         *)
LEMMA AscendsAppend ==
    ASSUME NEW p \in Seq(Time), Ascends(p), NEW x \in Time, \A i \in DOMAIN p : p[i] <= x,
           NEW q, q = Append(p, x)
    PROVE  Ascends(q) /\ \A i \in DOMAIN q : q[i] <= x
<1> DEFINE n == Len(p)
<1>1. /\ n \in Nat /\ DOMAIN p = 1..n /\ DOMAIN q = 1..(n + 1) /\ q[n + 1] = x
      /\ \A i \in 1..n : q[i] = p[i] /\ p[i] \in Nat
  BY DEF Time
<1> HIDE DEF n
<1>2. \A i \in DOMAIN q : q[i] <= x
  BY <1>1 DEF Time
<1>3. ASSUME NEW i \in DOMAIN q, NEW j \in DOMAIN q, i <= j PROVE q[i] <= q[j]
  <2>1. CASE j = n + 1
    BY <1>1, <1>2, <2>1
  <2>2. CASE j # n + 1
    <3>1. i \in 1..n /\ j \in 1..n
      BY <1>1, <1>3, <2>2
    <3> QED BY <1>1, <1>3, <3>1 DEF Ascends
  <2> QED BY <2>1, <2>2
<1> QED BY <1>2, <1>3 DEF Ascends

(* What the clean-up leaves of a client is an end of what passed, of the    *)
(* last two minutes and nothing else.                                      *)
LEMMA CleanedEnd ==
    ASSUME SVInv, NEW c \in Sender, NEW store, store = cleanupExpiredRateLimitEntries,
           NEW t, t = IF c \in DOMAIN store THEN store[c] ELSE <<>>,
           NEW m, m = ticks - KeptFor
    PROVE  /\ t \in Seq(Time)
           /\ \E b \in 1..(Len(passed[c]) + 1) :
                 EndOf(t, passed[c], b, m) /\ \A i \in b..Len(passed[c]) : passed[c][i] >= m
<1>1. m \in Int
  BY SecurityAssumption DEF SVInv
<1>2. PICK p \in Seq(Time) : p = passed[c] /\ Ascends(p)
  BY DEF SVInv
<1>3. PICK a \in 1..(Len(p) + 1) : EndOf(Stored(c), p, a, m)
  BY <1>2 DEF SVInv
<1>4. PICK s \in Seq(Time) : s = Stored(c)
  <2>1. Stored(c) = SubSeq(p, a, Len(p))
    BY <1>3 DEF EndOf
  <2> QED BY <2>1, EndFacts
<1>5. PICK D \in SUBSET (DOMAIN s) : D = {i \in DOMAIN s : s[i] >= m} /\ D = Unexpired(s)
  BY DEF Unexpired
<1>6. t = Kept(s, D)
  BY <1>4, <1>5, Cleaned
<1>7. \E b \in 1..(Len(p) + 1) :
         EndOf(Kept(s, D), p, b, m) /\ \A i \in b..Len(p) : p[i] >= m
  <2>1. /\ EndOf(s, p, a, m) /\ Ascends(p) /\ D = {i \in DOMAIN s : s[i] >= m}
    BY <1>2, <1>3, <1>4, <1>5
  <2> QED BY ONLY <1>1, <2>1, EndKept
<1>8. Kept(s, D) \in Seq(Time)
  BY KeptFacts
<1> QED BY <1>2, <1>6, <1>7, <1>8

(* A request of a client.                                                   *)
LEMMA SVRequest ==
    ASSUME SVInv, NEW c \in Sender, NEW o \in RateOptions, isRateLimitExceeded(c, o)
    PROVE  SVInv' /\ Decides(c, o)
<1>1. PICK store, m : store = cleanupExpiredRateLimitEntries /\ m = ticks - KeptFor
  OBVIOUS
<1> DEFINE times(d) == IF d \in DOMAIN store THEN store[d] ELSE <<>>
           pass == Cardinality(InWindow(times(c), o)) < o.allowed
           next == IF pass THEN Append(times(c), ticks) ELSE times(c)
<1>2. /\ rateLimitStore' = [d \in DOMAIN store \union {c} |-> IF d = c THEN next ELSE store[d]]
      /\ passed' = IF pass THEN [passed EXCEPT ![c] = Append(@, ticks)] ELSE passed
      /\ ticks' = ticks
  BY <1>1 DEF isRateLimitExceeded
<1>3. /\ ticks \in Time /\ m \in Int /\ m <= ticks /\ KeptFor \in Nat
      /\ passed \in [Sender -> Seq(Time)]
  BY <1>1, SecurityAssumption DEF SVInv, Time
<1>4. DOMAIN store \subseteq Sender
  BY <1>1, Cleaned DEF SVInv
<1>5. ASSUME NEW d \in Sender
      PROVE  /\ times(d) \in Seq(Time)
             /\ \E b \in 1..(Len(passed[d]) + 1) :
                  EndOf(times(d), passed[d], b, m) /\ \A i \in b..Len(passed[d]) : passed[d][i] >= m
  <2>1. PICK t : t = times(d)
    OBVIOUS
  <2> QED BY <1>1, <2>1, CleanedEnd
<1>6. PICK b \in 1..(Len(passed[c]) + 1) :
         EndOf(times(c), passed[c], b, m) /\ \A i \in b..Len(passed[c]) : passed[c][i] >= m
  BY <1>5
<1>7. PICK p \in Seq(Time), s \in Seq(Time) :
         /\ p = passed[c] /\ s = times(c)
         /\ Ascends(p) /\ \A i \in DOMAIN p : p[i] <= ticks
  BY <1>3, <1>5 DEF SVInv
<1>8. ASSUME NEW d \in Sender PROVE Stored(d)' = IF d = c THEN next ELSE times(d)
  <2>1. Stored(d)' = IF d \in DOMAIN rateLimitStore' THEN rateLimitStore'[d] ELSE <<>>
    BY DEF Stored
  <2> HIDE DEF next
  <2> QED BY <1>2, <2>1
<1>9. rateLimitStore'[c] = next
  <2> HIDE DEF next
  <2> QED BY <1>2
<1>10. /\ KeepsEnd(next, passed'[c], m)
       /\ passed'[c] \in Seq(Time)
  <2>1. CASE ~pass
    <3>1. next = s /\ passed'[c] = p
      BY <1>2, <1>7, <2>1
    <3> HIDE DEF next, times, pass
    <3> QED BY <1>6, <1>7, <2>1, <3>1 DEF KeepsEnd
  <2>2. CASE pass
    <3>0. passed'[c] = Append(p, ticks) /\ next = Append(s, ticks)
      BY <1>2, <1>3, <1>7, <2>2
    <3> HIDE DEF next, times, pass
    <3>1. PICK q \in Seq(Time) : q = Append(p, ticks)
      <4>1. Append(p, ticks) \in Seq(Time)
        BY <1>3, AppendProperties
      <4> QED BY <4>1
    <3>2. passed'[c] = q /\ next = Append(s, ticks)
      BY <3>0, <3>1
    <3>3. EndOf(s, p, b, m) /\ b \in 1..(Len(p) + 1) /\ \A i \in b..Len(p) : p[i] >= m
      BY <1>6, <1>7
    <3>4. PICK r \in Seq(Time) : r = Append(s, ticks) /\ r = next
      <4>1. Append(s, ticks) \in Seq(Time)
        BY <1>3, AppendProperties
      <4> QED BY <3>2, <4>1
    <3>7. PICK D \in SUBSET (DOMAIN q) : D = {i \in DOMAIN q : q[i] >= m} /\ D = Unexpired(q)
      BY <1>1 DEF Unexpired
    <3>5. EndOf(r, q, b, m) /\ r = Kept(q, D)
      <4>1. ticks \in Time /\ ticks >= m /\ m \in Int
        BY <1>3 DEF Time
      <4>2. PICK x \in Time, y \in Int, a \in 1..(Len(p) + 1) : x = ticks /\ y = m /\ a = b
        BY <3>3, <4>1
      <4>3. Longer(p, s, a, y, x, q, r, D)
        BY <3>1, <3>3, <3>4, <3>7, <4>1, <4>2 DEF Longer
      <4>4. EndOf(r, q, a, y) /\ r = Kept(q, D)
        BY ONLY <4>3, EndPushed
      <4> QED BY <4>2, <4>4
    <3>6. Ascends(q) /\ \A i \in DOMAIN q : q[i] <= ticks
      BY <1>3, <1>7, <3>1, AscendsAppend
    <3>8. b \in 1..(Len(q) + 1)
      BY <3>5 DEF EndOf
    <3> QED BY <3>2, <3>4, <3>5, <3>6, <3>7, <3>8 DEF KeepsEnd
  <2> QED BY <2>1, <2>2
<1>11. ASSUME NEW d \in Sender, d # c
       PROVE  passed'[d] = passed[d] /\ KeepsEnd(times(d), passed[d], m)
  <2>1. passed'[d] = passed[d]
    BY <1>2, <1>3, <1>11
  <2> HIDE DEF times
  <2> QED BY <1>5, <2>1 DEF SVInv, KeepsEnd
<1>12. pass <=> Cardinality(WindowOf(passed[c], o)) < o.allowed
  <2>1. /\ EndOf(s, p, b, ticks - KeptFor) /\ ticks \in Nat
        /\ \A i \in b..Len(p) : p[i] >= ticks - KeptFor
    <3> HIDE DEF times
    <3> QED BY <1>1, <1>3, <1>6, <1>7 DEF Time
  <2>2. Cardinality(InWindow(s, o)) = Cardinality(WindowOf(p, o))
    BY <2>1, WindowCounted
  <2>3. pass <=> Cardinality(InWindow(s, o)) < o.allowed
    BY <1>7
  <2> HIDE DEF pass, times
  <2> QED BY <1>7, <2>2, <2>3
<1>13. SVInv'
  <2>1. \A d \in Sender : passed'[d] \in Seq(Time)
    <3> HIDE DEF next, times, pass
    <3> QED BY <1>3, <1>10, <1>11
  <2>2. passed' \in [Sender -> Seq(Time)]
    <3>1. DOMAIN passed' = Sender /\ passed' = [d \in Sender |-> passed'[d]]
      BY <1>2, <1>3
    <3> QED BY <2>1, <3>1
  <2>3. DOMAIN rateLimitStore' \subseteq Sender
    <3> HIDE DEF next
    <3> QED BY <1>2, <1>4
  <2>4. ASSUME NEW d \in Sender PROVE KeepsEnd(Stored(d)', passed'[d], m)
    <3> HIDE DEF next, times, pass
    <3> QED BY <1>8, <1>10, <1>11
  <2>5. (ticks - KeptFor)' = m
    BY <1>1, <1>2
  <2>6. ASSUME NEW d \in Sender
        PROVE  /\ Ascends(passed'[d]) /\ \A i \in DOMAIN passed'[d] : passed'[d][i] <= ticks'
               /\ \E a \in 1..(Len(passed'[d]) + 1) : EndOf(Stored(d)', passed'[d], a, m)
    BY <1>2, <2>4 DEF KeepsEnd
  <2>7. ticks' \in Nat
    BY <1>2, <1>3 DEF Time
  <2> HIDE DEF next, times, pass
  <2> QED BY <2>2, <2>3, <2>5, <2>6, <2>7 DEF SVInv
<1>14. passed'[c] # passed[c] <=> pass
  <2>1. ASSUME pass PROVE passed'[c] # passed[c]
    <3>1. passed'[c] = Append(p, ticks)
      BY <1>2, <1>3, <1>7, <2>1
    <3>2. Len(Append(p, ticks)) = Len(p) + 1 /\ Len(p) \in Nat
      BY <1>3, <1>7
    <3> HIDE DEF pass
    <3> QED BY <1>7, <3>1, <3>2
  <2>2. ASSUME ~pass PROVE passed'[c] = passed[c]
    BY <1>2, <2>2
  <2> HIDE DEF pass
  <2> QED BY <2>1, <2>2
<1>15. Decides(c, o)
  <2> HIDE DEF pass
  <2> QED BY <1>12, <1>14 DEF Decides
<1> QED BY <1>13, <1>15

(* A step that leaves the requests alone; a tick makes more of them old.    *)
LEMMA SVFrame ==
    ASSUME SVInv, UNCHANGED <<rateLimitStore, passed>>, ticks' = ticks \/ ticks' = ticks + 1
    PROVE  SVInv'
<1>1. ticks \in Nat /\ ticks' \in Nat /\ KeptFor \in Nat
  BY SecurityAssumption DEF SVInv
<1>2. ASSUME NEW c \in Sender
      PROVE  /\ Ascends(passed[c]) /\ \A i \in DOMAIN passed[c] : passed[c][i] <= ticks'
             /\ \E a \in 1..(Len(passed[c]) + 1) :
                   EndOf(Stored(c), passed[c], a, ticks' - KeptFor)
  <2>1. PICK p \in Seq(Time) : p = passed[c] /\ Ascends(p) /\ \A i \in DOMAIN p : p[i] <= ticks
    BY DEF SVInv
  <2>2. PICK a \in 1..(Len(p) + 1) : EndOf(Stored(c), p, a, ticks - KeptFor)
    BY <2>1 DEF SVInv
  <2>3. \A i \in DOMAIN p : p[i] \in Nat
    BY DEF Time
  <2>4. \A i \in 1..(a - 1) : i \in DOMAIN p
    BY <2>2
  <2>5. \A i \in 1..(a - 1) : p[i] < ticks' - KeptFor
    BY <1>1, <2>2, <2>3, <2>4 DEF EndOf
  <2>6. EndOf(Stored(c), p, a, ticks' - KeptFor)
    BY <2>2, <2>5 DEF EndOf
  <2>7. \A i \in DOMAIN p : p[i] <= ticks'
    BY <1>1, <2>1, <2>3
  <2> QED BY <2>1, <2>2, <2>6, <2>7
<1>3. \A c \in Sender : Stored(c)' = Stored(c)
  BY DEF Stored
<1>4. SVInv'
  <2>1. passed' \in [Sender -> Seq(Time)] /\ DOMAIN rateLimitStore' \subseteq Sender
    BY DEF SVInv
  <2> QED BY <1>1, <1>2, <1>3, <2>1 DEF SVInv
<1> QED BY <1>4

(* Every step of the security validator keeps the ends remembered, and each *)
(* request is decided by them.                                             *)
LEMMA SVStep == ASSUME SVInv, [SVNext]_svvars PROVE SVInv' /\ SVStepAllowed
<1>1. ASSUME NEW c \in Sender, NEW o \in RateOptions, isRateLimitExceeded(c, o)
      PROVE  SVInv' /\ Decides(c, o)
  BY <1>1, SVRequest
<1>2. ASSUME SecurityTick PROVE SVInv'
  BY <1>2, SVFrame DEF SecurityTick
<1>3. ASSUME UNCHANGED svvars PROVE SVInv'
  BY <1>3, SVFrame DEF svvars
<1>4. SVInv'
  BY <1>1, <1>2, <1>3 DEF SVNext
<1>5. SVStepAllowed
  BY <1>1 DEF SVStepAllowed
<1> QED BY <1>4, <1>5

(* For any limits and windows, longer than what is remembered or not, and   *)
(* any clients: whatever was asked before, a request passes exactly if fewer *)
(* than the limit passed in its window in the last two minutes.            *)
THEOREM HistoryRemembered == SVSpec => HistoryKept
<1>1. SVInv /\ [SVNext]_svvars => SVInv' /\ SVStepAllowed
  BY SVStep
<1>2. SVStepAllowed
      => \A c \in Sender, o \in RateOptions : isRateLimitExceeded(c, o) =>
            (passed'[c] # passed[c]
             <=> Cardinality(InWindow(passed[c], o) \intersect Unexpired(passed[c])) < o.allowed)
  BY DEF SVStepAllowed, Decides, WindowOf
<1> QED BY <1>1, <1>2, SVInitially, PTL DEF SVSpec, HistoryKept

-----------------------------------------------------------------------------
(* WebSocketFilterManager. A call that changes connections works on one of   *)
(* them and has others before it.                                          *)
Involves(r, c) ==
    /\ r.at \notin {"idle", "answered"} /\ r.call.op \in Changes
    /\ c = r.call.peer \/ c \in ToSet(r.call.rest)

Preferred(stored, c) == IF c \in DOMAIN stored THEN stored[c] ELSE NoFilters
Reachable(c) == wsRunning /\ peers[c] = "open"

(* What a change that looks at nothing leaves.                              *)
Result(call) ==
    CASE call.op \in {"set", "update"} -> filtersFromJson(call.body)
      [] call.op = "given" -> call.given
      [] OTHER -> NoFilters

(* How far a call has come with connection c, whose filters are f and whose *)
(* preferences are p.                                                      *)
Stage(r, c, f, p) ==
    IF c # r.call.peer THEN f = p
    ELSE /\ r.at \in {"exists", "find", "change"} => f = p
         /\ r.at = "changed" /\ r.call.op \notin {"add", "remove"} => f = Result(r.call)
         /\ r.at = "copy" => r.copy.jobIds = f.jobIds
         /\ r.at = "store" => r.copy = f

GoodCall(call) ==
    /\ call.op \in Changes \cup {"get", "test"}
    /\ call.peer \in Peer /\ call.rest \in Seq(Peer)
    /\ call.op \notin {"given", "forget"} => call.rest = <<>>
    /\ call.op = "given" => AreFilters(call.given)

GoodRequest(r) ==
    /\ r.at \in {"idle", "exists", "find", "test", "change", "changed", "read", "copy",
                 "store", "write", "answered"}
    /\ r.at \notin {"idle", "answered"} => GoodCall(r.call)
    /\ r.at \in {"change", "changed", "store"} => r.call.op \in Changes
    /\ r.at \in {"test", "write"} => r.call.op \notin Changes
    /\ r.at \in {"read", "copy"} => r.call.op \in {"get", "add", "remove"}
    /\ r.at = "store" /\ r.call.op \in {"clear", "forget"} => r.copy = NoFilters

FilterTypes ==
    /\ filters = [c \in Peer |-> filters[c]]
    /\ \A c \in Peer : AreFilters(filters[c])
    /\ request = [t \in FilterThread |-> request[t]]
    /\ \A t \in FilterThread : GoodRequest(request[t])
    /\ \A name \in DOMAIN filterTemplates : AreFilters(filterTemplates[name])
    /\ alone \subseteq Peer

(* One call at a time works on a connection in alone, and its stage tells    *)
(* how filters and preferences compare; without a call they are the same.   *)
AloneOn(c) ==
    /\ \A t, u \in FilterThread : Involves(request[t], c) /\ Involves(request[u], c) => t = u
    /\ Reachable(c) =>
          /\ (\A t \in FilterThread : ~Involves(request[t], c)) =>
                filters[c] = Preferred(storedPreferences, c)
          /\ \A t \in FilterThread : Involves(request[t], c) =>
                Stage(request[t], c, filters[c], Preferred(storedPreferences, c))

FilterInv == FilterTypes /\ \A c \in alone : AloneOn(c)

(* Nothing has been asked for.                                             *)
LEMMA FMInitially == FMInit => FilterInv
<1> SUFFICES ASSUME FMInit PROVE FilterInv
  OBVIOUS
<1>1. AreFilters(NoFilters)
  BY DEF AreFilters, NoFilters
<1>2. \A name \in DOMAIN filterTemplates : AreFilters(filterTemplates[name])
  BY DEF FMInit, DefaultTemplates, AreFilters, NoFilters
<1>3. FilterTypes
  BY <1>1, <1>2 DEF FMInit, FilterTypes, GoodRequest, NoRequest
<1>4. \A c \in Peer : AloneOn(c)
  BY DEF FMInit, AloneOn, Involves, NoRequest, Preferred
<1> QED
  BY <1>3, <1>4 DEF FMInit, FilterInv

(* A thread takes the next step of its call: it takes up no connection that *)
(* it did not have, and leaves one that it had as its stage asks for.       *)
Moves(t, r, c) ==
    /\ request' = [request EXCEPT ![t] = r]
    /\ UNCHANGED <<wsRunning, peers>>
    /\ Involves(r, c) => Involves(request[t], c)
    /\ ~Involves(request[t], c) =>
          /\ filters'[c] = filters[c]
          /\ Preferred(storedPreferences', c) = Preferred(storedPreferences, c)
    /\ /\ Reachable(c) /\ Involves(request[t], c)
       /\ Stage(request[t], c, filters[c], Preferred(storedPreferences, c))
       => IF Involves(r, c)
          THEN Stage(r, c, filters'[c], Preferred(storedPreferences', c))
          ELSE filters'[c] = Preferred(storedPreferences', c)

(* After such a step a connection is still worked on by one call at a time. *)
LEMMA MovesAlone ==
    ASSUME FilterTypes, NEW t \in FilterThread, NEW r, NEW c, AloneOn(c), Moves(t, r, c)
    PROVE  AloneOn(c)'
<1>1. /\ request'[t] = r
      /\ \A u \in FilterThread : u # t => request'[u] = request[u]
  BY DEF Moves, FilterTypes
<1>2. \A u \in FilterThread : Involves(request'[u], c) => Involves(request[u], c)
  BY <1>1 DEF Moves
<1>3. ASSUME NEW u \in FilterThread, NEW v \in FilterThread,
             Involves(request'[u], c), Involves(request'[v], c)
      PROVE  u = v
  BY <1>2, <1>3 DEF AloneOn
<1>4. Reachable(c)' => Reachable(c)
  BY DEF Moves, Reachable
<1>5. ASSUME Reachable(c)', \A u \in FilterThread : ~Involves(request'[u], c)
      PROVE  filters'[c] = Preferred(storedPreferences', c)
  <2>1. CASE Involves(request[t], c)
    BY <1>1, <1>4, <1>5, <2>1 DEF Moves, AloneOn
  <2>2. CASE ~Involves(request[t], c)
    <3>1. \A u \in FilterThread : ~Involves(request[u], c)
      BY <1>1, <1>5, <2>2
    <3> QED
      BY <1>4, <1>5, <2>2, <3>1 DEF Moves, AloneOn
  <2> QED
    BY <2>1, <2>2
<1>6. ASSUME Reachable(c)', NEW u \in FilterThread, Involves(request'[u], c)
      PROVE  Stage(request'[u], c, filters'[c], Preferred(storedPreferences', c))
  <2>1. CASE u = t
    BY <1>1, <1>2, <1>4, <1>6, <2>1 DEF Moves, AloneOn
  <2>2. CASE u # t
    <3>1. Involves(request[u], c) /\ ~Involves(request[t], c)
      BY <1>2, <1>6, <2>2 DEF AloneOn
    <3> QED
      BY <1>1, <1>4, <1>6, <2>2, <3>1 DEF Moves, AloneOn
  <2> QED
    BY <2>1, <2>2
<1> QED
  BY <1>3, <1>5, <1>6 DEF AloneOn

(* Most steps change the request alone.                                     *)
LEMMA GoKeeps ==
    ASSUME FilterInv, NEW t \in FilterThread, NEW r, Go(t, r), GoodRequest(r),
           alone' \subseteq alone, \A c \in alone' : Moves(t, r, c)
    PROVE  FilterInv'
<1>1. FilterTypes'
  BY DEF FilterInv, FilterTypes, Go
<1>2. \A c \in alone' : AloneOn(c)'
  BY MovesAlone DEF FilterInv
<1> QED
  BY <1>1, <1>2 DEF FilterInv

(* One that is asked for works on connections that no other call changes,   *)
(* or these are not counted on any more.                                   *)
LEMMA AskKeeps ==
    ASSUME FilterInv, NEW t \in FilterThread, NEW call, GoodCall(call), Ask(t, call)
    PROVE  FilterInv'
<1> DEFINE r == [at |-> "exists", call |-> call]
<1>1. request' = [request EXCEPT ![t] = r] /\ request[t].at = "idle"
  BY DEF Ask
<1>2. GoodRequest(r)
  BY DEF GoodRequest, GoodCall, Changes
<1>3. alone' \subseteq alone
  BY DEF Ask
<1>4. FilterTypes'
  BY <1>1, <1>2, <1>3 DEF FilterInv, FilterTypes, Ask
<1>5. ASSUME NEW c \in alone' PROVE AloneOn(c)'
  <2>1. ~Involves(request[t], c)
    BY <1>1 DEF Involves
  <2>2. AloneOn(c)
    BY <1>3 DEF FilterInv
  <2>3. /\ request'[t] = r
        /\ \A u \in FilterThread : u # t => request'[u] = request[u]
    BY <1>1 DEF FilterInv, FilterTypes
  <2>4. UNCHANGED <<wsRunning, peers, filters, storedPreferences>>
    BY DEF Ask
  <2>5. CASE ~Involves(r, c)
    <3>1. Moves(t, r, c)
      BY <1>1, <2>1, <2>4, <2>5 DEF Moves
    <3> QED
      BY <2>2, <3>1, MovesAlone DEF FilterInv
  <2>6. CASE Involves(r, c)
    <3>1. call.op \in Changes /\ (c = call.peer \/ c \in ToSet(call.rest))
      BY <2>6 DEF Involves
    <3>2. Changing(c) = {}
      BY <3>1 DEF Ask
    <3>3. \A u \in FilterThread : ~Involves(request[u], c)
      BY <3>2 DEF Changing, Involves
    <3>4. \A u \in FilterThread : Involves(request'[u], c) => u = t
      BY <2>3, <3>3
    <3>5. Reachable(c) => filters[c] = Preferred(storedPreferences, c)
      BY <2>2, <3>3 DEF AloneOn
    <3>6. Reachable(c) => Stage(r, c, filters[c], Preferred(storedPreferences, c))
      BY <3>5 DEF Stage
    <3> QED
      BY <2>3, <2>4, <2>6, <3>4, <3>6 DEF AloneOn, Reachable
  <2> QED
    BY <2>5, <2>6
<1> QED
  BY <1>4, <1>5 DEF FilterInv


(* A list of connections names some of them.                                *)
LEMMA IdsAreSeq == ASSUME NEW ids \in SetToSeqs(Peer) PROVE ids \in Seq(Peer) /\ ids # <<>>
<1> DEFINE n == Cardinality(Peer)
<1>1. n \in Nat /\ n # 0
  BY FilterAssumption, FS_CardinalityType, FS_EmptySet
<1>2. ids \in [1 .. n -> Peer]
  BY DEF SetToSeqs
<1> HIDE DEF n
<1>3. ids \in Seq(Peer)
  BY <1>1, <1>2
<1>4. Len(ids) = n
  BY <1>1, <1>2, <1>3
<1> QED
  BY <1>1, <1>3, <1>4

(* The connections of a list are its first and those that follow.           *)
LEMMA HeadFirst ==
    ASSUME NEW ids \in Seq(Peer), ids # <<>>
    PROVE  /\ Head(ids) \in Peer /\ Tail(ids) \in Seq(Peer)
           /\ ToSet(ids) = {Head(ids)} \union ToSet(Tail(ids))
<1>1. /\ Head(ids) \in Peer /\ Tail(ids) \in Seq(Peer) /\ Len(ids) \in Nat \ {0}
      /\ DOMAIN ids = 1 .. Len(ids) /\ DOMAIN Tail(ids) = 1 .. Len(Tail(ids))
  OBVIOUS
<1>2. Len(Tail(ids)) = Len(ids) - 1 /\ Head(ids) = ids[1]
      /\ \A i \in 1 .. Len(Tail(ids)) : Tail(ids)[i] = ids[i + 1]
  OBVIOUS
<1>3. ASSUME NEW x \in ToSet(ids) PROVE x \in {Head(ids)} \union ToSet(Tail(ids))
  <2>1. PICK i \in 1 .. Len(ids) : x = ids[i]
    BY <1>3 DEF ToSet
  <2>2. CASE i = 1
    BY <1>2, <2>1, <2>2
  <2>3. CASE i # 1
    <3>1. i - 1 \in DOMAIN Tail(ids) /\ Tail(ids)[i - 1] = x
      BY <1>1, <1>2, <2>1, <2>3
    <3>2. x \in ToSet(Tail(ids))
      BY <3>1, Zenon DEF ToSet
    <3> QED
      BY <3>2
  <2> QED
    BY <2>2, <2>3
<1>4. ASSUME NEW x \in {Head(ids)} \union ToSet(Tail(ids)) PROVE x \in ToSet(ids)
  <2>1. CASE x = Head(ids)
    BY <1>1, <1>2, <2>1 DEF ToSet
  <2>2. CASE x \in ToSet(Tail(ids))
    <3>1. PICK i \in 1 .. Len(Tail(ids)) : x = Tail(ids)[i]
      BY <1>1, <2>2 DEF ToSet
    <3>2. i + 1 \in 1 .. Len(ids) /\ x = ids[i + 1]
      BY <1>1, <1>2, <3>1
    <3> QED
      BY <3>2 DEF ToSet
  <2> QED
    BY <1>4, <2>1, <2>2
<1> QED
  BY <1>1, <1>3, <1>4

(* What is asked of the manager is a call on connections it may know.       *)
LEMMA AsksAreGood ==
    ASSUME FilterTypes
    PROVE  /\ \A c \in Peer :
                 /\ GoodCall(Call("get", c)) /\ GoodCall(Call("clear", c))
                 /\ \A text : /\ GoodCall(WithBody("set", c, text))
                              /\ GoodCall(WithBody("update", c, text))
                 /\ \A m : GoodCall([op |-> "test", peer |-> c, rest |-> <<>>, message |-> m])
                 /\ \A list, v : /\ GoodCall(OnList("add", c, list, v))
                                 /\ GoodCall(OnList("remove", c, list, v))
                 /\ \A name \in DOMAIN filterTemplates :
                       GoodCall(Several("given", <<c>>, filterTemplates[name]))
           /\ \A ids \in SetToSeqs(Peer) :
                 /\ \A g \in GivenFilters : GoodCall(Several("given", ids, g))
                 /\ GoodCall(Several("forget", ids, NoFilters))
<1> USE DEF GoodCall, Changes
<1>1. ASSUME NEW c \in Peer
      PROVE  /\ GoodCall(Call("get", c)) /\ GoodCall(Call("clear", c))
             /\ \A text : /\ GoodCall(WithBody("set", c, text))
                          /\ GoodCall(WithBody("update", c, text))
             /\ \A m : GoodCall([op |-> "test", peer |-> c, rest |-> <<>>, message |-> m])
             /\ \A list, v : /\ GoodCall(OnList("add", c, list, v))
                             /\ GoodCall(OnList("remove", c, list, v))
  BY DEF Call, WithBody, OnList
<1>2. ASSUME NEW c \in Peer, NEW name \in DOMAIN filterTemplates
      PROVE  GoodCall(Several("given", <<c>>, filterTemplates[name]))
  <2>1. Head(<<c>>) = c /\ Tail(<<c>>) = <<>>
    OBVIOUS
  <2> QED
    BY <2>1 DEF Several, FilterTypes
<1>3. ASSUME NEW ids \in SetToSeqs(Peer)
      PROVE  /\ \A g \in GivenFilters : GoodCall(Several("given", ids, g))
             /\ GoodCall(Several("forget", ids, NoFilters))
  <2>1. Head(ids) \in Peer /\ Tail(ids) \in Seq(Peer)
    BY IdsAreSeq, HeadFirst
  <2> QED
    BY <2>1, FilterAssumption DEF Several, FilterTypes
<1> QED
  BY <1>1, <1>2, <1>3

(* A call that is done with a connection goes on with one of the others, or *)
(* ends; all that it then works on has preferences like its filters.        *)
LEMMA FinishedGood ==
    ASSUME NEW call, GoodCall(call)
    PROVE  /\ GoodRequest(Finished(call))
           /\ \A c, f : Stage(Finished(call), c, f, f)
           /\ \A c : Involves(Finished(call), c) =>
                        call.op \in Changes /\ c \in ToSet(call.rest)
<1>1. CASE call.op \notin {"given", "forget"}
  <2>1. Finished(call) = [at |-> "answered", answer |-> <<"200">>]
    BY <1>1 DEF Finished
  <2> QED
    BY <2>1 DEF GoodRequest, Stage, Involves
<1>2. CASE call.op \in {"given", "forget"} /\ call.rest = <<>>
  <2>1. Finished(call) = NoRequest
    BY <1>2 DEF Finished
  <2> QED
    BY <2>1 DEF GoodRequest, Stage, Involves, NoRequest
<1>3. CASE call.op \in {"given", "forget"} /\ call.rest # <<>>
  <2> DEFINE next == Several(call.op, call.rest, call.given)
  <2>1. Finished(call) = [at |-> "exists", call |-> next]
    BY <1>3 DEF Finished
  <2>2. /\ Head(call.rest) \in Peer /\ Tail(call.rest) \in Seq(Peer)
        /\ ToSet(call.rest) = {Head(call.rest)} \union ToSet(Tail(call.rest))
    BY <1>3, HeadFirst DEF GoodCall
  <2>3. /\ next.op = call.op /\ next.given = call.given
        /\ next.peer = Head(call.rest) /\ next.rest = Tail(call.rest)
    BY DEF Several
  <2> HIDE DEF next
  <2>4. GoodCall(next)
    BY <1>3, <2>2, <2>3 DEF GoodCall
  <2>5. GoodRequest(Finished(call))
    BY <1>3, <2>1, <2>3, <2>4 DEF GoodRequest
  <2>6. \A c, f : Stage(Finished(call), c, f, f)
    BY <2>1 DEF Stage
  <2>7. \A c : Involves(Finished(call), c) => call.op \in Changes /\ c \in ToSet(call.rest)
    BY <2>1, <2>2, <2>3 DEF Involves
  <2> QED
    BY <2>5, <2>6, <2>7
<1> QED
  BY <1>1, <1>2, <1>3


(* A step after which the filters of the connections that the call involved *)
(* are their preferences if they were before it, and that changes neither.  *)
LEMMA SettledGo ==
    ASSUME FilterInv, NEW t \in FilterThread, NEW r, Go(t, r), GoodRequest(r),
           alone' \subseteq alone,
           \A c : Involves(r, c) => Involves(request[t], c),
           \A c, f : Stage(r, c, f, f),
           \A c \in alone' : \A f, p :
              Involves(request[t], c) /\ Reachable(c) /\ Stage(request[t], c, f, p) => f = p
    PROVE  FilterInv'
<1> SUFFICES ASSUME NEW c \in alone' PROVE Moves(t, r, c)
  BY GoKeeps
<1> QED
  BY DEF Moves, Go

(* A call that changes no connection can go on anyhow.                      *)
LEMMA IdleGo ==
    ASSUME FilterInv, NEW t \in FilterThread, NEW r, Go(t, r), GoodRequest(r),
           alone' \subseteq alone, \A c : ~Involves(r, c), \A c : ~Involves(request[t], c)
    PROVE  FilterInv'
<1> SUFFICES ASSUME NEW c \in alone' PROVE Moves(t, r, c)
  BY GoKeeps
<1> QED
  BY DEF Moves, Go

(* Ending a call, with an answer or without.                                *)
LEMMA CallEnds ==
    ASSUME NEW r, r = NoRequest \/ \E answer : r = [at |-> "answered", answer |-> answer]
    PROVE  GoodRequest(r) /\ (\A c : ~Involves(r, c)) /\ \A c, f : Stage(r, c, f, f)
BY DEF GoodRequest, Involves, Stage, NoRequest

(* The request of a thread at work.                                         *)
LEMMA AtWork ==
    ASSUME FilterInv, NEW t \in FilterThread, request[t].at \notin {"idle", "answered"}
    PROVE  /\ GoodRequest(request[t]) /\ GoodCall(request[t].call)
           /\ \A c : Involves(request[t], c) <=>
                        /\ request[t].call.op \in Changes
                        /\ c = request[t].call.peer \/ c \in ToSet(request[t].call.rest)
BY DEF FilterInv, FilterTypes, GoodRequest, Involves

(* The connection is looked for, and the argument checked.                  *)
LEMMA ExistsKeeps ==
    ASSUME FilterInv, NEW t \in FilterThread, validateConnectionExists(t) \/ ExistsThrows(t)
    PROVE  FilterInv'
<1> DEFINE call == request[t].call
<1>1. request[t].at = "exists" /\ UNCHANGED alone
  BY DEF validateConnectionExists, ExistsThrows
<1>2. /\ GoodRequest(request[t]) /\ GoodCall(call)
      /\ \A c : Involves(request[t], c) <=>
                   call.op \in Changes /\ (c = call.peer \/ c \in ToSet(call.rest))
  BY <1>1, AtWork
<1>3. \A c, f, p : Stage(request[t], c, f, p) => f = p
  BY <1>1 DEF Stage
<1> DEFINE next == [at |-> IF call.op = "get" THEN "read" ELSE "find", call |-> call]
<1>4. \/ Go(t, Finished(call)) \/ Go(t, NoRequest) \/ Go(t, next)
      \/ Answered(t, <<"404">>) \/ Answered(t, <<"400">>)
  BY DEF validateConnectionExists, ExistsThrows
<1>5. CASE Go(t, Finished(call))
  <2> HIDE DEF call
  <2> QED
    BY <1>1, <1>2, <1>3, <1>5, FinishedGood, SettledGo
<1>6. CASE Go(t, NoRequest) \/ Answered(t, <<"404">>) \/ Answered(t, <<"400">>)
  <2>1. PICK r : /\ Go(t, r)
                 /\ r = NoRequest \/ \E answer : r = [at |-> "answered", answer |-> answer]
    BY <1>6 DEF Answered
  <2>2. GoodRequest(r) /\ (\A c : ~Involves(r, c)) /\ \A c, f : Stage(r, c, f, f)
    BY <2>1, CallEnds
  <2> QED
    BY <1>1, <1>3, <2>1, <2>2, SettledGo
<1>7. CASE Go(t, next)
  <2>1. GoodRequest(next)
    BY <1>2 DEF GoodRequest, Changes
  <2>2. \A c : Involves(next, c) => Involves(request[t], c)
    BY <1>2 DEF Involves
  <2>3. \A c, f : Stage(next, c, f, f)
    BY DEF Stage
  <2> HIDE DEF next
  <2> QED
    BY <1>1, <1>3, <1>7, <2>1, <2>2, <2>3, SettledGo
<1> QED
  BY <1>4, <1>5, <1>6, <1>7


(* The connection is found to be changed, or is not any more.               *)
LEMMA FindKeeps ==
    ASSUME FilterInv, NEW t \in FilterThread, Find(t)
    PROVE  FilterInv'
<1> DEFINE call == request[t].call
<1>1. request[t].at = "find" /\ UNCHANGED alone
  BY DEF Find
<1>2. /\ GoodRequest(request[t]) /\ GoodCall(call)
      /\ \A c : Involves(request[t], c) <=>
                   call.op \in Changes /\ (c = call.peer \/ c \in ToSet(call.rest))
  BY <1>1, AtWork
<1>3. \A c, f, p : Stage(request[t], c, f, p) => f = p
  BY <1>1 DEF Stage
<1> HIDE DEF call
<1>4. CASE call.op \in Changes
  <2> DEFINE r == [at |-> IF Found(call.peer) THEN "change" ELSE "changed", call |-> call]
  <2>1. Go(t, r)
    BY <1>4 DEF Find, call, Changes
  <2>2. GoodRequest(r)
    BY <1>2, <1>4 DEF GoodRequest
  <2>3. \A c : Involves(r, c) => Involves(request[t], c)
    BY <1>2 DEF Involves
  <2>4. \A c, f : Reachable(c) => Stage(r, c, f, f)
    BY DEF Stage, Reachable, Found
  <2> HIDE DEF r
  <2>5. ASSUME NEW c \in alone' PROVE Moves(t, r, c)
    BY <1>3, <2>1, <2>3, <2>4 DEF Moves, Go
  <2> QED
    BY <1>1, <2>1, <2>2, <2>5, GoKeeps
<1>5. CASE call.op \notin Changes
  <2> DEFINE r == [at |-> "test", call |-> call]
  <2>1. \A c : ~Involves(request[t], c)
    BY <1>2, <1>5
  <2>2. Answered(t, <<"false">>) \/ Go(t, r)
    BY <1>5 DEF Find, call
  <2>3. CASE Answered(t, <<"false">>)
    BY <1>1, <2>1, <2>3, CallEnds, IdleGo DEF Answered
  <2>4. CASE Go(t, r)
    <3>1. GoodRequest(r) /\ \A c : ~Involves(r, c)
      BY <1>2, <1>5 DEF GoodRequest, Involves
    <3> HIDE DEF r
    <3> QED
      BY <1>1, <2>1, <2>4, <3>1, IdleGo
  <2> QED
    BY <2>2, <2>3, <2>4
<1> QED
  BY <1>4, <1>5

(* A lock that is not had ends the call; the connection is not counted on    *)
(* any more, the others had not been begun.                                *)
LEMMA ThrowsKeeps ==
    ASSUME FilterInv, NEW t \in FilterThread, FindThrows(t)
    PROVE  FilterInv'
<1> DEFINE call == request[t].call
<1>1. request[t].at \in {"find", "read"}
  BY DEF FindThrows
<1>2. \A c : Involves(request[t], c) <=>
                call.op \in Changes /\ (c = call.peer \/ c \in ToSet(call.rest))
  BY <1>1, AtWork
<1>3. alone' \subseteq alone /\ (call.op \in Changes => call.peer \notin alone')
  BY DEF FindThrows
<1>4. PICK r : /\ Go(t, r)
               /\ r = NoRequest \/ \E answer : r = [at |-> "answered", answer |-> answer]
  BY DEF FindThrows, Answered
<1>5. GoodRequest(r) /\ (\A c : ~Involves(r, c)) /\ \A c, f : Stage(r, c, f, f)
  BY <1>4, CallEnds
<1>6. \A c \in alone' : \A f, p : Involves(request[t], c) /\ Stage(request[t], c, f, p) => f = p
  BY <1>2, <1>3 DEF Stage
<1> QED
  BY <1>3, <1>4, <1>5, <1>6, SettledGo

(* Testing, answering and going back to the caller change no connection.    *)
LEMMA AnswersKeep ==
    ASSUME FilterInv, NEW t \in FilterThread, testConnectionFilter(t) \/ Write(t) \/ Reply(t)
    PROVE  FilterInv'
<1>1. request[t].at \in {"test", "write", "answered"} /\ UNCHANGED alone
  BY DEF testConnectionFilter, Write, Reply
<1>2. \A c : ~Involves(request[t], c)
  BY <1>1 DEF Involves, FilterInv, FilterTypes, GoodRequest
<1>3. PICK r : /\ Go(t, r)
               /\ r = NoRequest \/ \E answer : r = [at |-> "answered", answer |-> answer]
  BY DEF testConnectionFilter, Write, Reply, Answered
<1>4. GoodRequest(r) /\ \A c : ~Involves(r, c)
  BY <1>3, CallEnds
<1> QED
  BY <1>1, <1>2, <1>3, <1>4, IdleGo

(* After the change: what was set is stored, what was added to is read back. *)
LEMMA ChangedKeeps ==
    ASSUME FilterInv, NEW t \in FilterThread, Changed(t)
    PROVE  FilterInv'
<1> DEFINE call == request[t].call
<1>1. request[t].at = "changed" /\ UNCHANGED alone
  BY DEF Changed
<1>2. /\ GoodRequest(request[t]) /\ GoodCall(call)
      /\ \A c : Involves(request[t], c) <=>
                   call.op \in Changes /\ (c = call.peer \/ c \in ToSet(call.rest))
  BY <1>1, AtWork
<1>3. call.op \in Changes
  BY <1>1, <1>2 DEF GoodRequest
<1>4. \A c, f, p : Stage(request[t], c, f, p) =>
                      IF c = call.peer
                      THEN call.op \notin {"add", "remove"} => f = Result(call) ELSE f = p
  BY <1>1 DEF Stage
<1> HIDE DEF call
<1> DEFINE r == IF call.op \in {"add", "remove"} THEN [at |-> "read", call |-> call]
                ELSE [at |-> "store", call |-> call, copy |-> Result(call)]
<1>5. Go(t, r)
  BY DEF Changed, Result, call
<1>6. GoodRequest(r)
  BY <1>2, <1>3 DEF GoodRequest, Result
<1>7. \A c : Involves(r, c) => Involves(request[t], c)
  BY <1>2 DEF Involves
<1>8. ASSUME NEW c, NEW f, NEW p, Stage(request[t], c, f, p) PROVE Stage(r, c, f, p)
  BY <1>4, <1>8 DEF Stage
<1>9. \A c : Involves(request[t], c) => Involves(r, c)
  BY <1>2 DEF Involves
<1> HIDE DEF r
<1>10. ASSUME NEW c \in alone' PROVE Moves(t, r, c)
  BY <1>5, <1>7, <1>8, <1>9 DEF Moves, Go
<1> QED
  BY <1>1, <1>5, <1>6, <1>10, GoKeeps

(* The list of job ids is copied, if the connection is still there.          *)
LEMMA ReadKeeps ==
    ASSUME FilterInv, NEW t \in FilterThread, getConnectionFilters(t)
    PROVE  FilterInv'
<1> DEFINE call == request[t].call
<1>1. request[t].at = "read" /\ UNCHANGED alone
  BY DEF getConnectionFilters
<1>2. /\ GoodRequest(request[t]) /\ GoodCall(call)
      /\ \A c : Involves(request[t], c) <=>
                   call.op \in Changes /\ (c = call.peer \/ c \in ToSet(call.rest))
  BY <1>1, AtWork
<1>3. call.op \in {"get", "add", "remove"}
  BY <1>1, <1>2 DEF GoodRequest
<1>4. \A c, f, p : Stage(request[t], c, f, p) => c = call.peer \/ f = p
  BY <1>1 DEF Stage
<1> HIDE DEF call
<1> DEFINE missed == [at |-> IF call.op = "get" THEN "write" ELSE "store", call |-> call,
                      copy |-> NoFilters]
           half == [at |-> "copy", call |-> call,
                    copy |-> [NoFilters EXCEPT !.jobIds = filters[call.peer].jobIds]]
<1>5. CASE ~Found(call.peer)
  <2>1. Go(t, missed)
    BY <1>5 DEF getConnectionFilters, call
  <2>2. GoodRequest(missed)
    BY <1>2, <1>3 DEF GoodRequest, Changes
  <2>3. \A c : Involves(missed, c) <=> Involves(request[t], c)
    BY <1>2, <1>3 DEF Involves, Changes
  <2>4. \A c, f, p : c # call.peer /\ f = p => Stage(missed, c, f, p)
    BY DEF Stage
  <2>5. \A c : Reachable(c) => c # call.peer
    BY <1>5 DEF Reachable, Found
  <2> HIDE DEF missed
  <2>6. ASSUME NEW c \in alone' PROVE Moves(t, missed, c)
    BY <1>4, <2>1, <2>3, <2>4, <2>5 DEF Moves, Go
  <2> QED
    BY <1>1, <2>1, <2>2, <2>6, GoKeeps
<1>6. CASE Found(call.peer)
  <2>1. Go(t, half)
    BY <1>6 DEF getConnectionFilters, call
  <2>2. GoodRequest(half)
    BY <1>2, <1>3 DEF GoodRequest
  <2>3. \A c : Involves(half, c) <=> Involves(request[t], c)
    BY <1>2 DEF Involves
  <2>4. half.copy.jobIds = filters[call.peer].jobIds
    BY DEF NoFilters
  <2>5. \A c, p : c = call.peer \/ filters[c] = p => Stage(half, c, filters[c], p)
    BY <2>4 DEF Stage
  <2> HIDE DEF half
  <2>6. ASSUME NEW c \in alone' PROVE Moves(t, half, c)
    BY <1>4, <2>1, <2>3, <2>5 DEF Moves, Go
  <2> QED
    BY <1>1, <2>1, <2>2, <2>6, GoKeeps
<1> QED
  BY <1>5, <1>6

(* The other lists are copied: as nobody changed the filters meanwhile, the  *)
(* copy is what they are.                                                  *)
LEMMA CopyKeeps ==
    ASSUME FilterInv, NEW t \in FilterThread, CopyRest(t)
    PROVE  FilterInv'
<1> DEFINE call == request[t].call
           live == filters[call.peer]
           r == [at |-> IF call.op = "get" THEN "write" ELSE "store", call |-> call,
                 copy |-> [live EXCEPT !.jobIds = request[t].copy.jobIds]]
<1>1. request[t].at = "copy" /\ UNCHANGED alone
  BY DEF CopyRest
<1>2. /\ GoodRequest(request[t]) /\ GoodCall(call)
      /\ \A c : Involves(request[t], c) <=>
                   call.op \in Changes /\ (c = call.peer \/ c \in ToSet(call.rest))
  BY <1>1, AtWork
<1>3. call.op \in {"get", "add", "remove"}
  BY <1>1, <1>2 DEF GoodRequest
<1>4. Go(t, r)
  BY DEF CopyRest
<1>5. GoodRequest(r)
  BY <1>2, <1>3 DEF GoodRequest, Changes
<1>6. \A c : Involves(r, c) <=> Involves(request[t], c)
  BY <1>2, <1>3 DEF Involves, Changes
<1>7. AreFilters(live)
  BY <1>2 DEF FilterInv, FilterTypes, GoodCall
<1>8. request[t].copy.jobIds = live.jobIds => r.copy = live
  BY <1>7 DEF AreFilters
<1>9. ASSUME NEW c, NEW p, Stage(request[t], c, filters[c], p) PROVE Stage(r, c, filters[c], p)
  BY <1>1, <1>8, <1>9 DEF Stage
<1> HIDE DEF r
<1>10. ASSUME NEW c \in alone' PROVE Moves(t, r, c)
  BY <1>4, <1>6, <1>9 DEF Moves, Go
<1> QED
  BY <1>1, <1>4, <1>5, <1>10, GoKeeps


(* Whatever is set, given or left after a change are filters.               *)
LEMMA ChangedAreFilters ==
    ASSUME NEW f, AreFilters(f), NEW call, GoodCall(call), call.op \in Changes
    PROVE  AreFilters(ChangedFilters(f, call))
<1>1. AreFilters(filtersFromJson(call.body)) /\ AreFilters(NoFilters)
  BY DEF AreFilters, filtersFromJson, NoFilters
<1>2. \A g : AreFilters([f EXCEPT ![call.list] = g])
  BY DEF AreFilters
<1>3. /\ AreFilters(addFilter(f, call.list, call.value))
      /\ AreFilters(removeFilter(f, call.list, call.value))
  BY <1>2, Zenon DEF addFilter, removeFilter
<1> HIDE DEF AreFilters
<1> QED
  BY <1>1, <1>3 DEF ChangedFilters, GoodCall, Changes

(* The change itself, of a connection that no other call changes.           *)
LEMMA ChangeKeeps ==
    ASSUME FilterInv, NEW t \in FilterThread, Change(t)
    PROVE  FilterInv'
<1> DEFINE call == request[t].call
           r == [at |-> "changed", call |-> call]
           new == ChangedFilters(filters[call.peer], call)
<1>1. /\ request[t].at = "change"
      /\ filters' = [filters EXCEPT ![call.peer] = new]
      /\ request' = [request EXCEPT ![t] = r]
      /\ UNCHANGED <<wsRunning, peers, storedPreferences, filterTemplates, calls, alone>>
  BY DEF Change
<1>2. /\ GoodRequest(request[t]) /\ GoodCall(call)
      /\ \A c : Involves(request[t], c) <=>
                   call.op \in Changes /\ (c = call.peer \/ c \in ToSet(call.rest))
  BY <1>1, AtWork
<1>3. call.op \in Changes /\ call.peer \in Peer
  BY <1>1, <1>2 DEF GoodRequest, GoodCall
<1>4. AreFilters(new)
  BY <1>2, <1>3, ChangedAreFilters DEF FilterInv, FilterTypes
<1>5. call.op \notin {"add", "remove"} => new = Result(call)
  BY <1>3 DEF ChangedFilters, Result, Changes
<1>6. \A c, f, p : Stage(request[t], c, f, p) => f = p
  BY <1>1 DEF Stage
<1> HIDE DEF call, new
<1>7. GoodRequest(r)
  BY <1>2, <1>3 DEF GoodRequest
<1>8. \A c : Involves(r, c) <=> Involves(request[t], c)
  BY <1>2 DEF Involves
<1>9. \A p : Stage(r, call.peer, new, p)
  BY <1>5 DEF Stage
<1>10. \A c, f : c # call.peer => Stage(r, c, f, f)
  BY DEF Stage
<1> HIDE DEF r
<1>11. /\ filters'[call.peer] = new
       /\ \A c \in Peer : c # call.peer => filters'[c] = filters[c]
       /\ filters' = [c \in Peer |-> filters'[c]]
  BY <1>1, <1>3 DEF FilterInv, FilterTypes
<1>12. FilterTypes'
  BY <1>1, <1>4, <1>7, <1>11 DEF FilterInv, FilterTypes
<1>13. ASSUME NEW c \in alone' PROVE AloneOn(c)'
  <2>1. c \in alone /\ c \in Peer
    BY <1>1 DEF FilterInv, FilterTypes
  <2>2. call.peer = c => Involves(request[t], c)
    BY <1>2, <1>3
  <2>3. Moves(t, r, c)
    BY <1>1, <1>6, <1>8, <1>9, <1>10, <1>11, <2>1, <2>2 DEF Moves
  <2> QED
    BY <2>1, <2>3, MovesAlone DEF FilterInv
<1> QED
  BY <1>12, <1>13 DEF FilterInv

(* What preferences are stored after a call.                                *)
LEMMA StoredAfter ==
    ASSUME NEW op, NEW stored, NEW c, NEW copy
    PROVE  /\ Preferred(Preferences(op, stored, c, copy), c) =
                 IF op \in {"clear", "forget"} THEN NoFilters ELSE copy
           /\ \A d : d # c =>
                 Preferred(Preferences(op, stored, c, copy), d) = Preferred(stored, d)
BY DEF Preferred, Preferences, Assigned

(* Storing: what is stored is what the connection has.                      *)
LEMMA StoreKeeps ==
    ASSUME FilterInv, NEW t \in FilterThread, Store(t)
    PROVE  FilterInv'
<1> DEFINE call == request[t].call
           copy == request[t].copy
           r == Finished(call)
<1>1. /\ request[t].at = "store"
      /\ storedPreferences' = Preferences(call.op, storedPreferences, call.peer, copy)
      /\ request' = [request EXCEPT ![t] = r]
      /\ UNCHANGED <<wsRunning, peers, filters, filterTemplates, calls, alone>>
  BY DEF Store
<1>2. /\ GoodRequest(request[t]) /\ GoodCall(call)
      /\ \A c : Involves(request[t], c) <=>
                   call.op \in Changes /\ (c = call.peer \/ c \in ToSet(call.rest))
  BY <1>1, AtWork
<1>3. /\ call.op \in Changes
      /\ call.op \in {"clear", "forget"} => copy = NoFilters
  BY <1>1, <1>2 DEF GoodRequest
<1>4. \A c, f, p : Stage(request[t], c, f, p) => IF c = call.peer THEN f = copy ELSE f = p
  BY <1>1 DEF Stage
<1> HIDE DEF call, copy
<1>5. /\ GoodRequest(r) /\ (\A c, f : Stage(r, c, f, f))
      /\ \A c : Involves(r, c) => Involves(request[t], c)
  BY <1>2, FinishedGood
<1> HIDE DEF r
<1>6. /\ Preferred(storedPreferences', call.peer) = copy
      /\ \A c : c # call.peer =>
            Preferred(storedPreferences', c) = Preferred(storedPreferences, c)
  BY <1>1, <1>3, StoredAfter
<1>7. FilterTypes'
  BY <1>1, <1>5 DEF FilterInv, FilterTypes
<1>8. ASSUME NEW c \in alone' PROVE AloneOn(c)'
  <2>1. c \in alone
    BY <1>1
  <2>2. call.peer = c => Involves(request[t], c)
    BY <1>2, <1>3
  <2>3. Moves(t, r, c)
    BY <1>1, <1>4, <1>5, <1>6, <2>2 DEF Moves
  <2> QED
    BY <2>1, <2>3, MovesAlone DEF FilterInv
<1> QED
  BY <1>7, <1>8 DEF FilterInv

(* Closing a connection and stopping the manager reach fewer of them.       *)
LEMMA ClosesKeep ==
    ASSUME FilterInv, UNCHANGED <<filters, storedPreferences, filterTemplates, request, alone>>,
           \A c \in Peer : Reachable(c)' => Reachable(c)
    PROVE  FilterInv'
<1>1. FilterTypes'
  BY DEF FilterInv, FilterTypes
<1>2. ASSUME NEW c \in alone' PROVE AloneOn(c)'
  BY DEF FilterInv, FilterTypes, AloneOn
<1> QED
  BY <1>1, <1>2 DEF FilterInv

(* A step of a thread.                                                     *)
LEMMA ThreadKeeps ==
    ASSUME FilterInv, NEW t \in FilterThread,
           \/ validateConnectionExists(t) \/ ExistsThrows(t) \/ Find(t) \/ FindThrows(t)
           \/ testConnectionFilter(t) \/ Change(t) \/ Changed(t) \/ getConnectionFilters(t)
           \/ CopyRest(t) \/ Store(t) \/ Write(t) \/ Reply(t)
    PROVE  FilterInv'
BY ExistsKeeps, FindKeeps, ThrowsKeeps, AnswersKeep, ChangeKeeps, ChangedKeeps, ReadKeeps,
   CopyKeeps, StoreKeeps, Zenon

(* A call is asked for.                                                    *)
LEMMA RequestKeeps ==
    ASSUME FilterInv, NEW t \in FilterThread, NEW call, Ask(t, call),
           \/ \E c \in Peer :
                 \/ call = Call("get", c) \/ call = Call("clear", c)
                 \/ \E text : call = WithBody("set", c, text) \/ call = WithBody("update", c, text)
                 \/ \E m : call = [op |-> "test", peer |-> c, rest |-> <<>>, message |-> m]
                 \/ \E list, v : \/ call = OnList("add", c, list, v)
                                 \/ call = OnList("remove", c, list, v)
                 \/ \E name \in DOMAIN filterTemplates :
                       call = Several("given", <<c>>, filterTemplates[name])
           \/ \E ids \in SetToSeqs(Peer) :
                 \/ \E g \in GivenFilters : call = Several("given", ids, g)
                 \/ call = Several("forget", ids, NoFilters)
    PROVE  FilterInv'
<1>1. FilterTypes
  BY DEF FilterInv
<1>2. GoodCall(call)
  BY <1>1, AsksAreGood, Zenon
<1> QED
  BY <1>2, AskKeeps


(* Every step keeps the invariant.                                         *)
LEMMA FMStep == FilterInv /\ [FMNext]_fmvars => FilterInv'
<1> SUFFICES ASSUME FilterInv, [FMNext]_fmvars PROVE FilterInv'
  OBVIOUS
<1>1. ASSUME NEW t \in FilterThread, NEW c \in Peer,
             \/ handleGetConnectionFilters(t, c) \/ handleClearConnectionFilters(t, c)
             \/ \E text \in FilterBody : \/ handleSetConnectionFilters(t, c, text)
                                         \/ handleUpdateConnectionFilters(t, c, text)
             \/ \E m \in TestMessages : handleTestConnectionFilter(t, c, m)
      PROVE  FilterInv'
  BY <1>1, RequestKeeps
     DEF handleGetConnectionFilters, handleClearConnectionFilters, handleSetConnectionFilters,
         handleUpdateConnectionFilters, handleTestConnectionFilter
<1>2. ASSUME NEW t \in FilterThread, NEW c \in Peer,
             \/ \E v \in JobArgument : handleAddJobFilter(t, c, v) \/ handleRemoveJobFilter(t, c, v)
             \/ \E v \in TypeArgument : \/ handleAddMessageTypeFilter(t, c, v)
                                        \/ handleRemoveMessageTypeFilter(t, c, v)
             \/ \E v \in LevelArgument : \/ handleAddLogLevelFilter(t, c, v)
                                         \/ handleRemoveLogLevelFilter(t, c, v)
      PROVE  FilterInv'
  BY <1>2, RequestKeeps
     DEF handleAddJobFilter, handleRemoveJobFilter, handleAddMessageTypeFilter,
         handleRemoveMessageTypeFilter, handleAddLogLevelFilter, handleRemoveLogLevelFilter
<1>3. ASSUME NEW t \in FilterThread, NEW c \in Peer,
             \E name \in DOMAIN filterTemplates : applyFilterTemplate(t, c, name)
      PROVE  FilterInv'
  BY <1>3, RequestKeeps DEF applyFilterTemplate
<1>4. ASSUME NEW t \in FilterThread, NEW ids \in SetToSeqs(Peer),
             \/ \E g \in GivenFilters : applyFiltersToMultipleConnections(t, ids, g)
             \/ clearFiltersFromMultipleConnections(t, ids)
      PROVE  FilterInv'
  BY <1>4, RequestKeeps
     DEF applyFiltersToMultipleConnections, clearFiltersFromMultipleConnections
<1>5. ASSUME NEW g \in GivenFilters, saveFilterTemplate("error", g) PROVE FilterInv'
  <2>1. AreFilters(g)
    BY FilterAssumption
  <2>2. \A name \in DOMAIN filterTemplates' : AreFilters(filterTemplates'[name])
    BY <1>5, <2>1 DEF saveFilterTemplate, Assigned, FilterInv, FilterTypes
  <2>3. FilterTypes'
    BY <1>5, <2>2 DEF saveFilterTemplate, FilterInv, FilterTypes
  <2>4. \A c \in alone' : AloneOn(c)'
    BY <1>5 DEF saveFilterTemplate, FilterInv, AloneOn, Reachable
  <2> QED
    BY <2>3, <2>4 DEF FilterInv
<1>6. ASSUME NEW c \in Peer, PeerCloses(c) PROVE FilterInv'
  <2>1. \A d \in Peer : Reachable(d)' => Reachable(d)
    BY <1>6 DEF PeerCloses, Reachable
  <2> QED
    BY <1>6, <2>1, ClosesKeep DEF PeerCloses
<1>7. CASE ManagerStops \/ PoolStops \/ UNCHANGED fmvars
  <2>1. \A d \in Peer : Reachable(d)' => Reachable(d)
    BY <1>7 DEF ManagerStops, PoolStops, Reachable, fmvars
  <2> QED
    BY <1>7, <2>1, ClosesKeep DEF ManagerStops, PoolStops, fmvars
<1> QED
  BY <1>1, <1>2, <1>3, <1>4, <1>5, <1>6, <1>7, ThreadKeeps, Zenon DEF FMNext

(* When no change of an open connection is under way, the preferences that  *)
(* are stored for it are its filters, as long as its changes were asked for *)
(* one after another and no lock stopped one (StoredIsLast).                *)
THEOREM StoredAreLast == FMSpec => []StoredIsLast
<1>1. FilterInv => StoredIsLast
  <2> SUFFICES ASSUME FilterInv, NEW c \in alone, wsRunning, peers[c] = "open", Changing(c) = {}
               PROVE  filters[c] = Preferred(storedPreferences, c)
    BY DEF StoredIsLast, Preferred
  <2>1. \A t \in FilterThread : ~Involves(request[t], c)
    BY DEF Changing, Involves
  <2> QED
    BY <2>1 DEF FilterInv, AloneOn, Reachable
<1> QED
  BY <1>1, FMInitially, FMStep, PTL DEF FMSpec

-----------------------------------------------------------------------------
(* Reading a flat body. A scan of the symbols goes from one state of the     *)
(* count to another (Scans); scans of texts that follow one another follow  *)
(* one another, so each piece of a flat body can be scanned on its own. The  *)
(* search for a name cannot stop before the field (Clear: in no piece before *)
(* it does the name stand between quotes), and stops there.                 *)

(* Reading a text symbol by symbol, from one state of the brackets to       *)
(* another.                                                                 *)
Scans(text, from, to) ==
    \E f : /\ f[0] = from /\ f[Len(text)] = to
           /\ \A i \in 1..Len(text) : f[i] = ScanJson(f[i - 1], text[i])

(* The largest of a set of places is found.                                 *)
LEMMA MaxIs ==
    ASSUME NEW T \in SUBSET Int, NEW x \in T, \A y \in T : y <= x
    PROVE  Max(T) = x
  <1>1. Max(T) \in T /\ \A y \in T : Max(T) >= y
    <2>1. \E z \in T : \A y \in T : z >= y
      OBVIOUS
    <2> QED BY <2>1 DEF Max
  <1> DEFINE m == Max(T)
  <1>2. m \in Int /\ x \in Int /\ m >= x /\ x >= m
    BY <1>1
  <1> HIDE DEF m
  <1>3. m = x
    BY <1>2
  <1> QED BY <1>3 DEF m

(* What the fold is at each set of places.                                  *)
Folds(f, text, from, n) ==
    f = [s \in SUBSET (1..n) |-> IF s = {} THEN from
                                 ELSE ScanJson(f[s \ {Max(s)}], text[Max(s)])]

(* The library's fold chooses a function on the sets of places; there is    *)
(* one, which takes the last place off first.                               *)
LEMMA FoldExists ==
    ASSUME NEW text, NEW from, NEW n \in Nat
    PROVE  \E f : Folds(f, text, from, n)
  <1> DEFINE Goal(k) == \E f : f = [s \in SUBSET (1..k) |->
                          IF s = {} THEN from
                          ELSE ScanJson(f[s \ {Max(s)}], text[Max(s)])]
             T == {k \in Nat : Goal(k)}
  <1>1. Goal(0)
    <2> DEFINE f == [s \in {{}} |-> from]
    <2>1. SUBSET (1..0) = {{}}
      OBVIOUS
    <2>2. f = [s \in SUBSET (1..0) |-> IF s = {} THEN from
                                       ELSE ScanJson(f[s \ {Max(s)}], text[Max(s)])]
      BY <2>1
    <2> QED BY <2>2
  <1>2. ASSUME NEW k \in Nat, Goal(k) PROVE Goal(k + 1)
    <2>1. PICK f : f = [s \in SUBSET (1..k) |-> IF s = {} THEN from
                                       ELSE ScanJson(f[s \ {Max(s)}], text[Max(s)])]
      BY <1>2
    <2> DEFINE g == [s \in SUBSET (1..(k + 1)) |->
                        IF k + 1 \in s THEN ScanJson(f[s \ {k + 1}], text[k + 1]) ELSE f[s]]
    <2>2. ASSUME NEW s \in SUBSET (1..(k + 1))
          PROVE  g[s] = IF s = {} THEN from ELSE ScanJson(g[s \ {Max(s)}], text[Max(s)])
      <3>1. CASE k + 1 \in s
        <4>1. Max(s) = k + 1
          BY <3>1, MaxIs
        <4>2. s \ {k + 1} \in SUBSET (1..k) /\ s \ {k + 1} \in SUBSET (1..(k + 1))
          OBVIOUS
        <4>3. g[s \ {k + 1}] = f[s \ {k + 1}]
          BY <4>2
        <4> QED BY <3>1, <4>1, <4>3
      <3>2. CASE k + 1 \notin s
        <4>1. s \in SUBSET (1..k)
          BY <3>2
        <4>2. g[s] = f[s]
          BY <3>2
        <4>3. s # {} => g[s \ {Max(s)}] = f[s \ {Max(s)}]
          BY <3>2
        <4> QED BY <2>1, <4>1, <4>2, <4>3
      <3> QED BY <3>1, <3>2
    <2>3. g = [s \in SUBSET (1..(k + 1)) |-> IF s = {} THEN from
                                       ELSE ScanJson(g[s \ {Max(s)}], text[Max(s)])]
      <3> HIDE DEF g
      <3>1. g = [s \in SUBSET (1..(k + 1)) |-> g[s]]
        BY DEF g
      <3> QED BY <2>2, <3>1
    <2> HIDE DEF g
    <2> QED BY <2>3
  <1> HIDE DEF Goal
  <1>3. T = Nat
    <2>1. 0 \in T /\ T \in SUBSET Nat
      BY <1>1
    <2>2. \A k \in T : k + 1 \in T
      BY <1>2
    <2> HIDE DEF T
    <2> QED BY <2>1, <2>2, SetInduction
  <1>4. Goal(n)
    BY <1>3
  <1> QED BY <1>4 DEF Goal, Folds

(* What the fold over a text returns is where reading it leads.             *)
LEMMA FoldScans ==
    ASSUME NEW S, NEW text \in Seq(S), NEW from
    PROVE  Scans(text, from, FoldLeft(ScanJson, from, text))
  <1> DEFINE n == Len(text)
             F == CHOOSE f : Folds(f, text, from, n)
             h == [i \in 0..n |-> F[1..i]]
  <1>1. DOMAIN text = 1..n /\ n \in Nat
    OBVIOUS
  <1>2. FoldLeft(ScanJson, from, text) = F[1..n]
    BY <1>1 DEF FoldLeft, MapThenFoldSet, Folds
  <1> HIDE DEF n
  <1>3. F = [s \in SUBSET (1..n) |-> IF s = {} THEN from
                                     ELSE ScanJson(F[s \ {Max(s)}], text[Max(s)])]
    <2>1. Folds(F, text, from, n)
      BY <1>1, FoldExists
    <2> HIDE DEF F
    <2> QED BY <2>1 DEF Folds
  <1> HIDE DEF F
  <1>4. h[0] = from
    BY <1>1, <1>3
  <1>5. ASSUME NEW i \in 1..n PROVE h[i] = ScanJson(h[i - 1], text[i])
    <2>1. 1..i \in SUBSET (1..n) /\ 1..i # {} /\ (1..i) \ {i} = 1..(i - 1)
      BY <1>1
    <2>2. Max(1..i) = i
      <3> DEFINE W == 1..i
      <3>1. W \in SUBSET Int /\ i \in W /\ \A y \in W : y <= i
        BY <1>1
      <3> HIDE DEF W
      <3>2. Max(W) = i
        BY <3>1, MaxIs
      <3> QED BY <3>2 DEF W
    <2>3. F[1..i] = ScanJson(F[1..(i - 1)], text[i])
      BY <1>3, <2>1, <2>2
    <2> QED BY <1>1, <2>3
  <1>6. h[n] = FoldLeft(ScanJson, from, text)
    BY <1>1, <1>2
  <1> HIDE DEF h
  <1> QED BY <1>4, <1>5, <1>6 DEF Scans, n

(* Reading two texts one after the other.                                   *)
LEMMA ScansJoin ==
    ASSUME NEW S, NEW a \in Seq(S), NEW b \in Seq(S), NEW s, NEW t, NEW u,
           Scans(a, s, t), Scans(b, t, u)
    PROVE  Scans(a \o b, s, u)
  <1> DEFINE n == Len(a)
             m == Len(b)
             c == a \o b
  <1>1. /\ n \in Nat /\ m \in Nat /\ Len(c) = n + m
        /\ \A i \in 1..n : c[i] = a[i]
        /\ \A i \in 1..m : c[n + i] = b[i]
    OBVIOUS
  <1>2. PICK f : f[0] = s /\ f[n] = t /\ \A i \in 1..n : f[i] = ScanJson(f[i - 1], a[i])
    BY DEF Scans
  <1>3. PICK g : g[0] = t /\ g[m] = u /\ \A i \in 1..m : g[i] = ScanJson(g[i - 1], b[i])
    BY DEF Scans
  <1> HIDE DEF n, m, c
  <1> DEFINE h == [i \in 0..(n + m) |-> IF i <= n THEN f[i] ELSE g[i - n]]
  <1>4. h[0] = s
    BY <1>1, <1>2
  <1>5. h[n + m] = u
    <2>1. CASE m = 0
      BY <1>1, <1>2, <1>3, <2>1
    <2>2. CASE m # 0
      <3>1. n + m \in 0..(n + m) /\ ~(n + m <= n) /\ (n + m) - n = m
        BY <1>1, <2>2
      <3> QED BY <1>3, <3>1
    <2> QED BY <2>1, <2>2
  <1>6. ASSUME NEW i \in 1..(n + m) PROVE h[i] = ScanJson(h[i - 1], c[i])
    <2>1. i \in 0..(n + m) /\ i - 1 \in 0..(n + m)
      BY <1>1
    <2>2. CASE i <= n
      <3>1. i \in 1..n /\ i - 1 <= n
        BY <1>1, <2>1, <2>2
      <3>2. h[i] = f[i] /\ h[i - 1] = f[i - 1]
        BY <2>1, <2>2, <3>1
      <3>3. c[i] = a[i]
        BY <1>1, <3>1
      <3> HIDE DEF h
      <3> QED BY <1>2, <3>1, <3>2, <3>3
    <2>3. CASE ~(i <= n)
      <3> DEFINE k == i - n
      <3>1. k \in 1..m /\ n + k = i /\ k - 1 = (i - 1) - n
        BY <1>1, <2>3
      <3>2. h[i] = g[k] /\ c[i] = b[k]
        BY <1>1, <2>1, <2>3, <3>1
      <3>3. h[i - 1] = g[k - 1]
        <4>1. CASE i - 1 = n
          <5>1. k - 1 = 0
            BY <1>1, <3>1, <4>1
          <5>2. n \in 0..(n + m) /\ n <= n
            BY <1>1
          <5>3. h[n] = f[n]
            BY <5>2
          <5> HIDE DEF h, k
          <5> QED BY <1>2, <1>3, <4>1, <5>1, <5>3
        <4>2. CASE i - 1 # n
          <5>1. ~(i - 1 <= n)
            BY <1>1, <2>3, <4>2
          <5> QED BY <2>1, <3>1, <5>1
        <4> QED BY <4>1, <4>2
      <3> HIDE DEF k, h
      <3> QED BY <1>3, <3>1, <3>2, <3>3
    <2> QED BY <2>2, <2>3
  <1> HIDE DEF h
  <1>7. Scans(c, s, u)
    BY <1>1, <1>4, <1>5, <1>6 DEF Scans
  <1> QED BY <1>7 DEF c

(* A text leads from one state to one.                                      *)
LEMMA ScansOnly ==
    ASSUME NEW S, NEW text \in Seq(S), NEW s, NEW t, NEW u, Scans(text, s, t), Scans(text, s, u)
    PROVE  t = u
  <1> DEFINE n == Len(text)
  <1>1. PICK f : f[0] = s /\ f[n] = t /\ \A i \in 1..n : f[i] = ScanJson(f[i - 1], text[i])
    BY DEF Scans
  <1>2. PICK g : g[0] = s /\ g[n] = u /\ \A i \in 1..n : g[i] = ScanJson(g[i - 1], text[i])
    BY DEF Scans
  <1>3. n \in Nat
    OBVIOUS
  <1> HIDE DEF n
  <1> DEFINE T == {i \in Nat : i <= n => f[i] = g[i]}
  <1>4. 0 \in T /\ T \in SUBSET Nat
    BY <1>1, <1>2
  <1>5. ASSUME NEW i \in T PROVE i + 1 \in T
    <2>1. ASSUME i + 1 <= n PROVE f[i + 1] = g[i + 1]
      <3>1. i + 1 \in 1..n /\ (i + 1) - 1 = i /\ f[i] = g[i]
        BY <1>3, <1>4, <2>1
      <3> HIDE DEF T
      <3> QED BY <1>1, <1>2, <3>1
    <2> QED BY <2>1
  <1>6. n \in T
    <2> HIDE DEF T
    <2> QED BY <1>3, <1>4, <1>5, SetInduction
  <1> QED BY <1>1, <1>2, <1>3, <1>6

(* A text that changes nothing.                                             *)
LEMMA ScansStay ==
    ASSUME NEW S, NEW text \in Seq(S), NEW s, \A i \in 1..Len(text) : ScanJson(s, text[i]) = s
    PROVE  Scans(text, s, s)
  <1> DEFINE f == [i \in 0..Len(text) |-> s]
  <1>1. Len(text) \in Nat
    OBVIOUS
  <1>2. f[0] = s /\ f[Len(text)] = s
    BY <1>1
  <1>3. \A i \in 1..Len(text) : f[i] = s /\ f[i - 1] = s
    BY <1>1
  <1> HIDE DEF f
  <1> QED BY <1>2, <1>3 DEF Scans

(* A text of one symbol.                                                    *)
LEMMA ScansSymbol ==
    ASSUME NEW c, NEW s
    PROVE  Scans(<<c>>, s, ScanJson(s, c))
  <1> DEFINE f == [i \in 0..1 |-> IF i = 0 THEN s ELSE ScanJson(s, c)]
             text == <<c>>
  <1>1. Len(text) = 1 /\ text[1] = c
    OBVIOUS
  <1>2. f[0] = s /\ f[1] = ScanJson(s, c)
    OBVIOUS
  <1>3. \A i \in 1..1 : i = 1
    OBVIOUS
  <1> HIDE DEF f, text
  <1>4. \A i \in 1..Len(text) : f[i] = ScanJson(f[i - 1], text[i])
    <2> SUFFICES ASSUME NEW i \in 1..Len(text) PROVE f[i] = ScanJson(f[i - 1], text[i])
      OBVIOUS
    <2>1. i = 1 /\ i - 1 = 0
      BY <1>1, <1>3
    <2> QED BY <1>1, <1>2, <2>1
  <1>5. Scans(text, s, ScanJson(s, c))
    BY <1>1, <1>2, <1>4 DEF Scans
  <1> QED BY <1>5 DEF text

-----------------------------------------------------------------------------
(* The symbols the code looks for, by names.                                *)

(* They are not each other.                                                 *)
LEMMA SymbolsDiffer ==
    /\ Quote \notin {"\\", Open, Close, Comma, "[", "]", ":"}
    /\ Open \notin {"\\", Close, Comma, "[", "]", ":"}
    /\ Close \notin {"\\", Comma, "[", "]", ":"}
    /\ Comma \notin {"\\", "[", "]", ":"}
    /\ Blank \intersect {Quote, Open, Close, Comma, "\\", "[", "]", ":"} = {}
  BY Zenon DEF Quote, Open, Close, Comma, Blank

(* What reading a flat body counts: nothing but its own brace is open.      *)
Counted(inString, braces) ==
    [escaped |-> FALSE, inString |-> inString, braces |-> braces, brackets |-> 0, ok |-> TRUE]
Outside == Counted(FALSE, 1)
Inside == Counted(TRUE, 1)

(* What a symbol adds to the count of a kind of brackets.                   *)
Adds(c, opening, closing) == IF c = opening THEN 1 ELSE IF c = closing THEN -1 ELSE 0

(* What a symbol does that is neither in a string nor escaped.              *)
LEMMA ScanOutside ==
    ASSUME NEW n \in Int, NEW m \in Int, NEW c, c \notin {"\\", Quote},
           m = n + Adds(c, Open, Close), m >= 0, Adds(c, "[", "]") = 0
    PROVE  ScanJson(Counted(FALSE, n), c) = Counted(FALSE, m)
  <1> DEFINE s == Counted(FALSE, n)
             b == s.braces + Adds(c, Open, Close)
             d == s.brackets + Adds(c, "[", "]")
             ok == s.ok /\ b >= 0 /\ d >= 0
  <1>1. s = [escaped |-> FALSE, inString |-> FALSE, braces |-> n, brackets |-> 0, ok |-> TRUE]
    BY DEF Counted
  <1> HIDE DEF s
  <1>2. ~s.escaped /\ ~s.inString /\ s.ok
    BY <1>1
  <1>3. s.braces = n /\ s.brackets = 0
    BY <1>1
  <1>4. b = m /\ d = 0
    BY <1>3
  <1>5. c # "\\" /\ c # Quote
    OBVIOUS
  <1>6. ScanJson(s, c) = [s EXCEPT !.braces = b, !.brackets = d, !.ok = ok]
    BY <1>2, <1>5, Zenon DEF ScanJson, Quote, Open, Close, Adds
  <1>7. ok
    <2> HIDE DEF b, d
    <2>1. b >= 0 /\ d >= 0
      BY <1>4
    <2> QED BY <1>2, <2>1
  <1>8. ok = TRUE
    <2>1. ok \in BOOLEAN
      OBVIOUS
    <2> HIDE DEF ok
    <2> QED BY <1>7, <2>1
  <1> HIDE DEF b, d, ok
  <1>9. ScanJson(s, c) = [escaped |-> FALSE, inString |-> FALSE, braces |-> m, brackets |-> 0,
                          ok |-> TRUE]
    <2>1. ScanJson(s, c) = [s EXCEPT !.braces = m, !.brackets = 0, !.ok = TRUE]
      BY <1>4, <1>6, <1>8
    <2> QED BY <1>1, <2>1
  <1> QED BY <1>9 DEF Counted, s

(* What each symbol does.                                                   *)
LEMMA ScanSymbols ==
    /\ ScanJson(Counted(FALSE, 0), Open) = Outside
    /\ ScanJson(Outside, Close) = Counted(FALSE, 0)
    /\ ScanJson(Outside, Quote) = Inside
    /\ ScanJson(Inside, Quote) = Outside
    /\ \A c : c \notin {"\\", Quote} => ScanJson(Inside, c) = Inside
    /\ \A c : c \notin {"\\", Quote, Open, Close, "[", "]"} => ScanJson(Outside, c) = Outside
  <1>1. ScanJson(Counted(FALSE, 0), Open) = Outside
    <2>1. Adds(Open, Open, Close) = 1 /\ Adds(Open, "[", "]") = 0
      BY SymbolsDiffer DEF Adds
    <2>2. Open \notin {"\\", Quote}
      BY SymbolsDiffer
    <2>3. 1 = 0 + Adds(Open, Open, Close) /\ 1 >= 0 /\ 0 \in Int /\ 1 \in Int
      BY <2>1
    <2> QED BY <2>1, <2>2, <2>3, ScanOutside, Zenon DEF Outside
  <1>2. ScanJson(Outside, Close) = Counted(FALSE, 0)
    <2>1. Adds(Close, Open, Close) = -1 /\ Adds(Close, "[", "]") = 0
      BY SymbolsDiffer DEF Adds
    <2>2. Close \notin {"\\", Quote}
      BY SymbolsDiffer
    <2>3. 0 = 1 + Adds(Close, Open, Close) /\ 0 >= 0 /\ 0 \in Int /\ 1 \in Int
      BY <2>1
    <2> QED BY <2>1, <2>2, <2>3, ScanOutside, Zenon DEF Outside
  <1>3. ScanJson(Outside, Quote) = Inside
    <2> DEFINE s == Outside
    <2>1. s = [escaped |-> FALSE, inString |-> FALSE, braces |-> 1, brackets |-> 0, ok |-> TRUE]
      BY DEF Outside, Counted
    <2>2. ~s.escaped /\ s.inString = FALSE
      BY <2>1
    <2> HIDE DEF s
    <2>3. ScanJson(s, Quote) = [s EXCEPT !.inString = ~@]
      <3>1. Quote # "\\"
        BY SymbolsDiffer
      <3> QED BY <2>2, <3>1, Zenon DEF ScanJson, Quote
    <2>4. ScanJson(s, Quote) =
             [escaped |-> FALSE, inString |-> TRUE, braces |-> 1, brackets |-> 0, ok |-> TRUE]
      BY <2>1, <2>3
    <2> QED BY <2>4 DEF s, Inside, Counted
  <1>4. ScanJson(Inside, Quote) = Outside
    <2> DEFINE s == Inside
    <2>1. s = [escaped |-> FALSE, inString |-> TRUE, braces |-> 1, brackets |-> 0, ok |-> TRUE]
      BY DEF Inside, Counted
    <2>2. ~s.escaped /\ s.inString = TRUE
      BY <2>1
    <2> HIDE DEF s
    <2>3. ScanJson(s, Quote) = [s EXCEPT !.inString = ~@]
      <3>1. Quote # "\\"
        BY SymbolsDiffer
      <3> QED BY <2>2, <3>1, Zenon DEF ScanJson, Quote
    <2>4. ScanJson(s, Quote) =
             [escaped |-> FALSE, inString |-> FALSE, braces |-> 1, brackets |-> 0, ok |-> TRUE]
      BY <2>1, <2>3
    <2> QED BY <2>4 DEF s, Outside, Counted
  <1>5. ASSUME NEW c, c \notin {"\\", Quote} PROVE ScanJson(Inside, c) = Inside
    <2>1. ~Inside.escaped /\ Inside.inString
      BY DEF Inside, Counted
    <2>2. c # "\\" /\ c # Quote
      BY <1>5
    <2> QED BY <2>1, <2>2, Zenon DEF ScanJson, Quote
  <1>6. ASSUME NEW c, c \notin {"\\", Quote, Open, Close, "[", "]"}
        PROVE  ScanJson(Outside, c) = Outside
    <2>1. Adds(c, Open, Close) = 0 /\ Adds(c, "[", "]") = 0
      BY <1>6 DEF Adds
    <2>2. 1 = 1 + Adds(c, Open, Close) /\ 1 >= 0 /\ 1 \in Int /\ c \notin {"\\", Quote}
      BY <1>6, <2>1
    <2> QED BY <2>1, <2>2, ScanOutside, Zenon DEF Outside
  <1> QED BY <1>1, <1>2, <1>3, <1>4, <1>5, <1>6

(* Three symbols of a text, in a row.                                       *)
LEMMA ThreeAre ==
    ASSUME NEW S, NEW text \in Seq(S), NEW i \in 1..Len(text), i + 2 <= Len(text), NEW x, NEW y, NEW z
    PROVE  SubSeq(text, i, i + 2) = <<x, y, z>> <=> text[i] = x /\ text[i + 1] = y /\ text[i + 2] = z
  <1> DEFINE s == SubSeq(text, i, i + 2)
             t == <<x, y, z>>
  <1>1. Len(text) \in Nat /\ i \in Nat /\ i + 1 \in 1..Len(text) /\ i + 2 \in 1..Len(text)
    OBVIOUS
  <1>2. Len(s) = 3 /\ s \in Seq(S)
    BY <1>1
  <1>3. s[1] = text[i] /\ s[2] = text[i + 1] /\ s[3] = text[i + 2]
    BY <1>1
  <1>4. Len(t) = 3 /\ t[1] = x /\ t[2] = y /\ t[3] = z
    OBVIOUS
  <1>5. s = <<s[1], s[2], s[3]>>
    <2> HIDE DEF s
    <2> QED BY <1>2
  <1> HIDE DEF s, t
  <1>6. s = t <=> s[1] = x /\ s[2] = y /\ s[3] = z
    <2>1. t = <<x, y, z>>
      BY DEF t
    <2> QED BY <1>4, <1>5, <2>1
  <1> QED BY <1>3, <1>6 DEF s, t

(* Three symbols in a row are read where they stand.                        *)
LEMMA ThreeRead ==
    ASSUME NEW S, NEW text \in Seq(S), NEW i \in 1..Len(text), i + 2 <= Len(text), NEW x, NEW y, NEW z,
           SubSeq(text, i, i + 2) = <<x, y, z>>
    PROVE  text[i] = x /\ text[i + 1] = y /\ text[i + 2] = z
  BY ThreeAre

(* How a field is found, with the symbols by their names.                   *)
LEMMA FieldStart ==
    ASSUME NEW text, NEW field
    PROVE  LET n == Len(text)
               at == LET hits == {i \in 1..n : i + 2 <= n /\
                                    SubSeq(text, i, i + 2) = <<Quote, field, Quote>>}
                     IN IF hits = {} THEN n + 1 ELSE Min(hits)
               colon == LET hits == {i \in at + 3..n : text[i] = ":"}
                        IN IF hits = {} THEN n + 1 ELSE Min(hits)
               first == LET hits == {i \in colon + 1..n : text[i] \notin Blank}
                        IN IF hits = {} THEN n + 1 ELSE Min(hits)
           IN findJsonFieldStart(text, field) = first
  BY Zenon DEF findJsonFieldStart, FirstFrom, Quote

(* And where its value ends.                                                *)
LEMMA FieldEnd ==
    ASSUME NEW text, NEW field
    PROVE  LET start == findJsonFieldStart(text, field)
               end == LET hits == {i \in start..Len(text) : text[i] \in Ends}
                      IN IF hits = {} THEN Len(text) + 1 ELSE Min(hits)
           IN extractJsonField(text, field) = Trim(Unquoted(SubSeq(text, start, end - 1)))
  BY Zenon DEF extractJsonField, extractJsonValue, FirstFrom, Comma, Close, Ends

(* A field is named after a places, for the first time; b blanks and a value *)
(* of l symbols follow its colon.                                           *)
Stands(text, field, a, b, l) ==
    /\ l > 0 /\ a + 5 + b + l <= Len(text)
    /\ text[a + 1] = Quote /\ text[a + 2] = field /\ text[a + 3] = Quote /\ text[a + 4] = ":"
    /\ \A i \in 1..a : ~(text[i] = Quote /\ text[i + 1] = field /\ text[i + 2] = Quote)
    /\ \A i \in a + 5..a + 4 + b : text[i] \in Blank
    /\ text[a + 5 + b] \notin Blank
    /\ \A i \in a + 5 + b..a + 4 + b + l : text[i] \notin Ends
    /\ text[a + 5 + b + l] \in Ends

(* A field is read where it is first named: the blanks after its colon are   *)
(* passed over, and its value ends before the next comma or brace.          *)
LEMMA ReadAt ==
    ASSUME NEW S, NEW text \in Seq(S), NEW field, NEW a \in Nat, NEW b \in Nat, NEW l \in Nat,
           Stands(text, field, a, b, l)
    PROVE  extractJsonField(text, field) = Trim(Unquoted(SubSeq(text, a + 5 + b, a + 4 + b + l)))
  <1> DEFINE n == Len(text)
             H1 == {i \in 1..n : i + 2 <= n /\ SubSeq(text, i, i + 2) = <<Quote, field, Quote>>}
             at == IF H1 = {} THEN n + 1 ELSE Min(H1)
             H2 == {i \in at + 3..n : text[i] = ":"}
             colon == IF H2 = {} THEN n + 1 ELSE Min(H2)
             H3 == {i \in colon + 1..n : text[i] \notin Blank}
             first == IF H3 = {} THEN n + 1 ELSE Min(H3)
             H4 == {i \in first..n : text[i] \in Ends}
             end == IF H4 = {} THEN n + 1 ELSE Min(H4)
  <1>1. findJsonFieldStart(text, field) = first
    BY FieldStart
  <1>2. extractJsonField(text, field) = Trim(Unquoted(SubSeq(text, first, end - 1)))
    BY <1>1, FieldEnd
  <1> HIDE DEF end
  <1> USE DEF Stands
  <1>3. n \in Nat /\ a + 5 + b + l <= n
    OBVIOUS
  <1>4. at = a + 1
    <2>1. H1 \in SUBSET Int
      OBVIOUS
    <2>2. a + 1 \in H1
      <3>1. a + 1 \in 1..n /\ (a + 1) + 2 <= n
        BY <1>3
      <3>2. text[a + 1] = Quote /\ text[(a + 1) + 1] = field /\ text[(a + 1) + 2] = Quote
        <4>1. (a + 1) + 1 = a + 2 /\ (a + 1) + 2 = a + 3
          OBVIOUS
        <4> QED BY <4>1
      <3>3. SubSeq(text, a + 1, (a + 1) + 2) = <<Quote, field, Quote>>
        <4> HIDE DEF Stands
        <4>1. a + 1 \in 1..Len(text) /\ (a + 1) + 2 <= Len(text)
          BY <3>1
        <4> QED BY <3>2, <4>1, ThreeAre
      <3> QED BY <3>1, <3>3
    <2>3. ASSUME NEW i \in H1 PROVE a + 1 <= i
      <3>1. i \in 1..n /\ i + 2 <= n
        OBVIOUS
      <3>2. text[i] = Quote /\ text[i + 1] = field /\ text[i + 2] = Quote
        <4>1. i \in 1..Len(text) /\ i + 2 <= Len(text)
          BY <3>1
        <4>2. SubSeq(text, i, i + 2) = <<Quote, field, Quote>>
          OBVIOUS
        <4> HIDE DEF H1, n
        <4> QED BY <4>1, <4>2, ThreeRead
      <3>3. i \notin 1..a
        BY <3>2
      <3> QED BY <1>3, <3>1, <3>3
    <2> HIDE DEF H1
    <2>4. Min(H1) = a + 1
      BY <2>1, <2>2, <2>3, MinIs
    <2> QED BY <2>2, <2>4
  <1> HIDE DEF at, n
  <1>5. colon = a + 4
    <2>1. H2 \in SUBSET Int /\ a + 4 \in H2 /\ \A i \in H2 : a + 4 <= i
      BY <1>3, <1>4
    <2> HIDE DEF H2
    <2> QED BY <2>1, MinIs
  <1> HIDE DEF colon
  <1>6. first = a + 5 + b
    <2>1. H3 \in SUBSET Int
      BY <1>3, <1>5
    <2>2. a + 5 + b \in H3
      BY <1>3, <1>5
    <2>3. ASSUME NEW i \in H3 PROVE a + 5 + b <= i
      <3>1. i \in a + 5..n /\ text[i] \notin Blank
        BY <1>3, <1>5
      <3>2. i \notin a + 5..a + 4 + b
        BY <3>1
      <3> QED BY <1>3, <3>1, <3>2
    <2> HIDE DEF H3
    <2> QED BY <2>1, <2>2, <2>3, MinIs
  <1> HIDE DEF first
  <1>7. end = a + 5 + b + l
    <2>1. H4 \in SUBSET Int
      BY <1>3, <1>6
    <2>2. a + 5 + b + l \in H4
      BY <1>3, <1>6
    <2>3. ASSUME NEW i \in H4 PROVE a + 5 + b + l <= i
      <3>1. i \in a + 5 + b..n /\ text[i] \in Ends
        BY <1>3, <1>6
      <3>2. i \notin a + 5 + b..a + 4 + b + l
        BY <3>1
      <3> QED BY <1>3, <3>1, <3>2
    <2> HIDE DEF H4
    <2>4. Min(H4) = a + 5 + b + l
      BY <2>1, <2>2, <2>3, MinIs
    <2> QED BY <2>2, <2>4 DEF end
  <1>8. end - 1 = a + 4 + b + l
    BY <1>7
  <1> QED BY <1>2, <1>6, <1>8

(* Nothing is taken off a text with no blank at an end.                     *)
LEMMA TrimKeeps ==
    ASSUME NEW S, NEW w \in Seq(S), w # <<>> => w[1] \notin Blank /\ w[Len(w)] \notin Blank
    PROVE  Trim(w) = w
  <1> DEFINE kept == {i \in DOMAIN w : w[i] \notin Blank}
             n == Len(w)
  <1>1. n \in Nat /\ DOMAIN w = 1..n
    OBVIOUS
  <1>2. Trim(w) = IF kept = {} THEN <<>> ELSE SubSeq(w, Min(kept), Max(kept))
    BY Zenon DEF Trim
  <1>3. CASE w = <<>>
    <2>1. kept = {}
      BY <1>3
    <2> HIDE DEF kept
    <2> QED BY <1>2, <1>3, <2>1
  <1>4. CASE w # <<>>
    <2>1. n > 0
      BY <1>4
    <2> HIDE DEF n
    <2>2. /\ kept \in SUBSET Int /\ 1 \in kept /\ n \in kept
          /\ \A i \in kept : 1 <= i /\ i <= n
      BY <1>1, <1>4, <2>1 DEF n
    <2> HIDE DEF kept
    <2>3. Min(kept) = 1 /\ Max(kept) = n
      BY <2>2, MinIs, MaxIs
    <2>4. Trim(w) = SubSeq(w, 1, n)
      BY <1>2, <2>2, <2>3
    <2> QED BY <2>4 DEF n
  <1> QED BY <1>3, <1>4

(* What the quotes are taken off of.                                        *)
LEMMA UnquotedIs ==
    ASSUME NEW text
    PROVE  Unquoted(text) =
               IF Len(text) >= 2 /\ Head(text) = Quote /\ text[Len(text)] = Quote
               THEN SubSeq(text, 2, Len(text) - 1) ELSE text
  BY Zenon DEF Unquoted, Last, Quote

(* A quoted text, and one that is not.                                      *)
LEMMA UnquotedQuoted ==
    ASSUME NEW S, NEW w \in Seq(S), Quote \in S
    PROVE  Unquoted(<<Quote>> \o w \o <<Quote>>) = w
  <1> DEFINE v == <<Quote>> \o w \o <<Quote>>
  <1>1. /\ v \in Seq(S) /\ Len(w) \in Nat /\ Len(v) = Len(w) + 2
        /\ v[1] = Quote /\ v[Len(w) + 2] = Quote /\ \A i \in 1..Len(w) : v[i + 1] = w[i]
    OBVIOUS
  <1> HIDE DEF v
  <1>2. Unquoted(v) = SubSeq(v, 2, Len(v) - 1)
    <2>1. Len(v) >= 2 /\ Head(v) = Quote /\ v[Len(v)] = Quote
      BY <1>1
    <2> QED BY <2>1, UnquotedIs
  <1> DEFINE s == SubSeq(v, 2, Len(w) + 1)
  <1>3. s \in Seq(S) /\ Len(s) = Len(w)
    BY <1>1
  <1>4. \A i \in 1..Len(w) : s[i] = w[i]
    BY <1>1
  <1>5. Len(v) - 1 = Len(w) + 1
    BY <1>1
  <1> HIDE DEF s
  <1>6. s = w
    BY <1>3, <1>4
  <1>7. Unquoted(v) = w
    BY <1>2, <1>5, <1>6 DEF s
  <1> QED BY <1>7 DEF v

(* A value without quotes is its own text.                                  *)
LEMMA UnquotedBare ==
    ASSUME NEW S, NEW v \in Seq(S), v # <<>>, v[1] # Quote
    PROVE  Unquoted(v) = v
  <1>1. Head(v) = v[1]
    OBVIOUS
  <1> QED BY <1>1, UnquotedIs

-----------------------------------------------------------------------------
(* No place in a text, whatever stands before and after it, that reads as a  *)
(* name between quotes.                                                     *)
Clear(a, k) ==
    \A i \in 1..Len(a) : a[i] = k => i > 1 /\ i < Len(a) /\ ~(a[i - 1] = Quote /\ a[i + 1] = Quote)

(* Two texts that do not read as a name put together do not.                *)
LEMMA ClearJoin ==
    ASSUME NEW S, NEW a \in Seq(S), NEW b \in Seq(S), NEW k, Clear(a, k), Clear(b, k)
    PROVE  Clear(a \o b, k)
  <1> DEFINE n == Len(a)
             m == Len(b)
             c == a \o b
  <1>1. /\ n \in Nat /\ m \in Nat /\ Len(c) = n + m
        /\ \A i \in 1..n : c[i] = a[i]
        /\ \A i \in 1..m : c[n + i] = b[i]
    OBVIOUS
  <1>2. \A i \in 1..n : a[i] = k => i > 1 /\ i < n /\ ~(a[i - 1] = Quote /\ a[i + 1] = Quote)
    BY DEF Clear
  <1>3. \A i \in 1..m : b[i] = k => i > 1 /\ i < m /\ ~(b[i - 1] = Quote /\ b[i + 1] = Quote)
    BY DEF Clear
  <1> HIDE DEF n, m, c
  <1>4. ASSUME NEW i \in 1..n + m, c[i] = k
        PROVE  i > 1 /\ i < n + m /\ ~(c[i - 1] = Quote /\ c[i + 1] = Quote)
    <2>1. CASE i <= n
      <3>1. i \in 1..n /\ a[i] = k
        BY <1>1, <1>4, <2>1
      <3>2. i > 1 /\ i < n /\ ~(a[i - 1] = Quote /\ a[i + 1] = Quote)
        BY <1>2, <3>1
      <3>3. i - 1 \in 1..n /\ i + 1 \in 1..n
        BY <1>1, <3>1, <3>2
      <3>4. c[i - 1] = a[i - 1] /\ c[i + 1] = a[i + 1]
        BY <1>1, <3>3
      <3> QED BY <1>1, <3>2, <3>4
    <2>2. CASE ~(i <= n)
      <3> DEFINE j == i - n
      <3>1. j \in 1..m /\ n + j = i
        BY <1>1, <2>2
      <3>2. b[j] = k
        BY <1>1, <1>4, <3>1
      <3> HIDE DEF j
      <3>3. j > 1 /\ j < m /\ ~(b[j - 1] = Quote /\ b[j + 1] = Quote)
        BY <1>3, <3>1, <3>2
      <3>4. j - 1 \in 1..m /\ j + 1 \in 1..m /\ n + (j - 1) = i - 1 /\ n + (j + 1) = i + 1
        BY <1>1, <3>1, <3>3
      <3>5. c[i - 1] = b[j - 1] /\ c[i + 1] = b[j + 1]
        BY <1>1, <3>4
      <3> QED BY <1>1, <3>1, <3>3, <3>5
    <2> QED BY <2>1, <2>2
  <1>5. Clear(c, k)
    BY <1>1, <1>4 DEF Clear
  <1> QED BY <1>5 DEF c

(* A text without the name does not read as it.                             *)
LEMMA ClearWithout ==
    ASSUME NEW a, NEW k, \A i \in 1..Len(a) : a[i] # k
    PROVE  Clear(a, k)
  BY DEF Clear

(* A word between quotes, if it is another.                                  *)
LEMMA ClearName ==
    ASSUME NEW word, NEW k, word # k, k # Quote
    PROVE  Clear(<<Quote, word, Quote>>, k)
  <1> DEFINE a == <<Quote, word, Quote>>
  <1>1. Len(a) = 3 /\ a[1] = Quote /\ a[2] = word /\ a[3] = Quote
    OBVIOUS
  <1>2. \A i \in 1..3 : i = 1 \/ i = 2 \/ i = 3
    OBVIOUS
  <1> HIDE DEF a
  <1>3. \A i \in 1..Len(a) : a[i] # k
    BY <1>1, <1>2
  <1>4. Clear(a, k)
    BY <1>3, ClearWithout
  <1> QED BY <1>4 DEF a

(* What makes a value be read as it was written.                             *)
Readable(v, names) ==
    /\ v # <<>> /\ v[1] \notin Blank /\ \A i \in 1..Len(v) : v[i] \notin Ends
    /\ Scans(v, Outside, Outside)
    /\ \A k \in names : Clear(v, k)
    /\ Trim(Unquoted(v)) = Unquoted(v)

(* A quote neither ends a value nor is blank; line ends are blank.          *)
LEMMA QuoteEnds == Quote \notin Ends /\ Quote \notin Blank /\ "\n" \in Blank /\ "\r" \in Blank
  BY Zenon DEF Quote, Ends, Blank, Comma, Close

(* A text between quotes leaves the count as it was.                        *)
LEMMA ScansQuoted ==
    ASSUME NEW S, NEW w \in Seq(S), Quote \in S, \A i \in 1..Len(w) : w[i] \notin {Quote, "\\"}
    PROVE  Scans(<<Quote>> \o w \o <<Quote>>, Outside, Outside)
  <1> DEFINE q == <<Quote>>
             p == q \o w
  <1>1. q \in Seq(S) /\ p \in Seq(S)
    OBVIOUS
  <1>2. Scans(q, Outside, Inside) /\ Scans(q, Inside, Outside)
    <2>1. Scans(q, Outside, ScanJson(Outside, Quote)) /\ Scans(q, Inside, ScanJson(Inside, Quote))
      BY ScansSymbol
    <2> HIDE DEF q
    <2> QED BY <2>1, ScanSymbols
  <1> HIDE DEF q
  <1>3. Scans(w, Inside, Inside)
    <2>1. \A i \in 1..Len(w) : ScanJson(Inside, w[i]) = Inside
      BY ScanSymbols
    <2> QED BY <2>1, ScansStay
  <1>4. Scans(p, Outside, Inside)
    BY <1>1, <1>2, <1>3, ScansJoin
  <1> HIDE DEF p
  <1>5. Scans(p \o q, Outside, Outside)
    BY <1>1, <1>2, <1>4, ScansJoin
  <1> QED BY <1>5 DEF p, q

(* Symbols that are none of the reader's leave it too.                      *)
LEMMA ScansPlain ==
    ASSUME NEW S, NEW w \in Seq(S),
           \A i \in 1..Len(w) : w[i] \notin {"\\", Quote, Open, Close, "[", "]"}
    PROVE  Scans(w, Outside, Outside)
  <1>1. \A i \in 1..Len(w) : ScanJson(Outside, w[i]) = Outside
    BY ScanSymbols
  <1> QED BY <1>1, ScansStay

(* A bare value is read as it was written.                                  *)
LEMMA BareReadable ==
    ASSUME NEW S, NEW v \in Seq(S), NEW names, Bare(v, names)
    PROVE  Readable(v, names)
  <1>1. /\ v # <<>> /\ v[1] \notin Blank /\ v[Len(v)] \notin Blank
        /\ \A i \in 1..Len(v) : v[i] \notin names \union Ends \union {Quote, Open, "[", "]", "\\"}
    BY DEF Bare
  <1>2. \A i \in 1..Len(v) : v[i] \notin Ends
    BY <1>1
  <1>3. Scans(v, Outside, Outside)
    <2>1. Close \in Ends
      BY DEF Ends
    <2>2. \A i \in 1..Len(v) : v[i] \notin {"\\", Quote, Open, Close, "[", "]"}
      BY <1>1, <2>1
    <2> QED BY <2>2, ScansPlain
  <1>4. ASSUME NEW k \in names PROVE Clear(v, k)
    BY <1>1, ClearWithout
  <1>5. Unquoted(v) = v
    <2>1. 1 \in 1..Len(v)
      BY <1>1
    <2>2. v[1] # Quote
      BY <1>1, <2>1
    <2> QED BY <1>1, <2>2, UnquotedBare
  <1>6. Trim(v) = v
    BY <1>1, TrimKeeps
  <1> QED BY <1>1, <1>2, <1>3, <1>4, <1>5, <1>6 DEF Readable

(* A text between quotes is read as it was written.                         *)
LEMMA BetweenReadable ==
    ASSUME NEW S, NEW w \in Seq(S), Quote \in S, NEW names, Quote \notin names, Between(w, names)
    PROVE  Readable(<<Quote>> \o w \o <<Quote>>, names)
  <1> DEFINE v == <<Quote>> \o w \o <<Quote>>
             n == Len(w)
  <1>1. /\ \A i \in 1..n : w[i] \notin Ends \union {Quote, "\\"}
        /\ w # <<>> => w[1] \notin Blank /\ w[n] \notin Blank
        /\ ~(n = 1 /\ w[1] \in names)
    BY DEF Between
  <1>2. /\ v \in Seq(S) /\ n \in Nat /\ Len(v) = n + 2 /\ v[1] = Quote /\ v[n + 2] = Quote
        /\ \A i \in 1..n : v[i + 1] = w[i]
    OBVIOUS
  <1>3. Scans(v, Outside, Outside)
    <2>1. \A i \in 1..Len(w) : w[i] \notin {Quote, "\\"}
      BY <1>1
    <2> QED BY <2>1, ScansQuoted
  <1>4. Unquoted(v) = w
    BY UnquotedQuoted
  <1>5. Trim(w) = w
    BY <1>1, TrimKeeps
  <1> HIDE DEF v, n
  <1>6. \A i \in 1..Len(v) : i = 1 \/ i = n + 2 \/ (i - 1 \in 1..n /\ v[i] = w[i - 1])
    <2> SUFFICES ASSUME NEW i \in 1..Len(v), i # 1, i # n + 2
                 PROVE  i - 1 \in 1..n /\ v[i] = w[i - 1]
      OBVIOUS
    <2>1. i - 1 \in 1..n /\ (i - 1) + 1 = i
      BY <1>2
    <2> QED BY <1>2, <2>1
  <1>7. v # <<>> /\ v[1] \notin Blank
    BY <1>2, QuoteEnds
  <1>8. \A i \in 1..Len(v) : v[i] \notin Ends
    BY <1>1, <1>2, <1>6, QuoteEnds
  <1>9. ASSUME NEW k \in names PROVE Clear(v, k)
    <2>1. k # Quote
      OBVIOUS
    <2> SUFFICES ASSUME NEW i \in 1..Len(v), v[i] = k
                 PROVE  i > 1 /\ i < Len(v) /\ ~(v[i - 1] = Quote /\ v[i + 1] = Quote)
      BY DEF Clear
    <2>2. i - 1 \in 1..n /\ w[i - 1] = k
      BY <1>2, <1>6, <2>1
    <2>3. ASSUME v[i - 1] = Quote, v[i + 1] = Quote PROVE FALSE
      <3>1. i - 1 = 1
        <4>1. CASE i - 1 # 1
          <5>1. i - 1 \in 1..Len(v) /\ i - 1 # n + 2 /\ (i - 1) - 1 \in 1..n
            BY <1>2, <2>2, <4>1
          <5>2. v[i - 1] = w[(i - 1) - 1]
            BY <1>6, <4>1, <5>1
          <5> QED BY <1>1, <2>3, <5>1, <5>2
        <4> QED BY <4>1
      <3>2. i = n + 1
        <4>1. CASE i # n + 1
          <5>1. i \in 1..n /\ i + 1 \in 1..Len(v)
            BY <1>2, <2>2, <4>1
          <5>2. v[i + 1] = w[i]
            BY <1>2, <5>1
          <5> QED BY <1>1, <2>3, <5>1, <5>2
        <4> QED BY <4>1
      <3>3. n = 1
        BY <1>2, <3>1, <3>2
      <3> QED BY <1>1, <2>2, <3>1, <3>3
    <2> QED BY <1>2, <2>2, <2>3
  <1>10. Readable(v, names)
    BY <1>3, <1>4, <1>5, <1>7, <1>8, <1>9 DEF Readable
  <1> QED BY <1>10 DEF v

(* A field k of the value v in a text: nothing in a, which stands before it, *)
(* reads as its name, only blanks stand before the value, and what follows   *)
(* ends it.                                                                 *)
FieldAmid(S, a, c, v, b, k) ==
    /\ a \in Seq(S) /\ c \in Seq(S) /\ v \in Seq(S) /\ b \in Seq(S)
    /\ k \in S /\ Quote \in S /\ ":" \in S /\ k # Quote /\ Clear(a, k)
    /\ \A i \in 1..Len(c) : c[i] \in Blank
    /\ v # <<>> /\ v[1] \notin Blank /\ \A i \in 1..Len(v) : v[i] \notin Ends
    /\ b # <<>> /\ b[1] \in Ends

FieldRead(a, c, v, b, k) ==
    extractJsonField(a \o (<<Quote, k, Quote, ":">> \o (c \o (v \o b))), k) = Trim(Unquoted(v))

(* A part of a text, symbol by symbol.                                      *)
LEMMA PartOfText ==
    ASSUME NEW S, NEW w \in Seq(S), NEW x \in Nat, NEW y \in Nat, x + y <= Len(w)
    PROVE  /\ SubSeq(w, x + 1, x + y) \in Seq(S) /\ Len(SubSeq(w, x + 1, x + y)) = y
           /\ \A i \in 1..y : SubSeq(w, x + 1, x + y)[i] = w[x + i]
OBVIOUS

(* Such a field is read.                                                    *)
LEMMA FieldInText ==
    \A S, a, c, v, b, k : FieldAmid(S, a, c, v, b, k) => FieldRead(a, c, v, b, k)
  <1> SUFFICES ASSUME NEW S, NEW a, NEW c, NEW v, NEW b, NEW k, FieldAmid(S, a, c, v, b, k)
               PROVE  FieldRead(a, c, v, b, k)
    OBVIOUS
  <1>0. /\ a \in Seq(S) /\ c \in Seq(S) /\ v \in Seq(S) /\ b \in Seq(S)
        /\ k \in S /\ Quote \in S /\ ":" \in S /\ k # Quote /\ Clear(a, k)
        /\ \A i \in 1..Len(c) : c[i] \in Blank
        /\ v # <<>> /\ v[1] \notin Blank /\ \A i \in 1..Len(v) : v[i] \notin Ends
        /\ b # <<>> /\ b[1] \in Ends
    BY DEF FieldAmid
  <1> USE <1>0
  <1> DEFINE q == <<Quote, k, Quote, ":">>
             vb == v \o b
             cvb == c \o vb
             t == q \o cvb
             text == a \o t
             n == Len(a)
             m == Len(c)
             l == Len(v)
  <1>1. n \in Nat /\ m \in Nat /\ l \in Nat /\ l > 0 /\ Len(b) \in Nat /\ Len(b) > 0
    OBVIOUS
  <1> HIDE DEF q, vb, cvb, t, text
  <1>2. /\ vb \in Seq(S) /\ Len(vb) = l + Len(b)
        /\ \A i \in 1..l : vb[i] = v[i]
        /\ vb[l + 1] = b[1]
    <2>1. 1 \in 1..Len(b)
      BY <1>1
    <2> QED BY <2>1 DEF vb
  <1>3. /\ cvb \in Seq(S) /\ Len(cvb) = m + Len(vb)
        /\ \A i \in 1..m : cvb[i] = c[i]
        /\ \A i \in 1..Len(vb) : cvb[m + i] = vb[i]
    <2>1. vb \in Seq(S)
      BY <1>2
    <2> QED BY <2>1 DEF cvb
  <1>4. /\ q \in Seq(S) /\ Len(q) = 4 /\ q[1] = Quote /\ q[2] = k /\ q[3] = Quote /\ q[4] = ":"
    BY DEF q
  <1>5. /\ t \in Seq(S) /\ Len(t) = 4 + Len(cvb)
        /\ t[1] = Quote /\ t[2] = k /\ t[3] = Quote /\ t[4] = ":"
        /\ \A i \in 1..Len(cvb) : t[4 + i] = cvb[i]
    <2>1. /\ t \in Seq(S) /\ Len(t) = Len(q) + Len(cvb)
          /\ \A i \in 1..Len(q) : t[i] = q[i]
          /\ \A i \in 1..Len(cvb) : t[Len(q) + i] = cvb[i]
      <3>1. q \in Seq(S) /\ cvb \in Seq(S)
        BY <1>3, <1>4
      <3> QED BY <3>1 DEF t
    <2> QED BY <1>4, <2>1
  <1>6. /\ text \in Seq(S) /\ Len(text) = n + Len(t)
        /\ \A i \in 1..n : text[i] = a[i]
        /\ \A i \in 1..Len(t) : text[n + i] = t[i]
    <2>1. t \in Seq(S)
      BY <1>5
    <2> QED BY <2>1 DEF text
  <1>7. \A i \in 1..n : a[i] = k => i > 1 /\ i < n /\ ~(a[i - 1] = Quote /\ a[i + 1] = Quote)
    BY DEF Clear
  <1>8. \A i \in 1..m : c[i] \in Blank
    OBVIOUS
  <1>9. \A i \in 1..l : v[i] \notin Ends
    OBVIOUS
  <1>10. SubSeq(text, n + 5 + m, n + 4 + m + l) = v
    <2> HIDE DEF n, m, l
    <2> DEFINE s == SubSeq(text, n + 5 + m, n + 4 + m + l)
    <2>1. Len(text) = n + 4 + m + l + Len(b)
      BY <1>1, <1>2, <1>3, <1>5, <1>6
    <2>2. s \in Seq(S) /\ Len(s) = l /\ \A i \in 1..l : s[i] = text[(n + 5 + m) + i - 1]
      <3>1. PICK x \in Nat : x = n + 4 + m
        BY <1>1
      <3>2. n + 5 + m = x + 1 /\ n + 4 + m + l = x + l /\ x + l <= Len(text)
        BY <1>1, <2>1, <3>1
      <3>3. /\ SubSeq(text, x + 1, x + l) \in Seq(S) /\ Len(SubSeq(text, x + 1, x + l)) = l
            /\ \A i \in 1..l : SubSeq(text, x + 1, x + l)[i] = text[x + i]
        BY <1>1, <1>6, <3>2, PartOfText
      <3>4. \A i \in 1..l : (n + 5 + m) + i - 1 = x + i
        BY <1>1, <3>1
      <3> QED BY <3>2, <3>3, <3>4
    <2> HIDE DEF s
    <2>3. ASSUME NEW i \in 1..l PROVE s[i] = v[i]
      <3>1. /\ i \in 1..Len(vb) /\ m + i \in 1..Len(cvb) /\ 4 + (m + i) \in 1..Len(t)
            /\ (n + 5 + m) + i - 1 = n + (4 + (m + i))
        BY <1>1, <1>2, <1>3, <1>5
      <3>2. s[i] = text[n + (4 + (m + i))]
        BY <2>2, <3>1
      <3>3. text[n + (4 + (m + i))] = t[4 + (m + i)]
        BY <1>6, <3>1
      <3>4. t[4 + (m + i)] = cvb[m + i]
        BY <1>5, <3>1
      <3> QED BY <1>2, <1>3, <3>1, <3>2, <3>3, <3>4
    <2>4. s = v
      <3>1. Len(v) = l /\ v \in Seq(S)
        BY DEF l
      <3> QED BY ONLY <2>2, <2>3, <3>1, SeqEqual
    <2> QED BY <2>4 DEF s
  <1> HIDE DEF n, m, l
  <1>11. n + 5 + m + l <= Len(text)
    BY <1>1, <1>2, <1>3, <1>5, <1>6 DEF n, m, l
  <1>12. text[n + 1] = Quote /\ text[n + 2] = k /\ text[n + 3] = Quote /\ text[n + 4] = ":"
    <2>1. 1 \in 1..Len(t) /\ 2 \in 1..Len(t) /\ 3 \in 1..Len(t) /\ 4 \in 1..Len(t)
      BY <1>1, <1>2, <1>3, <1>5 DEF m, l
    <2> QED BY <1>5, <1>6, <2>1
  <1>13. ASSUME NEW i \in 1..n, text[i] = Quote, text[i + 1] = k, text[i + 2] = Quote PROVE FALSE
    <2>1. CASE i = n
      <3>1. text[n + 1] = k
        BY <1>13, <2>1
      <3> QED BY <1>12, <3>1
    <2>2. CASE i # n
      <3>1. i + 1 \in 1..n /\ a[i + 1] = k
        BY <1>1, <1>6, <1>13, <2>2
      <3>2. i + 1 < n /\ ~(a[(i + 1) - 1] = Quote /\ a[(i + 1) + 1] = Quote)
        BY <1>7, <3>1
      <3>3. (i + 1) - 1 = i /\ (i + 1) + 1 = i + 2 /\ i + 2 \in 1..n
        BY <1>1, <3>1, <3>2
      <3> QED BY <1>6, <1>13, <3>2, <3>3
    <2> QED BY <2>1, <2>2
  <1>14. ASSUME NEW i \in n + 5..n + 4 + m PROVE text[i] \in Blank
    <2> DEFINE j == i - (n + 4)
    <2>1. j \in 1..m /\ n + (4 + j) = i /\ j \in 1..Len(cvb) /\ 4 + j \in 1..Len(t)
      BY <1>1, <1>2, <1>3, <1>5
    <2> HIDE DEF j
    <2>2. text[n + (4 + j)] = t[4 + j]
      BY <1>6, <2>1
    <2>3. t[4 + j] = cvb[j]
      BY <1>5, <2>1
    <2> QED BY <1>3, <1>8, <2>1, <2>2, <2>3
  <1>15. ASSUME NEW j \in 1..l + 1 PROVE text[n + 4 + m + j] = vb[j]
    <2>1. /\ j \in 1..Len(vb) /\ m + j \in 1..Len(cvb) /\ 4 + (m + j) \in 1..Len(t)
          /\ n + 4 + m + j = n + (4 + (m + j))
      BY <1>1, <1>2, <1>3, <1>5
    <2>2. text[n + (4 + (m + j))] = t[4 + (m + j)]
      BY <1>6, <2>1
    <2>3. t[4 + (m + j)] = cvb[m + j]
      BY <1>5, <2>1
    <2> QED BY <1>3, <2>1, <2>2, <2>3
  <1>16. text[n + 5 + m] \notin Blank
    <2>1. 1 \in 1..l + 1 /\ 1 \in 1..l /\ n + 4 + m + 1 = n + 5 + m
      BY <1>1
    <2> QED BY <1>2, <1>15, <2>1
  <1>17. ASSUME NEW i \in n + 5 + m..n + 4 + m + l PROVE text[i] \notin Ends
    <2> DEFINE j == i - (n + 4 + m)
    <2>1. j \in 1..l /\ j \in 1..l + 1 /\ n + 4 + m + j = i
      BY <1>1
    <2> HIDE DEF j
    <2> QED BY <1>2, <1>9, <1>15, <2>1
  <1>18. text[n + 5 + m + l] \in Ends
    <2>1. l + 1 \in 1..l + 1 /\ n + 4 + m + (l + 1) = n + 5 + m + l
      BY <1>1
    <2> QED BY <1>2, <1>15, <2>1
  <1>19. extractJsonField(text, k) = Trim(Unquoted(SubSeq(text, n + 5 + m, n + 4 + m + l)))
    <2>1. Stands(text, k, n, m, l)
      BY <1>1, <1>11, <1>12, <1>13, <1>14, <1>16, <1>17, <1>18 DEF Stands
    <2> QED BY <1>1, <1>6, <2>1, ReadAt
  <1>20. extractJsonField(text, k) = Trim(Unquoted(v))
    BY <1>10, <1>19
  <1> QED BY <1>20, Zenon DEF FieldRead, text, t, cvb, vb, q

(* The parts of what is written.                                            *)
Before(i, afterComma) == IF i = 1 THEN <<>> ELSE <<Comma>> \o afterComma
MemberText(field, afterColon) ==
    <<Quote, field[1], Quote>> \o <<":">> \o afterColon \o field[2]
Pieces(fields, afterColon, afterComma) ==
    [i \in DOMAIN fields |-> Before(i, afterComma) \o MemberText(fields[i], afterColon)]

(* A body is an opening brace, its pieces and a closing one.                *)
LEMMA WrittenIs ==
    ASSUME NEW fields, NEW afterColon, NEW afterComma
    PROVE  Written(fields, afterColon, afterComma) =
               <<Open>> \o FlattenSeq(Pieces(fields, afterColon, afterComma)) \o <<Close>>
  BY Zenon DEF Written, Quoted, Pieces, Before, MemberText, Open, Close, Comma, Quote

(* What a symbol of a body may be, and what blanks are not.                 *)
LEMMA BlankIs == \A c \in Blank : c \notin {"\\", Quote, Open, Close, "[", "]"}
  BY SymbolsDiffer

-----------------------------------------------------------------------------
(* Reading one piece leaves the count as it was.                            *)
LEMMA ScansPiece ==
    ASSUME NEW S, NEW c \in Seq(S), NEW d \in Seq(S), NEW v \in Seq(S), NEW k \in S, NEW i,
           Quote \in S, Comma \in S, ":" \in S, k \notin {Quote, "\\"},
           \A j \in 1..Len(c) : c[j] \in Blank, \A j \in 1..Len(d) : d[j] \in Blank,
           Scans(v, Outside, Outside)
    PROVE  Scans(Before(i, d) \o MemberText(<<k, v>>, c), Outside, Outside)
  <1> DEFINE G == {a \in Seq(S) : Scans(a, Outside, Outside)}
             q == <<Quote, k, Quote>>
             col == <<":">>
             com == <<Comma>>
  <1>1. ASSUME NEW a \in G, NEW b \in G PROVE a \o b \in G
    <2>1. a \in Seq(S) /\ b \in Seq(S) /\ Scans(a, Outside, Outside) /\ Scans(b, Outside, Outside)
      OBVIOUS
    <2>2. Scans(a \o b, Outside, Outside)
      BY <2>1, ScansJoin
    <2>3. a \o b \in Seq(S)
      BY <2>1
    <2> QED BY <2>2, <2>3
  <1>2. q \in G
    <2> DEFINE w == <<k>>
    <2>1. w \in Seq(S) /\ \A j \in 1..Len(w) : w[j] \notin {Quote, "\\"}
      OBVIOUS
    <2>2. <<Quote>> \o w \o <<Quote>> = q
      <3> DEFINE p == <<Quote>> \o w \o <<Quote>>
      <3>1. p \in Seq(S) /\ Len(p) = 3 /\ p[1] = Quote /\ p[2] = k /\ p[3] = Quote
        OBVIOUS
      <3> HIDE DEF p
      <3>2. p = <<p[1], p[2], p[3]>>
        BY <3>1
      <3> QED BY <3>1, <3>2 DEF p
    <2> HIDE DEF w
    <2>3. Scans(<<Quote>> \o w \o <<Quote>>, Outside, Outside)
      BY <2>1, ScansQuoted
    <2>4. q \in Seq(S)
      OBVIOUS
    <2> HIDE DEF q
    <2> QED BY <2>2, <2>3, <2>4
  <1>3. \A x \in {":", Comma} : <<x>> \in Seq(S) /\ Scans(<<x>>, Outside, Outside)
    <2> SUFFICES ASSUME NEW x \in {":", Comma} PROVE <<x>> \in Seq(S) /\ Scans(<<x>>, Outside, Outside)
      OBVIOUS
    <2>1. x \notin {"\\", Quote, Open, Close, "[", "]"}
      BY SymbolsDiffer
    <2>2. ScanJson(Outside, x) = Outside
      BY <2>1, ScanSymbols
    <2>3. Scans(<<x>>, Outside, ScanJson(Outside, x))
      BY ScansSymbol
    <2>4. <<x>> \in Seq(S)
      OBVIOUS
    <2> QED BY <2>2, <2>3, <2>4
  <1>4. col \in G /\ com \in G
    BY <1>3
  <1>5. c \in G /\ d \in G
    <2>1. \A j \in 1..Len(c) : c[j] \notin {"\\", Quote, Open, Close, "[", "]"}
      BY BlankIs
    <2>2. \A j \in 1..Len(d) : d[j] \notin {"\\", Quote, Open, Close, "[", "]"}
      BY BlankIs
    <2>3. Scans(c, Outside, Outside) /\ Scans(d, Outside, Outside)
      BY <2>1, <2>2, ScansPlain
    <2> QED BY <2>3
  <1>6. v \in G /\ <<>> \in G
    <2>1. Scans(<<>>, Outside, Outside)
      <3> DEFINE e == <<>>
      <3>1. e \in Seq(S) /\ \A j \in 1..Len(e) : ScanJson(Outside, e[j]) = Outside
        OBVIOUS
      <3> HIDE DEF e
      <3>2. Scans(e, Outside, Outside)
        BY <3>1, ScansStay
      <3> QED BY <3>2 DEF e
    <2> QED BY <2>1
  <1> HIDE DEF G, q, col, com
  <1>7. Before(i, d) \in G
    <2>1. com \o d \in G
      BY <1>1, <1>4, <1>5
    <2> QED BY <1>6, <2>1 DEF Before, com
  <1>8. MemberText(<<k, v>>, c) \in G
    <2>1. q \o col \in G
      BY <1>1, <1>2, <1>4
    <2>2. (q \o col) \o c \in G
      BY <1>1, <1>5, <2>1
    <2>3. ((q \o col) \o c) \o v \in G
      BY <1>1, <1>6, <2>2
    <2>4. MemberText(<<k, v>>, c) = ((q \o col) \o c) \o v
      BY DEF MemberText, q, col
    <2> QED BY <2>3, <2>4
  <1>9. Before(i, d) \o MemberText(<<k, v>>, c) \in G
    BY <1>1, <1>7, <1>8
  <1> QED BY <1>9 DEF G

(* Nor does it read as a name that is not the piece's own.                   *)
LEMMA ClearPiece ==
    ASSUME NEW S, NEW c \in Seq(S), NEW d \in Seq(S), NEW v \in Seq(S), NEW word \in S, NEW i,
           NEW k \in S, k \notin Syntax, word # k, Quote \in S, Comma \in S, ":" \in S,
           \A j \in 1..Len(c) : c[j] \in Blank, \A j \in 1..Len(d) : d[j] \in Blank,
           Clear(v, k)
    PROVE  /\ Clear(Before(i, d), k) /\ Before(i, d) \in Seq(S)
           /\ Clear(Before(i, d) \o MemberText(<<word, v>>, c), k)
  <1> DEFINE G == {a \in Seq(S) : Clear(a, k)}
             q == <<Quote, word, Quote>>
             col == <<":">>
             com == <<Comma>>
  <1>0. k # Quote /\ k # ":" /\ k # Comma /\ k \notin Blank
    BY DEF Syntax
  <1>1. ASSUME NEW a \in G, NEW b \in G PROVE a \o b \in G
    <2>1. a \in Seq(S) /\ b \in Seq(S) /\ Clear(a, k) /\ Clear(b, k)
      OBVIOUS
    <2>2. Clear(a \o b, k)
      BY <2>1, ClearJoin
    <2>3. a \o b \in Seq(S)
      BY <2>1
    <2> QED BY <2>2, <2>3
  <1>2. q \in G
    <2>1. q \in Seq(S)
      OBVIOUS
    <2>2. Clear(q, k)
      BY <1>0, ClearName
    <2> QED BY <2>1, <2>2
  <1>3. col \in G /\ com \in G
    <2>1. col \in Seq(S) /\ com \in Seq(S)
      OBVIOUS
    <2>2. \A j \in 1..Len(col) : col[j] # k
      BY <1>0
    <2>3. \A j \in 1..Len(com) : com[j] # k
      BY <1>0
    <2> HIDE DEF col, com
    <2>4. Clear(col, k) /\ Clear(com, k)
      BY <2>2, <2>3, ClearWithout
    <2> QED BY <2>1, <2>4
  <1>4. c \in G /\ d \in G
    <2>1. Clear(c, k)
      BY <1>0, ClearWithout
    <2>2. Clear(d, k)
      BY <1>0, ClearWithout
    <2> QED BY <2>1, <2>2
  <1>5. v \in G /\ <<>> \in G
    <2>1. Clear(<<>>, k)
      BY DEF Clear
    <2> QED BY <2>1
  <1> HIDE DEF G, q, col, com
  <1>6. Before(i, d) \in G
    <2>1. com \o d \in G
      BY <1>1, <1>3, <1>4
    <2> QED BY <1>5, <2>1 DEF Before, com
  <1>7. MemberText(<<word, v>>, c) \in G
    <2>1. q \o col \in G
      BY <1>1, <1>2, <1>3
    <2>2. (q \o col) \o c \in G
      BY <1>1, <1>4, <2>1
    <2>3. ((q \o col) \o c) \o v \in G
      BY <1>1, <1>5, <2>2
    <2>4. MemberText(<<word, v>>, c) = ((q \o col) \o c) \o v
      BY DEF MemberText, q, col
    <2> QED BY <2>3, <2>4
  <1>8. Before(i, d) \o MemberText(<<word, v>>, c) \in G
    BY <1>1, <1>6, <1>7
  <1> QED BY <1>6, <1>8 DEF G

(* What a flat body gives, of its symbols and of each field.                *)
FlatHas(S, names, fields, c, d) ==
    /\ Len(fields) \in Nat /\ {Quote, Open, Close, Comma, ":"} \subseteq S
    /\ c \in Seq(S) /\ d \in Seq(S)
    /\ \A i \in 1..Len(c) : c[i] \in Blank
    /\ \A i \in 1..Len(d) : d[i] \in Blank
    /\ \A k \in names : k \in S /\ k \notin Syntax
    /\ \A i \in 1..Len(fields) :
          /\ fields[i][1] \in names /\ fields[i][2] \in Seq(S)
          /\ Readable(fields[i][2], names)
          /\ fields[i] = <<fields[i][1], fields[i][2]>>

NamesOf(fields) == {fields[i][1] : i \in 1..Len(fields)}

(* A text that begins and ends with a quote.                                 *)
LEMMA BetweenQuotes ==
    ASSUME NEW S, NEW v \in Seq(S), Len(v) >= 2, v[1] = Quote, v[Len(v)] = Quote, Quote \in S
    PROVE  /\ SubSeq(v, 2, Len(v) - 1) \in Seq(S)
           /\ v = <<Quote>> \o SubSeq(v, 2, Len(v) - 1) \o <<Quote>>
  <1> DEFINE l == Len(v)
             w == SubSeq(v, 2, l - 1)
             q == <<Quote>>
             Q == Seq(S)
  <1>1. l \in Nat /\ 1 \in 1..l /\ 2 \in 1..l /\ l \in 1..l /\ l \in 2..l
    OBVIOUS
  <1>2. v = SubSeq(v, 1, l)
    BY SubSeqFull
  <1>3. SubSeq(v, 1, l) = q \o SubSeq(v, 2, l)
    <2>1. SubSeq(v, 1, l) = <<v[1]>> \o SubSeq(v, 1 + 1, l)
      BY <1>1, SubSeqRecursiveFirst
    <2> QED BY <2>1
  <1>4. SubSeq(v, 2, l) = w \o q
    <2>1. SubSeq(v, 2, l) = SubSeq(v, 2, l - 1) \o <<v[l]>>
      BY <1>1, SubSeqRecursiveSecond
    <2> QED BY <2>1
  <1>5. w \in Q /\ q \in Q
    OBVIOUS
  <1>6. \A a, b, c \in Q : (a \o b) \o c = a \o (b \o c)
    BY JoinThree, SMTT(60)
  <1> HIDE DEF w, q, Q
  <1>7. (q \o w) \o q = q \o (w \o q)
    BY <1>5, <1>6
  <1>8. v = (q \o w) \o q
    BY <1>2, <1>3, <1>4, <1>7
  <1> QED BY <1>5, <1>8 DEF w, q, Q

(* What a flat body gives.                                                  *)
LEMMA FlatParts ==
    ASSUME NEW words, NEW fields, NEW c, NEW d, Flat(words, fields, c, d)
    PROVE  /\ FlatHas(words \union Syntax, NamesOf(fields), fields, c, d)
           /\ DOMAIN fields = 1..Len(fields)
  <1> DEFINE S == words \union Syntax
             n == Len(fields)
             names == {fields[i][1] : i \in 1..n}
  <1>1. /\ words \intersect Syntax = {}
        /\ fields \in Seq(words \X Seq(S))
        /\ \A i \in 1..n :
              \/ Bare(fields[i][2], names)
              \/ /\ Len(fields[i][2]) >= 2 /\ fields[i][2][1] = Quote
                 /\ fields[i][2][Len(fields[i][2])] = Quote
                 /\ Between(SubSeq(fields[i][2], 2, Len(fields[i][2]) - 1), names)
        /\ c \in Seq(Blank) /\ d \in Seq(Blank)
    BY DEF Flat
  <1>2. n \in Nat /\ DOMAIN fields = 1..n
    BY <1>1
  <1>3. {Quote, Open, Close, Comma, ":"} \subseteq S /\ Blank \subseteq S
    BY DEF Syntax
  <1>4. /\ c \in Seq(S) /\ d \in Seq(S)
        /\ \A i \in 1..Len(c) : c[i] \in Blank
        /\ \A i \in 1..Len(d) : d[i] \in Blank
    <2> HIDE DEF S
    <2> QED BY <1>1, <1>3
  <1>5. ASSUME NEW i \in 1..n
        PROVE  /\ fields[i][1] \in words /\ fields[i][2] \in Seq(S)
               /\ fields[i] = <<fields[i][1], fields[i][2]>>
    <2> HIDE DEF S, n
    <2> DEFINE P == words \X Seq(S)
    <2>1. fields[i] \in P
      <3>1. fields \in Seq(P)
        BY <1>1
      <3> HIDE DEF P
      <3> QED BY <1>2, <3>1
    <2> QED BY <2>1
  <1>6. ASSUME NEW k \in names PROVE k \in S /\ k \notin Syntax
    BY <1>1, <1>5
  <1>7. ASSUME NEW i \in 1..n PROVE fields[i][1] \in names
    OBVIOUS
  <1>8. Quote \notin names
    BY <1>6 DEF Syntax
  <1>9. ASSUME NEW i \in 1..n PROVE Readable(fields[i][2], names)
    <2> DEFINE v == fields[i][2]
    <2>1. v \in Seq(S) /\ Quote \in S
      BY <1>3, <1>5
    <2>2. \/ Bare(v, names)
          \/ \E w \in Seq(S) : v = <<Quote>> \o w \o <<Quote>> /\ Between(w, names)
      <3>1. \/ Bare(v, names)
            \/ /\ Len(v) >= 2 /\ v[1] = Quote /\ v[Len(v)] = Quote
               /\ Between(SubSeq(v, 2, Len(v) - 1), names)
        BY <1>1
      <3> HIDE DEF v, S, names
      <3>2. ASSUME Len(v) >= 2, v[1] = Quote, v[Len(v)] = Quote
            PROVE  /\ SubSeq(v, 2, Len(v) - 1) \in Seq(S)
                   /\ v = <<Quote>> \o SubSeq(v, 2, Len(v) - 1) \o <<Quote>>
        BY <2>1, <3>2, BetweenQuotes
      <3> QED BY <3>1, <3>2
    <2> HIDE DEF v, S, names
    <2>3. ASSUME Bare(v, names) PROVE Readable(v, names)
      BY <2>1, <2>3, BareReadable
    <2>4. ASSUME \E w \in Seq(S) : v = <<Quote>> \o w \o <<Quote>> /\ Between(w, names)
          PROVE  Readable(v, names)
      <3>1. PICK w \in Seq(S) : v = <<Quote>> \o w \o <<Quote>> /\ Between(w, names)
        BY <2>4
      <3>2. Readable(<<Quote>> \o w \o <<Quote>>, names)
        BY <1>8, <2>1, <3>1, BetweenReadable, Zenon
      <3> QED BY <3>1, <3>2, Zenon
    <2>5. Readable(v, names)
      BY <2>2, <2>3, <2>4, Zenon
    <2> QED BY <2>5 DEF v
  <1>10. names = NamesOf(fields)
    BY DEF NamesOf
  <1> HIDE DEF n, S, names
  <1>11. \A i \in 1..n : /\ fields[i][1] \in names /\ fields[i][2] \in Seq(S)
                         /\ Readable(fields[i][2], names)
                         /\ fields[i] = <<fields[i][1], fields[i][2]>>
    BY <1>5, <1>7, <1>9
  <1>12. \A k \in names : k \in S /\ k \notin Syntax
    BY <1>6
  <1>13. FlatHas(S, names, fields, c, d)
    BY <1>2, <1>3, <1>4, <1>11, <1>12 DEF FlatHas, n
  <1> QED BY <1>2, <1>10, <1>13 DEF n, S

(* A flat body passes for JSON.                                             *)
LEMMA FlatValid ==
    ASSUME NEW words, NEW fields, NEW c, NEW d, Flat(words, fields, c, d)
    PROVE  isValidJsonStructure(Written(fields, c, d))
  <1> DEFINE S == words \union Syntax
             n == Len(fields)
             names == NamesOf(fields)
             p == Pieces(fields, c, d)
             G == {a \in Seq(S) : Scans(a, Outside, Outside)}
             inner == FlattenSeq(p)
             opening == <<Open>>
             closing == <<Close>>
             text == opening \o inner \o closing
             none == Counted(FALSE, 0)
  <1> HIDE DEF S, n, names, p, G, inner, opening, closing, text, none
  <1>0. FlatHas(S, names, fields, c, d) /\ DOMAIN fields = 1..n
    BY FlatParts DEF S, names, n
  <1>1. /\ n \in Nat /\ {Quote, Open, Close, Comma, ":"} \subseteq S
        /\ c \in Seq(S) /\ d \in Seq(S)
        /\ \A i \in 1..Len(c) : c[i] \in Blank
        /\ \A i \in 1..Len(d) : d[i] \in Blank
        /\ \A k \in names : k \in S /\ k \notin Syntax
        /\ \A i \in 1..n : /\ fields[i][1] \in names /\ fields[i][2] \in Seq(S)
                           /\ Readable(fields[i][2], names)
                           /\ fields[i] = <<fields[i][1], fields[i][2]>>
        /\ DOMAIN p = 1..n
        /\ \A i \in 1..n : p[i] = Before(i, d) \o MemberText(fields[i], c)
    BY <1>0 DEF FlatHas, Pieces, p, n
  <1>2. \A k \in names : k \notin {Quote, "\\"}
    BY <1>1 DEF Syntax
  <1>3. ASSUME NEW i \in 1..n PROVE p[i] \in G
    <2> DEFINE k == fields[i][1]
               v == fields[i][2]
    <2>1. k \in S /\ k \notin {Quote, "\\"} /\ v \in Seq(S) /\ Scans(v, Outside, Outside)
      BY <1>1, <1>2 DEF Readable
    <2>2. p[i] = Before(i, d) \o MemberText(<<k, v>>, c)
      BY <1>1
    <2> HIDE DEF k, v
    <2>3. Scans(Before(i, d) \o MemberText(<<k, v>>, c), Outside, Outside)
      BY <1>1, <2>1, ScansPiece
    <2>4. Before(i, d) \o MemberText(<<k, v>>, c) \in Seq(S)
      <3> DEFINE q == <<Quote, k, Quote>>
                 col == <<":">>
                 com == <<Comma>>
      <3>1. q \in Seq(S) /\ col \in Seq(S) /\ com \in Seq(S) /\ <<>> \in Seq(S)
        BY <1>1, <2>1
      <3> HIDE DEF q, col, com
      <3> DEFINE Q == Seq(S)
      <3>2. \A a, b \in Q : a \o b \in Q
        OBVIOUS
      <3>3. c \in Q /\ d \in Q /\ v \in Q /\ q \in Q /\ col \in Q /\ com \in Q /\ <<>> \in Q
        BY <1>1, <2>1, <3>1
      <3> HIDE DEF Q
      <3>4. Before(i, d) \in Q
        BY <3>2, <3>3 DEF Before, com
      <3>5. ((q \o col) \o c) \o v \in Q
        <4>1. q \o col \in Q
          BY <3>2, <3>3
        <4>2. (q \o col) \o c \in Q
          BY <3>2, <3>3, <4>1
        <4> QED BY <3>2, <3>3, <4>2
      <3>6. MemberText(<<k, v>>, c) = ((q \o col) \o c) \o v
        BY DEF MemberText, q, col
      <3> QED BY <3>2, <3>4, <3>5, <3>6 DEF Q
    <2> QED BY <2>2, <2>3, <2>4 DEF G
  <1>4. p \in Seq(G)
    <2>1. p = [i \in 1..n |-> p[i]]
      BY <1>1 DEF p, Pieces
    <2>2. [i \in 1..n |-> p[i]] \in [1..n -> G]
      BY <1>3
    <2>3. [1..n -> G] \subseteq Seq(G)
      <3>1. n \in Nat
        BY <1>1
      <3> QED BY <3>1
    <2> QED BY <2>1, <2>2, <2>3
  <1>5. inner \in Seq(S) /\ Scans(inner, Outside, Outside)
    <2>1. G \in SUBSET Seq(S)
      BY DEF G
    <2>2. <<>> \in G
      <3>1. \A j \in 1..0 : FALSE
        OBVIOUS
      <3> DEFINE e == <<>>
      <3>2. e \in Seq(S) /\ \A j \in 1..Len(e) : ScanJson(Outside, e[j]) = Outside
        OBVIOUS
      <3> HIDE DEF e
      <3>3. Scans(e, Outside, Outside)
        BY <3>2, ScansStay
      <3> QED BY <3>2, <3>3 DEF G, e
    <2>3. ASSUME NEW a \in G, NEW b \in G PROVE a \o b \in G
      <3>1. a \in Seq(S) /\ b \in Seq(S) /\ Scans(a, Outside, Outside) /\ Scans(b, Outside, Outside)
        BY DEF G
      <3>2. Scans(a \o b, Outside, Outside)
        BY <3>1, ScansJoin
      <3>3. a \o b \in Seq(S)
        BY <3>1
      <3> QED BY <3>2, <3>3 DEF G
    <2>4. inner \in G
      BY <1>4, <2>1, <2>2, <2>3, FlattenIn DEF inner
    <2> QED BY <2>4 DEF G
  <1>6. opening \in Seq(S) /\ closing \in Seq(S)
    BY <1>1 DEF opening, closing
  <1>7. Scans(opening, none, Outside) /\ Scans(closing, Outside, none)
    <2>1. Scans(<<Open>>, none, ScanJson(none, Open)) /\ Scans(<<Close>>, Outside, ScanJson(Outside, Close))
      BY ScansSymbol
    <2> QED BY <2>1, ScanSymbols DEF opening, closing, none
  <1>8. text \in Seq(S) /\ Scans(text, none, none) /\ text # <<>>
    <2> DEFINE e == opening \o inner
    <2>1. e \in Seq(S) /\ text = e \o closing
      BY <1>5, <1>6 DEF text
    <2>2. Scans(e, none, Outside)
      BY <1>5, <1>6, <1>7, ScansJoin
    <2> HIDE DEF e
    <2>3. Scans(e \o closing, none, none)
      BY <1>6, <1>7, <2>1, <2>2, ScansJoin
    <2>4. Len(e \o closing) = Len(e) + 1 /\ e \o closing \in Seq(S)
      BY <1>6, <2>1 DEF closing
    <2>5. e \o closing # <<>>
      BY <2>1, <2>4
    <2> QED BY <2>1, <2>3, <2>4, <2>5
  <1>9. FoldLeft(ScanJson, none, text) = none
    <2>1. Scans(text, none, FoldLeft(ScanJson, none, text))
      BY <1>8, FoldScans
    <2> QED BY <1>8, <2>1, ScansOnly
  <1>10. /\ none = [escaped |-> FALSE, inString |-> FALSE, braces |-> 0, brackets |-> 0, ok |-> TRUE]
         /\ none.ok /\ none.braces = 0 /\ none.brackets = 0 /\ ~none.inString
    <2>1. none = [escaped |-> FALSE, inString |-> FALSE, braces |-> 0, brackets |-> 0, ok |-> TRUE]
      BY DEF none, Counted
    <2> QED BY <2>1
  <1>11. isValidJsonStructure(text)
    BY <1>8, <1>9, <1>10, Zenon DEF isValidJsonStructure
  <1>12. Written(fields, c, d) = text
    BY WrittenIs DEF text, opening, inner, p, closing
  <1> QED BY <1>11, <1>12

(* The text around a field, put together one way and the other.              *)
Texts(S, opening, f, pre, q, col, c, v, b, closing) ==
    /\ opening \in Seq(S) /\ f \in Seq(S) /\ pre \in Seq(S) /\ q \in Seq(S) /\ col \in Seq(S)
    /\ c \in Seq(S) /\ v \in Seq(S) /\ b \in Seq(S) /\ closing \in Seq(S)

Regrouped(opening, f, pre, q, col, c, v, b, closing) ==
    (opening \o (f \o ((pre \o (((q \o col) \o c) \o v)) \o b))) \o closing
      = (opening \o (f \o pre)) \o ((q \o col) \o (c \o (v \o (b \o closing))))

(* They are the same.                                                       *)
LEMMA Regroup ==
    \A S, opening, f, pre, q, col, c, v, b, closing :
        Texts(S, opening, f, pre, q, col, c, v, b, closing)
            => Regrouped(opening, f, pre, q, col, c, v, b, closing)
  <1> SUFFICES ASSUME NEW S, NEW opening, NEW f, NEW pre, NEW q, NEW col, NEW c, NEW v, NEW b,
                      NEW closing, Texts(S, opening, f, pre, q, col, c, v, b, closing)
               PROVE  Regrouped(opening, f, pre, q, col, c, v, b, closing)
    BY Zenon
  <1> DEFINE Q == Seq(S)
             qc == Then(q, col)
             qcc == Then(qc, c)
             m == Then(qcc, v)
             p == Then(pre, m)
             r == Then(p, b)
             g == Then(f, r)
             e == Then(b, closing)
             x == Then(m, e)
             fp == Then(f, pre)
             px == Then(pre, x)
             ve == Then(v, e)
  <1>1. \A i, j, k \in Q : Then(Then(i, j), k) = Then(i, Then(j, k)) /\ Then(i, j) \in Q
    BY ThenThree
  <1>3. /\ opening \in Q /\ f \in Q /\ pre \in Q /\ q \in Q /\ col \in Q /\ c \in Q /\ v \in Q
        /\ b \in Q /\ closing \in Q
    BY DEF Texts
  <1> HIDE DEF Q, qc, qcc, m, p, r, g, e, x, fp, px, ve
  <1>4. qc \in Q
    BY <1>1, <1>3 DEF qc
  <1>5. qcc \in Q
    BY <1>1, <1>3, <1>4 DEF qcc
  <1>6. m \in Q
    BY <1>1, <1>3, <1>5 DEF m
  <1>7. p \in Q
    BY <1>1, <1>3, <1>6 DEF p
  <1>8. r \in Q
    BY <1>1, <1>3, <1>7 DEF r
  <1>9. g \in Q /\ e \in Q /\ fp \in Q
    BY <1>1, <1>3, <1>8 DEF g, e, fp
  <1>10. x \in Q /\ ve \in Q
    BY <1>1, <1>3, <1>6, <1>9 DEF x, ve
  <1>12. Then(Then(opening, g), closing) = Then(opening, Then(g, closing))
    BY <1>1, <1>3, <1>9
  <1>13. Then(g, closing) = Then(f, Then(r, closing))
    BY <1>1, <1>3, <1>8 DEF g
  <1>14. Then(r, closing) = Then(p, e)
    BY <1>1, <1>3, <1>7 DEF r, e
  <1>15. Then(p, e) = px
    BY <1>1, <1>3, <1>6, <1>9 DEF p, px, x
  <1>16. Then(f, px) = Then(fp, x)
    BY <1>1, <1>3, <1>10 DEF px, fp
  <1>17. Then(opening, Then(fp, x)) = Then(Then(opening, fp), x)
    BY <1>1, <1>3, <1>9, <1>10
  <1>18. x = Then(qcc, ve)
    BY <1>1, <1>3, <1>5, <1>9 DEF x, m, ve
  <1>19. Then(qcc, ve) = Then(qc, Then(c, ve))
    BY <1>1, <1>3, <1>4, <1>10 DEF qcc
  <1>20. Then(Then(opening, g), closing) = Then(Then(opening, fp), Then(qc, Then(c, ve)))
    BY <1>12, <1>13, <1>14, <1>15, <1>16, <1>17, <1>18, <1>19
  <1> QED BY <1>20, Zenon DEF Regrouped, Then, g, r, p, m, qcc, qc, fp, ve, e

(* A text and one symbol more.                                              *)
LEMMA OneMore ==
    ASSUME NEW S, NEW b \in Seq(S), NEW x \in S
    PROVE  /\ b \o <<x>> \in Seq(S) /\ b \o <<x>> # <<>>
           /\ (b \o <<x>>)[1] = IF b = <<>> THEN x ELSE b[1]
  OBVIOUS

(* Each field of a flat body is read as it was written.                     *)
LEMMA FlatField ==
    ASSUME NEW words, NEW fields, NEW c, NEW d, Flat(words, fields, c, d),
           NEW j \in 1..Len(fields)
    PROVE  extractJsonField(Written(fields, c, d), fields[j][1]) = Unquoted(fields[j][2])
  <1> DEFINE S == words \union Syntax
             n == Len(fields)
             names == NamesOf(fields)
             p == Pieces(fields, c, d)
             k == fields[j][1]
             v == fields[j][2]
             G == {a \in Seq(S) : Clear(a, k)}
             opening == <<Open>>
             closing == <<Close>>
             q == <<Quote, k, Quote>>
             col == <<":">>
             f == FlattenSeq(SubSeq(p, 1, j - 1))
             pre == Before(j, d)
             whole == <<Quote, k, Quote, ":">>
  <1>1. \A i1, i2 \in 1..n : fields[i1][1] = fields[i2][1] => i1 = i2
    BY DEF Flat
  <1> HIDE DEF S, n, names, p, k, v, G, opening, closing, q, col, f, pre, whole
  <1>2. FlatHas(S, names, fields, c, d) /\ DOMAIN fields = 1..n
    BY FlatParts DEF S, names, n
  <1>3. /\ n \in Nat /\ {Quote, Open, Close, Comma, ":"} \subseteq S
        /\ c \in Seq(S) /\ d \in Seq(S)
        /\ \A i \in 1..Len(c) : c[i] \in Blank
        /\ \A i \in 1..Len(d) : d[i] \in Blank
        /\ \A w \in names : w \in S /\ w \notin Syntax
        /\ \A i \in 1..n : /\ fields[i][1] \in names /\ fields[i][2] \in Seq(S)
                           /\ Readable(fields[i][2], names)
                           /\ fields[i] = <<fields[i][1], fields[i][2]>>
        /\ DOMAIN p = 1..n
        /\ \A i \in 1..n : p[i] = Before(i, d) \o MemberText(fields[i], c)
    BY <1>2 DEF FlatHas, Pieces, p, n
  <1>4. j \in 1..n /\ k \in names /\ k \in S /\ k \notin Syntax /\ v \in Seq(S) /\ Readable(v, names)
    BY <1>3 DEF n, k, v
  <1>5. k # Quote /\ k # Open /\ Quote \in S /\ ":" \in S /\ Comma \in S
    BY <1>3, <1>4 DEF Syntax
  <1>6. opening \in Seq(S) /\ closing \in Seq(S) /\ q \in Seq(S) /\ col \in Seq(S)
    BY <1>3, <1>4 DEF opening, closing, q, col
  <1>7. ASSUME NEW i \in 1..n
        PROVE  /\ p[i] \in Seq(S) /\ Before(i, d) \in Seq(S) /\ Clear(Before(i, d), k)
               /\ i # j => p[i] \in G
    <2> DEFINE word == fields[i][1]
               u == fields[i][2]
    <2>1. /\ word \in S /\ u \in Seq(S) /\ p[i] = Before(i, d) \o MemberText(<<word, u>>, c)
          /\ Clear(u, k) /\ (i # j => word # k)
      <3>1. word \in names /\ Readable(u, names) /\ fields[i] = <<word, u>>
        BY <1>3
      <3>2. i # j => word # k
        BY <1>1, <1>4 DEF k
      <3> QED BY <1>3, <1>4, <3>1, <3>2 DEF Readable
    <2> HIDE DEF word, u
    <2>2. Before(i, d) \in Seq(S) /\ MemberText(<<word, u>>, c) \in Seq(S) /\ p[i] \in Seq(S)
      <3> DEFINE Q == Seq(S)
                 com == <<Comma>>
                 qw == <<Quote, word, Quote>>
      <3>1. qw \in Q /\ com \in Q /\ <<>> \in Q
        BY <1>5, <2>1
      <3>2. \A a, b \in Q : a \o b \in Q
        OBVIOUS
      <3>3. c \in Q /\ d \in Q /\ u \in Q /\ col \in Q
        BY <1>3, <1>6, <2>1
      <3> HIDE DEF Q, com, qw
      <3>4. Before(i, d) \in Q
        BY <3>1, <3>2, <3>3 DEF Before, com
      <3>5. ((qw \o col) \o c) \o u \in Q
        <4>1. qw \o col \in Q
          BY <3>1, <3>2, <3>3
        <4>2. (qw \o col) \o c \in Q
          BY <3>2, <3>3, <4>1
        <4> QED BY <3>2, <3>3, <4>2
      <3>6. MemberText(<<word, u>>, c) = ((qw \o col) \o c) \o u
        BY DEF MemberText, qw, col
      <3> QED BY <2>1, <3>2, <3>4, <3>5, <3>6 DEF Q
    <2>3. Clear(Before(i, d), k)
      <3>1. k \notin Syntax /\ k \in S /\ \A x \in Blank : x # k
        BY <1>4 DEF Syntax
      <3>2. k # Comma
        BY <1>4 DEF Syntax
      <3> DEFINE com == <<Comma>>
      <3>3. com \in Seq(S) /\ \A x \in 1..Len(com) : com[x] # k
        BY <1>5, <3>2
      <3> HIDE DEF com
      <3>4. Clear(com, k) /\ Clear(d, k)
        BY <1>3, <3>1, <3>3, ClearWithout
      <3>5. Clear(com \o d, k)
        BY <1>3, <3>3, <3>4, ClearJoin
      <3>6. Clear(<<>>, k)
        BY DEF Clear
      <3> QED BY <3>5, <3>6 DEF Before, com
    <2>4. ASSUME i # j PROVE p[i] \in G
      <3>1. Clear(Before(i, d) \o MemberText(<<word, u>>, c), k)
        BY <1>3, <1>4, <1>5, <2>1, <2>4, ClearPiece
      <3> QED BY <2>1, <2>2, <3>1 DEF G
    <2> QED BY <2>2, <2>3, <2>4
  <1>8. p \in Seq(Seq(S)) /\ Len(p) = n
    <2>1. p = [i \in 1..n |-> p[i]]
      BY <1>3 DEF p, Pieces
    <2>2. [i \in 1..n |-> p[i]] \in [1..n -> Seq(S)]
      BY <1>7
    <2>3. [1..n -> Seq(S)] \subseteq Seq(Seq(S))
      BY <1>3
    <2>4. Len([i \in 1..n |-> p[i]]) = n
      BY <1>3
    <2> QED BY <2>1, <2>2, <2>3, <2>4
  <1>9. \A i \in j + 1..Len(p) : p[i] # <<>> /\ p[i][1] = Comma
    <2> SUFFICES ASSUME NEW i \in j + 1..Len(p) PROVE p[i] # <<>> /\ p[i][1] = Comma
      OBVIOUS
    <2> DEFINE mem == MemberText(fields[i], c)
               bef == Before(i, d)
    <2>1. i \in 1..n /\ i # 1
      BY <1>3, <1>4, <1>8
    <2>2. bef = <<Comma>> \o d
      BY <2>1 DEF Before
    <2>3. bef \in Seq(S) /\ Len(bef) >= 1 /\ bef[1] = Comma
      BY <1>3, <1>5, <2>2
    <2>4. p[i] = bef \o mem /\ p[i] \in Seq(S)
      BY <1>3, <1>7, <2>1
    <2>5. mem \in Seq(S)
      <3> DEFINE Q == Seq(S)
                 qw == <<Quote, fields[i][1], Quote>>
                 u == fields[i][2]
      <3>1. qw \in Q /\ u \in Q
        <4>1. fields[i][1] \in S /\ fields[i][2] \in Seq(S)
          BY <1>3, <2>1
        <4> QED BY <1>5, <4>1
      <3>2. \A a, b \in Q : a \o b \in Q
        OBVIOUS
      <3>3. c \in Q /\ col \in Q
        BY <1>3, <1>6
      <3> HIDE DEF Q, qw, u
      <3>4. qw \o col \in Q
        BY <3>1, <3>2, <3>3
      <3>5. (qw \o col) \o c \in Q
        BY <3>2, <3>3, <3>4
      <3>6. ((qw \o col) \o c) \o u \in Q
        BY <3>1, <3>2, <3>5
      <3> QED BY <3>6 DEF Q, MemberText, qw, u, col
    <2> HIDE DEF mem, bef
    <2> QED BY <2>3, <2>4, <2>5
  <1>10. f \in Seq(S) /\ Clear(f, k)
    <2> DEFINE s == SubSeq(p, 1, j - 1)
    <2>1. /\ s \in Seq(Seq(S)) /\ Len(s) = j - 1
          /\ \A i \in 1..j - 1 : s[i] = p[i]
      BY <1>4, <1>8
    <2> HIDE DEF s
    <2>2. s \in Seq(G)
      <3>1. s = [i \in 1..j - 1 |-> s[i]]
        BY <2>1
      <3>2. ASSUME NEW i \in 1..j - 1 PROVE s[i] \in G
        <4>1. i \in 1..n /\ i # j
          BY <1>3, <1>4
        <4> QED BY <1>7, <2>1, <4>1
      <3>3. [i \in 1..j - 1 |-> s[i]] \in [1..j - 1 -> G]
        BY <3>2
      <3>4. [1..j - 1 -> G] \subseteq Seq(G)
        <4>1. j - 1 \in Nat
          BY <1>3, <1>4
        <4> QED BY <4>1
      <3> QED BY <3>1, <3>3, <3>4
    <2>3. G \in SUBSET Seq(S)
      BY DEF G
    <2>4. <<>> \in G
      BY DEF G, Clear
    <2>5. ASSUME NEW a \in G, NEW b \in G PROVE a \o b \in G
      <3>1. a \in Seq(S) /\ b \in Seq(S) /\ Clear(a, k) /\ Clear(b, k)
        BY DEF G
      <3>2. Clear(a \o b, k)
        BY <3>1, ClearJoin
      <3>3. a \o b \in Seq(S)
        BY <3>1
      <3> QED BY <3>2, <3>3 DEF G
    <2>6. FlattenSeq(s) \in G
      BY <2>2, <2>3, <2>4, <2>5, FlattenIn
    <2> QED BY <2>6 DEF G, f, s
  <1>11. PICK b \in Seq(S) : /\ FlattenSeq(p) = f \o (p[j] \o b)
                             /\ b = <<>> \/ b[1] = Comma
    <2>1. j \in 1..Len(p)
      BY <1>4, <1>8
    <2>2. \E b \in Seq(S) : /\ FlattenSeq(p) = FlattenSeq(SubSeq(p, 1, j - 1)) \o (p[j] \o b)
                            /\ b = <<>> \/ b[1] = Comma
      <3>1. Marked(S, p, j, Comma)
        BY <1>8, <1>9, <2>1 DEF Marked
      <3>2. SplitAt(S, p, j, Comma)
        BY <3>1, FlattenAround, Zenon
      <3> QED BY <3>2, Zenon DEF SplitAt
    <2> QED BY <2>2, Zenon DEF f
  <1>12. pre \in Seq(S) /\ Clear(pre, k)
    BY <1>4, <1>7 DEF pre
  <1>13. p[j] = pre \o (((q \o col) \o c) \o v)
    BY <1>3, <1>4 DEF pre, MemberText, q, col, k, v
  <1>14. Written(fields, c, d) = (opening \o FlattenSeq(p)) \o closing
    BY WrittenIs DEF opening, closing, p
  <1>15. (opening \o FlattenSeq(p)) \o closing
           = (opening \o (f \o pre)) \o ((q \o col) \o (c \o (v \o (b \o closing))))
    <2>1. (opening \o (f \o ((pre \o (((q \o col) \o c) \o v)) \o b))) \o closing
            = (opening \o (f \o pre)) \o ((q \o col) \o (c \o (v \o (b \o closing))))
      <3>1. /\ opening \in Seq(S) /\ f \in Seq(S) /\ pre \in Seq(S) /\ q \in Seq(S) /\ col \in Seq(S)
            /\ c \in Seq(S) /\ v \in Seq(S) /\ b \in Seq(S) /\ closing \in Seq(S)
        BY <1>3, <1>4, <1>6, <1>10, <1>12
      <3>2. Texts(S, opening, f, pre, q, col, c, v, b, closing)
        BY <3>1 DEF Texts
      <3>3. Regrouped(opening, f, pre, q, col, c, v, b, closing)
        BY <3>2, Regroup, Zenon
      <3> QED BY <3>3, Zenon DEF Regrouped
    <2> QED BY <1>11, <1>13, <2>1, Zenon
  <1>16. q \o col = whole
    <2> DEFINE w == q \o col
    <2>1. w \in Seq(S) /\ Len(w) = 4 /\ w[1] = Quote /\ w[2] = k /\ w[3] = Quote /\ w[4] = ":"
      BY <1>4, <1>5 DEF q, col
    <2> HIDE DEF w
    <2>2. w = <<w[1], w[2], w[3], w[4]>>
      BY <2>1
    <2> QED BY <2>1, <2>2 DEF w, whole
  <1> DEFINE a == opening \o (f \o pre)
             e == b \o closing
  <1>17. a \in Seq(S) /\ Clear(a, k)
    <2> DEFINE g == f \o pre
    <2>1. g \in Seq(S)
      BY <1>10, <1>12
    <2>2. Clear(g, k)
      BY <1>10, <1>12, ClearJoin
    <2> HIDE DEF g
    <2>3. Clear(opening, k)
      <3>1. Len(opening) = 1 /\ opening[1] = Open
        BY DEF opening
      <3>2. \A i \in 1..Len(opening) : opening[i] # k
        BY <1>5, <3>1
      <3> QED BY <3>2, ClearWithout
    <2>4. Clear(opening \o g, k)
      BY <1>6, <2>1, <2>2, <2>3, ClearJoin
    <2>5. opening \o g \in Seq(S)
      BY <1>6, <2>1
    <2> QED BY <2>4, <2>5 DEF g
  <1>18. e \in Seq(S) /\ e # <<>> /\ e[1] \in Ends
    <2>1. Close \in S
      BY <1>3
    <2>2. /\ b \o <<Close>> \in Seq(S) /\ b \o <<Close>> # <<>>
          /\ (b \o <<Close>>)[1] = IF b = <<>> THEN Close ELSE b[1]
      BY <2>1, OneMore
    <2>3. e = b \o <<Close>>
      BY DEF closing
    <2>4. Comma \in Ends /\ Close \in Ends
      BY DEF Ends
    <2> HIDE DEF e, a
    <2> QED BY <1>11, <2>2, <2>3, <2>4
  <1> HIDE DEF a, e
  <1>19. /\ v # <<>> /\ v[1] \notin Blank /\ \A i \in 1..Len(v) : v[i] \notin Ends
         /\ Trim(Unquoted(v)) = Unquoted(v)
    BY <1>4 DEF Readable
  <1>20. extractJsonField(a \o (<<Quote, k, Quote, ":">> \o (c \o (v \o e))), k) = Trim(Unquoted(v))
    <2>1. /\ a \in Seq(S) /\ c \in Seq(S) /\ v \in Seq(S) /\ e \in Seq(S)
          /\ k \in S /\ Quote \in S /\ ":" \in S /\ k # Quote /\ Clear(a, k)
          /\ \A i \in 1..Len(c) : c[i] \in Blank
          /\ v # <<>> /\ v[1] \notin Blank /\ \A i \in 1..Len(v) : v[i] \notin Ends
          /\ e # <<>> /\ e[1] \in Ends
      BY <1>3, <1>4, <1>5, <1>17, <1>18, <1>19
    <2>2. FieldAmid(S, a, c, v, e, k)
      BY <2>1 DEF FieldAmid
    <2>3. FieldRead(a, c, v, e, k)
      BY <2>2, FieldInText, Zenon
    <2> QED BY <2>3, Zenon DEF FieldRead
  <1>21. Written(fields, c, d) = a \o (<<Quote, k, Quote, ":">> \o (c \o (v \o e)))
    BY <1>14, <1>15, <1>16, Zenon DEF a, e, whole
  <1> QED BY <1>19, <1>20, <1>21 DEF k, v

(* Every flat body passes for JSON, and each of its fields is read as it was *)
(* written.                                                                 *)
THEOREM FlatBodyIsRead ==
    ASSUME NEW words, NEW fields, NEW afterColon, NEW afterComma,
           Flat(words, fields, afterColon, afterComma)
    PROVE  FieldsRead(fields, afterColon, afterComma)
  <1>1. isValidJsonStructure(Written(fields, afterColon, afterComma))
    BY FlatValid
  <1>2. DOMAIN fields = 1..Len(fields)
    BY FlatParts
  <1>3. ASSUME NEW i \in DOMAIN fields
        PROVE  extractJsonField(Written(fields, afterColon, afterComma), fields[i][1])
                 = Unquoted(fields[i][2])
    BY <1>2, FlatField
  <1> QED BY <1>1, <1>3 DEF FieldsRead

(* The bodies stay what they were.                                          *)
BodyInv == part = "bodies" => body \in Bodies

(* In every behaviour of the parts that handle requests, a flat body passes  *)
(* for JSON and each of its fields is read as it was written (extractJson-   *)
(* Field, whose search for a name may start in another field's value).       *)
THEOREM FieldsExtracted == Spec => []FieldExtracted
  <1>1. Init => BodyInv
    BY Zenon DEF Init, BodyInv
  <1>2. BodyInv /\ [Next]_requests => BodyInv'
    BY Zenon DEF Next, BodyInv, requests
  <1>3. BodyInv => FieldExtracted
    <2> SUFFICES ASSUME BodyInv, part = "bodies"
                 PROVE  FieldsRead(body.fields, body.colon, body.comma)
      BY Zenon DEF FieldExtracted
    <2>1. Flat(bodyWords, body.fields, body.colon, body.comma)
      BY BodiesAssumption, Zenon DEF BodyInv
    <2> QED BY <2>1, FlatBodyIsRead, Zenon
  <1> QED BY <1>1, <1>2, <1>3, PTL DEF Spec

=============================================================================
