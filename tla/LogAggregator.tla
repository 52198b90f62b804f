---------------------------- MODULE LogAggregator ----------------------------
(***************************************************************************)
(* Structured logging: callers give entries to the aggregator, whose one    *)
(* worker moves its queue into a batch and ships the batch to each enabled  *)
(* destination without the lock. shutdown() asks the worker to end, joins   *)
(* it and closes the files. The wait of the worker is timed, so a missed    *)
(* notification delays it only.                                            *)
(***************************************************************************)
EXTENDS Naturals, FiniteSets, SequencesExt, QueueFilter

CONSTANTS
    Source,        \* threads that log
    Destination,   \* names of the destinations
    Severity,      \* levels of entries
    destinations,  \* destinations_: a sequence of configurations
    maxRotated,    \* 99, the numbers a rotated file can get
    maxFileLines,  \* max_file_size of the file destinations, in lines
    MaxBatch,      \* 1000, the largest batch
    MaxEntries,    \* bound: entries of all sources
    MaxRuns        \* bound: calls of initialize

(* A configuration names its type, whether it is enabled, allowed_levels    *)
(* and rotate_files; batch_size is never 0, so size triggers no batch: the  *)
(* batch it is compared with is empty each time.                           *)
ASSUME AggregatorAssumption ==
    /\ destinations \in Seq([name : Destination, type : {"FILE", "SYSLOG", "HTTP"},
                             enabled : BOOLEAN, levels : SUBSET Severity, rotate : BOOLEAN])
    /\ maxRotated \in Nat \ {0} /\ maxFileLines \in Nat /\ MaxBatch \in Nat \ {0}
    /\ MaxEntries \in Nat /\ MaxRuns \in Nat

VARIABLES
    arunning, ashutdown,  \* running_, shutdown_requested_
    aggregation,          \* aggregation_enabled_ with an aggregator_
    aqueue,     \* log_queue_
    abatch,     \* current_batch
    aworker,    \* where the worker is, the next destination while it ships
    timedOut,   \* whether batch_timeout has passed since last_batch_time
    astop,      \* where the thread that calls shutdown is
    source,     \* each source: where it is, its entry and its count
    logs,       \* the lines of each destination, current file last
    failed,     \* history: entries each destination refused
    runs,       \* calls of initialize
    fileStreams \* file_streams_: file destinations whose stream is open

avars == <<arunning, ashutdown, aggregation, aqueue, abatch, aworker, timedOut, astop,
           source, logs, failed, runs, fileStreams>>

NoEntry == <<>>
AInit ==
    /\ arunning = FALSE /\ ashutdown = FALSE /\ aggregation = FALSE
    /\ aqueue = <<>> /\ abatch = <<>>
    /\ aworker = <<"none">> /\ timedOut = FALSE /\ astop = "out"
    /\ source = [s \in Source |-> [pc |-> "idle", n |-> 0, entry |-> NoEntry]]
    /\ logs = [d \in Destination |-> [file |-> <<>>, rotated |-> <<>>, sent |-> <<>>]]
    /\ failed = [d \in Destination |-> <<>>]
    /\ runs = 0 /\ fileStreams = {}

-----------------------------------------------------------------------------
(* The logging calls.                                                      *)

createLogEntry(s, n, level) == [by |-> s, n |-> n, level |-> level, late |-> FALSE]

(* logStructured, logWithContext and the helpers for a component: the entry *)
(* is made, logged, and given to the aggregator if aggregation is enabled.  *)
logStructured(s, level) ==
    /\ source[s].pc = "idle"
    /\ MapThenSumSet(LAMBDA q : source[q].n, Source) < MaxEntries
    /\ LET n == source[s].n + 1
       IN  source' = [source EXCEPT ![s] =
               [pc |-> IF aggregation THEN "add" ELSE "idle", n |-> n,
                entry |-> createLogEntry(s, n, level)]]
    /\ UNCHANGED <<arunning, ashutdown, aggregation, aqueue, abatch, aworker, timedOut,
                   astop, logs, failed, runs, fileStreams>>

(* addLogEntry tests the two flags, and then takes the lock.                *)
addLogEntry(s) ==
    /\ \/ /\ source[s].pc = "add"
          /\ source' = [source EXCEPT ![s].pc =
                 IF arunning /\ ~ashutdown THEN "push" ELSE "idle"]
          /\ UNCHANGED aqueue
       \/ /\ source[s].pc = "push"
          /\ aqueue' = Append(aqueue, [source[s].entry EXCEPT !.late = ashutdown])
          /\ source' = [source EXCEPT ![s].pc = "idle"]
    /\ UNCHANGED <<arunning, ashutdown, aggregation, abatch, aworker, timedOut, astop,
                   logs, failed, runs, fileStreams>>

-----------------------------------------------------------------------------
(* The worker.                                                             *)

BatchTimeout ==
    /\ ~timedOut /\ timedOut' = TRUE
    /\ UNCHANGED <<arunning, ashutdown, aggregation, aqueue, abatch, aworker, astop,
                   source, logs, failed, runs, fileStreams>>

shouldProcess ==
    ashutdown \/ (timedOut /\ \E i \in DOMAIN destinations : destinations[i].enabled)

(* Mutant: the worker ends as soon as it is asked to.                       *)
CollectUnlessStopping ==
    /\ aworker = <<"loop">>
    /\ IF ashutdown THEN aworker' = <<"none">> /\ UNCHANGED <<aqueue, abatch>>
       ELSE /\ aqueue # <<>> /\ shouldProcess
            /\ aworker' = <<"ship", 1>> /\ abatch' = aqueue /\ aqueue' = <<>>
    /\ UNCHANGED <<arunning, ashutdown, aggregation, timedOut, astop, source, logs,
                   failed, runs, fileStreams>>

CollectBatch ==
    /\ aworker = <<"loop">>
    /\ IF aqueue = <<>>
       THEN /\ ashutdown /\ aworker' = <<"none">>
            /\ UNCHANGED <<aqueue, abatch>>
       ELSE /\ shouldProcess
            /\ LET k == IF Len(aqueue) < MaxBatch THEN Len(aqueue) ELSE MaxBatch
               IN  /\ abatch' = SubSeq(aqueue, 1, k)
                   /\ aqueue' = SubSeq(aqueue, k + 1, Len(aqueue))
            /\ aworker' = <<"ship", 1>>
    /\ UNCHANGED <<arunning, ashutdown, aggregation, timedOut, astop, source, logs,
                   failed, runs, fileStreams>>

(* allowed_components is empty: every component passes.                     *)
shouldShipEntry(dest, entry) == entry.level \in dest.levels

(* A file of maxFileLines is renamed to the first number that is free; when *)
(* none is, it replaces the last one.                                      *)
rotateAggregated(l) ==
    [l EXCEPT !.file = <<>>,
              !.rotated = IF Len(@) < maxRotated THEN Append(@, l.file)
                          ELSE [@ EXCEPT ![maxRotated] = l.file]]

(* The stream is opened when it is not open, and closed and opened again to *)
(* rotate; when that fails the batch is refused. What tellp() says of a      *)
(* stream that has just been opened to append is up to the library: the     *)
(* size of the file, or nothing.                                           *)
shipToFile(dest, entries) ==
    LET d == dest.name
        full == dest.rotate /\ Len(logs[d].file) >= maxFileLines
    IN  \E rotates \in IF d \in fileStreams THEN {full} ELSE {full, FALSE} :
        LET l == IF rotates THEN rotateAggregated(logs[d]) ELSE logs[d] IN
        \/ /\ logs' = [logs EXCEPT ![d] = [l EXCEPT !.file = @ \o entries, !.sent = @ \o entries]]
           /\ fileStreams' = fileStreams \union {d}
           /\ UNCHANGED failed
        \/ /\ \/ d \notin fileStreams /\ UNCHANGED logs
              \/ rotates /\ logs' = [logs EXCEPT ![d] = l]
           /\ fileStreams' = fileStreams \ {d}
           /\ failed' = [failed EXCEPT ![d] = @ \o entries]

shipToSyslog(l, entries) == [l EXCEPT !.sent = @ \o entries]

(* CloudWatch and Splunk as Elasticsearch and the HTTP endpoint: a request  *)
(* for the whole batch, which succeeds or not; a batch that failed is gone. *)
shipOverHttp(dest, entries) ==
    \/ logs' = [logs EXCEPT ![dest.name].sent = @ \o entries] /\ UNCHANGED failed
    \/ failed' = [failed EXCEPT ![dest.name] = @ \o entries] /\ UNCHANGED logs

shipToDestination(dest, entries) ==
    \/ dest.type = "FILE" /\ shipToFile(dest, entries)
    \/ dest.type = "HTTP" /\ shipOverHttp(dest, entries) /\ UNCHANGED fileStreams
    \/ /\ dest.type = "SYSLOG" /\ UNCHANGED <<failed, fileStreams>>
       /\ logs' = [logs EXCEPT ![dest.name] = shipToSyslog(@, entries)]

ShipBatch ==
    /\ aworker[1] = "ship" /\ aworker[2] <= Len(destinations)
    /\ LET dest == destinations[aworker[2]]
           filtered == Kept(abatch, {i \in DOMAIN abatch : shouldShipEntry(dest, abatch[i])})
       IN  IF dest.enabled /\ filtered # <<>>
           THEN shipToDestination(dest, filtered)
           ELSE UNCHANGED <<logs, failed, fileStreams>>
    /\ aworker' = <<"ship", aworker[2] + 1>>
    /\ UNCHANGED <<arunning, ashutdown, aggregation, aqueue, abatch, timedOut, astop, source, runs>>

(* Mutant: the batch is not cleared, and its loop begins again.             *)
KeepBatch ==
    /\ aworker = <<"ship", Len(destinations) + 1>>
    /\ timedOut' = FALSE /\ aworker' = IF ashutdown THEN <<"loop">> ELSE <<"ship", 1>>
    /\ UNCHANGED <<arunning, ashutdown, aggregation, aqueue, abatch, astop, source, logs,
                   failed, runs, fileStreams>>

EndBatch ==
    /\ aworker = <<"ship", Len(destinations) + 1>>
    /\ abatch' = <<>> /\ timedOut' = FALSE /\ aworker' = <<"loop">>
    /\ UNCHANGED <<arunning, ashutdown, aggregation, aqueue, astop, source, logs,
                   failed, runs, fileStreams>>

-----------------------------------------------------------------------------
(* setAggregationEnabled, initialize and shutdown.                         *)

(* A new aggregator is made and its worker started.                         *)
EnableAggregation ==
    /\ ~aggregation /\ ~arunning /\ astop = "out" /\ runs < MaxRuns
    /\ aggregation' = TRUE /\ arunning' = TRUE /\ ashutdown' = FALSE
    /\ aqueue' = <<>> /\ abatch' = <<>> /\ timedOut' = FALSE
    /\ aworker' = <<"loop">> /\ runs' = runs + 1
    /\ fileStreams' = {}
    /\ UNCHANGED <<astop, source, logs, failed>>

(* initialize() of a stopped aggregator leaves shutdown_requested_ set.     *)
initialize ==
    /\ aggregation /\ ~arunning /\ astop = "out" /\ runs < MaxRuns
    /\ arunning' = TRUE /\ aworker' = <<"loop">> /\ runs' = runs + 1 /\ timedOut' = FALSE
    /\ UNCHANGED <<ashutdown, aggregation, aqueue, abatch, astop, source, logs, failed,
                   fileStreams>>

ashutdownRequest ==
    /\ arunning /\ astop = "out"
    /\ ashutdown' = TRUE /\ astop' = "join"
    /\ UNCHANGED <<arunning, aggregation, aqueue, abatch, aworker, timedOut, source, logs,
                   failed, runs, fileStreams>>

ashutdownJoin ==
    /\ astop = "join" /\ aworker = <<"none">>
    /\ arunning' = FALSE /\ astop' = "out" /\ fileStreams' = {}
    /\ UNCHANGED <<ashutdown, aggregation, aqueue, abatch, aworker, timedOut, source, logs,
                   failed, runs>>

(* setAggregationEnabled(false) goes on to delete the aggregator; a caller  *)
(* inside it at that time is undefined behaviour, which is left out.        *)
DisableAggregation ==
    /\ aggregation /\ ~arunning /\ astop = "out"
    /\ \A s \in Source : source[s].pc = "idle"
    /\ aggregation' = FALSE
    /\ UNCHANGED <<arunning, ashutdown, aqueue, abatch, aworker, timedOut, astop, source,
                   logs, failed, runs, fileStreams>>

AWorkerStep == CollectBatch \/ ShipBatch \/ EndBatch
ANext ==
    \/ \E s \in Source : addLogEntry(s) \/ \E l \in Severity : logStructured(s, l)
    \/ AWorkerStep \/ BatchTimeout
    \/ EnableAggregation \/ initialize \/ ashutdownRequest \/ ashutdownJoin \/ DisableAggregation

AFairness == WF_avars(AWorkerStep) /\ WF_avars(BatchTimeout) /\ WF_avars(ashutdownJoin)
ASpec == AInit /\ [][ANext]_avars /\ AFairness

-----------------------------------------------------------------------------
(* The batches of a destination hold each entry once and the entries of a   *)
(* source in the order of its calls, however pushes, batches, failures and  *)
(* restarts interleave; and while a number is free, rotation loses nothing. *)
ShippedInOrder ==
    \A d \in Destination :
        /\ \A i, j \in DOMAIN logs[d].sent : i < j =>
               LET a == logs[d].sent[i]  b == logs[d].sent[j]
               IN  a.by = b.by => a.n < b.n
        /\ \A i \in DOMAIN logs[d].sent : \A j \in DOMAIN failed[d] :
               logs[d].sent[i] # failed[d][j]
        /\ (\E i \in DOMAIN destinations :
                destinations[i].name = d /\ destinations[i].type = "FILE") =>
           (Len(logs[d].rotated) < maxRotated =>
                FlattenSeq(logs[d].rotated) \o logs[d].file = logs[d].sent)

(* When shutdown() has joined the worker, the queue and the batch hold no   *)
(* entry that was pushed before shutdown was requested: each has been       *)
(* offered to the destinations.                                            *)
NothingLeftBehind ==
    astop = "join" /\ aworker = <<"none">> =>
        abatch = <<>> /\ \A i \in DOMAIN aqueue : aqueue[i].late
=============================================================================
