# ETL Plus backend: a TLA+ verification development

This directory specifies the ETL Plus backend (the C++ program under `src/src`
and `src/include`) in TLA+, model-checks it with TLC and
proves its main safety properties with TLAPS. It is meant to be read next to the
code: `PROJECT.json` names, for every definition, the lines it models.

## 1. The system

`main.cpp` (the executable the build produces) wires a database manager, an
authentication manager, the ETL job manager, the WebSocket manager, a request
handler and the HTTP server. `main_integrated.cpp` (in the tree, not built) adds
the job monitor service and the notification service.

| Component | State | Operations | Interacts with |
|---|---|---|---|
| ETL job manager (`etl_job_manager`, `etl_job_repository`) | `jobs_`, `jobQueue_`, `running_`, one worker thread, table `etl_jobs` | scheduleJob, cancelJob, getJob(s), start, stop, workerLoop, executeJob(WithMonitoring) | database (rows), job monitor (callbacks), metrics collector (thread) |
| Job monitor service (`job_monitor_service`, `..._recovery`) | `activeJobs_`, `completedJobs_`, metrics history, circuit breaker, recovery state | onJobStatusChanged, onJobProgressUpdated, updateJobMetrics, lookups, start, stop, health check | job manager (lookups under its own lock), WebSocket manager, notifier |
| Metrics collector (`system_metrics`) | counters, update thread | startCollection, stopCollection, updateLoop | calls back into the job manager and the monitor |
| Database connection pool (`database_connection_pool`, `database_manager`) | idle queue, active list, counters, health thread | acquire, release, health check, shutdown | every query of every component |
| Lock utilities (`lock_utils`) | per-thread held locks, lock statistics | ScopedTimedLock, DeadlockDetector, LockMonitor | job manager and others |
| Notification service (`notification_service`, `..._recovery`) | bounded queue, retry queue, alert cooldowns, worker thread | sendX, processNotifications, retry, start, stop | job monitor, resource monitor |
| WebSocket manager, connection pool, message broadcaster, connection (`websocket_*`, `connection_pool`, `message_broadcaster`) | connections, bounded message queue, broadcaster threads, heartbeat timers | add/remove connection, broadcast, health check, stop | job monitor, HTTP server |
| WebSocket filter manager (`websocket_filter_manager`) | stored preferences, templates | get, set, update, add, remove, clear, test | WebSocket manager and its connections |
| HTTP server, session pool, timeout manager (`http_server`, `connection_pool_manager`, `pooled_session`, `timeout_manager`) | idle/active sessions, waiting queue, timers | getConnection, releaseConnection, cleanup, timeouts, shutdown | request handler |
| Request handler, validators, exception handler and mapper, response builder (`request_handler`, `*_validator`, `exception_*`, `error_codes`, `response_builder`) | request counts of clients, headers under construction, the transaction of a scope | validate, route, answer, retry, commit, roll back | all of the above |
| Job monitoring models (`job_monitoring_models`) | none | records to JSON and back, filters | job monitor, WebSocket components |
| Authentication, sessions, JWT keys, rate limiter (`auth_manager`, `session_repository`, `jwt_key_manager`, `rate_limiter`) | sessions, tokens, keys, token buckets | login, validate, revoke, rotate, isAllowed | request handler, database |
| Cache (`cache_manager`, `redis_cache`) | entries with TTL, statistics | get, set, invalidate, warm up | request handler |
| Logging (`logger`, `log_handler`, `log_file_manager`, `log_aggregator`) | async queue, files, rotation, archive | log, rotate, archive, flush, stop | everything |
| Configuration, feature flags | key/value maps, subscribers | load, get, set, roll out | everything |
| Data transformer, string utilities, SSL manager, security auditor | none that is shared | pure functions | |

### What is hard here

* **Threads and locks.** Most components own a mutex and one or more threads.
  State is read before an unlock and used after it (the worker's `job->status`),
  locks are taken again by callees, condition variables are notified without
  their mutex.
* **Callbacks across components.** The job manager calls the monitor, the monitor
  calls back into the job manager while it holds its own mutex, the metrics
  collector calls both from a third thread.
* **Two copies of the truth.** A job's status lives in memory, in the table and
  in the monitor's two maps.
* **Crash and restart.** Only the table survives, and nothing is re-queued.
* **Shutdown.** Every component has a `stop()` that races its own workers.
* **Bounds.** Queues, pools and histories have limits and overflow policies.

What must hold of each component is stated in section 3 next to its module; the
list of hazards, each at its line and with the properties that cover it, is in
`PROJECT.json`.

## 2. Modules and plan

| Module | Models | Builds on |
|---|---|---|
| `JobExecutor` | abstract: what clients of the job manager are promised | |
| `ETLJobManager` | the job manager, its worker, its table, crash and restart | implements `JobExecutor` |
| `JobMonitorService` | the monitor's two maps and its callbacks, as action operators | instantiated by the next |
| `MonitoredJobs` | manager + monitor + metrics collector, started and stopped as in `main_integrated.cpp` | extends `ETLJobManager`, instantiates `JobMonitorService` |
| `LockUtils` | scoped timed locks and the deadlock detector | |
| `DatabaseConnectionPool` | the connection pool, its clients, its health thread, its shutdown | |
| `NotificationService` | the notification queue, retries, resource alerts, stop and start | |
| `MessageBroadcaster` | the broadcast queue and its processing threads | extended by the next |
| `WebSocketManager` | the pool of WebSocket connections, their handlers on the I/O threads, the broadcaster, the server's and the manager's stop | extends `MessageBroadcaster` |
| `QueueFilter` | what is left of a queue when only some positions are kept: every `erase(remove_if(...))` of a queue | |
| `TimeoutManager`, `PooledSession`, `ConnectionPoolManager`, `HttpServer` | timers, one session, the pool of sessions, acceptor and server | each extends the one before; the pool uses `QueueFilter` |
| `Logger`, `LogAggregator`, `LogFileManager` | the logger with its two workers; structured logging; log files | composed in `MCLogging` |
| `CircuitBreaker`, `ServiceRecovery`, `ConnectionRecovery` | the breaker; recovery and health threads of the monitor; heartbeat of a connection | the last two extend the first |
| `RateLimiter`, `AuthManager`, `JWTKeyManager` | request limits; users, roles, sessions; signing keys | |
| `InputValidator`, `ErrorCodes` | the checks on inputs; codes, exceptions and the responses made of them: pure | |
| `RequestValidator`, `SecurityValidator` | the two validators with their limits | extend `InputValidator` and `QueueFilter` |
| `RequestHandler` | requests served by threads over the jobs | extends `InputValidator`, `ErrorCodes` |
| `ExceptionHandler`, `ResponseBuilder` | an operation with retries and a transaction; the builder of responses | |
| `JobMonitoringModels` | records, their JSON and how it is read, filters: pure | |
| `WebSocketFilterManager` | the handlers that change filters and the preferences stored | extends `JobMonitoringModels` |
| `Requests` | the parts that handle requests in one specification, with the bodies and the records that are read | extends the six modules of requests above |
| `MCMonitoredJobs`, `MCInfrastructure`, `MCLogging`, `MCServices`, `MCRequests` | the composed instances TLC checks; `ETLJobManager`, `WebSocketManager` and `HttpServer` are checked directly | one per group above |
| `MonitoredJobsProofs` | theorems | the job manager alone, its refinement, and with the monitor |
| `WebSocketManagerProofs`, `HttpServerProofs` | theorems | the module each is named after |
| `InfrastructureProofs` | theorems | pool, locks, notifications, rate limiter, sessions |
| `LoggingProofs`, `RequestsProofs` | theorems | the modules of 3.8; those of 3.10 and the filters of 3.11 |
| `JobMonitoringProofs` | theorem | the records of 3.11 |
| `QueueFilterProofs` | lemmas: filtered queues, induction over positions, sequences put together | `QueueFilter`; cited by `HttpServerProofs`, `InfrastructureProofs`, `LoggingProofs`, `RequestsProofs`, `JobMonitoringProofs` |

Components that share no state are checked in one instance (`MCInfrastructure`,
`MCLogging`, `MCServices`, `MCRequests`): a variable says which component a
behaviour is about, and the others rest. That keeps the number of runs small and
changes nothing for the properties, each of which speaks of one component.

In the modules a definition whose comment begins with "Mutant:" is a plausible
bug. No specification uses one; `PROJECT.json` says which definition each
replaces and which property then fails.

What comes next, in this order:

1. **Compositions**: the request handler over `ETLJobManager` and `RateLimiter`,
   the job monitor over `WebSocketManager` with the filters of
   `WebSocketFilterManager`, with an abstract specification of "a client sees
   the events it asked for".
2. **Configuration and feature flags**: the reload that races its readers.
3. **Lock statistics** (`LockMonitor`) and the metrics of the database pool, which
   are read under another mutex than they are written.

## 3. What each module says

### 3.1 ETLJobManager

`jobs` maps a job to the status of its object in `jobs_`, `dbJobs` to the status
in its row. `jobMutex`, `worker`, `client` and `control` say where the threads
are: one program counter for each kind of thread, a step for every point at
which another thread can tell the difference. In particular:

* the worker's `wait()` has four steps (`WorkerLock`, `WorkerPredicate`,
  `WorkerBlock`, the wake-up), because `stop()` clears `running_` and notifies
  without the mutex;
* `cancelJob` has two steps (`CancelCheck`, `CancelWrite`), because the worker
  reads and writes `job->status` without the mutex;
* `scheduleJob` writes the row (`ScheduleInsert`) before it fills `jobs_` and
  the queue (`SchedulePush`), so a crash may come between the two;
* every write of the row may fail (`UpdateRow`), because the caller only logs; an
  INSERT may also take effect and its answer be lost (`ScheduleUnanswered`): the
  client is refused, and the id has a row that nothing runs;
* `Crash` is possible at every step; `Terminate` is the exception that leaves
  the worker thread. Only `dbJobs` and the histories survive.

`QueueHoldsPendingWork` and `CancelledInQueueNeverRuns` are proved and not run,
`StopReturnsOutsideWindow` is stated only; the others are run, and the safety
properties among them are proved too.

| Property | Says |
|---|---|
| `QueueHoldsPendingWork` | a queued job is queued once, waits or was cancelled, has never run, and is not in hand |
| `ScheduledJobNotLost` | a scheduled PENDING job is in the queue or in hand |
| `AtMostOneExecution` | an execution begins at most once over all processes that share the table |
| `CancelledInQueueNeverRuns` | a job cancelled while queued never runs |
| `NoSleepOnWork` | the worker of a running manager does not sleep on a filled queue |
| `EndedRowIsFinal` | a COMPLETED or FAILED row is never written again |
| `ImplementsExecutor` | every behaviour is one of `JobExecutor` |
| `QueuedJobIsTaken` | a queued job is taken, unless the manager is stopped or dies |
| `StopReturnsOutsideWindow` | `stop()` returns, unless it hits the window between predicate and sleep |

`CancelledInQueueNeverRuns` speaks of the queue on purpose. `cancelJob` also
returns true for a job the worker has popped and not begun; that job may be
executed, and its end overwrites CANCELLED. Nothing in the repository promises
more, so this is stated here and not reported as a finding.

**Refinement.** An id is *used* when it has a row, by a job that is accepted
(`Accept`) or by one whose INSERT was not answered (`UseUp`). A job *waits* from its
INSERT until the worker has looked at its status: `Waiting` is the job just
taken, the queue, and the job being entered. The mapping needs the critical
section of `scheduleJob`: nobody can observe the job between INSERT and push.

### 3.2 JobMonitorService and MonitoredJobs

A callback is a sequence of critical sections of `jobDataMutex_`; `call[t]` says
which callback thread `t` is in and which section comes next, so callbacks of the
worker and of the collector interleave. `"relock"` is a thread that locks a
mutex it holds. `Lookup` calls back into the manager with `jobDataMutex_` held:
if the manager's mutex is taken, the lookup may time out and the status is
whatever the uninitialised field holds. `published` is what has been broadcast.

`start()` takes a snapshot of the jobs, which holds pointers to them: `FillView`
reads their status when it fills the view, not when the snapshot was taken.

In `MonitoredJobs` the worker's steps carry the callbacks: `MPersistRunning` is
`PersistRunning` and the beginning of a status callback, and the next step of
the worker waits until the callback is over (`Free`). `Features` switches the
collector thread and cancelling clients on. With `"metrics"` an execution may collect
metrics or not, as `enableMetricsCollection` may be called between two of them (nothing
in the programs calls it, and the default is to collect); a call in the middle of an
execution, which would leave its collector running, is not modelled.

| Property | Says |
|---|---|
| `ViewFollowsJob` | between the worker's callbacks the view shows the job in hand: RUNNING while its work goes on, among the completed with its end once that was reported |
| `FailureAlerted` | exactly the jobs whose work failed raise an alert |
| `PublishedInOrder` | RUNNING, growing progress, one end, nothing after |
| `ViewDisjoint` | a job is in one of the two maps, ended jobs only among the completed |
| `NoSelfDeadlock` | no thread waits for a mutex it holds: refuted (4.2) |

The first four hold with collector, cancelling clients, crashes and restarts, in the
run `monitor` and by proof for any features. They are safety properties: the
self-deadlock of 4.2 stops the worker for ever when metrics are on, and so nothing here says that an
execution that began is reported to its end.

### 3.3 LockUtils

`held[t]` is the stack of scoped locks, `waiting[t]` the lock a constructor waits
for, `threadLocks[t]` what the detector has registered for the thread. `Request`
is the constructor up to `try_lock_for`, after which the lock is acquired or
times out. A refused lock changes nothing. `Nesting = FALSE` restricts callers
to one lock of each level at a time. The program has three mutexes with a level
(of the WebSocket connection pool, the HTTP session pool and the timeout
manager), and no function locks two of the same level.

`NoCircularWait`: no set of threads waits in itself. It says nothing of threads that
hold two mutexes of one level, which the detector accepts in any order: with
`Nesting = TRUE` there is a circle (4.2). It rests on `HeldIsRegistered`
(the detector forgets nothing) and `AscendingOrder` (the stack and the wait ascend
strictly), which are proved.

### 3.4 DatabaseConnectionPool

`idleConnections` and `activeConnections` are the pool's two collections;
`client`/`conn` say what a borrower does and which connection it *really* uses,
which is more than the pool knows. The health thread's pass is five steps with
the lock released between them, and `snapshot` the copies it validates outside
the lock. Every wait of the pool has a deadline, so a waiting borrower may look
at any time. `Fresh` lets a connection nobody refers to be created again, which
keeps the model finite; it is a new connection, not the old one. The constructor and
the adjustment of the pool's size create up to as many connections as they ask
for (`Created`), since each creation may fail. The `erase(remove_if(...))` of idle
connections is `Kept` of `QueueFilter`: what stays keeps its order.

`ActiveWithinMax`: concurrent creators never get beyond the maximum. It speaks of
the connections that the pool counts in `activeConnections_`. Those it lends from the
idle queue are not counted there, so more than `maxConnections` may be lent (4.2).
`QueuedOnce` (proved, not run): nothing is queued twice, or queued and counted as lent.
`RequestAnswered`, `ShutdownEnds`: no request and no shutdown waits for ever, not
even when failing queries keep their places. The answer may be that there is no
connection: every wait ends by its deadline. That a failing query gives its place
back is not among them, since it does not (4.2).

### 3.5 NotificationService

`queue`, `batch` (what the pass in progress still has to deliver) and
`retryQueue` hold the messages, `worker` the processing thread with the
predicate and the sleep as separate steps. A retried message is rebuilt without
its `maxRetries`, which is then uninitialised: `Fail` may retry it or give up.

`Conserved`: an accepted message is in exactly one place, once. `OncePerCooldown`
(proved, not run): one watcher sends one alert of a type in five minutes. `AcceptedIsTried`: an
accepted message is delivered, given up, or taken into a pass, again and again after
each failure, unless the service is stopped first. It does not say that the retries end:
a delivery that keeps failing may be tried for ever.

### 3.6 MessageBroadcaster and WebSocketManager

`at[m]` is where a message is and `by[m]` the thread that works on it. A
broadcast looks at `running_`, tests the queue's size and pushes in three
separate steps; a processing thread handles a message by calling the same
function, so a queued message is tested and queued again. `rest[m]` is what is
left of the snapshot of open connections, `posted[c]` the messages posted to a
connection's strand, `blocked` the connections whose handler waits for its own
`queueMutex_` and occupies an I/O thread, `ended` the I/O threads an exception
has ended. A handler sets `isOpen_` and calls the pool in two steps (`OnAccept` then
`AddConnection`, `OnRead` then `RemoveConnection`) and holds its I/O
thread in between, so other threads see an open connection that is not in the pool
yet and a closed one that still is. The HTTP server is stopped before the manager, as in
`main_integrated.cpp`; nothing restarts the broadcaster there.

`HandedOnce`: no connection is given a message twice. `PoolIsOpen` (proved, not
run): while the manager runs the pool differs from the open connections only in those
with a handler between `isOpen_` and the pool, no more than there are I/O threads
left. `StoppedIsQuiet`: after
the join no processing thread has a message. `BroadcasterStops`: the
broadcaster's `stop()` returns.

### 3.7 TimeoutManager, PooledSession, ConnectionPoolManager, HttpServer

Four modules, one per class, each extending the one before. A timer that has
expired has its handler in `fired`; cancelling it comes too late, and the handler
recognises its timer by an address that may have been used again. Between the
unlock and the callback it is in `calling`, so a session may have gone on to its
next request when the timeout reaches it. A session is a record, and what its
handlers do is a function from a session to the sessions it may become, because
the pool calls them under its lock. `acquireConnection` is two steps with a sleep
between them. `Releaser` says whether anybody calls `releaseConnection`: nobody in
the server does.

| Property | Says |
|---|---|
| `SessionServesOne` | a session has one request in hand: a read, its handler or its reply, never two of them, whatever is lent, released or closed meanwhile; the 408s of timeouts are not counted (4.2) |
| `NoIdleWhileQueued` | no request waits in the queue while a session is idle in the pool |
| `HttpStops` | `stop()` returns, though it joins I/O threads before it wakes the sleepers of the pool |
| `SessionsBounded` | sessions stay within `maxConnections`, none is idle and lent (proved, not run) |

### 3.8 Logger, LogAggregator, LogFileManager

The logger's two workers (file, streaming) share their code and so their actions,
indexed by `Channel`; a caller reads a flag and pushes in two steps, a worker pops under
the lock and writes without it, a configuration call sets the stop flag, notifies and
joins. The aggregator's worker moves the queue into a batch and ships it to each
destination without the lock; any destination may fail. A destination's file may fail to
open, first or again after its rotation; its batch is then refused. The position of a
stream just opened is whatever the library answers, so a rotation may follow at once. In
the file manager a mutex that is not recursive is taken twice when a file is opened: the
first call throws with the stream already in `openFiles_`, so only later calls write.
The model follows that order. Maintenance that was stopped may be started again.

| Property | Says |
|---|---|
| `StreamedInOrder` | lines of a thread are streamed at most once and in order, across stops and full queues |
| `DrainedAtStop` | a worker that has ended leaves nothing that was pushed before it was told to stop |
| `RotationKeepsOrder` | backups and file keep the order; nothing is lost while there is room for a backup |
| `ShippedInOrder` | a destination gets each entry once and a source's entries in order; rotation loses nothing while a number is free |
| `NothingLeftBehind` | after `shutdown()` the aggregator's queue holds late entries only |
| `LinesKeepOrder` | a file and its backup are the last lines accepted, without a gap, although two writers and the maintenance thread may each rotate; earlier ones go with the one backup when two rotations follow one another |

### 3.9 Recovery, limits, sessions, keys

`CircuitBreaker` is a value and functions on it, one per method, since each runs
under the breaker's mutex. `ServiceRecovery` is what the monitor does with it:
callers that broadcast, detached recovery threads, the health thread; the tests
and stores of the recovery state are separate steps, and `lastAttempt` has the
value `"min"` for `time_point::min()`, whose subtraction overflows: either outcome
of the comparison is possible. `ConnectionRecovery` is the heartbeat timer of one
WebSocket connection. `RateLimiter` keeps the counts of minutes and hours; the
system clock may be set back a minute. `AuthManager` is a sequence of SQL
statements per call, each atomic and each possibly refused, with other calls in
between. `JWTKeyManager` rotates the keys.

| Property | Says |
|---|---|
| `RecoversWithTraffic` | once the components work for good and somebody broadcasts, the monitor is healthy and its breaker closed for good |
| `HeartbeatEnds` | the timer that keeps a closed connection alive ends |
| `WithinLimit` | a request passes only within the limit of its minute, counted apart from the limiter's own counters |
| `AcceptsLiveSessions` | no validation accepts a session whose revocation was written before the validation read it, or that is past its hours as moved once by the distance of local time from UTC (`hoursWest`) |

### 3.10 Requests

A text is a sequence of symbols: the characters the code looks for, and words
whose length and class are constants. `InputValidator`, `RequestValidator` and
`SecurityValidator` are the checks, each answering a set of error codes;
`ErrorCodes` the tables and the responses. `RequestHandler` serves requests on
several threads: checks, routing, one operator per group of endpoints, the answer;
a health request reads the jobs in four steps while they go on: the running thread
takes a job, writes its status without the mutex and publishes it (`JobTaken`,
`JobStarts`, `JobEnds`, `publishJobStatusUpdate`), and a cancel tests and writes in two
steps (`CancelFinds`, `CancelWrites`), as in 3.1. `ExceptionHandler`
runs an operation with retries and a transaction; a call of the database may be
refused, its answer may be lost after it took effect, and the connection may go
away. `ResponseBuilder` is the fluent builder, whose setters leave state behind.

| Property | Says |
|---|---|
| `NoJobMissed` | a health answer counts every job that had started before the request and that no cancel hits meanwhile, though it may move between the reads; a job whose RUNNING a cancel overwrites is in none of the counts |
| `AllOrNothing` | an operation that returned is committed once, one that threw not at all, and no transaction stays open |
| `FieldExtracted` | every field of every flat body is read as it was written, wherever it stands |
| `WithinMinute` | a request passes the limit only if fewer than the limit passed within the last minute, whatever configurations came between |
| `HistoryKept` | a request passes exactly if fewer than the limit passed in its window, of which the last two minutes are looked at, whatever windows were asked for before |
| `OnlyItsOwn` | a response has exactly the headers set for it |

`Flat` says which bodies `FieldExtracted` is about: the names are words, each once; a
value is bare or stands between quotes, holds no comma, brace or line end, has no
blank at an end and is not the name of a field alone. The code finds a field by a search for
its name between quotes, so it makes no claim of other bodies, and `BodiesAssumption`
asks it of those that are read. The reader's scan over the kinds of JSON values tests
them in the code's order.

`AllOrNothing` has exceptions that the code cannot avoid: an end of a transaction
that the database refused, whose answer was lost, or that was made without a
connection. `excused` records them.

`HistoryKept` says what the code does with any window. A window longer than two
minutes, such as the hour that a comment in `RateLimitOptions` names, is counted over
two minutes only (4.2).

### 3.11 Records and filters

`JobMonitoringModels` writes records as JSON and reads them with the code's
regular expressions: the first place in the whole text where the quoted name, a
colon and a value of the right form follow one another. `WebSocketFilterManager`
changes the filters of open connections and stores preferences: looking for the
connection, changing, reading back (list by list, without the lock) and storing
are steps of their own.

`ReadBack`: what was written of a record is read back, with texts that look like
fields, end in a backslash or close what they stand in. Texts are sequences of
symbols: marks such as quotes and braces, the names of the fields, and words
(`Symbols`; `textWords` are the words with no meaning of their own). `IsRecord` says
what is written: any texts, numbers and times of their kinds. Three things the code
does not claim are left out. A text with a quote, a backslash or a line end is
written escaped and never read back as it was (`PlainText`); it must only not
disturb the other fields. The data of a message is a JSON object that does not name
`targetJobId` or `targetLevel`, since those fields are written after it and the
reader takes the first place it finds. And texts in the lists of filters come back
only if `isValid` accepts the filters: the reader of lists knows of no escapes.

`StoredIsLast`: when no change is under way, the stored preferences of an open
connection are its filters, provided its changes were asked for one after another
and none was stopped half way by a lock that was not had in time.

## 4. What the runs show

### 4.1 Runs that pass

| Run | Instance | States | Why this is enough |
|---|---|---|---|
| `jobs` | 2 jobs, with monitor | 35 000 | two jobs are one in hand and one waiting, and an order to confuse; crash and restart unbounded |
| `monitor` | 2 jobs, progress 1, 2, threshold 1, collector, cancels | 2 120 000 | everything that can call the monitor; every report passes the threshold, so most is published; two jobs so the view holds an old and a new one |
| `infrastructure` | pool: 2 clients, 4 connections, min 1, max 2; alerts: 3 messages, queue of 2, 1 retry, then retries without end, 1 watcher; locks: 2 threads, 2 levels, 2 locks each | 124 000 | both clients creating and one place left, surplus and shortage for the health thread, one failed query leaves one place and two leave none; one message more than the queue holds, and every message can be delivered, retried again and again, and given up; a circle of two needs two locks each, longer ones are covered by the proof |
| `websocket` | 2 messages, 2 processing threads, 3 connections, pool of 2, queue of 1, batch of 1, 2 I/O threads | 811 000 | a queue and a pool that overflow, threads that race for a batch, both I/O threads blocked, ended, or between `isOpen_` and the pool |
| `http` | 2 sessions, 2 clients, 1 timer address, acceptor and one user of the pool, 1 connection, queue of 1, with releases | 276 000 | a full pool, a queued request and a sleeping caller at once; a single address is used again by every timer |
| `logging` | logger: 2 threads, queue of 1, 2 backups, 3 calls, 2 switches; aggregator: 2 sources, 2 destinations, 1 line per file, 3 entries, 2 runs; files: 1 file, 2 writers, 1 line per file, 2 writes, 2 other calls | 1 586 000 | queues that overflow, every line after the first rotates, both backups fill up, both writers in the test for rotation |
| `services` | 1 caller, 2 recovery threads, thresholds of 2; 2 reconnects, 2 missed beats; 1 client, 3 endpoints, 4 minutes of 2 to the hour; 1 user, 2 sessions of an hour, an hour west of UTC, 2 threads, 4 calls | 253 000 | two recovery threads at once, a breaker that opens, half opens and opens again; a window that comes again; a revocation between read and write of a validation, hours in which only the reading in local time keeps a session alive |
| `requests` | 2 workers, 10 requests, 2 served; 3 validated in 4 ticks under 3 configurations; 2 senders, 3 asked each, windows of 1 and 3 ticks with 2 remembered; 2 attempts, 3 transactions; any number of responses, one between two resets of the statistics; all bodies of up to 3 fields; 2 filter threads, 2 calls | 303 000 | both workers reading while a job passes through every status and a cancel tests and writes; a window shorter and one longer than what is remembered; a scope assigned over an open one; two changes of one connection interleaved |

Bounds that are not sizes of sets, all of them guards or constants named in the modules:
`MaxHeld` (locks a thread holds), `MaxCalls`, `MaxSwitches`, `MaxEntries`, `MaxRuns`,
`MaxWrites`, `MaxManage` (calls of the logging classes), `MaxConfigs`, `MaxSettings`
(calls of `setRecoveryConfig`), `MaxMinute`, `MaxBack`, `MaxHours`, `MaxNow`,
`MaxTicks`, `MaxSeconds`, `Lifetime` (clocks), `MaxAuthOps`, `MaxKeys`, `MaxRows`,
`MaxServed`, `MaxValidated`, `MaxAsked`, `MaxSent`, `MaxTransactions`, `MaxFilterCalls`
(calls and rows). Message, job and connection identifiers are used once, which bounds
the rest.

Symmetry is used in `monitor`, `logging` and `requests`, which have no liveness
properties. Deadlock is checked in the job manager's and the monitor's runs; the others
really end when everything is delivered, stopped and joined, or when a bound on
calls is used up.

### 4.2 Findings: runs that TLC must refute

| Run | What the code does |
|---|---|
| `jobs_stop_hangs` | `ETLJobManager::stop` notifies without the mutex: a worker between predicate and sleep misses it, `join` never returns |
| `monitor_self_deadlock` | with metrics on, as they are by default, a metrics update of a job that is not active locks `jobDataMutex_` twice in one thread; the final publish of every successful job does this |
| `pool_double_lend` | the health check puts connections back that were lent while it validated copies: two clients share one |
| `keys_previous` | a rotation keeps the previous key, but validation uses the current one only: a token it signed is refused though it has time left |

The modules also state, as definitions without a run, what these models refute
in the same way; the constants after each let TLC show it within seconds:

* `QueuedIsSent`: a queued message is handled by the function that queues it, and
  goes round until the queue happens to be full. `ServerStops`: the first message
  sent to a connection blocks an I/O thread on the connection's own mutex; the
  server cannot be joined.
* `FinishedIsReused` with `Releaser = FALSE`: no session returns to the pool, so after
  `maxConnections` accepted sockets nobody is served.
* `NoticeStandsAlone` of `HttpServer`: a timeout's 408 is written outside the strand of
  its session, beside the reply or another 408.
* `DisableReturns` of `Logger`: the notification without the queue's mutex, as in the
  job manager, with `configMutex_` held by the one who joins.
* `QueryAnswered`: a target with a query does not match the pattern of a path, so it
  is answered 400. `BearerAccepted`: headers are copied under their canonical names
  and looked up in lower case.
* `JobFailureIsContained` (1 job): a failed job's exception ends the process.
* `RefusedLockIsHeld` (any): a lock that timed out stays registered, and the
  thread is later refused a lower lock though it holds nothing.
* `NoCircularWait` with `Nesting = TRUE` (2 threads): two mutexes of one level are
  accepted in any order.
* `LentIsActive`: a connection from the idle queue is never counted as lent;
  `ActiveIsLent` with `QueriesFail`: a throwing query keeps its place for ever;
  `NoneAfterShutdown` and `TrueIsGraceful` with `Shutdown`: a creator gets a
  connection of a closed pool, and `gracefulShutdown` always returns true.
* `OncePerCooldown` with two watchers: both send.
  `NotificationService`'s `StopReturns` with `Stopping`: as in the job manager.

Some behaviour of the code is part of a model, and a property says only what is left
beside it:

* A retried notification starts again with `retryCount` 0 and a `maxRetries` nobody set,
  so retries neither reach nor stop at the limit that is configured.
* A cancel may overwrite RUNNING; a health request then counts the job nowhere.
* Of a window longer than two minutes only two minutes are counted, so more requests
  than the limit pass in it.
* Session times are written in UTC and read as local time: west of UTC a session lives
  as much longer, east of it as much shorter.
* A second rotation of a managed file replaces the only backup with its lines.
* Two changes of one connection's filters at once may store a mixture of both.
* `time_point::min()` overflows in the test of the recovery's cooldown.

Some hazards have no property, because the models leave out what they are about:
the statistics of `LockMonitor` and of the database pool are read under another
mutex than they are written; BEGIN, the statements and COMMIT of a
`DatabaseManager` transaction each take a connection of their own; assigning and
revoking a role write the whole row of a user; every operation of `RedisCache`
locks its mutex twice; a filter that was changed stays changed when reading it
back throws.

### 4.3 Fairness

Weak fairness says that a ready thread is scheduled: the worker and callbacks it
is in, a client inside a critical section, a processing thread, a stop in
progress. Nobody is assumed to call anything, no wake-up to be spurious, no crash
or restart to happen, no connection to be lost.

Three assumptions say more. In the pool every wait has a deadline, so the step in which
a borrower gives up is eventually taken if nothing else is, and queries end. In the
notification service the backoff of a retry elapses: a pass that takes a retry happens
again and again if it is possible again and again (strong fairness of `TakeRetry`); no
delivery is assumed to succeed. In the WebSocket manager a handler that has set
`isOpen_` goes on to the pool, and a server that has been stopped is followed by a stop
of the manager, because `main` does so.

The HTTP server (`HFairness`): timed sleeps end, time passes, handlers that have
begun end, and the join of finished threads returns. The monitor's recovery
(`SRFairness`): threads run on, the timeout of an open breaker passes, and callers
broadcast again, which `RecoversWithTraffic` needs and its name says: without
traffic an open breaker stays open. The heartbeat (`CFairness`): the timer expires,
its handler runs, and the last heartbeat ages. The monitor's runs check safety only
and assume nothing. In the runs with several parts each
condition is stated for the part that a behaviour is about.

## 5. What is proved

For every set of jobs, threads, messages, sessions and connections and all sizes,
under the assumptions each module names for its constants (`NoJob` is no job,
levels are 1 to 4, `Client` is no processing thread, sizes and limits are
naturals, and the like):

| Theorem | Module | Says |
|---|---|---|
| `TypeCorrect`, `QueueCorrect`, `NothingLost`, `ExecutesOnce`, `CancelHonoured`, `WakeupNotMissed`, `RowsFinal` | `MonitoredJobsProofs` | the safety properties of 3.1 |
| `Implements` | `MonitoredJobsProofs` | `ETLJobManager` implements `JobExecutor` |
| `MonitoredManager` | `MonitoredJobsProofs` | `MSpec => Spec`: the manager inside `MonitoredJobs` behaves as specified, so all of the above holds there too |
| `MTypeCorrect` | `MonitoredJobsProofs` | the types of the composition |
| `PublishedOrderly` | `MonitoredJobsProofs` | `PublishedInOrder`, with any features |
| `ViewFollows`, `FailureAlerts` | `MonitoredJobsProofs` | `ViewFollowsJob`, `FailureAlerted`, with any features |
| `OneMapEach` | `MonitoredJobsProofs` | `ViewDisjoint`, with any features |
| `NoCircle`, `Ascending`, `Registered` | `InfrastructureProofs` | the locks, for callers that do not nest a level |
| `PoolBounded` | `InfrastructureProofs` | `ActiveWithinMax`: the connections counted as active, not those lent |
| `NoneQueuedTwice` | `InfrastructureProofs` | `QueuedOnce` |
| `NothingDuplicated` | `InfrastructureProofs` | `Conserved` |
| `OneAlertPerCooldown` | `InfrastructureProofs` | `OncePerCooldown`, for one watcher |
| `LimitHolds` | `InfrastructureProofs` | `WithinLimit`, for a clock set back by a minute at most |
| `LiveSessionsOnly` | `InfrastructureProofs` | `AcceptsLiveSessions`, for any distance of local time from UTC |
| `GivenOnce`, `QuietWhenStopped` | `WebSocketManagerProofs` | `HandedOnce`, `StoppedIsQuiet` |
| `PoolHoldsOpen` | `WebSocketManagerProofs` | `PoolIsOpen`, with the store of `isOpen_` and the call of the pool as two steps |
| `OneAtATime`, `QueueServed`, `SessionPoolBounded` | `HttpServerProofs` | `SessionServesOne` (408s not counted), `NoIdleWhileQueued`, `SessionsBounded` |
| `WorkersDrain`, `ClientsSeeOrder`, `FilesKeepOrder` | `LoggingProofs` | `DrainedAtStop`, `StreamedInOrder`, `RotationKeepsOrder` |
| `ShutdownLeavesNothing`, `ShippedOnceInOrder` | `LoggingProofs` | `NothingLeftBehind`; `ShippedInOrder`, for destinations with names of their own |
| `NoLineOutOfOrder` | `LoggingProofs` | `LinesKeepOrder` |
| `Transactional`, `GoesOutOnce`, `EveryJobCounted` | `RequestsProofs` | `AllOrNothing`, `OnlyItsOwn`, `NoJobMissed` |
| `LimitPerMinute`, `HistoryRemembered` | `RequestsProofs` | `WithinMinute`; `HistoryKept`, for any windows |
| `StoredAreLast` | `RequestsProofs` | `StoredIsLast` |
| `FieldsExtracted` | `RequestsProofs` | `FieldExtracted`, for flat bodies of any number of fields |
| `RecordsReadBack` | `JobMonitoringProofs` | `ReadBack`, for records with any texts |

Each part has an inductive invariant; the module proves that it holds at first,
that each action keeps it, and that it implies the property.

**The job manager's invariant.** None of the properties is inductive. `IInv` adds:
`MutexInv` (the mutex is held by exactly the thread in a critical section),
`DeadInv` (a dead process has no memory), `HandInv` (the job in hand is known,
has not run before it begins and is not PENDING after), `RowInv` (a job in
memory has a row; a row that is not PENDING has run), `WriteInv` (no final status
is written before the worker's last write), `ClientInv` (the job being entered is
nowhere else), `CancelInv` (a job cancelled in the queue stays CANCELLED until
dropped), `SleepInv` (the worker goes to sleep only without work). `RowInv` is
what makes `AtMostOneExecution` survive restarts: a job can only be scheduled
without a row, and a job without a row has not run. `SleepInv` needs `MutexInv`:
between predicate and sleep the worker holds the mutex, so no push comes between.

**Refinement.** Under `IInv` each step of `Next` is one step of `JobExecutor` or a
stutter: the INSERT accepts, `CancelWrite` cancels if the job still waits, an unanswered
INSERT uses an id up, the worker's look at the status begins or skips, the return or
rethrow ends, the end of the process loses what waits.

**The monitor.** `MTypeInv` adds what a thread inside a callback knows.
What is told and shown holds with any features. `PlaceInv` says where callbacks can be
and what they tell, and `ToldInv` that
clients are told nothing of a job that never ran, that after RUNNING and before
the end they were told only progress, and none beyond the last one reported. It
rests on `ExecutesOnce`: a second execution would begin a second story.
`FollowInv` says how far the view has followed the job in hand at each section of the
worker's callback: from the update on it has the status told, and from the move on it
is among the completed. The collector cannot undo this: it writes metrics of jobs that
are active, or locks `jobDataMutex_` twice and changes nothing. `AlertInv` says that only
the failed job in hand can be alerted about.
`ViewDisjoint` needs the three parts that `DisjointInv` adds: the view is empty until
`start()` has filled it (`FilledInv`); a job among the completed waits no more and is
not the one in hand (`CompletedInv`); a callback that is about to move a job has
written the status it moves (`WrittenInv`).

**Locks.** `LIInv` is types, `HeldIsRegistered` and `AscendingOrder`. It gives
`NoCircularWait` because a wait leads upwards (`WaitLeadsUp`: who waits for a lock
of a waiting thread waits below what that thread waits for), and there are four
levels only. The three theorems assume `Usage`, that is `Nesting = FALSE`; no
function of the program locks two mutexes of a level.

**Pool.** `ActiveWithinMax` is inductive because `FinishCreate` tests the room under the
lock. `QueueInv` says that the idle queue is one without repetition, and so is the
list of the health thread's copies, and that neither holds a connection that is
counted as lent (`Apart`). A copy may be in the hands of a client that took it since:
the invariant says nothing of clients, which is why `pool_double_lend` does not
contradict it.

**WebSocket.** `HandedInv` says that a message has been given to a
connection at most once, and not at all while the message is not being sent or
the connection is still on its list. `GoneInv` says that a processing thread that
has gone has no message, and that all have gone after the join. `PoolInv` says that
a connection is in the pool from `AddConnection` to `RemoveConnection`, and that the
manager closes its pool only after `running_` is cleared. `ThreadInv` says that each
handler that has not returned holds one I/O thread, which bounds how many connections
the pool can differ in.

**Notifications.** `AlertInv` says, at each point of the only watcher, how many alerts
went out in this cooldown. With two watchers both may test before either starts the
cooldown, hence `OneWatcher`. `NInv` gives every accepted message one place and every other
message none (`Places`), and says that a batch exists only while it is delivered,
which is why a pass that begins does not overwrite one. The lemmas `CountJoin` to
`CountSplit` are about how often a message stands in a sequence that is appended
to, cut or joined.

**HTTP server.** What a session has to do for its request is a number, `Busy`; the 408s
of timeouts are not in it. Most operations are *calm*: they add nothing to it and make a
session idle only when it has nothing left. `HInv` says that no session is busy with
more than one thing (`Serving`), that those in the idle queue have nothing to do and are
there once (`Resting`), and that a caller between taking a session and running it has it
alone (`Lent`), although the shutdown may empty the pool in between. The bound needs
`Room` as well. `NoIdleWhileQueued` is part of `HInv`: a session taken from the idle
queue can only be given to a waiting caller if it is not lent twice.

**Logging.** `Stopping` says that a worker ends only after it saw its stop flag, and
that the flag stays set until a worker is started; `Streaming` that what was
streamed, is in the hand of the worker or is in its queue is in order, and before
the line its thread still has to push;
`AggregatorInv` that a worker ends only after the request, with an empty queue and
no batch in hand.

**Log files.** `Retention` says that backups and file are what was written with some
lines left out (`Left`, an ascending injection of places), and everything while a
backup is still to come and nothing was archived. It needs what the loop over the
backups does for any number of them (`TurnsAre`: after k turns, `Turned(b, k)`):
a rotation drops the first part, which is empty while there is room, and appends
the file (`RotatedParts`). For the managed files `LogFileInv` says of every file
that backup and file together are a suffix of what was accepted (`Whole`), and which
names can exist at all: a backup has no log file's name, and neither has a
compressed file, which is why no log file may be called `gz`
(`LogFileAssumption`).

**Shipping.** `ShipOrder` says that queue, batch and what a destination got are each in
order, that what a destination was offered comes before the queue, and before the
batch as long as it has still to get its part; and that nothing a destination got
is also among what it failed to get. `ShipRotated` says that the rotated files and
the file put together are what was sent. `NamesDiffer` is needed: destinations are
told apart by their names, as `removeDestination` does, and what is kept under a
name used twice would hold every entry twice.

**Induction.** `SetInduction` says that a set of naturals with 0 and the successors of
its members is `Nat`; it follows from the well-foundedness of `<`. With it the
lemmas of `QueueFilterProofs` say of `FlattenSeq`, for sequences of any length, what
one part more does (`FlattenAppend`), what the first part is (`FlattenFirst`), what
stands around a part (`FlattenAround`) and what its type is.

**Requests and sessions.** `XInv` says which transaction is open at each point of a
scope (`HoldsOpen`) unless the end was excused; `BInv` that the names set since the
last response are those in the builder; `RHInv` that rows stay where a health
request found them, that a job it has not seen and no cancel has hit is ahead of it
(`Fits`), and that the row of the job in the running thread's hand has the status the
thread last wrote or is CANCELLED (`HandFits`).
`RLInv` compares the counts of the property with the limiter's own in the minutes
that can come again, two of them if the clock is set back by at most one
(`MaxBack <= 1`): the limiter forgets older ones, and with a clock set back further
a minute could be used twice. `AuInv` says that a revoked session's row is not
valid, that no row lasts beyond its hours (`SessionFits`), and that a copy of a row
which is about to be written back would change neither (`CopyFits`). Reading
moves a time by `hoursWest`, but a copy is written back only when it was marked invalid,
so the hours of a valid row are never moved twice.

**Flat bodies.** A body is the pieces of its fields put together. Two arguments meet. The
scan for JSON: a piece is scanned from where it begins to where it ends (`Scans`),
scans of pieces follow one another, and so the whole body passes. The search for a field: in
no piece before the field does its name stand between quotes (`Clear`), nor across
two pieces; so the first place found is the field's own, and what the reader cuts out
there, up to the first comma, brace or line end and without blanks and quotes, is the
value (`FieldInText`). `FlatBodyIsRead` puts them together for any number of fields;
`FieldsExtracted` needs `BodiesAssumption`, which TLC evaluates for the bodies of the run.

**Records.** The readers take the first place in the whole text where a quoted name,
a colon and a value follow one another, so the argument is about what is *not* in
the text before it. `Silent` says that at no place of a text, with whatever stands
around it, a given name can be read as that of a field. Silence passes to texts put
together (`SilentJoin`), to lists and to objects. What `escapeJsonString` writes has
quotes only behind a backslash (`EscapedText`), so a quoted text is silent about
every name, the names it spells included (`TextSilent`): a name between quotes there
is followed by a backslash before its second quote. A field therefore stands in the
text of its object with silence before it (`Amid`, `FieldsAmid`), it is the first
one found (`AmidLocated`), and what is cut out there is its value: up to the next
quote for a text (`TextRead`, for plain texts), one word for a number (`WordRead`),
up to the first bracket for metrics (`EnclosedRead`), and for a list of words what
stands between the quotes at odd and even places (`WordsRead`, by induction over the
list). For each kind of record a pair of lemmas says which fields it has
(`UpdateSays`, ...) and that they come back (`UpdateSame`, ...). `WordsAssumption`
asks that no number, id or time is a mark and no number the name of a field;
`SamplesAssumption` asks `IsRecord` of the records of an instance. TLC evaluates
both.

**Filtered queues.** `erase(remove_if(...))` is `Kept(queue, positions)`.
`KeptFacts` says that it has as many elements as positions, each once and in
order, without induction: the rank of a position is a bijection. `KeptEnd` and
`LargeAtEnd` add that what is left of an ascending queue without its small
elements is its end. The session pool's cleanup and both limits rest on them.

**Limits.** For `WithinMinute` the invariant `RVInv` says that each request that
passed in the last minute has a place of its own in what is remembered of its
client (`Covers`, an injection), so that counting what is remembered never counts
too few, whatever configurations came between. For `HistoryKept` the relation is exact:
`SVInv` says that what is remembered of a client is the end of what passed, with
everything of the last two minutes (`EndOf`), and that times ascend. So the part of a
window that lies in these two minutes is counted in full, whatever windows other
requests asked for.

**Filters.** `FilterInv` says of each connection in `alone` that one call at most works
on it (`Involves`: it has it in hand, or among those that follow), and how far that
call has come (`Stage`): until the change, filters and preferences agree; between a
change and its storing, the filters are what will be stored; between the two reads,
the job ids copied are those the filters have. Nothing is claimed once the connection
cannot be reached, and it never can be again. One lemma (`MovesAlone`) covers every
step of a thread: it takes up no new connection and ends each stage as the next one
asks for.

`QueueCorrect`, `CancelHonoured`, `MTypeCorrect`, `NoneQueuedTwice`, `OneAlertPerCooldown`,
`PoolHoldsOpen`, `Ascending`, `Registered`, `SessionPoolBounded` and the type theorems
are about formulas no run checks now; TLC agreed to each of them before it was proved.
`MonitoredManager` carries theorems over. All others are about properties of the runs.

**Only model-checked:** the liveness properties (`QueuedJobIsTaken`, `RequestAnswered`,
`ShutdownEnds`, `AcceptedIsTried`, `BroadcasterStops`, `HttpStops`,
`RecoversWithTraffic`, `HeartbeatEnds`): each needs that the steps a thread waits for
are possible, which is `ENABLED`, and out of the prover's reach, and most an induction
over places, attempts or rounds under temporal operators. Every invariant and action
property of the runs that pass is proved as well, under the conditions of the table.

## 6. What is not modelled

* A job's payload: extract, transform and load succeed or throw. Its metrics
  fields, log messages and their history.
* The exception that leaves the aggregator's worker when the rename of a rotation is
  refused (`log_aggregator.cpp:449`): it ends the process.
* The bodies of the delivery methods, SQL text, HTTP parsing and the layout of
  responses: conversions of data no property here depends on.
* After the first write to a WebSocket connection: `doWrite` is never got through.
  Heartbeats are in a module of their own, for one connection; `flushQueue` is
  called by nothing.
* The monitor's metrics history, log and resource callbacks, and the queues of its
  degraded mode, which nothing fills.
* Statistics and performance counters of every component; log search and indexes,
  which are stubs in the code.
* The cache (no operation of `RedisCache` returns, and nothing creates it),
  configuration and feature flags, system metrics, the data transformer, string
  utilities, SSL and the security auditor: `PROJECT.json` says for each why.
* The address of a client as a string, hashes, nonces and random identifiers: model
  values.
* Memory reclamation and lifetimes of C++ objects, among them the destruction of a
  service while a detached recovery thread sleeps.
