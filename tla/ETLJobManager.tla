---------------------------- MODULE ETLJobManager ----------------------------
(***************************************************************************)
(* The ETL job manager: the list of jobs a process knows, the FIFO of jobs  *)
(* to run, the table etl_jobs, and the three kinds of thread that touch     *)
(* them:                                                                    *)
(*   - clients, which schedule, cancel and look up jobs under jobMutex_;    *)
(*   - the one worker thread, workerLoop and the execution of a job;        *)
(*   - the controlling thread, start and stop.                              *)
(* The process may crash at any step, and it terminates when an exception   *)
(* leaves the worker thread. Only the table survives.                       *)
(*                                                                          *)
(* A job's payload is abstracted away: what it does is to succeed or to     *)
(* throw. A lookup that misses the lock's timeout changes nothing and is a  *)
(* stuttering step.                                                         *)
(***************************************************************************)
EXTENDS Naturals, Sequences

CONSTANTS
    Job,        \* the job identifiers
    NoJob,      \* "no job in hand"
    Monitored   \* whether a JobMonitorService is attached

ASSUME JobAssumption == NoJob \notin Job /\ Monitored \in BOOLEAN

VARIABLES
    up,         \* the process is alive
    jobs,       \* jobs_: the status of each job in memory, "NONE" if absent
    jobQueue,   \* jobQueue_
    dbJobs,     \* table etl_jobs: the status of each row, "NONE" if absent
    jobMutex,   \* jobMutex_: who holds it
    running,    \* running_
    worker,     \* where the worker thread is
    current,    \* the job the worker has taken from the queue
    client,     \* the client inside its critical section
    control,    \* where the controlling thread is in start/stop
    scheduled,  \* history: the jobs this process has put in the queue
    runs,       \* history: how often each job's execution has begun
    cancelledInQueue  \* history: jobs cancelled while they were in the queue

history == <<scheduled, runs, cancelledInQueue>>
data == <<jobs, jobQueue, dbJobs>>
vars == <<up, data, jobMutex, running, worker, current, client, control,
          history>>

JobStatus == {"PENDING", "RUNNING", "COMPLETED", "FAILED", "CANCELLED"}
Absent == "NONE"
NoClient == [op |-> "none", job |-> NoJob]

InQueue(j) == \E i \in DOMAIN jobQueue : jobQueue[i] = j

(* The worker is between two steps of executing `current`. *)
Executing == worker \in {"started", "body", "completing", "completed",
                         "failing", "failed", "escaped"}
(* The worker has `current` in hand, whether or not it will execute it. *)
InHand == worker = "taken" \/ worker = "checked" \/ Executing

TypeOK ==
    /\ up \in BOOLEAN
    /\ jobs \in [Job -> JobStatus \cup {Absent}]
    /\ jobQueue \in Seq(Job)
    /\ dbJobs \in [Job -> JobStatus \cup {Absent}]
    /\ jobMutex \in {"free", "worker", "client"}
    /\ running \in BOOLEAN
    /\ worker \in {"none", "loop", "lock", "predicate", "block", "waiting",
                   "woken", "taken", "checked", "started", "body",
                   "completing", "completed", "failing", "failed",
                   "escaped", "exited"}
    /\ current \in Job \cup {NoJob}
    /\ client \in [op : {"none", "schedule", "cancel"}, job : Job \cup {NoJob}]
    /\ control \in {"idle", "notify", "join"}
    /\ scheduled \subseteq Job
    /\ runs \in [Job -> Nat]
    /\ cancelledInQueue \subseteq Job

Init ==
    /\ up = TRUE
    /\ jobs = [j \in Job |-> Absent]
    /\ jobQueue = <<>>
    /\ dbJobs = [j \in Job |-> Absent]
    /\ jobMutex = "free"
    /\ running = FALSE
    /\ worker = "none"
    /\ current = NoJob
    /\ client = NoClient
    /\ control = "idle"
    /\ scheduled = {}
    /\ runs = [j \in Job |-> 0]
    /\ cancelledInQueue = {}

-----------------------------------------------------------------------------
(* Clients *)

(* jobCondition_.notify_one() and notify_all(): there is one waiter. *)
Notify == worker' = IF worker = "waiting" THEN "lock" ELSE worker

(* createJob: the INSERT fails when the id has a row.                       *)
InsertRow(j) ==
    /\ dbJobs[j] = Absent
    /\ dbJobs' = [dbJobs EXCEPT ![j] = "PENDING"]

(* scheduleJob up to createJob: the INSERT has succeeded. A job id whose    *)
(* row exists, or a failed INSERT, throws and leaves everything unchanged.  *)
ScheduleInsert(j) ==
    /\ up
    /\ jobMutex = "free"
    /\ InsertRow(j)
    /\ jobMutex' = "client"
    /\ client' = [op |-> "schedule", job |-> j]
    /\ UNCHANGED <<up, jobs, jobQueue, running, worker, current, control,
                   history>>

(* The INSERT took effect and its answer was lost: scheduleJob throws as for *)
(* a failed one, and the row stays.                                         *)
ScheduleUnanswered(j) ==
    /\ up
    /\ jobMutex = "free"
    /\ InsertRow(j)
    /\ UNCHANGED <<up, jobs, jobQueue, jobMutex, running, worker, current,
                   client, control, history>>

(* Mutant: the notification is forgotten. *)
SchedulePushSilent ==
    /\ up
    /\ client.op = "schedule"
    /\ jobs' = [jobs EXCEPT ![client.job] = "PENDING"]
    /\ jobQueue' = Append(jobQueue, client.job)
    /\ jobMutex' = "free"
    /\ client' = NoClient
    /\ scheduled' = scheduled \cup {client.job}
    /\ UNCHANGED <<up, dbJobs, running, worker, current, control, runs,
                   cancelledInQueue>>

(* Mutant: the new job goes in front of those that wait. *)
SchedulePushFront ==
    /\ up
    /\ client.op = "schedule"
    /\ jobs' = [jobs EXCEPT ![client.job] = "PENDING"]
    /\ jobQueue' = <<client.job>> \o jobQueue
    /\ Notify
    /\ jobMutex' = "free"
    /\ client' = NoClient
    /\ scheduled' = scheduled \cup {client.job}
    /\ UNCHANGED <<up, dbJobs, running, current, control, runs,
                   cancelledInQueue>>

(* The rest of scheduleJob: into jobs_ and jobQueue_, notify, unlock. *)
SchedulePush ==
    /\ up
    /\ client.op = "schedule"
    /\ jobs' = [jobs EXCEPT ![client.job] = "PENDING"]
    /\ jobQueue' = Append(jobQueue, client.job)
    /\ Notify
    /\ jobMutex' = "free"
    /\ client' = NoClient
    /\ scheduled' = scheduled \cup {client.job}
    /\ UNCHANGED <<up, dbJobs, running, current, control, runs,
                   cancelledInQueue>>

(* cancelJob finds the job PENDING ... *)
CancelCheck(j) ==
    /\ up
    /\ jobMutex = "free"
    /\ jobs[j] = "PENDING"
    /\ jobMutex' = "client"
    /\ client' = [op |-> "cancel", job |-> j]
    /\ UNCHANGED <<up, data, running, worker, current, control, history>>

(* Mutant: cancelJob also writes the row, still without looking again. *)
CancelWriteThrough ==
    /\ up
    /\ client.op = "cancel"
    /\ jobs' = [jobs EXCEPT ![client.job] = "CANCELLED"]
    /\ dbJobs' = [dbJobs EXCEPT ![client.job] = "CANCELLED"]
    /\ jobMutex' = "free"
    /\ client' = NoClient
    /\ UNCHANGED <<up, jobQueue, running, worker, current, control, history>>

(* ... and then writes CANCELLED, in memory only, and returns true. The     *)
(* worker reads and writes job->status without jobMutex_, so its steps may  *)
(* come between the two.                                                    *)
CancelWrite ==
    /\ up
    /\ client.op = "cancel"
    /\ jobs' = [jobs EXCEPT ![client.job] = "CANCELLED"]
    /\ cancelledInQueue' = IF InQueue(client.job)
                           THEN cancelledInQueue \cup {client.job}
                           ELSE cancelledInQueue
    /\ jobMutex' = "free"
    /\ client' = NoClient
    /\ UNCHANGED <<up, jobQueue, dbJobs, running, worker, current, control,
                   scheduled, runs>>

(* getJob of a job that is not in memory appends the row's copy to jobs_. *)
GetJobFromDb(j) ==
    /\ up
    /\ jobMutex = "free"
    /\ jobs[j] = Absent
    /\ dbJobs[j] # Absent
    /\ jobs' = [jobs EXCEPT ![j] = dbJobs[j]]
    /\ UNCHANGED <<up, jobQueue, dbJobs, jobMutex, running, worker, current,
                   client, control, history>>

(* getAllJobs with nothing in memory replaces jobs_ by the table's rows. *)
GetAllJobsFromDb ==
    /\ up
    /\ jobMutex = "free"
    /\ \A j \in Job : jobs[j] = Absent
    /\ jobs' = dbJobs
    /\ UNCHANGED <<up, jobQueue, dbJobs, jobMutex, running, worker, current,
                   client, control, history>>

-----------------------------------------------------------------------------
(* The worker thread *)

(* while (running_), read without the mutex. *)
WorkerLoopTest ==
    /\ up
    /\ worker = "loop"
    /\ worker' = IF running THEN "lock" ELSE "exited"
    /\ UNCHANGED <<up, data, jobMutex, running, current, client, control,
                   history>>

(* Acquire jobMutex_, at the top of the loop or when wait() wakes up. *)
WorkerLock ==
    /\ up
    /\ worker = "lock"
    /\ jobMutex = "free"
    /\ jobMutex' = "worker"
    /\ worker' = "predicate"
    /\ UNCHANGED <<up, data, running, current, client, control, history>>

(* Mutant: wait() without a predicate. *)
WorkerWaitBlindly ==
    /\ up
    /\ worker = "predicate"
    /\ worker' = "block"
    /\ UNCHANGED <<up, data, jobMutex, running, current, client, control,
                   history>>

(* The predicate of wait(): !jobQueue_.empty() || !running_. *)
WorkerPredicate ==
    /\ up
    /\ worker = "predicate"
    /\ worker' = IF jobQueue # <<>> \/ ~running THEN "woken" ELSE "block"
    /\ UNCHANGED <<up, data, jobMutex, running, current, client, control,
                   history>>

(* wait() joins the waiters and releases the mutex in one step, after the   *)
(* predicate has been evaluated.                                            *)
WorkerBlock ==
    /\ up
    /\ worker = "block"
    /\ worker' = "waiting"
    /\ jobMutex' = "free"
    /\ UNCHANGED <<up, data, running, current, client, control, history>>

(* A condition variable may wake up without a notification. *)
SpuriousWakeup ==
    /\ up
    /\ worker = "waiting"
    /\ worker' = "lock"
    /\ UNCHANGED <<up, data, jobMutex, running, current, client, control,
                   history>>

(* Leave the loop when stopped; otherwise pop the front, unlock. *)
WorkerExit ==
    /\ up
    /\ worker = "woken"
    /\ ~running
    /\ worker' = "exited"
    /\ jobMutex' = "free"
    /\ UNCHANGED <<up, data, running, current, client, control, history>>

WorkerTake ==
    /\ up
    /\ worker = "woken"
    /\ running
    /\ jobQueue # <<>>
    /\ current' = Head(jobQueue)
    /\ jobQueue' = Tail(jobQueue)
    /\ jobMutex' = "free"
    /\ worker' = "taken"
    /\ UNCHANGED <<up, jobs, dbJobs, running, client, control, history>>

(* if (job->status == PENDING), after the unlock. *)
WorkerCheck ==
    /\ up
    /\ worker = "taken"
    /\ IF jobs[current] = "PENDING"
         THEN worker' = "checked" /\ current' = current
         ELSE worker' = "loop" /\ current' = NoJob
    /\ UNCHANGED <<up, data, jobMutex, running, client, control, history>>

(* job->status = RUNNING. *)
ExecuteStart ==
    /\ up
    /\ worker = "checked"
    /\ jobs' = [jobs EXCEPT ![current] = "RUNNING"]
    /\ runs' = [runs EXCEPT ![current] = @ + 1]
    /\ worker' = IF Monitored THEN "started" ELSE "body"
    /\ UNCHANGED <<up, jobQueue, dbJobs, jobMutex, running, current, client,
                   control, scheduled, cancelledInQueue>>

(* jobRepo_->updateJob writes the status the object has now; when it        *)
(* fails the row stays and the caller only logs.                            *)
UpdateRow ==
    \/ dbJobs' = [dbJobs EXCEPT ![current] = jobs[current]]
    \/ UNCHANGED dbJobs

(* updateJobStatus(RUNNING)'s write to the table. *)
PersistRunning ==
    /\ up
    /\ worker = "started"
    /\ UpdateRow
    /\ worker' = "body"
    /\ UNCHANGED <<up, jobs, jobQueue, jobMutex, running, current, client,
                   control, history>>

(* updateJobProgress, between the phases of a monitored job. *)
PersistProgress ==
    /\ up
    /\ Monitored
    /\ worker = "body"
    /\ UpdateRow
    /\ UNCHANGED <<up, jobs, jobQueue, jobMutex, running, worker, current,
                   client, control, history>>

(* The job's work returns: status = COMPLETED. *)
ExecuteSucceed ==
    /\ up
    /\ worker = "body"
    /\ jobs' = [jobs EXCEPT ![current] = "COMPLETED"]
    /\ worker' = IF Monitored THEN "completing" ELSE "completed"
    /\ UNCHANGED <<up, jobQueue, dbJobs, jobMutex, running, current, client,
                   control, history>>

(* The job's work throws: status = FAILED. *)
ExecuteThrow ==
    /\ up
    /\ worker = "body"
    /\ jobs' = [jobs EXCEPT ![current] = "FAILED"]
    /\ worker' = IF Monitored THEN "failing" ELSE "failed"
    /\ UNCHANGED <<up, jobQueue, dbJobs, jobMutex, running, current, client,
                   control, history>>

(* updateJobStatus(COMPLETED or FAILED)'s write to the table. *)
PersistEnd ==
    /\ up
    /\ \/ worker = "completing" /\ worker' = "completed"
       \/ worker = "failing" /\ worker' = "failed"
    /\ UpdateRow
    /\ UNCHANGED <<up, jobs, jobQueue, jobMutex, running, current, client,
                   control, history>>

(* A completed job returns to workerLoop. *)
ExecuteReturn ==
    /\ up
    /\ worker = "completed"
    /\ worker' = "loop"
    /\ current' = NoJob
    /\ UNCHANGED <<up, data, jobMutex, running, client, control, history>>

(* A failed job is rethrown; workerLoop has no handler ...  *)
ExecuteRethrow ==
    /\ up
    /\ worker = "failed"
    /\ worker' = "escaped"
    /\ UNCHANGED <<up, data, jobMutex, running, current, client, control,
                   history>>

-----------------------------------------------------------------------------
(* The controlling thread and the process *)

(* start(), when not running. *)
Start ==
    /\ up
    /\ control = "idle"
    /\ ~running
    /\ worker = "none"
    /\ running' = TRUE
    /\ worker' = "loop"
    /\ UNCHANGED <<up, data, jobMutex, current, client, control, history>>

(* Mutant: stop() empties the queue as well. *)
StopClearQueue ==
    /\ up
    /\ control = "idle"
    /\ running
    /\ running' = FALSE
    /\ control' = "notify"
    /\ jobQueue' = <<>>
    /\ UNCHANGED <<up, jobs, dbJobs, jobMutex, worker, current, client,
                   history>>

(* stop() clears running_ without taking jobMutex_ ... *)
StopClear ==
    /\ up
    /\ control = "idle"
    /\ running
    /\ running' = FALSE
    /\ control' = "notify"
    /\ UNCHANGED <<up, data, jobMutex, worker, current, client, history>>

(* ... calls notify_all() ... *)
StopNotify ==
    /\ up
    /\ control = "notify"
    /\ Notify
    /\ control' = "join"
    /\ UNCHANGED <<up, data, jobMutex, running, current, client, history>>

(* ... and joins the worker. *)
StopJoin ==
    /\ up
    /\ control = "join"
    /\ worker = "exited"
    /\ worker' = "none"
    /\ control' = "idle"
    /\ UNCHANGED <<up, data, jobMutex, running, current, client, history>>

(* The process ends at any step, or by std::terminate because an exception  *)
(* left the worker thread. Everything but the table is gone.                *)
Die ==
    /\ up' = FALSE
    /\ jobs' = [j \in Job |-> Absent]
    /\ jobQueue' = <<>>
    /\ jobMutex' = "free"
    /\ running' = FALSE
    /\ worker' = "none"
    /\ current' = NoJob
    /\ client' = NoClient
    /\ control' = "idle"
    /\ scheduled' = {}
    /\ UNCHANGED <<dbJobs, runs, cancelledInQueue>>

Terminate == up /\ worker = "escaped" /\ Die

Crash == up /\ Die

(* Mutant: a new process queues a job whose row is still PENDING. *)
RestartRequeues ==
    /\ ~up
    /\ up' = TRUE
    /\ jobs' = dbJobs
    /\ \E j \in Job : dbJobs[j] = "PENDING" /\ jobQueue' = <<j>>
    /\ UNCHANGED <<dbJobs, jobMutex, running, worker, current, client,
                   control, history>>

(* A new process: the constructor queues nothing, whatever the table holds. *)
Restart ==
    /\ ~up
    /\ up' = TRUE
    /\ UNCHANGED <<data, jobMutex, running, worker, current, client,
                   control, history>>

-----------------------------------------------------------------------------
Client(j) ==
    \/ ScheduleInsert(j) \/ ScheduleUnanswered(j) \/ CancelCheck(j)
    \/ GetJobFromDb(j)

ClientFinish == SchedulePush \/ CancelWrite

Execute ==
    \/ ExecuteStart \/ PersistRunning \/ ExecuteSucceed \/ ExecuteThrow
    \/ PersistEnd \/ ExecuteReturn \/ ExecuteRethrow \/ Terminate

Worker ==
    \/ WorkerLoopTest \/ WorkerLock \/ WorkerPredicate \/ WorkerBlock
    \/ WorkerExit \/ WorkerTake \/ WorkerCheck \/ Execute

Control == Start \/ StopClear \/ StopNotify \/ StopJoin

Next ==
    \/ \E j \in Job : Client(j)
    \/ GetAllJobsFromDb
    \/ ClientFinish
    \/ Worker
    \/ PersistProgress
    \/ SpuriousWakeup
    \/ Control
    \/ Crash
    \/ Restart

Spec == Init /\ [][Next]_vars

(* The operating system runs every ready thread: the worker, a client that  *)
(* holds the mutex, a stop() in progress. Nobody has to call anything, no   *)
(* wakeup has to be spurious and no crash or restart has to happen.         *)
Fairness ==
    /\ WF_vars(Worker)
    /\ WF_vars(ClientFinish)
    /\ WF_vars(StopNotify)
    /\ WF_vars(StopJoin)

FairSpec == Spec /\ Fairness

-----------------------------------------------------------------------------
(* What the manager promises *)

(* The queue holds each job once, and only jobs that wait for their turn or *)
(* were cancelled meanwhile: the worker never has a queued job in hand, and *)
(* a queued job has never run, not even in an earlier process.              *)
QueueHoldsPendingWork ==
    /\ \A i, k \in DOMAIN jobQueue : jobQueue[i] = jobQueue[k] => i = k
    /\ \A j \in Job : InQueue(j) =>
          /\ jobs[j] \in {"PENDING", "CANCELLED"}
          /\ runs[j] = 0
          /\ InHand => current # j

(* A job scheduled in this process that is still PENDING is not lost:       *)
(* either it is queued or the worker has taken it and will look at it.      *)
ScheduledJobNotLost ==
    \A j \in scheduled : jobs[j] = "PENDING" =>
        InQueue(j) \/ (InHand /\ current = j)

(* The execution of a job begins at most once, whatever cancels, lookups,   *)
(* stops, crashes and restarts come between.                                *)
AtMostOneExecution == \A j \in Job : runs[j] <= 1

(* A cancelJob that returned true while its job was queued is honoured: the *)
(* job never runs, in this process or a later one. (One that returns true   *)
(* after the worker has taken the job is not: see the README.)              *)
CancelledInQueueNeverRuns == \A j \in cancelledInQueue : runs[j] = 0

(* scheduleJob's notification cannot be missed: a worker that sleeps while  *)
(* the manager runs has nothing to do.                                      *)
NoSleepOnWork == worker = "waiting" /\ running => jobQueue = <<>>

(* The row of a job that has ended is final: later lookups, cancels,        *)
(* crashes and attempts to schedule the same id leave it as it is.          *)
EndedRowIsFinal ==
    [][\A j \in Job : dbJobs[j] \in {"COMPLETED", "FAILED"} =>
                        dbJobs'[j] = dbJobs[j]]_vars

(* The worker drains the queue: a queued job is taken unless the manager is *)
(* not running (stopped, or its process has died).                          *)
QueuedJobIsTaken == \A j \in Job : InQueue(j) ~> (~InQueue(j) \/ ~running)

(* stop() returns unless the worker was between evaluating wait()'s         *)
(* predicate and sleeping when running_ was cleared.                        *)
StopReturnsOutsideWindow ==
    (control = "notify" /\ worker # "block") ~> control = "idle"

(* The manager implements JobExecutor. A job's id is used with its row; it  *)
(* waits from there until the worker, which has popped it, finds it PENDING *)
(* or not; the row's INSERT is in the same critical section as the push, so *)
(* nobody sees the job in between.                                          *)
Used == {j \in Job : dbJobs[j] # Absent}

Taken == IF worker = "taken" THEN <<current>> ELSE <<>>
Entering == IF client.op = "schedule" THEN <<client.job>> ELSE <<>>
Waiting == Taken \o jobQueue \o Entering

CancelledWaiting ==
    {j \in Job : /\ \E i \in DOMAIN Waiting : Waiting[i] = j
                 /\ jobs[j] = "CANCELLED"}

BeingExecuted == IF worker = "checked" \/ Executing THEN current ELSE NoJob

Executor == INSTANCE JobExecutor WITH
                used <- Used,
                waiting <- Waiting,
                cancelled <- CancelledWaiting,
                executing <- BeingExecuted

(* What clients are promised: an id is used once, execution is one at a     *)
(* time and in order, no job cancelled before its turn is executed.         *)
ImplementsExecutor == Executor!Spec

-----------------------------------------------------------------------------
(* What the documentation says and the code does not do *)

(* docs/architecture/component_relationships.md: a shutdown ends and exits  *)
(* cleanly. A stop() that has begun returns, or the process has ended.      *)
StopReturns == (control = "join") ~> (control = "idle")

(* docs/architecture/system_architecture.md: the system continues operating *)
(* when a component fails; the comment at the rethrow expects a handler     *)
(* above. An exception of a failed job never leaves the worker thread.      *)
JobFailureIsContained == worker # "escaped"
=============================================================================
