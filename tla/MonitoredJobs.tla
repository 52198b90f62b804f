---------------------------- MODULE MonitoredJobs ----------------------------
(***************************************************************************)
(* The job manager with the job monitor service attached, wired and started *)
(* in the order of main_integrated.cpp: the monitor starts before the       *)
(* manager and stops after it. The worker thread runs the monitor's         *)
(* callbacks in the middle of executing a job; with metrics enabled, every  *)
(* execution has a collector thread that calls the monitor as well.         *)
(***************************************************************************)
EXTENDS ETLJobManager

CONSTANTS
    Progress,   \* the progress values a job reports
    Threshold,  \* the monitor's progressUpdateThreshold_
    Features    \* "metrics": metrics may be collected; "cancel": clients cancel

ASSUME FeaturesAssumption ==
    /\ Monitored
    /\ Progress \subseteq Nat
    /\ Threshold \in Nat \ {0}
    /\ Features \subseteq {"metrics", "cancel"}

VARIABLES
    monitorRunning, activeJobs, completedJobs, jobDataMutex, call, snapshot,
    published, alerts,
    control2,      \* where the controlling thread is in starting the monitor
    oldStatus,     \* updateJobStatus's oldStatus
    lastProgress,  \* the progress the job in hand has reported
    collector      \* the job whose collector thread runs

Thread == {"worker", "collector"}

M == INSTANCE JobMonitorService

monitor == <<monitorRunning, activeJobs, completedJobs, jobDataMutex, call,
             snapshot, published, alerts>>
link == <<control2, oldStatus, lastProgress, collector>>
mvars == <<vars, monitor, link>>

MTypeOK ==
    /\ TypeOK
    /\ M!MonitorTypeOK
    /\ control2 \in {"off", "snapshot", "fill", "on", "clear", "stopped"}
    /\ oldStatus \in JobStatus \cup {Absent}
    /\ lastProgress \in Progress \cup {0}
    /\ collector \in Job \cup {NoJob}

MInit ==
    /\ Init
    /\ M!MonitorInit
    /\ control2 = "off"
    /\ oldStatus = Absent
    /\ lastProgress = 0
    /\ collector = NoJob

-----------------------------------------------------------------------------
(* main: jobMonitor->start(), and jobMonitor->stop() after                  *)
(* etlManager->stop().                                                      *)

StartMonitor ==
    /\ up
    /\ control2 = "off"
    /\ M!StartMonitor
    /\ control2' = "snapshot"
    /\ UNCHANGED <<vars, oldStatus, lastProgress, collector>>

(* The manager's getAllJobs, which fills an empty jobs_ from the table.     *)
SnapshotJobs ==
    /\ up
    /\ control2 = "snapshot"
    /\ jobMutex = "free"
    /\ jobs' = IF \A j \in Job : jobs[j] = Absent THEN dbJobs ELSE jobs
    /\ M!TakeSnapshot({j \in Job : jobs'[j] # Absent})
    /\ control2' = "fill"
    /\ UNCHANGED <<up, jobQueue, dbJobs, jobMutex, running, worker, current,
                   client, control, history, oldStatus, lastProgress,
                   collector>>

FillView ==
    /\ up
    /\ control2 = "fill"
    /\ M!FillView
    /\ control2' = "on"
    /\ UNCHANGED <<vars, oldStatus, lastProgress, collector>>

StopMonitor ==
    /\ up
    /\ control2 = "on"
    /\ control = "idle" /\ ~running /\ worker = "none"
    /\ M!StopMonitor
    /\ control2' = "clear"
    /\ UNCHANGED <<vars, oldStatus, lastProgress, collector>>

ClearView ==
    /\ up
    /\ control2 = "clear"
    /\ M!ClearView
    /\ control2' = "stopped"
    /\ UNCHANGED <<vars, oldStatus, lastProgress, collector>>

-----------------------------------------------------------------------------
(* The worker thread with its callbacks: its next step waits for them.      *)

Free == M!Idle("worker")

(* updateJobStatus reads the old status before it writes RUNNING: a cancel  *)
(* may come between the two. Metrics collection starts before either, if    *)
(* metricsCollectionEnabled_, which enableMetricsCollection may have set or *)
(* cleared since the last execution.                                        *)
MExecuteStart ==
    /\ ExecuteStart
    /\ oldStatus' \in {jobs[current], "PENDING"}
    /\ lastProgress' = 0
    /\ collector' \in {NoJob} \cup IF "metrics" \in Features THEN {current} ELSE {}
    /\ UNCHANGED <<monitor, control2>>

MPersistRunning ==
    /\ PersistRunning
    /\ M!Begin("worker", M!StatusCall(current, oldStatus, "RUNNING"))
    /\ UNCHANGED link

(* Mutant: the phases of a job report their progress in any order. *)
MPersistProgressUnordered ==
    /\ Free
    /\ PersistProgress
    /\ \E p \in Progress :
          /\ lastProgress' = p
          /\ M!Begin("worker", M!ProgressCall(current, p))
    /\ UNCHANGED <<control2, oldStatus, collector>>

MPersistProgress ==
    /\ Free
    /\ PersistProgress
    /\ \E p \in Progress :
          /\ p > lastProgress
          /\ lastProgress' = p
          /\ M!Begin("worker", M!ProgressCall(current, p))
    /\ UNCHANGED <<control2, oldStatus, collector>>

MExecuteEnd ==
    /\ Free
    /\ ExecuteSucceed \/ ExecuteThrow
    /\ oldStatus' = jobs[current]
    /\ UNCHANGED <<monitor, control2, lastProgress, collector>>

(* The event carries the status updateJobStatus was called with, even when  *)
(* a cancel has overwritten the object's.                                   *)
MPersistEnd ==
    /\ PersistEnd
    /\ M!Begin("worker",
               M!StatusCall(current, oldStatus,
                            IF worker = "completing" THEN "COMPLETED"
                                                     ELSE "FAILED"))
    /\ UNCHANGED link

(* stopJobMetricsCollection: join the collector, publish the final metrics. *)
StopMetrics ==
    /\ up
    /\ Free
    /\ worker = "completed"
    /\ collector # NoJob
    /\ M!Idle("collector")
    /\ collector' = NoJob
    /\ M!Begin("worker", M!MetricsCall(current))
    /\ UNCHANGED <<vars, control2, oldStatus, lastProgress>>

MExecuteReturn ==
    /\ Free
    /\ collector = NoJob
    /\ ExecuteReturn
    /\ UNCHANGED <<monitor, link>>

MExecuteRethrow ==
    /\ Free
    /\ ExecuteRethrow
    /\ UNCHANGED <<monitor, link>>

(* The collector thread's updateLoop publishes a sample.                    *)
CollectorSample ==
    /\ up
    /\ collector # NoJob
    /\ M!Begin("collector", M!MetricsCall(collector))
    /\ UNCHANGED <<vars, link>>

(* The callbacks' own steps. *)
Callback(t) ==
    /\ up
    /\ M!CallStep(t)
    /\ UNCHANGED <<vars, link>>

-----------------------------------------------------------------------------
(* The rest of the manager, as it is. *)

MStart == control2 = "on" /\ Start /\ UNCHANGED <<monitor, link>>

MCancel ==
    /\ "cancel" \in Features
    /\ (\E j \in Job : CancelCheck(j)) \/ CancelWrite
    /\ UNCHANGED <<monitor, link>>

MOther ==
    /\ \/ \E j \in Job :
            ScheduleInsert(j) \/ ScheduleUnanswered(j) \/ GetJobFromDb(j)
       \/ SchedulePush
       \/ GetAllJobsFromDb
       \/ WorkerLoopTest \/ WorkerLock \/ WorkerPredicate \/ WorkerBlock
       \/ WorkerExit \/ WorkerTake \/ WorkerCheck \/ SpuriousWakeup
       \/ StopClear \/ StopNotify \/ StopJoin \/ Restart
    /\ UNCHANGED <<monitor, link>>

MDie ==
    /\ Terminate \/ Crash
    /\ M!Forget
    /\ control2' = "off"
    /\ oldStatus' = Absent
    /\ lastProgress' = 0
    /\ collector' = NoJob

MExecute ==
    \/ MExecuteStart \/ MPersistRunning \/ MExecuteEnd \/ MPersistEnd
    \/ StopMetrics \/ MExecuteReturn \/ MExecuteRethrow

MControl == StartMonitor \/ SnapshotJobs \/ FillView \/ StopMonitor \/ ClearView

MNext ==
    \/ MControl
    \/ MExecute
    \/ MPersistProgress
    \/ CollectorSample
    \/ \E t \in Thread : Callback(t)
    \/ MStart
    \/ MCancel
    \/ MOther
    \/ MDie

MSpec == MInit /\ [][MNext]_mvars

-----------------------------------------------------------------------------
(* What the monitor promises *)

(* No thread waits for a mutex it holds itself. *)
NoSelfDeadlock == \A t \in Thread : call[t].at # "relock"

(* What clients are told about a job is its life in order: first that it    *)
(* runs, then growing progress, then once how it ended, and nothing after.  *)
PublishedInOrder ==
    \A j \in Job : \A i \in DOMAIN published[j] :
        LET e == published[j][i] IN
        /\ i = 1 <=> e = [kind |-> "status", status |-> "RUNNING"]
        /\ e.kind = "status" /\ i > 1 => i = Len(published[j])
        /\ e.kind = "progress" =>
              \A k \in 1 .. i - 1 : published[j][k].kind = "progress" =>
                  published[j][k].progress < e.progress

(* A job is in one of the two maps at most, and the map of the completed    *)
(* holds ended jobs only.                                                   *)
ViewDisjoint ==
    \A j \in Job :
        /\ activeJobs[j] = M!NoData \/ completedJobs[j] = M!NoData
        /\ completedJobs[j] # M!NoData => completedJobs[j].status \in M!Ended

(* Between two of the worker's callbacks the view shows what the job in      *)
(* hand does, whatever the collector, cancelling clients and a restarted    *)
(* monitor do beside it: RUNNING and active while its work goes on, and     *)
(* among the completed, with the end its execution had, once that was       *)
(* reported.                                                                *)
ViewFollowsJob ==
    Free =>
        /\ worker = "body" => activeJobs[current].status = "RUNNING"
        /\ worker \in {"completed", "failed"} =>
              /\ activeJobs[current] = M!NoData
              /\ completedJobs[current].status =
                     IF worker = "completed" THEN "COMPLETED" ELSE "FAILED"

(* A failure alert is sent for each job whose work failed, and for no       *)
(* other: not for one that succeeded, or that a cancel hit meanwhile.       *)
FailureAlerted ==
    /\ worker = "failed" /\ Free => current \in alerts
    /\ \A j \in alerts : j = current /\ worker \in {"failed", "escaped"}
=============================================================================
