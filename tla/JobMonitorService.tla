-------------------------- MODULE JobMonitorService --------------------------
(***************************************************************************)
(* The job monitor service: its view of the jobs (activeJobs_ and           *)
(* completedJobs_ under jobDataMutex_), the callbacks the job manager and   *)
(* the metrics collector call, and what it publishes. A callback is a       *)
(* sequence of critical sections, so the steps of two calling threads       *)
(* interleave. The module has no behaviour of its own: MonitoredJobs        *)
(* composes it with the job manager.                                        *)
(*                                                                          *)
(* Timestamps, steps, metrics values and logs are left out of the view; a   *)
(* broadcast hands the message to the WebSocket manager and returns.        *)
(***************************************************************************)
EXTENDS Naturals, Sequences

CONSTANTS
    Job,         \* the job identifiers
    NoJob,       \* "no job": a thread in no callback
    Thread,      \* the threads that call the service
    Progress,    \* the progress values a job reports
    Threshold    \* progressUpdateThreshold_

VARIABLES
    jobs,            \* the manager's jobs_, which lookups read
    jobMutex,        \* the manager's mutex, which lookups wait for
    monitorRunning,  \* running_
    activeJobs,      \* activeJobs_
    completedJobs,   \* completedJobs_
    jobDataMutex,    \* jobDataMutex_: the thread that holds it across steps
    call,            \* the callback each thread is in, and where
    snapshot,        \* start()'s existingJobs: pointers to the jobs
    published,       \* what has been broadcast for each job, in order
    alerts           \* jobs for which a failure alert was sent

view == <<activeJobs, completedJobs>>
monitor == <<monitorRunning, view, jobDataMutex, call, snapshot, published,
             alerts>>

JobStatus == {"PENDING", "RUNNING", "COMPLETED", "FAILED", "CANCELLED"}
(* Mutant: a failed job does not count as ended. *)
EndedWell == {"COMPLETED", "CANCELLED"}
Ended == {"COMPLETED", "FAILED", "CANCELLED"}
Absent == "NONE"

NoData == [status |-> Absent, progress |-> 0]
Data == [status : JobStatus, progress : Progress \cup {0}]

Idle(t) == call[t].at = "idle"
NoCall == [op |-> "none", job |-> NoJob, old |-> Absent, new |-> Absent,
           progress |-> 0, at |-> "idle"]

(* onJobStatusChanged: a job that starts is looked up first. *)
StatusCall(j, old, new) ==
    [op |-> "status", job |-> j, old |-> old, new |-> new, progress |-> 0,
     at |-> IF old = "PENDING" /\ new = "RUNNING" THEN "create" ELSE "update"]
ProgressCall(j, p) ==
    [op |-> "progress", job |-> j, old |-> Absent, new |-> Absent,
     progress |-> p, at |-> "should"]
MetricsCall(j) ==
    [op |-> "metrics", job |-> j, old |-> Absent, new |-> Absent,
     progress |-> 0, at |-> "update"]

(* Where a thread is in a callback; "relock" is the wait for a mutex that   *)
(* it holds itself.                                                         *)
Places == {"idle", "create", "lookup", "should", "update", "relock",
           "publish", "move", "notify"}
Calls == [op : {"none", "status", "progress", "metrics"},
          job : Job \cup {NoJob},
          old : JobStatus \cup {Absent},
          new : JobStatus \cup {Absent},
          progress : Progress \cup {0},
          at : Places]

MonitorTypeOK ==
    /\ monitorRunning \in BOOLEAN
    /\ activeJobs \in [Job -> Data \cup {NoData}]
    /\ completedJobs \in [Job -> Data \cup {NoData}]
    /\ jobDataMutex \in Thread \cup {"free"}
    /\ call \in [Thread -> Calls]
    /\ snapshot \subseteq Job
    /\ alerts \subseteq Job

MonitorInit ==
    /\ monitorRunning = FALSE
    /\ activeJobs = [j \in Job |-> NoData]
    /\ completedJobs = [j \in Job |-> NoData]
    /\ jobDataMutex = "free"
    /\ call = [t \in Thread |-> NoCall]
    /\ snapshot = {}
    /\ published = [j \in Job |-> <<>>]
    /\ alerts = {}

(* The process ends, and the service with it.                               *)
Forget ==
    /\ monitorRunning' = FALSE
    /\ activeJobs' = [j \in Job |-> NoData]
    /\ completedJobs' = [j \in Job |-> NoData]
    /\ jobDataMutex' = "free"
    /\ call' = [t \in Thread |-> NoCall]
    /\ snapshot' = {}
    /\ published' = [j \in Job |-> <<>>]
    /\ alerts' = {}

-----------------------------------------------------------------------------
(* start and stop *)

(* start(): running_ first, then getAllJobs of the manager ... *)
StartMonitor ==
    /\ ~monitorRunning
    /\ monitorRunning' = TRUE
    /\ UNCHANGED <<view, jobDataMutex, call, snapshot, published, alerts>>

TakeSnapshot(existing) ==
    /\ snapshot' = existing
    /\ UNCHANGED <<monitorRunning, view, jobDataMutex, call, published, alerts>>

(* ... and then the view is filled from the jobs they point to, as they are *)
(* by then.                                                                 *)
FillView ==
    LET Fresh(j) == [status |-> jobs[j], progress |-> 0] IN
    /\ jobDataMutex = "free"
    /\ activeJobs' = [j \in Job |->
          IF j \in snapshot /\ jobs[j] \notin Ended THEN Fresh(j)
                                                   ELSE activeJobs[j]]
    /\ completedJobs' = [j \in Job |->
          IF j \in snapshot /\ jobs[j] \in Ended THEN Fresh(j)
                                                ELSE completedJobs[j]]
    /\ UNCHANGED <<monitorRunning, jobDataMutex, call, snapshot, published,
                   alerts>>

(* stop(): running_ first, then the view is emptied.                        *)
StopMonitor ==
    /\ monitorRunning
    /\ monitorRunning' = FALSE
    /\ UNCHANGED <<view, jobDataMutex, call, snapshot, published, alerts>>

ClearView ==
    /\ jobDataMutex = "free"
    /\ activeJobs' = [j \in Job |-> NoData]
    /\ completedJobs' = [j \in Job |-> NoData]
    /\ UNCHANGED <<monitorRunning, jobDataMutex, call, snapshot, published,
                   alerts>>

-----------------------------------------------------------------------------
(* The callbacks *)

(* A callback of a service that is not running is ignored; updateJobMetrics *)
(* does not look.                                                           *)
Begin(t, c) ==
    /\ Idle(t)
    /\ call' = IF monitorRunning \/ c.op = "metrics"
               THEN [call EXCEPT ![t] = c] ELSE call
    /\ UNCHANGED <<monitorRunning, view, jobDataMutex, snapshot, published,
                   alerts>>

GoTo(t, at) ==
    call' = [call EXCEPT ![t] = IF at = "idle" THEN NoCall
                                ELSE [@ EXCEPT !.at = at]]

At(t, at) == call[t].at = at

(* createJobMonitoringData: an active job is kept; otherwise getJob of the  *)
(* manager is called with jobDataMutex_ held.                               *)
Create(t) ==
    /\ At(t, "create")
    /\ jobDataMutex = "free"
    /\ IF activeJobs[call[t].job] # NoData
         THEN GoTo(t, "update") /\ UNCHANGED jobDataMutex
         ELSE GoTo(t, "lookup") /\ jobDataMutex' = t
    /\ UNCHANGED <<monitorRunning, view, snapshot, published, alerts>>

(* getJob's answer, or none within its timeout while the mutex of the       *)
(* manager is held; then the status is whatever the memory held.            *)
Lookup(t) ==
    LET j == call[t].job IN
    /\ At(t, "lookup")
    /\ \E s \in JobStatus :
          /\ jobMutex = "free" => s = jobs[j]
          /\ activeJobs' = [activeJobs EXCEPT ![j] = [status |-> s, progress |-> 0]]
    /\ jobDataMutex' = "free"
    /\ GoTo(t, "update")
    /\ UNCHANGED <<monitorRunning, completedJobs, snapshot, published, alerts>>

(* shouldUpdateProgress: an unknown job, or a large enough difference.      *)
Should(t) ==
    LET old == activeJobs[call[t].job]
        new == call[t].progress
    IN
    /\ At(t, "should")
    /\ jobDataMutex = "free"
    /\ IF old = NoData \/ new >= old.progress + Threshold
                       \/ old.progress >= new + Threshold
         THEN GoTo(t, "update")
         ELSE GoTo(t, "idle")
    /\ UNCHANGED <<monitorRunning, view, jobDataMutex, snapshot, published,
                   alerts>>

(* The updater of each callback. *)
Updated(c, d) ==
    CASE c.op = "status" -> [d EXCEPT !.status = c.new]
      [] c.op = "progress" -> [d EXCEPT !.progress = c.progress]
      [] OTHER -> d

(* updateJobMonitoringData of an active job. *)
Update(t) ==
    LET c == call[t] IN
    /\ At(t, "update")
    /\ jobDataMutex = "free"
    /\ activeJobs[c.job] # NoData
    /\ activeJobs' = [activeJobs EXCEPT ![c.job] = Updated(c, @)]
    /\ GoTo(t, "publish")
    /\ UNCHANGED <<monitorRunning, completedJobs, jobDataMutex, snapshot,
                   published, alerts>>

(* updateJobMonitoringData of a job that is not active calls                *)
(* createJobMonitoringData, which locks jobDataMutex_ again: the thread     *)
(* waits for itself.                                                        *)
UpdateUnknown(t) ==
    /\ At(t, "update")
    /\ jobDataMutex = "free"
    /\ activeJobs[call[t].job] = NoData
    /\ jobDataMutex' = t
    /\ GoTo(t, "relock")
    /\ UNCHANGED <<monitorRunning, view, snapshot, published, alerts>>

(* What is broadcast.                                                       *)
Event(c) == IF c.op = "status" THEN [kind |-> "status", status |-> c.new]
            ELSE [kind |-> "progress", progress |-> c.progress]

(* A status update reads the view again for its details.                    *)
Publish(t) ==
    LET c == call[t] IN
    /\ At(t, "publish")
    /\ c.op = "status" => jobDataMutex = "free"
    /\ published' = IF c.op = "metrics" THEN published
                    ELSE [published EXCEPT ![c.job] = Append(@, Event(c))]
    /\ GoTo(t, IF c.op # "status" THEN "idle"
               ELSE IF c.new \in Ended THEN "move" ELSE "notify")
    /\ UNCHANGED <<monitorRunning, view, jobDataMutex, snapshot, alerts>>

(* Mutant: the job stays among the active ones. *)
MoveKeeps(t) ==
    LET j == call[t].job IN
    /\ At(t, "move")
    /\ jobDataMutex = "free"
    /\ completedJobs' = [completedJobs EXCEPT ![j] = activeJobs[j]]
    /\ GoTo(t, "notify")
    /\ UNCHANGED <<monitorRunning, activeJobs, jobDataMutex, snapshot, published,
                   alerts>>

(* moveJobToCompleted. *)
Move(t) ==
    LET j == call[t].job IN
    /\ At(t, "move")
    /\ jobDataMutex = "free"
    /\ IF activeJobs[j] # NoData
         THEN /\ completedJobs' = [completedJobs EXCEPT ![j] = activeJobs[j]]
              /\ activeJobs' = [activeJobs EXCEPT ![j] = NoData]
         ELSE UNCHANGED view
    /\ GoTo(t, "notify")
    /\ UNCHANGED <<monitorRunning, jobDataMutex, snapshot, published, alerts>>

(* Mutant: an alert for every end. *)
NotifyEnd(t) ==
    /\ At(t, "notify")
    /\ call[t].new \in {"FAILED", "RUNNING"} => jobDataMutex = "free"
    /\ alerts' = IF call[t].new \in Ended THEN alerts \cup {call[t].job}
                                          ELSE alerts
    /\ GoTo(t, "idle")
    /\ UNCHANGED <<monitorRunning, view, jobDataMutex, snapshot, published>>

(* checkAndSendNotifications: it reads the view only to alert.              *)
NotifyFailure(t) ==
    /\ At(t, "notify")
    /\ call[t].new \in {"FAILED", "RUNNING"} => jobDataMutex = "free"
    /\ alerts' = IF call[t].new = "FAILED" THEN alerts \cup {call[t].job}
                                           ELSE alerts
    /\ GoTo(t, "idle")
    /\ UNCHANGED <<monitorRunning, view, jobDataMutex, snapshot, published>>

CallStep(t) ==
    \/ Create(t) \/ Lookup(t) \/ Should(t) \/ Update(t) \/ UpdateUnknown(t)
    \/ Publish(t) \/ Move(t) \/ NotifyFailure(t)
=============================================================================
