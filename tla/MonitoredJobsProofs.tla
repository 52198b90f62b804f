------------------------- MODULE MonitoredJobsProofs -----------------------
(***************************************************************************)
(* The safety of the job manager, for any set of jobs, with and without a   *)
(* monitor. Attaching the monitor changes nothing in what the manager does, *)
(* so its theorems carry over; the types of the composition; the order of   *)
(* what clients are told; that a job is in one map of the view at most; and *)
(* that the view and the alerts follow the job in hand: all of it whatever  *)
(* the collector, cancelling clients, crashes and restarts do.              *)
(***************************************************************************)
EXTENDS MonitoredJobs, TLAPS

(* jobMutex_ is held by exactly the thread that is in a critical section. *)
MutexInv ==
    /\ jobMutex = "client" <=> client.op # "none"
    /\ client.op # "none" <=> client.job # NoJob
    /\ jobMutex = "worker" <=> worker \in {"predicate", "block", "woken"}

(* A dead process has no memory. *)
DeadInv ==
    ~up => /\ jobs = [j \in Job |-> Absent] /\ jobQueue = <<>>
           /\ jobMutex = "free" /\ ~running /\ worker = "none"
           /\ current = NoJob /\ client = NoClient /\ control = "idle"
           /\ scheduled = {}

(* The worker has a job exactly while one is in hand; that job is known in  *)
(* memory, it waits or was cancelled when it is taken, it has not run before *)
(* the worker begins it, and once begun it is never again PENDING.                          *)
HandInv ==
    /\ current \in Job <=> InHand
    /\ InHand => jobs[current] # Absent
    /\ worker = "taken" => jobs[current] \in {"PENDING", "CANCELLED"}
    /\ worker \in {"taken", "checked"} => runs[current] = 0
    /\ Executing => runs[current] = 1 /\ jobs[current] # "PENDING"

(* A job in memory has a row; a job that never ran has a PENDING one; a job *)
(* scheduled by this process is in its memory.                              *)
RowInv ==
    \A j \in Job :
        /\ j \in scheduled => jobs[j] # Absent
        /\ dbJobs[j] = Absent => /\ jobs[j] = Absent
                                 /\ runs[j] = 0
                                 /\ j \notin scheduled \cup cancelledInQueue
        /\ runs[j] = 0 => dbJobs[j] \in {Absent, "PENDING"}

(* The row of the job in hand is not final before the worker's last write,  *)
(* and what the worker writes before that is not a final status.            *)
WriteInv ==
    /\ worker \in {"started", "body", "completing", "failing"} =>
           dbJobs[current] \notin {"COMPLETED", "FAILED"}
    /\ worker \in {"started", "body"} =>
           jobs[current] \notin {"COMPLETED", "FAILED"}

(* scheduleJob between its INSERT and its push: the job is nowhere else.    *)
(* cancelJob between its check and its write: the job is in memory.         *)
ClientInv ==
    /\ client.op = "cancel" => jobs[client.job] # Absent
    /\ client.op = "schedule" =>
        /\ dbJobs[client.job] = "PENDING"
        /\ jobs[client.job] = Absent
        /\ runs[client.job] = 0
        /\ client.job \notin scheduled \cup cancelledInQueue

(* A job cancelled in the queue stays CANCELLED until the worker drops it. *)
CancelInv ==
    \A j \in cancelledInQueue :
        /\ runs[j] = 0
        /\ ~(worker = "checked" /\ current = j)
        /\ InQueue(j) \/ (worker = "taken" /\ current = j) =>
               jobs[j] = "CANCELLED"

(* The worker is about to sleep, or sleeps, only when there is no work. *)
SleepInv ==
    worker \in {"block", "waiting"} /\ running => jobQueue = <<>>

IInv ==
    /\ TypeOK /\ MutexInv /\ DeadInv /\ HandInv /\ RowInv /\ WriteInv
    /\ ClientInv /\ CancelInv /\ SleepInv
    /\ QueueHoldsPendingWork /\ ScheduledJobNotLost
    /\ AtMostOneExecution

-----------------------------------------------------------------------------
(* The queue as a set: what appending and popping do to membership. *)

Members(q) == {q[i] : i \in DOMAIN q}

(* Appending adds one job to the members of the queue.                      *)
LEMMA AppendMembers ==
  ASSUME NEW q \in Seq(Job), NEW e \in Job
  PROVE  Members(Append(q, e)) = Members(q) \cup {e}
  <1>1. ASSUME NEW i \in DOMAIN q
        PROVE  i \in DOMAIN Append(q, e) /\ Append(q, e)[i] = q[i]
    OBVIOUS
  <1>2. Len(q) + 1 \in DOMAIN Append(q, e) /\ Append(q, e)[Len(q) + 1] = e
    OBVIOUS
  <1>3. ASSUME NEW i \in DOMAIN Append(q, e), Append(q, e)[i] # e
        PROVE  i \in DOMAIN q /\ Append(q, e)[i] = q[i]
    BY <1>3
  <1> QED BY <1>1, <1>2, <1>3 DEF Members

(* The members are those of the rest and the front.                         *)
LEMMA TailMembers ==
  ASSUME NEW q \in Seq(Job), q # <<>>
  PROVE  Members(q) = Members(Tail(q)) \cup {Head(q)}
  <1>1. ASSUME NEW i \in DOMAIN q, q[i] # Head(q)
        PROVE  i - 1 \in DOMAIN Tail(q) /\ Tail(q)[i - 1] = q[i]
    BY <1>1
  <1>2. ASSUME NEW i \in DOMAIN Tail(q)
        PROVE  i + 1 \in DOMAIN q /\ q[i + 1] = Tail(q)[i]
    BY <1>2
  <1>3. 1 \in DOMAIN q /\ q[1] = Head(q)
    OBVIOUS
  <1> QED BY <1>1, <1>2, <1>3 DEF Members

(* InQueue is membership in the set.                                        *)
LEMMA QueueMembers ==
  /\ \A j : InQueue(j) <=> j \in Members(jobQueue)
  /\ \A j : InQueue(j)' <=> j \in Members(jobQueue')
  BY DEF InQueue, Members

-----------------------------------------------------------------------------
USE JobAssumption
    DEF JobStatus, Absent, NoClient, InHand, Executing, data, history

(* The initial state satisfies the invariant. *)
LEMMA InitIInv == Init => IInv
  <1> SUFFICES ASSUME Init PROVE IInv
    OBVIOUS
  <1>1. TypeOK
    <2>1. /\ jobs \in [Job -> JobStatus \cup {Absent}]
          /\ dbJobs \in [Job -> JobStatus \cup {Absent}]
          /\ client \in [op : {"none", "schedule", "cancel"},
                         job : Job \cup {NoJob}]
      BY DEF Init
    <2>2. runs \in [Job -> Nat]
      BY DEF Init
    <2>3. jobQueue \in Seq(Job)
      BY DEF Init
    <2> QED BY <2>1, <2>2, <2>3 DEF Init, TypeOK
  <1>2. RowInv /\ CancelInv /\ AtMostOneExecution
    BY DEF Init, RowInv, CancelInv, AtMostOneExecution
  <1>3. MutexInv /\ DeadInv /\ HandInv /\ WriteInv /\ ClientInv /\ SleepInv
    BY DEF Init, MutexInv, DeadInv, HandInv, WriteInv, ClientInv, SleepInv
  <1>4. QueueHoldsPendingWork /\ ScheduledJobNotLost
    BY DEF Init, QueueHoldsPendingWork, ScheduledJobNotLost, InQueue
  <1> QED BY <1>1, <1>2, <1>3, <1>4 DEF IInv

(* Every step preserves it. *)
THEOREM NextIInv == IInv /\ [Next]_vars => IInv'
  <1> SUFFICES ASSUME IInv, [Next]_vars PROVE IInv'
    OBVIOUS
  <1> USE DEF IInv, TypeOK, MutexInv, DeadInv, HandInv, RowInv, WriteInv,
              ClientInv, CancelInv, SleepInv, QueueHoldsPendingWork,
              ScheduledJobNotLost, AtMostOneExecution
  <1>1. ASSUME NEW j \in Job, ScheduleInsert(j) PROVE IInv'
    BY <1>1 DEF ScheduleInsert, InsertRow, InQueue
  <1>30. ASSUME NEW j \in Job, ScheduleUnanswered(j) PROVE IInv'
    BY <1>30 DEF ScheduleUnanswered, InsertRow, InQueue
  <1>2. ASSUME NEW j \in Job, CancelCheck(j) PROVE IInv'
    BY <1>2 DEF CancelCheck, InQueue
  <1>3. ASSUME NEW j \in Job, GetJobFromDb(j) PROVE IInv'
    <2>1. \A k \in Job : InQueue(k)' <=> InQueue(k)
      BY <1>3 DEF GetJobFromDb, InQueue
    <2>2. j \notin scheduled
      BY <1>3 DEF GetJobFromDb
    <2>3. ScheduledJobNotLost'
      BY <1>3, <2>1, <2>2 DEF GetJobFromDb
    <2>4. TypeOK' /\ MutexInv' /\ DeadInv' /\ HandInv' /\ RowInv' /\ WriteInv'
      BY <1>3 DEF GetJobFromDb
    <2>5. /\ ClientInv' /\ CancelInv' /\ SleepInv'
          /\ QueueHoldsPendingWork' /\ AtMostOneExecution'
      BY <1>3, <2>1 DEF GetJobFromDb
    <2> QED BY <2>3, <2>4, <2>5
  <1>4. CASE WorkerLoopTest
    BY <1>4 DEF WorkerLoopTest, InQueue
  <1>5. CASE WorkerLock
    BY <1>5 DEF WorkerLock, InQueue
  <1>6. CASE WorkerPredicate
    BY <1>6 DEF WorkerPredicate, InQueue
  <1>7. CASE WorkerBlock
    BY <1>7 DEF WorkerBlock, InQueue
  <1>8. CASE WorkerExit
    BY <1>8 DEF WorkerExit, InQueue
  <1>9. CASE WorkerCheck
    <2>1. \A k \in Job : InQueue(k)' <=> InQueue(k)
      BY <1>9 DEF WorkerCheck, InQueue
    <2>2. QueueHoldsPendingWork' /\ ScheduledJobNotLost' /\ CancelInv'
      BY <1>9, <2>1 DEF WorkerCheck
    <2>3. /\ TypeOK' /\ MutexInv' /\ DeadInv' /\ HandInv' /\ RowInv'
          /\ WriteInv' /\ ClientInv' /\ SleepInv' /\ AtMostOneExecution'
      BY <1>9 DEF WorkerCheck
    <2> QED BY <2>2, <2>3
  <1>10. CASE ExecuteStart
    BY <1>10 DEF ExecuteStart, InQueue
  <1>11. CASE ExecuteSucceed
    BY <1>11 DEF ExecuteSucceed, InQueue
  <1>12. CASE ExecuteThrow
    BY <1>12 DEF ExecuteThrow, InQueue
  <1>13. CASE PersistEnd
    <2>1. \A k \in Job : InQueue(k)' <=> InQueue(k)
      BY <1>13 DEF PersistEnd, InQueue
    <2>2. current \in Job
      BY <1>13 DEF PersistEnd
    <2>3. TypeOK' /\ RowInv' /\ WriteInv' /\ ClientInv'
      <3>1. dbJobs' \in [Job -> JobStatus \cup {Absent}]
        BY <1>13, <2>2 DEF PersistEnd, UpdateRow
      <3>2. \A k \in Job \ {current} : dbJobs'[k] = dbJobs[k]
        BY <1>13, <2>2 DEF PersistEnd, UpdateRow
      <3>3. dbJobs'[current] # Absent /\ runs[current] # 0
        BY <1>13, <2>2 DEF PersistEnd, UpdateRow
      <3> QED BY <1>13, <2>2, <3>1, <3>2, <3>3 DEF PersistEnd
    <2>4. /\ MutexInv' /\ DeadInv' /\ HandInv' /\ CancelInv' /\ SleepInv'
          /\ QueueHoldsPendingWork' /\ ScheduledJobNotLost' /\ AtMostOneExecution'
      BY <1>13, <2>1 DEF PersistEnd
    <2> QED BY <2>3, <2>4
  <1>14. CASE ExecuteReturn
    BY <1>14 DEF ExecuteReturn, InQueue
  <1>15. CASE ExecuteRethrow
    BY <1>15 DEF ExecuteRethrow, InQueue
  <1>16. CASE SpuriousWakeup
    BY <1>16 DEF SpuriousWakeup, InQueue
  <1>17. CASE Start
    BY <1>17 DEF Start, InQueue
  <1>18. CASE StopNotify
    BY <1>18 DEF StopNotify, Notify, InQueue
  <1>19. CASE StopJoin
    BY <1>19 DEF StopJoin, InQueue
  <1>20. CASE Restart
    BY <1>20 DEF Restart, InQueue
  <1>21. CASE GetAllJobsFromDb
    <2>1. \A k \in Job : InQueue(k)' <=> InQueue(k)
      BY <1>21 DEF GetAllJobsFromDb, InQueue
    <2>2. scheduled = {}
      BY <1>21 DEF GetAllJobsFromDb
    <2>3. ScheduledJobNotLost'
      BY <1>21, <2>2 DEF GetAllJobsFromDb
    <2>4. TypeOK' /\ MutexInv' /\ DeadInv' /\ HandInv' /\ RowInv' /\ WriteInv'
      BY <1>21 DEF GetAllJobsFromDb
    <2>5. /\ ClientInv' /\ CancelInv' /\ SleepInv'
          /\ QueueHoldsPendingWork' /\ AtMostOneExecution'
      BY <1>21, <2>1 DEF GetAllJobsFromDb, InQueue
    <2> QED BY <2>3, <2>4, <2>5
  <1>22. CASE SchedulePush
    <2> DEFINE e == client.job
    <2>1. e \in Job /\ jobQueue \in Seq(Job) /\ jobQueue' = Append(jobQueue, e)
      BY <1>22 DEF SchedulePush
    <2>2. \A k \in Job : InQueue(k)' <=> InQueue(k) \/ k = e
      <3>1. Members(jobQueue') = Members(jobQueue) \cup {e}
        BY <2>1, AppendMembers
      <3> QED BY <3>1, QueueMembers
    <2>3. \A k \in Job : InQueue(k) => k # e
      BY <1>22 DEF SchedulePush
    <2>4. QueueHoldsPendingWork'
      BY <1>22, <2>1, <2>2, <2>3 DEF SchedulePush, Notify, InQueue
    <2>5. ScheduledJobNotLost' /\ CancelInv'
      BY <1>22, <2>2, <2>3 DEF SchedulePush, Notify
    <2>6. /\ TypeOK' /\ MutexInv' /\ DeadInv' /\ HandInv' /\ RowInv'
          /\ WriteInv' /\ ClientInv' /\ SleepInv' /\ AtMostOneExecution'
      BY <1>22, <2>1 DEF SchedulePush, Notify
    <2> QED BY <2>4, <2>5, <2>6
  <1>23. CASE CancelWrite
    <2>1. \A k \in Job : InQueue(k)' <=> InQueue(k)
      BY <1>23 DEF CancelWrite, InQueue
    <2>2. client.job \in Job
      BY <1>23 DEF CancelWrite
    <2>3. RowInv'
      BY <1>23, <2>2 DEF CancelWrite
    <2>4. QueueHoldsPendingWork' /\ ScheduledJobNotLost' /\ CancelInv'
      BY <1>23, <2>1, <2>2 DEF CancelWrite
    <2>5. /\ TypeOK' /\ MutexInv' /\ DeadInv' /\ HandInv' /\ WriteInv'
          /\ ClientInv' /\ SleepInv' /\ AtMostOneExecution'
      BY <1>23, <2>2 DEF CancelWrite
    <2> QED BY <2>3, <2>4, <2>5
  <1>24. CASE WorkerTake
    <2>0. PICK h \in Job : h = Head(jobQueue)
      BY <1>24 DEF WorkerTake
    <2>1. /\ jobQueue \in Seq(Job) /\ jobQueue # <<>> /\ h = Head(jobQueue)
          /\ jobQueue' = Tail(jobQueue)
      BY <1>24, <2>0 DEF WorkerTake
    <2>2. \A k \in Job : InQueue(k) <=> InQueue(k)' \/ k = h
      <3>1. Members(jobQueue) = Members(jobQueue') \cup {h}
        BY <2>1, TailMembers
      <3> QED BY <3>1, QueueMembers
    <2>3. \A i, k \in DOMAIN jobQueue : jobQueue[i] = jobQueue[k] => i = k
      OBVIOUS
    <2>4. \A i, k \in DOMAIN jobQueue' : jobQueue'[i] = jobQueue'[k] => i = k
      BY <2>1, <2>3
    <2>5. ~InQueue(h)'
      <3>1. ASSUME NEW i \in DOMAIN jobQueue' PROVE jobQueue'[i] # h
        <4>1. /\ i + 1 \in DOMAIN jobQueue /\ 1 \in DOMAIN jobQueue
              /\ jobQueue[i + 1] = jobQueue'[i] /\ jobQueue[1] = h
              /\ i + 1 # 1
          BY <2>1, <3>1
        <4> QED BY <2>3, <4>1
      <3> QED BY <3>1, QueueMembers DEF Members
    <2>6. /\ worker' = "taken" /\ current' = h /\ ~InHand
          /\ UNCHANGED <<jobs, runs, scheduled, cancelledInQueue>>
      BY <1>24, <2>1 DEF WorkerTake
    <2>7. QueueHoldsPendingWork'
      <3>1. ASSUME NEW k \in Job, InQueue(k)'
            PROVE  /\ jobs'[k] \in {"PENDING", "CANCELLED"}
                   /\ runs'[k] = 0
                   /\ current' # k
        BY <2>2, <2>5, <2>6, <3>1
      <3> QED BY <2>4, <3>1
    <2>8. ScheduledJobNotLost'
      BY <2>2, <2>6
    <2>9. CancelInv'
      BY <2>2, <2>6
    <2>10. TypeOK'
      <3>1. jobQueue' \in Seq(Job)
        BY <2>1
      <3> QED BY <1>24, <2>1, <3>1 DEF WorkerTake
    <2>12. HandInv' /\ WriteInv'
      BY <2>1, <2>2, <2>6
    <2>11. /\ MutexInv' /\ DeadInv' /\ RowInv' /\ ClientInv' /\ SleepInv'
           /\ AtMostOneExecution'
      BY <1>24, <2>1 DEF WorkerTake
    <2> QED BY <2>7, <2>8, <2>9, <2>10, <2>11, <2>12
  <1>25. CASE PersistRunning
    <2>1. \A k \in Job : InQueue(k)' <=> InQueue(k)
      BY <1>25 DEF PersistRunning, InQueue
    <2>2. current \in Job
      BY <1>25 DEF PersistRunning
    <2>3. TypeOK' /\ RowInv' /\ WriteInv' /\ ClientInv'
      <3>1. dbJobs' \in [Job -> JobStatus \cup {Absent}]
        BY <1>25, <2>2 DEF PersistRunning, UpdateRow
      <3>2. \A k \in Job \ {current} : dbJobs'[k] = dbJobs[k]
        BY <1>25, <2>2 DEF PersistRunning, UpdateRow
      <3>3. dbJobs'[current] \notin {Absent, "COMPLETED", "FAILED"}
        BY <1>25, <2>2 DEF PersistRunning, UpdateRow
      <3> QED BY <1>25, <2>2, <3>1, <3>2, <3>3 DEF PersistRunning
    <2>4. /\ MutexInv' /\ DeadInv' /\ HandInv' /\ CancelInv' /\ SleepInv'
          /\ QueueHoldsPendingWork' /\ ScheduledJobNotLost' /\ AtMostOneExecution'
      BY <1>25, <2>1 DEF PersistRunning
    <2> QED BY <2>3, <2>4
  <1>26. CASE PersistProgress
    <2>1. \A k \in Job : InQueue(k)' <=> InQueue(k)
      BY <1>26 DEF PersistProgress, InQueue
    <2>2. current \in Job
      BY <1>26 DEF PersistProgress
    <2>3. TypeOK' /\ RowInv' /\ WriteInv' /\ ClientInv'
      <3>1. dbJobs' \in [Job -> JobStatus \cup {Absent}]
        BY <1>26, <2>2 DEF PersistProgress, UpdateRow
      <3>2. \A k \in Job \ {current} : dbJobs'[k] = dbJobs[k]
        BY <1>26, <2>2 DEF PersistProgress, UpdateRow
      <3>3. dbJobs'[current] \notin {Absent, "COMPLETED", "FAILED"}
        BY <1>26, <2>2 DEF PersistProgress, UpdateRow
      <3> QED BY <1>26, <2>2, <3>1, <3>2, <3>3 DEF PersistProgress
    <2>4. /\ MutexInv' /\ DeadInv' /\ HandInv' /\ CancelInv' /\ SleepInv'
          /\ QueueHoldsPendingWork' /\ ScheduledJobNotLost' /\ AtMostOneExecution'
      BY <1>26, <2>1 DEF PersistProgress
    <2> QED BY <2>3, <2>4
  <1>27. CASE StopClear
    <2>1. \A k \in Job : InQueue(k)' <=> InQueue(k)
      BY <1>27 DEF StopClear, InQueue
    <2>2. TypeOK'
      BY <1>27 DEF StopClear
    <2>3. /\ MutexInv' /\ DeadInv' /\ HandInv' /\ RowInv' /\ WriteInv'
          /\ ClientInv' /\ CancelInv' /\ SleepInv' /\ AtMostOneExecution'
          /\ QueueHoldsPendingWork' /\ ScheduledJobNotLost'
      BY <1>27, <2>1 DEF StopClear
    <2> QED BY <2>2, <2>3
  <1>28. CASE Terminate \/ Crash
    <2>1. TypeOK'
      <3>1. jobs' \in [Job -> JobStatus \cup {Absent}]
        BY <1>28 DEF Terminate, Crash, Die
      <3>2. client' \in [op : {"none", "schedule", "cancel"},
                         job : Job \cup {NoJob}]
        BY <1>28 DEF Terminate, Crash, Die
      <3>3. jobQueue' = <<>> /\ current' = NoJob /\ scheduled' = {}
        BY <1>28 DEF Terminate, Crash, Die
      <3>4. UNCHANGED <<dbJobs, runs, cancelledInQueue>>
        BY <1>28 DEF Terminate, Crash, Die
      <3>5. /\ up' = FALSE /\ running' = FALSE /\ jobMutex' = "free"
            /\ worker' = "none" /\ control' = "idle"
        BY <1>28 DEF Terminate, Crash, Die
      <3>6. <<>> \in Seq(Job)
        OBVIOUS
      <3>7. /\ dbJobs \in [Job -> JobStatus \cup {Absent}] /\ runs \in [Job -> Nat]
            /\ cancelledInQueue \subseteq Job
        OBVIOUS
      <3> HIDE DEF JobStatus
      <3> QED BY <3>1, <3>2, <3>3, <3>4, <3>5, <3>6, <3>7
    <2>2. \A k \in Job : ~InQueue(k)'
      BY <1>28 DEF Terminate, Crash, Die, InQueue
    <2>3. CancelInv' /\ QueueHoldsPendingWork' /\ ScheduledJobNotLost'
      BY <1>28, <2>2 DEF Terminate, Crash, Die
    <2>4. /\ MutexInv' /\ DeadInv' /\ HandInv' /\ RowInv' /\ WriteInv'
          /\ ClientInv' /\ SleepInv' /\ AtMostOneExecution'
      BY <1>28 DEF Terminate, Crash, Die
    <2> QED BY <2>1, <2>3, <2>4
  <1>29. CASE UNCHANGED vars
    BY <1>29 DEF vars, InQueue
  <1> QED BY <1>1, <1>2, <1>3, <1>4, <1>5, <1>6, <1>7, <1>8, <1>9, <1>10, <1>11, <1>12, <1>13,
      <1>14, <1>15, <1>16, <1>17, <1>18, <1>19, <1>20, <1>21, <1>22, <1>23, <1>24, <1>25, <1>26,
      <1>27, <1>28, <1>29, <1>30
      DEF Next, Client, ClientFinish, Worker, Execute, Control

-----------------------------------------------------------------------------
(* The invariant holds throughout every behaviour. *)
THEOREM Invariance == Spec => []IInv
  <1>1. Init => IInv
    BY InitIInv
  <1>2. IInv /\ [Next]_vars => IInv'
    BY NextIInv
  <1> QED BY <1>1, <1>2, PTL DEF Spec

(* Every variable keeps its type. *)
THEOREM TypeCorrect == Spec => []TypeOK
  <1>1. IInv => TypeOK
    BY DEF IInv
  <1> QED BY <1>1, Invariance, PTL

(* The queue never holds a job twice, nor one that has run or is in hand:   *)
(* what ETLJobManager::workerLoop pops is always a job's first turn.        *)
THEOREM QueueCorrect == Spec => []QueueHoldsPendingWork
  <1>1. IInv => QueueHoldsPendingWork
    BY DEF IInv
  <1> QED BY <1>1, Invariance, PTL

(* No interleaving of clients, the worker, stop, crash and restart makes a  *)
(* scheduled PENDING job disappear from both the queue and the worker.      *)
THEOREM NothingLost == Spec => []ScheduledJobNotLost
  <1>1. IInv => ScheduledJobNotLost
    BY DEF IInv
  <1> QED BY <1>1, Invariance, PTL

(* A job begins at most once, over all the processes that share the table.  *)
THEOREM ExecutesOnce == Spec => []AtMostOneExecution
  <1>1. IInv => AtMostOneExecution
    BY DEF IInv
  <1> QED BY <1>1, Invariance, PTL

(* cancelJob is honoured for a job that is still queued when it returns.    *)
THEOREM CancelHonoured == Spec => []CancelledInQueueNeverRuns
  <1>1. IInv => CancelledInQueueNeverRuns
    BY DEF IInv, CancelInv, CancelledInQueueNeverRuns
  <1> QED BY <1>1, Invariance, PTL

(* scheduleJob's wakeup is never missed by workerLoop's wait.               *)
THEOREM WakeupNotMissed == Spec => []NoSleepOnWork
  <1>1. IInv => NoSleepOnWork
    BY DEF IInv, SleepInv, NoSleepOnWork
  <1> QED BY <1>1, Invariance, PTL

(* A COMPLETED or FAILED row of etl_jobs is never written again.            *)
THEOREM RowsFinal == Spec => EndedRowIsFinal
  <1> DEFINE Final == \A j \in Job : dbJobs[j] \in {"COMPLETED", "FAILED"} =>
                                        dbJobs'[j] = dbJobs[j]
  <1>1. ASSUME IInv, [Next]_vars PROVE Final
    <2>1. ASSUME NEW j \in Job, ScheduleInsert(j) PROVE Final
      BY <1>1, <2>1 DEF ScheduleInsert, InsertRow, IInv, TypeOK
    <2>4. ASSUME NEW j \in Job, ScheduleUnanswered(j) PROVE Final
      BY <1>1, <2>4 DEF ScheduleUnanswered, InsertRow, IInv, TypeOK
    <2>2. CASE PersistRunning \/ PersistProgress \/ PersistEnd
      <3>1. /\ dbJobs[current] \notin {"COMPLETED", "FAILED"}
            /\ \A j \in Job \ {current} : dbJobs'[j] = dbJobs[j]
        BY <1>1, <2>2 DEF PersistRunning, PersistProgress, PersistEnd,
                          UpdateRow, IInv, TypeOK, WriteInv
      <3> QED BY <3>1
    <2>3. ASSUME dbJobs' = dbJobs PROVE Final
      BY <2>3
    <2> QED
      BY <1>1, <2>1, <2>2, <2>3, <2>4
      DEF Next, Client, ClientFinish, Worker, Execute, Control, vars,
          CancelCheck, GetJobFromDb, GetAllJobsFromDb, SchedulePush,
          CancelWrite, WorkerLoopTest, WorkerLock, WorkerPredicate,
          WorkerBlock, WorkerExit, WorkerTake, WorkerCheck, ExecuteStart,
          ExecuteSucceed, ExecuteThrow, ExecuteReturn, ExecuteRethrow,
          SpuriousWakeup, Start, StopClear, StopNotify, StopJoin, Terminate,
          Crash, Die, Restart
  <1>2. IInv /\ [Next]_vars => [Final]_vars
    BY <1>1
  <1> QED BY <1>2, Invariance, PTL DEF Spec, EndedRowIsFinal

-----------------------------------------------------------------------------
(* The refinement of JobExecutor, step by step: first what the queue        *)
(* becomes under the refinement mapping.                                    *)

(* A sequence with an element in front. *)
LEMMA HeadTailOfCons ==
  ASSUME NEW q \in Seq(Job), NEW e \in Job
  PROVE  /\ <<e>> \o q \in Seq(Job)
         /\ <<e>> \o q # <<>>
         /\ Head(<<e>> \o q) = e
         /\ Tail(<<e>> \o q) = q
  OBVIOUS

(* Popping the front and putting it back. *)
LEMMA ConsHeadTail ==
  ASSUME NEW q \in Seq(Job), q # <<>>
  PROVE  <<Head(q)>> \o Tail(q) = q
  OBVIOUS

(* Appending, as the concatenations of the mapping have it.                 *)
LEMMA AppendIsConcat ==
  ASSUME NEW q \in Seq(Job), NEW e \in Job
  PROVE  Append(q, e) = q \o <<e>>
  OBVIOUS

(* The empty sequence is neutral.                                           *)
LEMMA ConcatEmpty ==
  ASSUME NEW q \in Seq(Job)
  PROVE  <<>> \o q = q /\ q \o <<>> = q
  OBVIOUS

(* Concatenation is associative.                                            *)
LEMMA ConcatAssociates ==
  ASSUME NEW q \in Seq(Job), NEW r \in Seq(Job), NEW s \in Seq(Job)
  PROVE  (q \o r) \o s = q \o (r \o s)
  OBVIOUS

(* The members of a concatenation are those of its parts.                   *)
LEMMA ConcatMembers ==
  ASSUME NEW q \in Seq(Job), NEW r \in Seq(Job)
  PROVE  Members(q \o r) = Members(q) \cup Members(r)
  <1>1. ASSUME NEW i \in DOMAIN q
        PROVE  i \in DOMAIN (q \o r) /\ (q \o r)[i] = q[i]
    OBVIOUS
  <1>2. ASSUME NEW i \in DOMAIN r
        PROVE  Len(q) + i \in DOMAIN (q \o r) /\ (q \o r)[Len(q) + i] = r[i]
    OBVIOUS
  <1>3. ASSUME NEW i \in DOMAIN (q \o r), i \notin DOMAIN q
        PROVE  i - Len(q) \in DOMAIN r /\ (q \o r)[i] = r[i - Len(q)]
    BY <1>3
  <1>4. Members(q) \cup Members(r) \subseteq Members(q \o r)
    BY <1>1, <1>2 DEF Members
  <1>5. ASSUME NEW i \in DOMAIN (q \o r)
        PROVE  (q \o r)[i] \in Members(q) \cup Members(r)
    BY <1>1, <1>3 DEF Members
  <1> QED BY <1>4, <1>5 DEF Members

-----------------------------------------------------------------------------
USE JobAssumption
    DEF JobStatus, Absent, NoClient, InHand, Executing, data, history

(* The three parts of Waiting are sequences of jobs.                        *)
LEMMA WaitingType ==
  ASSUME IInv
  PROVE  /\ Taken \in Seq(Job) /\ jobQueue \in Seq(Job) /\ Entering \in Seq(Job)
         /\ jobQueue \o Entering \in Seq(Job)
         /\ Waiting \in Seq(Job)
         /\ Waiting = Taken \o (jobQueue \o Entering)
         /\ Members(Waiting) = Members(Taken) \cup Members(jobQueue)
                                 \cup Members(Entering)
  <1>1. Taken \in Seq(Job) /\ Entering \in Seq(Job) /\ jobQueue \in Seq(Job)
    BY DEF IInv, TypeOK, HandInv, MutexInv, Taken, Entering
  <1>2. Taken \o jobQueue \in Seq(Job) /\ jobQueue \o Entering \in Seq(Job)
    BY <1>1
  <1>3. Members(Waiting) = Members(Taken \o jobQueue) \cup Members(Entering)
    BY <1>1, <1>2, ConcatMembers DEF Waiting
  <1>4. Members(Taken \o jobQueue) = Members(Taken) \cup Members(jobQueue)
    BY <1>1, ConcatMembers
  <1>5. Waiting = Taken \o (jobQueue \o Entering)
    BY <1>1, ConcatAssociates DEF Waiting
  <1> QED BY <1>1, <1>2, <1>3, <1>4, <1>5 DEF Waiting

(* Of those that wait, the cancelled ones, before and after a step.         *)
LEMMA CancelledMembers ==
  /\ CancelledWaiting = {j \in Job : j \in Members(Waiting) /\ jobs[j] = "CANCELLED"}
  /\ CancelledWaiting' = {j \in Job : j \in Members(Waiting') /\ jobs'[j] = "CANCELLED"}
  BY DEF CancelledWaiting, Members

(* Who waits: the job the worker has popped, those in the queue, the one    *)
(* between its INSERT and its push.                                         *)
LEMMA WhoWaits ==
  ASSUME IInv, NEW j \in Job
  PROVE  j \in Members(Waiting) <=>
           \/ worker = "taken" /\ current = j
           \/ InQueue(j)
           \/ client.op = "schedule" /\ client.job = j
  <1>1. Members(Taken) = IF worker = "taken" THEN {current} ELSE {}
    BY DEF Members, Taken
  <1>2. Members(Entering) = IF client.op = "schedule" THEN {client.job} ELSE {}
    BY DEF Members, Entering
  <1> QED BY <1>1, <1>2, WaitingType, QueueMembers

(* A step that moves no job and cancels none that waits is a stutter. *)
LEMMA Stutter ==
  ASSUME Used' = Used,
         Waiting' = Waiting,
         BeingExecuted' = BeingExecuted,
         \A j \in Job : j \in Members(Waiting) =>
             (jobs'[j] = "CANCELLED" <=> jobs[j] = "CANCELLED")
  PROVE  UNCHANGED Executor!vars
  BY CancelledMembers DEF Executor!vars

(* The initial state is one of the executor.                                *)
LEMMA InitRefines == Init => Executor!Init
  <1> SUFFICES ASSUME Init PROVE Executor!Init
    OBVIOUS
  <1>1. Waiting = <<>>
    BY ConcatEmpty DEF Init, Waiting, Taken, Entering
  <1>2. CancelledWaiting = {}
    BY <1>1 DEF CancelledWaiting
  <1>3. Used = {} /\ BeingExecuted = NoJob
    BY DEF Init, Used, BeingExecuted
  <1> QED BY <1>1, <1>2, <1>3 DEF Executor!Init

(* One step of the manager is one step of JobExecutor or a stutter. *)
THEOREM NextRefines ==
  IInv /\ IInv' /\ [Next]_vars => [Executor!Next]_(Executor!vars)
  <1> SUFFICES ASSUME IInv, IInv', [Next]_vars
               PROVE  [Executor!Next]_(Executor!vars)
    OBVIOUS
  (* The steps that leave jobs_, the queue, the table and the hand alone. *)
  <1>1. ASSUME UNCHANGED <<jobs, jobQueue, dbJobs, client, current>>,
               worker' = "taken" <=> worker = "taken",
               (worker = "checked" \/ Executing)' <=>
                   worker = "checked" \/ Executing
        PROVE  UNCHANGED Executor!vars
    <2>1. Waiting' = Waiting
      BY <1>1 DEF Waiting, Taken, Entering
    <2> QED BY <1>1, <2>1, Stutter DEF Used, BeingExecuted
  <1>2. CASE WorkerLoopTest \/ WorkerLock \/ WorkerPredicate \/ WorkerBlock
             \/ WorkerExit \/ SpuriousWakeup
    BY <1>1, <1>2 DEF WorkerLoopTest, WorkerLock, WorkerPredicate, WorkerBlock,
                      WorkerExit, SpuriousWakeup
  <1>3. CASE Start \/ StopClear \/ StopNotify \/ StopJoin \/ Restart
             \/ ExecuteRethrow
    BY <1>1, <1>3 DEF Start, StopClear, StopNotify, StopJoin, Restart,
                      ExecuteRethrow, Notify
  <1>4. ASSUME NEW j \in Job, CancelCheck(j) PROVE UNCHANGED Executor!vars
    <2>1. Waiting' = Waiting
      BY <1>4 DEF CancelCheck, Waiting, Taken, Entering, IInv, MutexInv
    <2> QED BY <1>4, <2>1, Stutter DEF CancelCheck, Used, BeingExecuted
  (* A row appears: the job is accepted and waits from now on. *)
  <1>5. ASSUME NEW j \in Job, ScheduleInsert(j) PROVE Executor!Accept(j)
    <2>1. Taken \o jobQueue \in Seq(Job)
      BY WaitingType
    <2>8. Taken' = Taken /\ jobQueue' = jobQueue /\ Entering = <<>>
          /\ Entering' = <<j>>
      BY <1>5 DEF ScheduleInsert, InsertRow, Taken, Entering, IInv, MutexInv
    <2>2. Waiting' = Append(Waiting, j)
      BY <2>1, <2>8, ConcatEmpty, AppendIsConcat DEF Waiting
    <2>3. j \notin Used /\ Used' = Used \cup {j}
      BY <1>5 DEF ScheduleInsert, InsertRow, Used, IInv, TypeOK
    <2>4. Members(Waiting') = Members(Waiting) \cup {j}
      BY <2>2, AppendMembers, WaitingType
    <2>5. jobs[j] = Absent /\ jobs' = jobs
      BY <1>5 DEF ScheduleInsert, InsertRow, IInv, RowInv
    <2>6. CancelledWaiting' = CancelledWaiting
      BY <2>4, <2>5, CancelledMembers
    <2>7. BeingExecuted' = BeingExecuted
      BY <1>5 DEF ScheduleInsert, InsertRow, BeingExecuted
    <2> QED BY <2>2, <2>3, <2>6, <2>7 DEF Executor!Accept
  (* A row appears whose job was refused: the id is used up. *)
  <1>17. ASSUME NEW j \in Job, ScheduleUnanswered(j) PROVE Executor!UseUp(j)
    <2>1. /\ UNCHANGED <<jobs, jobQueue, worker, current, client>>
          /\ dbJobs[j] = Absent /\ dbJobs' = [dbJobs EXCEPT ![j] = "PENDING"]
      BY <1>17 DEF ScheduleUnanswered, InsertRow
    <2>2. Waiting' = Waiting /\ BeingExecuted' = BeingExecuted
      BY <2>1 DEF Waiting, Taken, Entering, BeingExecuted
    <2>3. CancelledWaiting' = CancelledWaiting
      BY <2>1, <2>2, CancelledMembers
    <2>4. j \notin Used /\ Used' = Used \cup {j}
      BY <2>1 DEF Used, IInv, TypeOK
    <2> QED BY <2>2, <2>3, <2>4 DEF Executor!UseUp
  (* The push, in the same critical section, is not seen. *)
  <1>6. CASE SchedulePush
    <2> DEFINE e == client.job
    <2>1. /\ e \in Job /\ jobQueue' = Append(jobQueue, e)
          /\ Entering = <<e>> /\ Entering' = <<>>
          /\ worker' # "taken" <=> worker # "taken"
          /\ current' = current
      BY <1>6 DEF SchedulePush, Notify, Entering, IInv, TypeOK, MutexInv
    <2>2. Taken' = Taken
      BY <2>1 DEF Taken
    <2>3. Waiting' = Taken \o (Append(jobQueue, e) \o <<>>)
      BY <2>1, <2>2, WaitingType DEF Waiting, IInv, TypeOK
    <2>4. Waiting' = Waiting
      BY <2>1, <2>3, WaitingType, AppendIsConcat, ConcatEmpty
    <2>5. /\ jobs[e] = Absent /\ jobs'[e] = "PENDING"
          /\ \A j \in Job \ {e} : jobs'[j] = jobs[j]
      BY <1>6 DEF SchedulePush, IInv, TypeOK, ClientInv
    <2>6. Used' = Used /\ BeingExecuted' = BeingExecuted
      BY <1>6 DEF SchedulePush, Notify, Used, BeingExecuted
    <2> QED BY <2>4, <2>5, <2>6, Stutter
  <1>7. CASE CancelWrite
    <2> DEFINE e == client.job
    <2>1. /\ e \in Job /\ Entering = <<>> /\ Entering' = <<>>
          /\ jobs' = [jobs EXCEPT ![e] = "CANCELLED"]
          /\ UNCHANGED <<jobQueue, dbJobs, worker, current>>
      BY <1>7 DEF CancelWrite, Entering, IInv, TypeOK, MutexInv
    <2>2. /\ Waiting' = Waiting /\ Used' = Used
          /\ BeingExecuted' = BeingExecuted
      BY <2>1 DEF Waiting, Taken, Used, BeingExecuted
    <2>3. jobs'[e] = "CANCELLED" /\ \A j \in Job \ {e} : jobs'[j] = jobs[j]
      BY <2>1 DEF IInv, TypeOK
    <2>4. CASE e \in Members(Waiting)
      <3>1. CancelledWaiting' = CancelledWaiting \cup {e}
        BY <2>1, <2>2, <2>3, <2>4, CancelledMembers
      <3>2. Executor!Cancel(e)
        BY <2>2, <2>4, <3>1 DEF Executor!Cancel, Members
      <3> QED BY <2>1, <3>2 DEF Executor!Next
    <2>5. CASE e \notin Members(Waiting)
      BY <2>2, <2>3, <2>5, Stutter
    <2> QED BY <2>4, <2>5
  (* Lookups bring in rows of jobs that are not in memory: none waits. *)
  <1>8. ASSUME NEW j \in Job, GetJobFromDb(j) PROVE UNCHANGED Executor!vars
    <2>1. Waiting' = Waiting /\ Used' = Used
          /\ BeingExecuted' = BeingExecuted
      BY <1>8 DEF GetJobFromDb, Waiting, Taken, Entering, Used, BeingExecuted
    <2>2. j \notin Members(Waiting)
      BY <1>8, WhoWaits
      DEF GetJobFromDb, IInv, MutexInv, HandInv, QueueHoldsPendingWork
    <2> QED BY <1>8, <2>1, <2>2, Stutter DEF GetJobFromDb, IInv, TypeOK
  <1>9. CASE GetAllJobsFromDb
    <2>1. Waiting' = Waiting /\ Used' = Used
          /\ BeingExecuted' = BeingExecuted
      BY <1>9 DEF GetAllJobsFromDb, Waiting, Taken, Entering, Used,
                  BeingExecuted
    <2>2. \A j \in Job : j \notin Members(Waiting)
      BY <1>9, WhoWaits
      DEF GetAllJobsFromDb, IInv, MutexInv, HandInv, QueueHoldsPendingWork
    <2> QED BY <2>1, <2>2, Stutter
  (* The front of the queue is popped, and still waits. *)
  <1>10. CASE WorkerTake
    <2>1. /\ jobQueue \in Seq(Job) /\ jobQueue # <<>>
          /\ Taken = <<>> /\ Taken' = <<Head(jobQueue)>>
          /\ jobQueue' = Tail(jobQueue) /\ Entering' = Entering
      BY <1>10 DEF WorkerTake, Taken, Entering, IInv, TypeOK
    <2>2. Taken \o jobQueue = jobQueue
      BY <2>1, ConcatEmpty
    <2>3. Waiting' = Waiting
      BY <2>1, <2>2, ConsHeadTail DEF Waiting
    <2> QED BY <1>10, <2>3, Stutter DEF WorkerTake, Used, BeingExecuted
  (* Its turn comes: it begins, or it is skipped because it is cancelled. *)
  <1>11. CASE WorkerCheck
    <2> DEFINE rest == jobQueue \o Entering
    <2>1. /\ current \in Job /\ rest \in Seq(Job) /\ Taken = <<current>>
          /\ Taken' = <<>> /\ UNCHANGED <<jobs, jobQueue, dbJobs, client>>
          /\ Entering' = Entering
      BY <1>11, WaitingType DEF WorkerCheck, Taken, Entering, IInv, HandInv
    <2>2. Waiting # <<>> /\ Head(Waiting) = current /\ Tail(Waiting) = rest
      <3>1. Waiting = <<current>> \o rest
        BY <2>1, WaitingType
      <3> HIDE DEF rest
      <3> QED BY <2>1, <3>1, HeadTailOfCons
    <2>3. Waiting' = rest
      BY <2>1, ConcatEmpty, WaitingType DEF Waiting
    <2>4. current \notin Members(rest)
      <3>1. Members(rest) = Members(jobQueue) \cup Members(Entering)
        BY ConcatMembers, WaitingType
      <3>2. ~InQueue(current)
        BY <1>11, <2>1 DEF WorkerCheck, IInv, QueueHoldsPendingWork
      <3>3. Members(Entering) \subseteq {client.job}
        BY DEF Members, Entering
      <3>4. client.op = "schedule" => client.job # current
        BY <1>11 DEF WorkerCheck, IInv, HandInv, ClientInv
      <3>5. client.op # "schedule" => Members(Entering) = {}
        BY DEF Members, Entering
      <3> QED BY <3>1, <3>2, <3>3, <3>4, <3>5, QueueMembers
    <2>5. Members(Waiting) = {current} \cup Members(rest)
      BY <2>1, <2>2, TailMembers, WaitingType
    <2>6. BeingExecuted = NoJob /\ Used' = Used
      BY <1>11, <2>1 DEF WorkerCheck, BeingExecuted, Used
    <2>7. CASE jobs[current] = "PENDING"
      <3>1. BeingExecuted' = current
        BY <1>11, <2>7 DEF WorkerCheck, BeingExecuted
      <3>2. current \notin CancelledWaiting /\ CancelledWaiting' = CancelledWaiting
        BY <2>1, <2>3, <2>5, <2>7, CancelledMembers
      <3>3. Executor!Begin
        BY <2>2, <2>3, <2>6, <3>1, <3>2 DEF Executor!Begin
      <3> QED BY <3>3 DEF Executor!Next
    <2>8. CASE jobs[current] # "PENDING"
      <3>1. BeingExecuted' = NoJob
        BY <1>11, <2>8 DEF WorkerCheck, BeingExecuted
      <3>2. jobs[current] = "CANCELLED"
        BY <1>11, <2>8 DEF WorkerCheck, IInv, HandInv
      <3>3. current \in CancelledWaiting
        BY <2>1, <2>5, <3>2, CancelledMembers
      <3>4. CancelledWaiting' = CancelledWaiting \ {current}
        BY <2>1, <2>3, <2>4, <2>5, CancelledMembers
      <3>5. Executor!Skip
        BY <2>2, <2>3, <2>6, <3>1, <3>3, <3>4 DEF Executor!Skip
      <3> QED BY <3>5 DEF Executor!Next
    <2> QED BY <2>7, <2>8
  (* What happens to the job in hand is not seen by those that wait. *)
  <1>12. CASE ExecuteStart \/ ExecuteSucceed \/ ExecuteThrow
    <2>1. /\ worker = "checked" \/ worker = "body"
          /\ (worker = "checked" \/ Executing)'
          /\ worker' # "taken"
          /\ jobs' = [jobs EXCEPT ![current] = jobs'[current]]
          /\ UNCHANGED <<jobQueue, dbJobs, client, current>>
      BY <1>12 DEF ExecuteStart, ExecuteSucceed, ExecuteThrow, IInv, TypeOK,
                   HandInv
    <2>2. Waiting' = Waiting /\ Used' = Used
          /\ BeingExecuted' = BeingExecuted
      BY <2>1 DEF Waiting, Taken, Entering, Used, BeingExecuted
    <2>3. current \in Job /\ current \notin Members(Waiting)
      BY <2>1, WhoWaits
      DEF IInv, HandInv, QueueHoldsPendingWork, ClientInv
    <2> QED BY <2>1, <2>2, <2>3, Stutter DEF IInv, TypeOK
  <1>13. CASE PersistRunning \/ PersistProgress \/ PersistEnd
    <2>1. /\ Executing /\ Executing' /\ worker' # "taken" /\ worker # "taken"
          /\ UNCHANGED <<jobs, jobQueue, client, current>>
          /\ UpdateRow
      BY <1>13 DEF PersistRunning, PersistProgress, PersistEnd
    <2>2. Used' = Used
      BY <2>1 DEF UpdateRow, Used, IInv, TypeOK, HandInv, RowInv
    <2>3. Waiting' = Waiting /\ BeingExecuted' = BeingExecuted
      BY <2>1 DEF Waiting, Taken, Entering, BeingExecuted
    <2> QED BY <2>1, <2>2, <2>3, Stutter
  <1>14. CASE ExecuteReturn
    <2>1. /\ worker = "completed" /\ worker' = "loop" /\ current \in Job
          /\ UNCHANGED <<jobs, jobQueue, dbJobs, client>>
      BY <1>14 DEF ExecuteReturn, IInv, HandInv
    <2>2. Waiting' = Waiting /\ Used' = Used
      BY <2>1 DEF Waiting, Taken, Entering, Used
    <2>3. CancelledWaiting' = CancelledWaiting
      BY <2>1, <2>2, CancelledMembers
    <2>4. BeingExecuted = current /\ BeingExecuted' = NoJob
      BY <2>1 DEF BeingExecuted
    <2>5. Executor!End
      BY <2>1, <2>2, <2>3, <2>4 DEF Executor!End
    <2> QED BY <2>5 DEF Executor!Next
  (* The process ends: what waited is lost, the table is not. *)
  <1>15. CASE Terminate \/ Crash
    <2>1. /\ jobQueue' = <<>> /\ worker' = "none" /\ client' = NoClient
          /\ dbJobs' = dbJobs
      BY <1>15 DEF Terminate, Crash, Die
    <2>2. Taken' = <<>> /\ Entering' = <<>>
      BY <2>1 DEF Taken, Entering
    <2>3. Waiting' = <<>>
      BY <2>1, <2>2 DEF Waiting
    <2>4. CancelledWaiting' = {}
      BY <2>3 DEF CancelledWaiting
    <2>5. BeingExecuted' = NoJob /\ Used' = Used
      BY <2>1 DEF BeingExecuted, Used
    <2>6. Executor!Lose
      BY <2>3, <2>4, <2>5 DEF Executor!Lose
    <2> QED BY <2>6 DEF Executor!Next
  <1>16. CASE UNCHANGED vars
    BY <1>1, <1>16 DEF vars
  <1> QED
    BY <1>2, <1>3, <1>4, <1>5, <1>6, <1>7, <1>8, <1>9, <1>10, <1>11, <1>12,
       <1>13, <1>14, <1>15, <1>16, <1>17
    DEF Next, Client, ClientFinish, Worker, Execute, Control, Executor!Next

(* Clients may reason about JobExecutor instead of threads, locks and rows. *)
THEOREM Implements == Spec => ImplementsExecutor
  <1>1. Init => Executor!Init
    BY InitRefines
  <1>2. IInv /\ IInv' /\ [Next]_vars => [Executor!Next]_(Executor!vars)
    BY NextRefines
  <1> QED BY <1>1, <1>2, Invariance, PTL
          DEF Spec, ImplementsExecutor, Executor!Spec

-----------------------------------------------------------------------------
(* Every step of the composition is a step of the manager or leaves it      *)
(* alone: monitoring never changes what is executed.                        *)
LEMMA ManagerStep == [MNext]_mvars => [Next]_vars
  <1> SUFFICES ASSUME [MNext]_mvars PROVE [Next]_vars
    OBVIOUS
  <1> USE DEF vars, data, history, Next
  <1>1. CASE MControl
    <2>1. CASE SnapshotJobs
      BY <2>1 DEF SnapshotJobs, GetAllJobsFromDb
    <2>2. CASE StartMonitor \/ FillView \/ StopMonitor \/ ClearView
      BY <2>2 DEF StartMonitor, FillView, StopMonitor, ClearView
    <2> QED BY <1>1, <2>1, <2>2 DEF MControl
  <1>2. CASE MExecute
    BY <1>2 DEF MExecute, MExecuteStart, MPersistRunning, MExecuteEnd,
                MPersistEnd, StopMetrics, MExecuteReturn, MExecuteRethrow,
                Worker, Execute
  <1>3. CASE MPersistProgress
    BY <1>3 DEF MPersistProgress
  <1>4. CASE CollectorSample \/ \E t \in Thread : Callback(t)
    BY <1>4 DEF CollectorSample, Callback
  <1>5. CASE MStart
    BY <1>5 DEF MStart, Control
  <1>6. CASE MCancel
    BY <1>6 DEF MCancel, Client, ClientFinish
  <1>7. CASE MOther
    BY <1>7 DEF MOther, Client, ClientFinish, Worker, Control
  <1>8. CASE MDie
    BY <1>8 DEF MDie, Worker, Execute
  <1>9. CASE UNCHANGED mvars
    BY <1>9 DEF mvars
  <1> QED BY <1>1, <1>2, <1>3, <1>4, <1>5, <1>6, <1>7, <1>8, <1>9 DEF MNext

(* The composition implements the manager: every theorem about Spec holds   *)
(* of a manager with a monitor attached.                                    *)
THEOREM MonitoredManager == MSpec => Spec
  <1>1. MInit => Init
    BY DEF MInit
  <1> QED BY <1>1, ManagerStep, PTL DEF MSpec, Spec

(* The invariant of the manager holds in the composition.                   *)
LEMMA ManagerInvariant == MSpec => []IInv
  BY MonitoredManager, Invariance, PTL

-----------------------------------------------------------------------------
(* Types *)

(* A thread in a callback has a job, and a status callback a new status. *)
CallInv ==
    \A t \in Thread :
        /\ call[t].at # "idle" => call[t].job \in Job
        /\ call[t].op = "status" => call[t].new \in JobStatus
        /\ call[t].at \in {"move", "notify"} => call[t].op = "status"

MTypeInv == MTypeOK /\ CallInv

(* A callback begins with a job and, for a status, with a status. *)
LEMMA BeginType ==
    ASSUME MTypeInv, NEW t \in Thread, NEW c \in M!Calls, M!Begin(t, c),
           c.job \in Job, c.op = "status" => c.new \in JobStatus,
           c.at \notin {"move", "notify"}
    PROVE  M!MonitorTypeOK' /\ CallInv'
  BY DEF MTypeInv, MTypeOK, CallInv, M!MonitorTypeOK, M!Begin, M!view

(* Where a callback goes next keeps the types of the calls.                 *)
LEMMA GoToType ==
    ASSUME MTypeInv, NEW t \in Thread,
           NEW at \in M!Places,
           M!GoTo(t, at),
           call[t].at # "idle",
           at \in {"move", "notify"} => call[t].op = "status"
    PROVE  call' \in [Thread -> M!Calls] /\ CallInv'
  <1>1. call \in [Thread -> M!Calls]
    BY DEF MTypeInv, MTypeOK, M!MonitorTypeOK
  <1>2. call' = [call EXCEPT ![t] = call'[t]]
    BY <1>1 DEF M!GoTo
  <1>3. CASE at = "idle"
    <2>1. call'[t] = M!NoCall
      BY <1>1, <1>3 DEF M!GoTo
    <2>2. M!NoCall \in M!Calls
      BY DEF M!NoCall, M!Calls, M!Places, M!Absent
    <2> QED BY <1>1, <1>2, <2>1, <2>2
            DEF MTypeInv, CallInv, M!NoCall
  <1>4. CASE at # "idle"
    <2>1. call'[t] = [call[t] EXCEPT !.at = at]
      BY <1>1, <1>4 DEF M!GoTo
    <2>2. call[t] \in M!Calls
      BY <1>1
    <2>3. /\ call'[t] \in M!Calls
          /\ call'[t].at = at
          /\ call'[t].op = call[t].op
          /\ call'[t].job = call[t].job
          /\ call'[t].new = call[t].new
      BY <2>1, <2>2 DEF M!Calls
    <2> QED BY <1>1, <1>2, <2>3 DEF MTypeInv, CallInv
  <1> QED BY <1>3, <1>4

(* A step of a callback keeps the types of the monitor.                     *)
LEMMA CallStepType ==
    ASSUME MTypeInv, NEW t \in Thread, M!CallStep(t)
    PROVE  M!MonitorTypeOK' /\ CallInv'
  <1> USE DEF MTypeInv, MTypeOK, M!MonitorTypeOK, M!view, M!At, M!Places
  <1>1. CASE M!Create(t)
    BY <1>1, GoToType DEF M!Create, CallInv, Thread
  <1>2. CASE M!Lookup(t)
    <2>1. call[t].job \in Job
      BY <1>2 DEF M!Lookup, CallInv
    <2>2. activeJobs' \in [Job -> M!Data \cup {M!NoData}]
      BY <1>2, <2>1 DEF M!Lookup, M!Data
    <2> QED BY <1>2, <2>2, GoToType DEF M!Lookup, Thread
  <1>3. CASE M!Should(t)
    BY <1>3, GoToType DEF M!Should
  <1>4. CASE M!Update(t)
    <2>1. call[t] \in M!Calls /\ call[t].job \in Job
      BY <1>4 DEF M!Update, CallInv
    <2>2. activeJobs[call[t].job] \in M!Data
      BY <1>4, <2>1 DEF M!Update
    <2>3. M!Updated(call[t], activeJobs[call[t].job]) \in M!Data
      <3>1. CASE call[t].op = "status"
        BY <2>1, <2>2, <3>1 DEF M!Updated, M!Calls, M!Data, CallInv,
                                JobStatus, M!JobStatus
      <3>2. CASE call[t].op = "progress"
        BY <2>1, <2>2, <3>2 DEF M!Updated, M!Calls, M!Data
      <3>3. CASE call[t].op \notin {"status", "progress"}
        BY <2>1, <2>2, <3>3 DEF M!Updated
      <3> QED BY <3>1, <3>2, <3>3
    <2> QED BY <1>4, <2>1, <2>3, GoToType DEF M!Update
  <1>5. CASE M!UpdateUnknown(t)
    BY <1>5, GoToType DEF M!UpdateUnknown
  <1>6. CASE M!Publish(t)
    BY <1>6, GoToType DEF M!Publish
  <1>7. CASE M!Move(t)
    <2>1. call[t].job \in Job /\ call[t].op = "status"
      BY <1>7 DEF M!Move, CallInv
    <2> QED BY <1>7, <2>1, GoToType DEF M!Move
  <1>8. CASE M!NotifyFailure(t)
    <2>1. call[t].job \in Job
      BY <1>8 DEF M!NotifyFailure, CallInv
    <2> QED BY <1>8, <2>1, GoToType DEF M!NotifyFailure
  <1> QED BY <1>1, <1>2, <1>3, <1>4, <1>5, <1>6, <1>7, <1>8 DEF M!CallStep

(* The types before the first step.                                         *)
LEMMA MTypeInit == MInit => MTypeInv
  <1> SUFFICES ASSUME MInit PROVE MTypeInv
    OBVIOUS
  <1>1. TypeOK
    BY InitIInv DEF MInit, IInv
  <1>2. M!MonitorTypeOK /\ CallInv
    BY DEF MInit, CallInv, M!MonitorInit, M!MonitorTypeOK, M!Calls, M!Places, M!NoCall,
           M!Absent, Thread
  <1> QED BY <1>1, <1>2 DEF MInit, MTypeInv, MTypeOK

(* Every step of the composition keeps the types.                           *)
LEMMA MTypeStep == MTypeInv /\ IInv /\ IInv' /\ [MNext]_mvars => MTypeInv'
  <1> SUFFICES ASSUME MTypeInv, IInv, IInv', [MNext]_mvars
               PROVE  MTypeInv'
    OBVIOUS
  <1> USE DEF JobStatus, M!JobStatus, Absent, M!Absent
  <1>1. TypeOK' /\ (InHand => current \in Job)
    BY DEF IInv, HandInv
  <1>2. UNCHANGED monitor => M!MonitorTypeOK' /\ CallInv'
    BY DEF MTypeInv, MTypeOK, CallInv, M!MonitorTypeOK, monitor
  <1>3. UNCHANGED link =>
            /\ control2' \in {"off", "snapshot", "fill", "on", "clear", "stopped"}
            /\ oldStatus' \in JobStatus \cup {Absent}
            /\ lastProgress' \in Progress \cup {0}
            /\ collector' \in Job \cup {NoJob}
    BY DEF MTypeInv, MTypeOK, link
  <1>4. \A j \in Job, o \in JobStatus \cup {Absent}, n \in JobStatus :
            /\ M!StatusCall(j, o, n) \in M!Calls
            /\ M!StatusCall(j, o, n).job \in Job
            /\ M!StatusCall(j, o, n).new \in JobStatus
            /\ M!StatusCall(j, o, n).at \notin {"move", "notify"}
    BY DEF M!StatusCall, M!Calls, M!Places
  <1>5. \A j \in Job, p \in Progress :
            /\ M!ProgressCall(j, p) \in M!Calls
            /\ M!ProgressCall(j, p).job \in Job
            /\ M!ProgressCall(j, p).op = "progress"
            /\ M!ProgressCall(j, p).at \notin {"move", "notify"}
    BY DEF M!ProgressCall, M!Calls, M!Places
  <1>6. \A j \in Job :
            /\ M!MetricsCall(j) \in M!Calls
            /\ M!MetricsCall(j).job \in Job
            /\ M!MetricsCall(j).op = "metrics"
            /\ M!MetricsCall(j).at \notin {"move", "notify"}
    BY DEF M!MetricsCall, M!Calls, M!Places
  <1> USE DEF MTypeInv, MTypeOK
  <1>7. CASE MControl
    <2> USE DEF CallInv, M!MonitorTypeOK, M!view
    <2>1. CASE StartMonitor
      BY <1>1, <2>1 DEF StartMonitor, M!StartMonitor
    <2>2. CASE SnapshotJobs
      <3>1. snapshot' \subseteq Job
        BY <2>2 DEF SnapshotJobs, M!TakeSnapshot
      <3> QED BY <1>1, <2>2, <3>1 DEF SnapshotJobs, M!TakeSnapshot
    <2>3. CASE FillView
      <3>1. \A j \in Job : [status |-> jobs[j], progress |-> 0] \in M!Data \cup {M!NoData}
        BY DEF TypeOK, M!Data, M!NoData
      <3>2. /\ activeJobs' \in [Job -> M!Data \cup {M!NoData}]
            /\ completedJobs' \in [Job -> M!Data \cup {M!NoData}]
        BY <2>3, <3>1 DEF FillView, M!FillView
      <3> QED BY <1>1, <2>3, <3>2 DEF FillView, M!FillView
    <2>4. CASE StopMonitor
      BY <1>1, <2>4 DEF StopMonitor, M!StopMonitor
    <2>5. CASE ClearView
      BY <1>1, <2>5 DEF ClearView, M!ClearView
    <2> QED BY <1>7, <2>1, <2>2, <2>3, <2>4, <2>5 DEF MControl
  <1>8. CASE MExecute
    <2> USE DEF Thread
    <2>1. CASE MExecuteStart
      BY <1>1, <1>2, <2>1
      DEF MExecuteStart, ExecuteStart, InHand, TypeOK, monitor
    <2>2. CASE MPersistRunning
      BY <1>1, <1>3, <1>4, <2>2, BeginType
      DEF MPersistRunning, PersistRunning, InHand, Executing, link
    <2>3. CASE MExecuteEnd
      BY <1>1, <1>2, <2>3
      DEF MExecuteEnd, ExecuteSucceed, ExecuteThrow, InHand, Executing,
          TypeOK, monitor
    <2>4. CASE MPersistEnd
      BY <1>1, <1>3, <1>4, <2>4, BeginType
      DEF MPersistEnd, PersistEnd, InHand, Executing, link
    <2>5. CASE StopMetrics
      BY <1>1, <1>6, <2>5, BeginType
      DEF StopMetrics, InHand, Executing
    <2>6. CASE MExecuteReturn \/ MExecuteRethrow
      BY <1>1, <1>2, <1>3, <2>6 DEF MExecuteReturn, MExecuteRethrow
    <2> QED BY <1>8, <2>1, <2>2, <2>3, <2>4, <2>5, <2>6 DEF MExecute
  <1>9. CASE MPersistProgress
    BY <1>1, <1>5, <1>9, BeginType
    DEF MPersistProgress, PersistProgress, InHand, Executing, Thread
  <1>10. CASE CollectorSample
    <2>1. CASE collector \in Job
      BY <1>1, <1>3, <1>6, <1>10, <2>1, BeginType
      DEF CollectorSample, Thread, link
    <2> QED BY <1>10, <2>1 DEF CollectorSample
  <1>11. CASE \E t \in Thread : Callback(t)
    BY <1>1, <1>3, <1>11, CallStepType DEF Callback, link
  <1>12. CASE MStart \/ MCancel \/ MOther
    BY <1>1, <1>2, <1>3, <1>12 DEF MStart, MCancel, MOther
  <1>13. CASE MDie
    BY <1>1, <1>13, FeaturesAssumption
    DEF MDie, M!Forget, CallInv, M!MonitorTypeOK, M!Calls, M!Places, M!NoCall, Thread
  <1>14. CASE UNCHANGED mvars
    BY <1>1, <1>2, <1>3, <1>14 DEF mvars
  <1> QED BY <1>7, <1>8, <1>9, <1>10, <1>11, <1>12, <1>13, <1>14 DEF MNext

(* The manager and the monitor keep their types, whatever features are on. *)
THEOREM MTypeCorrect == MSpec => []MTypeOK
  <1>1. MTypeInv => MTypeOK
    BY DEF MTypeInv
  <1> QED BY <1>1, MTypeInit, MTypeStep, ManagerInvariant, PTL DEF MSpec

-----------------------------------------------------------------------------
(* What clients are told is in order, with any features.                    *)

(* What clients can be told of a job, and what they must be told first.     *)
Events == [kind : {"status"}, status : JobStatus] \cup [kind : {"progress"}, progress : Progress]
RunsEvent == [kind |-> "status", status |-> "RUNNING"]

(* Where the callbacks can be and what they tell, with any features on.     *)
PlaceInv ==
    LET c == call["worker"] IN
    /\ call["collector"].op = IF call["collector"].at = "idle" THEN "none" ELSE "metrics"
    /\ control2 \in {"snapshot", "fill", "on"} => monitorRunning
    /\ worker # "none" => control2 = "on"
    /\ c.at # "idle" =>
          /\ worker \in {"body", "completed", "failed"}
          /\ c.op \in {"status", "progress", "metrics"}
          /\ c.op = "metrics" => worker = "completed"
          /\ c.op # "metrics" => c.job = current
          /\ c.op = "progress" => worker = "body" /\ c.progress = lastProgress /\ lastProgress \in Progress
          /\ c.op = "status" /\ worker = "body" => c.new = "RUNNING"
          /\ c.op = "status" /\ worker # "body" => c.new \in M!Ended
          /\ c.at = "should" => c.op = "progress"
          /\ c.at = "move" => c.new \in M!Ended /\ c.op = "status"

(* The job in hand was begun and clients are not told yet that it runs.     *)
Unreported ==
    \/ worker = "started"
    \/ worker = "body" /\ call["worker"].op = "status" /\ call["worker"].at \notin {"idle", "notify"}

(* They are told that it runs, and not yet how it ended.                    *)
Open ==
    \/ worker = "body" /\ ~(call["worker"].op = "status" /\ call["worker"].at \notin {"idle", "notify"})
    \/ worker \in {"completing", "failing"}
    \/ /\ worker \in {"completed", "failed"}
       /\ call["worker"].op = "status" /\ call["worker"].at \notin {"idle", "move", "notify"}
(* The last progress it reported is on its way to them.                     *)
Underway == call["worker"].op = "progress" /\ call["worker"].at # "idle"

(* They are told nothing of a job that never ran; what they are told is in  *)
(* order; and while a job is open more can come: only progress came after   *)
(* RUNNING, none beyond the last reported.                                  *)
ToldInv ==
    /\ published \in [Job -> Seq(Events)]
    /\ \A j \in Job : runs[j] = 0 => published[j] = <<>>
    /\ PublishedInOrder
    /\ Unreported => published[current] = <<>>
    /\ Open =>
          /\ published[current] # <<>>
          /\ \A i \in DOMAIN published[current] :
                LET e == published[current][i] IN
                /\ i > 1 => e.kind = "progress"
                /\ e.kind = "progress" => e.progress <= lastProgress
                /\ e.kind = "progress" /\ Underway => e.progress < lastProgress

(* What one more event does to what a client was told of a job.             *)
Orderly(s) ==
    \A i \in DOMAIN s : LET e == s[i] IN
        /\ i = 1 <=> e = RunsEvent
        /\ e.kind = "status" /\ i > 1 => i = Len(s)
        /\ e.kind = "progress" =>
              \A k \in 1 .. i - 1 : s[k].kind = "progress" => s[k].progress < e.progress

(* What a client was told once is never nothing again.                      *)
LEMMA AppendNotEmpty ==
    ASSUME NEW s \in Seq(Events), NEW e \in Events
    PROVE  Append(s, e) # <<>>
  OBVIOUS

(* One more event keeps the order when it is RUNNING exactly if it is the   *)
(* first, nothing ended the job before, and its progress is the largest.    *)
LEMMA OrderlyAppend ==
    ASSUME NEW s \in Seq(Events), NEW e \in Events, Orderly(s),
           s = <<>> <=> e = RunsEvent,
           \A i \in DOMAIN s : i > 1 => s[i].kind = "progress",
           e.kind = "progress" => \A i \in DOMAIN s : s[i].kind = "progress" => s[i].progress < e.progress
    PROVE  Orderly(Append(s, e))
<1> DEFINE t == Append(s, e)
           n == Len(s) + 1
<1>1. /\ DOMAIN t = 1..n /\ Len(t) = n /\ t[n] = e /\ Len(s) \in Nat
      /\ \A i \in DOMAIN s : t[i] = s[i]
  OBVIOUS
<1>2. \A i \in DOMAIN t : (i \in DOMAIN s /\ i < n) \/ i = n
  OBVIOUS
<1> HIDE DEF t
<1> SUFFICES ASSUME NEW i \in DOMAIN t
             PROVE  /\ i = 1 <=> t[i] = RunsEvent
                    /\ t[i].kind = "status" /\ i > 1 => i = Len(t)
                    /\ t[i].kind = "progress" =>
                          \A k \in 1 .. i - 1 : t[k].kind = "progress" => t[k].progress < t[i].progress
  BY DEF Orderly, t
<1>3. CASE i = n
  <2>1. i = 1 <=> s = <<>>
    BY <1>1, <1>3
  <2>2. \A k \in 1 .. i - 1 : k \in DOMAIN s /\ t[k] = s[k]
    BY <1>1, <1>3
  <2> QED BY <1>1, <1>3, <2>1, <2>2
<1>4. CASE i \in DOMAIN s /\ i < n
  <2>1. t[i] = s[i] /\ \A k \in 1 .. i - 1 : k \in DOMAIN s /\ t[k] = s[k]
    BY <1>1, <1>4
  <2>2. i = 1 <=> s[i] = RunsEvent
    BY <1>4 DEF Orderly
  <2>3. s[i].kind = "progress" => \A k \in 1 .. i - 1 : s[k].kind = "progress" => s[k].progress < s[i].progress
    BY <1>4 DEF Orderly
  <2>4. i > 1 => s[i].kind = "progress"
    BY <1>4
  <2> QED BY <2>1, <2>2, <2>3, <2>4
<1> QED BY <1>2, <1>3, <1>4

(* Where a step of a callback leaves the calls.                             *)
LEMMA GoToFields ==
    ASSUME call \in [Thread -> M!Calls], NEW t \in Thread, NEW at \in M!Places, M!GoTo(t, at)
    PROVE  /\ \A u \in Thread : u # t => call'[u] = call[u]
           /\ at = "idle" => call'[t].at = "idle" /\ call'[t].op = "none"
           /\ at # "idle" => /\ call'[t].at = at /\ call'[t].op = call[t].op
                             /\ call'[t].job = call[t].job /\ call'[t].new = call[t].new
                             /\ call'[t].progress = call[t].progress
  <1>1. call[t] \in M!Calls
    OBVIOUS
  <1>2. CASE at = "idle"
    <2>1. call' = [call EXCEPT ![t] = M!NoCall]
      BY <1>2 DEF M!GoTo
    <2> QED BY <1>2, <2>1 DEF M!NoCall
  <1>3. CASE at # "idle"
    <2>1. call' = [call EXCEPT ![t] = [call[t] EXCEPT !.at = at]]
      BY <1>3 DEF M!GoTo
    <2> DEFINE r == [call[t] EXCEPT !.at = at]
    <2>2. r.at = at /\ r.op = call[t].op /\ r.job = call[t].job /\ r.new = call[t].new
          /\ r.progress = call[t].progress
      BY <1>1 DEF M!Calls
    <2> HIDE DEF r
    <2> QED BY <1>3, <2>1, <2>2 DEF r
  <1> QED BY <1>2, <1>3

(* A step of a callback leaves every callback at a place the worker allows. *)
LEMMA PlaceCallback ==
    ASSUME MTypeInv, PlaceInv, NEW t \in Thread, Callback(t)
    PROVE  PlaceInv'
  <1> USE DEF MTypeInv, MTypeOK, M!MonitorTypeOK, Thread, M!At, M!Places
  <1>1. /\ UNCHANGED <<vars, link, monitorRunning>> /\ call[t].at # "idle"
        /\ \E at \in M!Places :
              /\ M!GoTo(t, at)
              /\ at = "move" => call[t].at = "publish" /\ call[t].op = "status" /\ call[t].new \in M!Ended
              /\ at # "should"
    BY DEF Callback, M!CallStep, M!Create, M!Lookup, M!Should, M!Update,
           M!UpdateUnknown, M!Publish, M!Move, M!NotifyFailure
  <1>2. PICK at \in M!Places : /\ M!GoTo(t, at)
                               /\ at = "move" => call[t].at = "publish" /\ call[t].op = "status"
                                                 /\ call[t].new \in M!Ended
                               /\ at # "should"
    BY <1>1
  <1>3. UNCHANGED <<worker, control2, current, lastProgress, monitorRunning>>
    BY <1>1 DEF vars, link
  <1>4. CASE t = "worker"
    BY <1>1, <1>2, <1>3, <1>4, GoToFields DEF PlaceInv
  <1>5. CASE t = "collector"
    BY <1>1, <1>2, <1>3, <1>5, GoToFields DEF PlaceInv
  <1> QED BY <1>4, <1>5

(* Every step of the composition keeps the places.                          *)
LEMMA PlaceStep == MTypeInv /\ IInv /\ PlaceInv /\ [MNext]_mvars => PlaceInv'
  <1> SUFFICES ASSUME MTypeInv, IInv, PlaceInv, [MNext]_mvars PROVE PlaceInv'
    OBVIOUS
  <1> USE DEF MTypeInv, MTypeOK, M!MonitorTypeOK, Thread
  <1>1. call \in [Thread -> M!Calls]
    OBVIOUS
  <1>2. \A t \in Thread : \A c : M!Begin(t, c) =>
            /\ UNCHANGED monitorRunning /\ call[t].at = "idle"
            /\ \A u \in Thread : u # t => call'[u] = call[u]
            /\ call'[t] = c \/ (call'[t] = call[t] /\ ~monitorRunning)
    BY <1>1 DEF M!Begin, M!Idle
  <1>3. CASE MControl
    BY <1>3
    DEF MControl, StartMonitor, SnapshotJobs, FillView, StopMonitor,
        ClearView, M!StartMonitor, M!TakeSnapshot, M!FillView,
        M!StopMonitor, M!ClearView, vars, data, PlaceInv
  <1>4. CASE MExecuteStart
    BY <1>4, FeaturesAssumption DEF MExecuteStart, ExecuteStart, monitor, PlaceInv
  <1>5. CASE MPersistRunning
    <2>1. /\ worker = "started" /\ worker' = "body" /\ UNCHANGED <<current, link>>
          /\ M!Begin("worker", M!StatusCall(current, oldStatus, "RUNNING"))
      BY <1>5 DEF MPersistRunning, PersistRunning
    <2> DEFINE c == M!StatusCall(current, oldStatus, "RUNNING")
    <2>2. c.op = "status" /\ c.job = current /\ c.new = "RUNNING" /\ c.at \in {"create", "update"}
      BY DEF M!StatusCall
    <2> HIDE DEF c
    <2>3. /\ UNCHANGED monitorRunning /\ call'["collector"] = call["collector"]
          /\ call'["worker"] = c
      BY <1>2, <2>1 DEF PlaceInv, c
    <2> QED BY <2>1, <2>2, <2>3 DEF PlaceInv, link
  <1>6. CASE MExecuteEnd
    BY <1>6 DEF MExecuteEnd, ExecuteSucceed, ExecuteThrow, Free, M!Idle, monitor, PlaceInv
  <1>7. CASE MPersistEnd
    <2> DEFINE n == IF worker = "completing" THEN "COMPLETED" ELSE "FAILED"
               c == M!StatusCall(current, oldStatus, n)
    <2>1. /\ worker \in {"completing", "failing"} /\ worker' \in {"completed", "failed"}
          /\ UNCHANGED <<current, link>> /\ M!Begin("worker", c)
      BY <1>7 DEF MPersistEnd, PersistEnd
    <2>2. c.op = "status" /\ c.job = current /\ c.new \in M!Ended /\ c.at = "update"
      BY DEF M!StatusCall, M!Ended
    <2> HIDE DEF c
    <2>3. /\ UNCHANGED monitorRunning /\ call'["collector"] = call["collector"]
          /\ call'["worker"] = c
      BY <1>2, <2>1 DEF PlaceInv
    <2> QED BY <2>1, <2>2, <2>3 DEF PlaceInv, link
  <1>8. CASE StopMetrics
    <2> DEFINE c == M!MetricsCall(current)
    <2>1. /\ worker = "completed" /\ UNCHANGED <<vars, control2, lastProgress>> /\ M!Begin("worker", c)
      BY <1>8 DEF StopMetrics
    <2>2. c.op = "metrics" /\ c.at = "update"
      BY DEF M!MetricsCall
    <2> HIDE DEF c
    <2>3. /\ UNCHANGED monitorRunning /\ call'["collector"] = call["collector"]
          /\ call'["worker"] = c
      BY <1>2, <2>1 DEF PlaceInv
    <2> QED BY <2>1, <2>2, <2>3 DEF PlaceInv, vars
  <1>9. CASE CollectorSample
    <2> DEFINE c == M!MetricsCall(collector)
    <2>1. UNCHANGED <<vars, link>> /\ M!Begin("collector", c)
      BY <1>9 DEF CollectorSample
    <2>2. c.op = "metrics" /\ c.at = "update"
      BY DEF M!MetricsCall
    <2> HIDE DEF c
    <2>3. /\ UNCHANGED monitorRunning /\ call'["worker"] = call["worker"]
          /\ call'["collector"] = c \/ call'["collector"] = call["collector"]
      BY <1>2, <2>1
    <2>4. UNCHANGED <<worker, control2, current, lastProgress>>
      BY <2>1 DEF vars, link
    <2> QED BY <2>2, <2>3, <2>4 DEF PlaceInv
  <1>10. CASE MExecuteReturn \/ MExecuteRethrow
    BY <1>10
    DEF MExecuteReturn, MExecuteRethrow, ExecuteReturn, ExecuteRethrow, Free, M!Idle, monitor,
        link, PlaceInv
  <1>11. CASE MPersistProgress
    <2>1. PICK p \in Progress : M!Begin("worker", M!ProgressCall(current, p)) /\ lastProgress' = p
      BY <1>11 DEF MPersistProgress
    <2> DEFINE c == M!ProgressCall(current, p)
    <2>2. worker = "body" /\ UNCHANGED <<worker, current, control2>>
      BY <1>11 DEF MPersistProgress, PersistProgress
    <2>3. c.op = "progress" /\ c.job = current /\ c.progress = p /\ c.at = "should"
      BY DEF M!ProgressCall
    <2> HIDE DEF c
    <2>4. /\ UNCHANGED monitorRunning /\ call'["collector"] = call["collector"]
          /\ call'["worker"] = c
      BY <1>2, <2>1, <2>2 DEF PlaceInv, c
    <2> QED BY <2>1, <2>2, <2>3, <2>4 DEF PlaceInv
  <1>12. CASE \E t \in Thread : Callback(t)
    BY <1>12, PlaceCallback
  <1>13. CASE MStart
    BY <1>13 DEF MStart, Start, monitor, link, PlaceInv
  <1>14. CASE MCancel
    BY <1>14 DEF MCancel, CancelCheck, CancelWrite, monitor, link, PlaceInv
  <1>15. CASE MOther
    <2>1. UNCHANGED <<monitorRunning, call, control2, lastProgress>>
      BY <1>15 DEF MOther, monitor, link
    <2>2. \/ UNCHANGED <<worker, current>>
          \/ call["worker"].at = "idle" /\ worker # "none"
          \/ worker' = "none"
      BY <1>15 DEF MOther, ScheduleInsert, ScheduleUnanswered, GetJobFromDb, SchedulePush,
                   GetAllJobsFromDb, WorkerLoopTest, WorkerLock, WorkerPredicate, WorkerBlock, WorkerExit, WorkerTake,
                   WorkerCheck, SpuriousWakeup, StopClear, StopNotify, StopJoin, Restart, Notify, PlaceInv
    <2>3. worker' = "none" => worker \in {"none", "exited"}
      BY <1>15 DEF MOther, ScheduleInsert, ScheduleUnanswered, GetJobFromDb, SchedulePush,
                   GetAllJobsFromDb, WorkerLoopTest, WorkerLock, WorkerPredicate, WorkerBlock, WorkerExit, WorkerTake,
                   WorkerCheck, SpuriousWakeup, StopClear, StopNotify, StopJoin, Restart, Notify, PlaceInv
    <2> QED BY <2>1, <2>2, <2>3 DEF PlaceInv
  <1>16. CASE MDie
    BY <1>16 DEF MDie, Terminate, Crash, Die, M!Forget, M!NoCall, PlaceInv
  <1>17. CASE UNCHANGED mvars
    BY <1>17 DEF mvars, vars, monitor, link, PlaceInv
  <1> QED BY <1>3, <1>4, <1>5, <1>6, <1>7, <1>8, <1>9, <1>10, <1>11, <1>12, <1>13,
             <1>14, <1>15, <1>16, <1>17 DEF MNext, MExecute

(* A step that tells nothing and does not move the worker to another stage  *)
(* of its report keeps the order.                                           *)
LEMMA ToldFrame ==
    ASSUME ToldInv, UNCHANGED <<published, runs>>,
           Unreported' => Unreported /\ UNCHANGED current,
           Open' => Open /\ UNCHANGED <<current, lastProgress>>,
           Underway' => Underway
    PROVE  ToldInv'
  BY DEF ToldInv, PublishedInOrder

(* A step of a callback tells the next event of the job in hand, or none.   *)
LEMMA ToldCallback ==
    ASSUME MTypeInv, IInv, PlaceInv, ToldInv, NEW t \in Thread, Callback(t)
    PROVE  ToldInv'
  <1> USE DEF MTypeInv, MTypeOK, M!MonitorTypeOK, Thread, M!At, M!Places
  <1>1. UNCHANGED <<vars, link>> /\ call[t].at # "idle"
    BY DEF Callback, M!CallStep, M!Create, M!Lookup, M!Should, M!Update,
           M!UpdateUnknown, M!Publish, M!Move, M!NotifyFailure
  <1>2. UNCHANGED <<worker, current, lastProgress, runs>>
    BY <1>1 DEF vars, link, history
  <1>6. M!Publish(t) \/ UNCHANGED published
    BY DEF Callback, M!CallStep, M!Create, M!Lookup, M!Should, M!Update,
           M!UpdateUnknown, M!Move, M!NotifyFailure
  <1>7. M!Publish(t) /\ call[t].op = "metrics" => UNCHANGED published
    BY DEF M!Publish
  <1>3. CASE t = "collector"
    <2>1. UNCHANGED published
      BY <1>1, <1>3, <1>6, <1>7 DEF PlaceInv
    <2>2. \E at \in M!Places : M!GoTo(t, at)
      BY DEF Callback, M!CallStep, M!Create, M!Lookup, M!Should, M!Update,
           M!UpdateUnknown, M!Publish, M!Move, M!NotifyFailure
    <2>3. call'["worker"] = call["worker"]
      BY <1>3, <2>2, GoToFields
    <2> QED BY <1>2, <2>1, <2>3, ToldFrame DEF Unreported, Open, Underway
  <1>4. CASE t = "worker"
    <2> DEFINE c == call["worker"]
    <2>1. CASE M!Publish(t) /\ c.op # "metrics"
      <3> DEFINE e == M!Event(c)
                 s == published[current]
      <3>1. /\ c.at = "publish" /\ c.job = current /\ current \in Job
            /\ c.op \in {"status", "progress"}
        BY <1>4, <2>1 DEF M!Publish, PlaceInv, IInv, HandInv, InHand, Executing
      <3>2. published' = [published EXCEPT ![current] = Append(s, e)]
        BY <1>4, <2>1, <3>1 DEF M!Publish
      <3>3. /\ c \in M!Calls /\ call[t] = c
            /\ runs[current] = 1
        BY <1>1, <1>4, <3>1 DEF IInv, HandInv, Executing, PlaceInv
      <3>4. \E at \in M!Places : M!GoTo(t, at) /\ (c.op = "status" =>
               at = IF c.new \in M!Ended THEN "move" ELSE "notify") /\ (c.op # "status" => at = "idle")
        BY <1>4, <2>1 DEF M!Publish
      <3>5. /\ c.op = "status" => /\ call'["worker"].at = IF c.new \in M!Ended THEN "move" ELSE "notify"
                                  /\ call'["worker"].op = "status"
            /\ c.op # "status" => call'["worker"].at = "idle"
        BY <1>4, <3>4, GoToFields
      <3>6. s \in Seq(Events) /\ Orderly(s) /\ \A j \in Job : Orderly(published[j])
        BY <3>1 DEF ToldInv, PublishedInOrder, Orderly, RunsEvent
      <3>7. CASE c.op = "status" /\ worker = "body"
        <4>1. Unreported /\ s = <<>> /\ c.new = "RUNNING"
          BY <1>4, <3>1, <3>7 DEF Unreported, ToldInv, PlaceInv
        <4>2. e = RunsEvent /\ e \in Events
          BY <3>7, <4>1 DEF M!Event, RunsEvent, Events, JobStatus
        <4> HIDE DEF e
        <4> HIDE DEF s
        <4>3. Orderly(Append(s, e)) /\ Append(s, e) \in Seq(Events)
          <5>1. /\ s \in Seq(Events) /\ Orderly(s) /\ (s = <<>> <=> e = RunsEvent)
                /\ \A i \in DOMAIN s : FALSE
                /\ e.kind # "progress"
            BY <3>6, <4>1, <4>2 DEF RunsEvent
          <5>2. Append(s, e) \in Seq(Events)
            BY <4>2, <5>1
          <5> QED BY <4>2, <5>1, <5>2, OrderlyAppend
        <4>4. /\ DOMAIN Append(s, e) = {1} /\ Append(s, e)[1] = e /\ Append(s, e) # <<>>
          BY <4>1, <3>6, <4>2
        <4>5. ~Unreported'
          BY <1>2, <3>5, <3>7, <4>1 DEF Unreported, M!Ended
        <4>6. \A i \in DOMAIN published'[current] : i = 1 /\ published'[current][i].kind = "status"
          BY <3>1, <3>2, <4>2, <4>4 DEF ToldInv, RunsEvent
        <4>7. published' \in [Job -> Seq(Events)] /\ \A j \in Job : runs'[j] = 0 => published'[j] = <<>>
          BY <1>2, <3>1, <3>2, <3>3, <4>3 DEF ToldInv
        <4>8. PublishedInOrder'
          <5>1. \A j \in Job : Orderly(published'[j])
            BY <3>1, <3>2, <3>6, <4>3 DEF ToldInv
          <5> QED BY <5>1 DEF PublishedInOrder, Orderly, RunsEvent
        <4>9. published'[current] # <<>>
          BY <3>1, <3>2, <4>4 DEF ToldInv
        <4> QED BY <1>2, <4>5, <4>6, <4>7, <4>8, <4>9 DEF ToldInv
      <3>8. CASE ~(c.op = "status" /\ worker = "body")
        <4>1. Open
          BY <1>4, <3>1, <3>8 DEF Open, PlaceInv
        <4>2. /\ s # <<>>
              /\ \A i \in DOMAIN s : /\ i > 1 => s[i].kind = "progress"
                                     /\ s[i].kind = "progress" => s[i].progress <= lastProgress
                                     /\ s[i].kind = "progress" /\ Underway => s[i].progress < lastProgress
          BY <4>1 DEF ToldInv
        <4>3. /\ e \in Events /\ e # RunsEvent
              /\ e.kind = "progress" => c.op = "progress" /\ e.progress = lastProgress /\ Underway
          <5>1. CASE c.op = "status"
            <6>1. c.new \in M!Ended
              BY <1>4, <3>1, <3>8, <5>1 DEF PlaceInv
            <6> QED BY <5>1, <6>1 DEF M!Event, RunsEvent, Events, JobStatus, M!Ended
          <5>2. CASE c.op = "progress"
            <6>1. c.progress = lastProgress /\ lastProgress \in Progress
              BY <3>1, <5>2 DEF PlaceInv
            <6>2. e = [kind |-> "progress", progress |-> lastProgress]
              BY <5>2, <6>1 DEF M!Event
            <6> QED BY <3>1, <5>2, <6>1, <6>2 DEF RunsEvent, Events, Underway
          <5> QED BY <3>1, <5>1, <5>2
        <4> HIDE DEF e
        <4>4. Orderly(Append(s, e)) /\ Append(s, e) \in Seq(Events)
          <5> HIDE DEF s
          <5>1. /\ s \in Seq(Events) /\ Orderly(s) /\ (s = <<>> <=> e = RunsEvent)
                /\ \A i \in DOMAIN s : i > 1 => s[i].kind = "progress"
            BY <3>6, <4>2, <4>3
          <5>2. e.kind = "progress" => \A i \in DOMAIN s : s[i].kind = "progress" => s[i].progress < e.progress
            BY <4>2, <4>3
          <5>3. Append(s, e) \in Seq(Events)
            BY <4>3, <5>1
          <5> QED BY <4>3, <5>1, <5>2, <5>3, OrderlyAppend
        <4>5. published' \in [Job -> Seq(Events)] /\ \A j \in Job : runs'[j] = 0 => published'[j] = <<>>
          BY <1>2, <3>1, <3>2, <3>3, <4>4 DEF ToldInv
        <4>6. PublishedInOrder'
          <5>1. \A j \in Job : Orderly(published'[j])
            BY <3>1, <3>2, <3>6, <4>4 DEF ToldInv
          <5> QED BY <5>1 DEF PublishedInOrder, Orderly, RunsEvent
        <4>7. ~Unreported'
          BY <1>2, <3>1, <3>5, <3>8 DEF Unreported, PlaceInv
        <4>8. CASE c.op = "status"
          <5>1. c.new \in M!Ended /\ worker \in {"completed", "failed"}
            BY <1>4, <3>1, <3>8, <4>8 DEF PlaceInv
          <5>2. ~Open'
            BY <1>2, <3>5, <4>8, <5>1 DEF Open
          <5> QED BY <4>5, <4>6, <4>7, <5>2 DEF ToldInv
        <4>9. CASE c.op = "progress"
          <5>1. ~Underway' /\ Underway
            BY <3>1, <3>5, <4>9 DEF Underway
          <5>2. published'[current] = Append(s, e) /\ lastProgress \in Nat
            BY <3>1, <3>2, <4>9, FeaturesAssumption DEF ToldInv, PlaceInv
          <5>3. \A i \in DOMAIN Append(s, e) : (i \in DOMAIN s /\ Append(s, e)[i] = s[i]) \/ Append(s, e)[i] = e
            BY <3>6
          <5>4. e.kind = "progress"
            BY <4>9 DEF M!Event, e
          <5>5. \A i \in DOMAIN Append(s, e) :
                   /\ i > 1 => Append(s, e)[i].kind = "progress"
                   /\ Append(s, e)[i].kind = "progress" => Append(s, e)[i].progress <= lastProgress
            BY <4>2, <4>3, <5>2, <5>3, <5>4
          <5>6. Append(s, e) # <<>>
            BY <3>6, <4>3, AppendNotEmpty
          <5> QED BY <1>2, <4>5, <4>6, <4>7, <5>1, <5>2, <5>5, <5>6 DEF ToldInv
        <4> QED BY <3>1, <4>8, <4>9
      <3> QED BY <3>7, <3>8
    <2>2. CASE ~(M!Publish(t) /\ c.op # "metrics")
      <3>1. UNCHANGED published
        BY <1>4, <1>6, <1>7, <2>2
      <3>2. \E at \in M!Places :
                /\ M!GoTo(t, at)
                /\ c.at \notin {"notify", "move"} => at # "notify"
                /\ c.at = "notify" => at = "idle"
                /\ c.at = "move" => at = "notify"
                /\ at = "idle" => c.op # "status" \/ c.at = "notify"
        <4>1. CASE M!Publish(t)
          BY <1>4, <2>2, <4>1 DEF M!Publish
        <4>2. CASE ~M!Publish(t)
          BY <1>4, <4>2 DEF Callback, M!CallStep, M!Create, M!Lookup, M!Should, M!Update,
             M!UpdateUnknown, M!Move, M!NotifyFailure, PlaceInv
        <4> QED BY <4>1, <4>2
      <3>3. PICK at \in M!Places :
                /\ M!GoTo(t, at)
                /\ c.at \notin {"notify", "move"} => at # "notify"
                /\ c.at = "notify" => at = "idle"
                /\ c.at = "move" => at = "notify"
                /\ at = "idle" => c.op # "status" \/ c.at = "notify"
        BY <3>2
      <3>4. /\ at = "idle" => call'["worker"].at = "idle" /\ call'["worker"].op = "none"
            /\ at # "idle" => call'["worker"].at = at /\ call'["worker"].op = c.op
            /\ c.at # "idle"
        <4>1. /\ at = "idle" => call'[t].at = "idle" /\ call'[t].op = "none"
              /\ at # "idle" => call'[t].at = at /\ call'[t].op = call[t].op
          BY <3>3, GoToFields
        <4> QED BY <1>1, <1>4, <4>1
      <3>5. c.at = "move" => worker # "body"
        BY DEF PlaceInv, M!Ended
      <3>7. Unreported' => Unreported
        BY ONLY <1>2, <3>3, <3>4 DEF Unreported
      <3>8. Underway' => Underway
        BY ONLY <3>3, <3>4 DEF Underway
      <3>9. Open' => Open
        BY ONLY <1>2, <3>3, <3>4, <3>5 DEF Open
      <3> QED BY <1>2, <3>1, <3>7, <3>8, <3>9, ToldFrame
    <2> QED BY <2>1, <2>2
  <1> QED BY <1>3, <1>4 DEF Thread

(* Every step of the composition keeps what clients were told in order.     *)
LEMMA ToldStep == MTypeInv /\ IInv /\ PlaceInv /\ ToldInv /\ [MNext]_mvars => ToldInv'
  <1> SUFFICES ASSUME MTypeInv, IInv, PlaceInv, ToldInv, [MNext]_mvars PROVE ToldInv'
    OBVIOUS
  <1> USE DEF MTypeInv, MTypeOK, M!MonitorTypeOK, Thread
  <1>1. call \in [Thread -> M!Calls]
    OBVIOUS
  <1>2. \A t \in Thread : \A c : M!Begin(t, c) =>
            /\ UNCHANGED <<published, monitorRunning>> /\ call[t].at = "idle"
            /\ \A u \in Thread : u # t => call'[u] = call[u]
            /\ call'[t] = c \/ (call'[t] = call[t] /\ ~monitorRunning)
    BY <1>1 DEF M!Begin, M!Idle
  <1>3. CASE MControl
    <2>1. UNCHANGED <<call, published, runs, worker, current, lastProgress>>
      BY <1>3
      DEF MControl, StartMonitor, SnapshotJobs, FillView, StopMonitor,
          ClearView, M!StartMonitor, M!TakeSnapshot, M!FillView,
          M!StopMonitor, M!ClearView, vars, data, history
    <2> QED BY <2>1, ToldFrame DEF Unreported, Open, Underway
  <1>4. CASE MExecuteStart
    <2>1. /\ worker = "checked" /\ worker' = "started"
          /\ runs' = [runs EXCEPT ![current] = @ + 1] /\ current' = current
          /\ UNCHANGED <<call, published>>
      BY <1>4, FeaturesAssumption DEF MExecuteStart, ExecuteStart, monitor
    <2>2. current \in Job /\ runs[current] = 0 /\ runs \in [Job -> Nat]
      BY <2>1 DEF IInv, HandInv, InHand, TypeOK
    <2>3. \A j \in Job : runs'[j] = 0 => runs[j] = 0
      BY <2>1, <2>2
    <2>4. published[current] = <<>> /\ ~Open'
      BY <2>1, <2>2 DEF ToldInv, Open
    <2> QED BY <2>1, <2>3, <2>4 DEF ToldInv, PublishedInOrder
  <1>5. CASE MPersistRunning
    <2>1. /\ worker = "started" /\ worker' = "body" /\ UNCHANGED <<current, link, runs>>
          /\ M!Begin("worker", M!StatusCall(current, oldStatus, "RUNNING"))
      BY <1>5 DEF MPersistRunning, PersistRunning, history
    <2> DEFINE c == M!StatusCall(current, oldStatus, "RUNNING")
    <2>2. c.op = "status" /\ c.at \in {"create", "update"}
      BY DEF M!StatusCall
    <2> HIDE DEF c
    <2>3. call'["worker"] = c /\ UNCHANGED published
      BY <1>2, <2>1 DEF PlaceInv, c
    <2>4. ~Open' /\ ~Underway' /\ Unreported
      BY <2>1, <2>2, <2>3 DEF Open, Underway, Unreported
    <2> QED BY <2>1, <2>3, <2>4, ToldFrame
  <1>6. CASE MExecuteEnd
    <2>1. /\ worker = "body" /\ call["worker"].at = "idle"
          /\ UNCHANGED <<call, published, runs, current, lastProgress>>
          /\ worker' \in {"completing", "failing"}
      BY <1>6, FeaturesAssumption DEF MExecuteEnd, ExecuteSucceed, ExecuteThrow, Free, M!Idle, monitor, history
    <2>2. Open /\ ~Unreported' /\ ~Underway'
      BY <2>1 DEF Open, Unreported, Underway
    <2> QED BY <2>1, <2>2, ToldFrame
  <1>7. CASE MPersistEnd
    <2> DEFINE c == M!StatusCall(current, oldStatus, IF worker = "completing" THEN "COMPLETED" ELSE "FAILED")
    <2>1. /\ worker \in {"completing", "failing"} /\ worker' \in {"completed", "failed"}
          /\ UNCHANGED <<current, link, runs>> /\ M!Begin("worker", c)
      BY <1>7 DEF MPersistEnd, PersistEnd, history
    <2>2. c.op = "status" /\ c.at = "update"
      BY DEF M!StatusCall
    <2> HIDE DEF c
    <2>3. call'["worker"] = c /\ UNCHANGED published
      BY <1>2, <2>1 DEF PlaceInv
    <2>4. Open /\ ~Unreported' /\ ~Underway'
      BY <2>1, <2>2, <2>3 DEF Open, Unreported, Underway
    <2> QED BY <2>1, <2>3, <2>4, ToldFrame DEF link
  <1>8. CASE StopMetrics
    <2> DEFINE c == M!MetricsCall(current)
    <2>1. /\ worker = "completed" /\ worker' = worker /\ UNCHANGED <<current, lastProgress, runs>>
          /\ M!Begin("worker", c)
      BY <1>8 DEF StopMetrics, vars, history
    <2>2. c.op = "metrics" /\ c.at = "update"
      BY DEF M!MetricsCall
    <2> HIDE DEF c
    <2>3. call'["worker"] = c /\ UNCHANGED published
      BY <1>2, <2>1 DEF PlaceInv
    <2>4. ~Open' /\ ~Unreported' /\ ~Underway'
      BY <2>1, <2>2, <2>3 DEF Open, Unreported, Underway
    <2> QED BY <2>1, <2>3, <2>4, ToldFrame
  <1>9. CASE CollectorSample
    <2>1. UNCHANGED <<vars, link>> /\ M!Begin("collector", M!MetricsCall(collector))
      BY <1>9 DEF CollectorSample
    <2>2. call'["worker"] = call["worker"]
      BY <1>2, <2>1
    <2>3. UNCHANGED <<published, runs, worker, current, lastProgress>>
      BY <1>2, <2>1 DEF vars, link, history
    <2> QED BY <2>2, <2>3, ToldFrame DEF Unreported, Open, Underway
  <1>10. CASE MExecuteReturn \/ MExecuteRethrow
    <2>1. /\ call["worker"].at = "idle"
          /\ UNCHANGED <<call, published, runs>>
          /\ worker' \notin {"started", "body", "completing", "failing", "completed", "failed"}
      BY <1>10
      DEF MExecuteReturn, MExecuteRethrow, ExecuteReturn, ExecuteRethrow, Free, M!Idle, monitor, history
    <2>2. ~Open' /\ ~Unreported' /\ ~Underway'
      BY <2>1 DEF Open, Unreported, Underway
    <2> QED BY <2>1, <2>2, ToldFrame
  <1>11. CASE MPersistProgress
    <2>1. PICK p \in Progress : /\ M!Begin("worker", M!ProgressCall(current, p))
                                /\ lastProgress' = p /\ p > lastProgress
      BY <1>11 DEF MPersistProgress
    <2>2. /\ worker = "body" /\ UNCHANGED <<worker, current, runs>> /\ call["worker"].at = "idle"
      BY <1>11 DEF MPersistProgress, PersistProgress, Free, M!Idle, history
    <2> DEFINE c == M!ProgressCall(current, p)
    <2>3. c.op = "progress" /\ c.at = "should"
      BY DEF M!ProgressCall
    <2> HIDE DEF c
    <2>4. call'["worker"] = c /\ UNCHANGED published
      BY <1>2, <2>1, <2>2 DEF PlaceInv, c
    <2>5. Open /\ ~Unreported'
      BY <2>2, <2>3, <2>4 DEF Open, Unreported
    <2>6. current \in Job /\ p \in Nat /\ lastProgress \in Nat
      <3>1. current \in Job
        BY <2>2 DEF IInv, HandInv, InHand, Executing
      <3>2. lastProgress \in Progress \cup {0}
        OBVIOUS
      <3>3. Progress \subseteq Nat
        BY FeaturesAssumption
      <3> QED BY ONLY <3>1, <3>2, <3>3, p \in Progress
    <2> DEFINE s == published[current]
    <2>7. s \in Seq(Events) /\ \A i \in DOMAIN s : s[i] \in Events
      BY <2>6 DEF ToldInv
    <2>8. \A e \in Events : e.kind = "progress" => e.progress \in Nat
      BY FeaturesAssumption DEF Events
    <2>9. /\ s # <<>>
          /\ \A i \in DOMAIN s : /\ i > 1 => s[i].kind = "progress"
                                 /\ s[i].kind = "progress" => s[i].progress <= lastProgress
      BY <2>5 DEF ToldInv
    <2>10. \A i \in DOMAIN s : s[i].kind = "progress" => s[i].progress < p
      <3> HIDE DEF s
      <3> QED BY <2>1, <2>6, <2>7, <2>8, <2>9
    <2>11. \A i \in DOMAIN s : s[i].kind = "progress" => s[i].progress <= p
      <3> HIDE DEF s
      <3> QED BY <2>6, <2>7, <2>8, <2>10
    <2> QED BY <2>1, <2>2, <2>4, <2>5, <2>9, <2>10, <2>11 DEF ToldInv, PublishedInOrder
  <1>12. CASE \E t \in Thread : Callback(t)
    BY <1>12, ToldCallback
  <1>13. CASE MStart \/ MCancel \/ MOther
    <2>1. UNCHANGED <<call, published, lastProgress>>
      BY <1>13 DEF MStart, MCancel, MOther, monitor, link
    <2>2. /\ UNCHANGED runs
          /\ worker' \in {"started", "body", "completing", "failing", "completed", "failed"}
                => UNCHANGED <<worker, current>>
      BY <1>13 DEF MStart, Start, MCancel, CancelCheck, CancelWrite, MOther,
                   ScheduleInsert, ScheduleUnanswered,
                   GetJobFromDb, SchedulePush, GetAllJobsFromDb, WorkerLoopTest, WorkerLock,
                   WorkerPredicate, WorkerBlock, WorkerExit, WorkerTake, WorkerCheck,
                   SpuriousWakeup, StopClear, StopNotify, StopJoin, Restart, Notify, history
    <2> QED BY <2>1, <2>2, ToldFrame DEF Unreported, Open, Underway
  <1>14. CASE MDie
    <2>1. worker' = "none" /\ call'["worker"].op = "none" /\ published' = [j \in Job |-> <<>>]
      BY <1>14 DEF MDie, Terminate, Crash, Die, M!Forget, M!NoCall
    <2>2. ~Open' /\ ~Unreported'
      BY <2>1 DEF Open, Unreported
    <2> QED BY <2>1, <2>2 DEF ToldInv, PublishedInOrder
  <1>15. CASE UNCHANGED mvars
    <2>1. UNCHANGED <<call, published, runs, worker, current, lastProgress>>
      BY <1>15 DEF mvars, vars, monitor, link, history
    <2> QED BY <2>1, ToldFrame DEF Unreported, Open, Underway
  <1> QED BY <1>3, <1>4, <1>5, <1>6, <1>7, <1>8, <1>9, <1>10, <1>11, <1>12, <1>13,
             <1>14, <1>15 DEF MNext, MExecute

(* Before the first step no callback is on its way and nothing was told.    *)
LEMMA PlaceToldInit == MInit => PlaceInv /\ ToldInv
  BY DEF MInit, Init, M!MonitorInit, PlaceInv, ToldInv, PublishedInOrder, Unreported, Open,
         Underway, M!NoCall, Thread

(* What clients are told of a job is its life in order: RUNNING first, then *)
(* growing progress, then its end once and nothing after. It holds with any *)
(* features on, cancelling clients and metrics collection included, and     *)
(* across crashes, for what the running process has told.                   *)
THEOREM PublishedOrderly == MSpec => []PublishedInOrder
  <1>1. ToldInv => PublishedInOrder
    BY DEF ToldInv
  <1> QED BY <1>1, MTypeInit, MTypeStep, ManagerInvariant, PlaceToldInit, PlaceStep, ToldStep,
             PTL DEF MSpec

-----------------------------------------------------------------------------
(* The two maps of the view, with any features.                             *)

(* The job in hand will be begun or was, and is not yet reported to its end. *)
Busy == worker \in {"checked", "started", "body", "completing", "failing"}

(* The view is empty until start() has filled it.                           *)
FilledInv ==
    control2 \in {"off", "snapshot", "fill"} =>
        \A j \in Job : activeJobs[j] = M!NoData /\ completedJobs[j] = M!NoData

(* A completed job is one the worker will never begin, and not the one it   *)
(* has begun.                                                               *)
CompletedInv ==
    /\ \A j \in Job : completedJobs[j] # M!NoData => jobs[j] \notin {Absent, "PENDING"}
    /\ Busy => completedJobs[current] = M!NoData

(* Only the callback of a job that begins looks it up; one that tells a new *)
(* status has written it, which is what is moved.                           *)
WrittenInv ==
    /\ \A t \in Thread : call[t].at \in {"create", "lookup"} =>
          call[t].op = "status" /\ call[t].new = "RUNNING"
    /\ LET c == call["worker"] IN
       c.op = "status" /\ c.at \in {"publish", "move"} /\ activeJobs[c.job] # M!NoData =>
          activeJobs[c.job].status = c.new

DisjointInv == FilledInv /\ CompletedInv /\ WrittenInv /\ ViewDisjoint

(* An empty view, and no callback.                                          *)
LEMMA DisjointInit == MInit => DisjointInv
  BY DEF MInit, Init, M!MonitorInit, M!NoCall, Thread, Busy, FilledInv, CompletedInv, WrittenInv,
         ViewDisjoint, DisjointInv

(* A job the manager knows as begun, ended or cancelled stays so as long as *)
(* the process lives.                                                       *)
LEMMA KnownStays ==
    ASSUME IInv, [Next]_vars
    PROVE  up' => \A j \in Job : jobs[j] \notin {Absent, "PENDING"} => jobs'[j] \notin {Absent, "PENDING"}
  <1> SUFFICES ASSUME up', NEW j \in Job, jobs[j] \notin {Absent, "PENDING"}
               PROVE  jobs'[j] \notin {Absent, "PENDING"}
    OBVIOUS
  <1> USE DEF Absent, data
  <1>0. jobs \in [Job -> JobStatus \cup {Absent}]
    BY DEF IInv, TypeOK
  <1>1. CASE SchedulePush
    <2>1. jobs' = [jobs EXCEPT ![client.job] = "PENDING"] /\ jobs[client.job] = Absent
      BY <1>1 DEF SchedulePush, IInv, ClientInv
    <2>2. j # client.job
      BY <2>1
    <2> QED BY <1>0, <2>1, <2>2
  <1>2. CASE CancelWrite
    <2>1. jobs' = [jobs EXCEPT ![client.job] = "CANCELLED"]
      BY <1>2 DEF CancelWrite
    <2>2. jobs'[j] = IF j = client.job THEN "CANCELLED" ELSE jobs[j]
      BY <1>0, <2>1
    <2> QED BY <2>2
  <1>3. CASE ExecuteStart \/ ExecuteSucceed \/ ExecuteThrow
    <2>1. PICK s \in {"RUNNING", "COMPLETED", "FAILED"} : jobs' = [jobs EXCEPT ![current] = s]
      BY <1>3 DEF ExecuteStart, ExecuteSucceed, ExecuteThrow
    <2>2. jobs'[j] = IF j = current THEN s ELSE jobs[j]
      BY <1>0, <2>1
    <2> QED BY <2>2
  <1>4. CASE (\E i \in Job : GetJobFromDb(i)) \/ GetAllJobsFromDb
    <2>1. CASE GetAllJobsFromDb
      BY <2>1 DEF GetAllJobsFromDb
    <2>2. ASSUME NEW i \in Job, GetJobFromDb(i) PROVE jobs'[j] \notin {Absent, "PENDING"}
      BY <1>0, <2>2 DEF GetJobFromDb
    <2> QED BY <1>4, <2>1, <2>2
  <1>5. CASE \/ (\E i \in Job : ScheduleInsert(i) \/ ScheduleUnanswered(i) \/ CancelCheck(i))
             \/ WorkerLoopTest \/ WorkerLock \/ WorkerPredicate \/ WorkerBlock
             \/ WorkerExit \/ WorkerTake \/ WorkerCheck
    <2>1. jobs' = jobs
      BY <1>5 DEF ScheduleInsert, ScheduleUnanswered, CancelCheck, WorkerLoopTest, WorkerLock, WorkerPredicate,
                  WorkerBlock, WorkerExit, WorkerTake, WorkerCheck
    <2> QED BY <2>1
  <1>6. CASE \/ PersistRunning \/ PersistEnd \/ ExecuteReturn \/ ExecuteRethrow
             \/ PersistProgress \/ SpuriousWakeup \/ Control \/ Restart \/ UNCHANGED vars
    <2>1. jobs' = jobs
      BY <1>6 DEF PersistRunning, PersistEnd, ExecuteReturn, ExecuteRethrow, PersistProgress,
                  SpuriousWakeup, Control, Start, StopClear, StopNotify, StopJoin, Restart, vars
    <2> QED BY <2>1
  <1>7. CASE Terminate \/ Crash
    BY <1>7 DEF Terminate, Crash, Die
  <1> QED BY <1>1, <1>2, <1>3, <1>4, <1>5, <1>6, <1>7 DEF Next, Client, ClientFinish, Worker, Execute

(* A step that leaves the view alone, makes no completed job wait or be in  *)
(* hand, and takes callbacks at most to where they have yet to write.       *)
LEMMA DisjointFrame ==
    ASSUME DisjointInv, UNCHANGED <<activeJobs, completedJobs, snapshot>>,
           control2' \in {"off", "snapshot", "fill"} => control2 \in {"off", "snapshot", "fill"},
           \A j \in Job : jobs[j] \notin {Absent, "PENDING"} => jobs'[j] \notin {Absent, "PENDING"},
           Busy' => completedJobs[current'] = M!NoData,
           \A t \in Thread : \/ call'[t] = call[t]
                             \/ call'[t].at \in {"idle", "should", "update"}
                             \/ /\ call'[t].at = "create"
                                /\ call'[t].op = "status" /\ call'[t].new = "RUNNING"
    PROVE  DisjointInv'
  <1>1. FilledInv'
    BY DEF DisjointInv, FilledInv
  <1>2. CompletedInv'
    BY DEF DisjointInv, CompletedInv
  <1>3. WrittenInv'
    BY DEF DisjointInv, WrittenInv, Thread
  <1>4. ViewDisjoint'
    BY DEF DisjointInv, ViewDisjoint
  <1> QED BY <1>1, <1>2, <1>3, <1>4 DEF DisjointInv

(* A step of a callback keeps the maps apart: only a job that the worker    *)
(* has begun enters the active ones, and what moves has ended.              *)
LEMMA DisjointCallback ==
    ASSUME MTypeInv, IInv, PlaceInv, DisjointInv, NEW t \in Thread, Callback(t)
    PROVE  DisjointInv'
  <1> DEFINE c == call[t]
  <1>1. UNCHANGED <<jobs, worker, current, control2>> /\ M!CallStep(t)
    BY DEF Callback, vars, data, link
  <1>2. /\ call \in [Thread -> M!Calls] /\ c \in M!Calls
        /\ activeJobs \in [Job -> M!Data \cup {M!NoData}]
        /\ completedJobs \in [Job -> M!Data \cup {M!NoData}]
    BY DEF MTypeInv, MTypeOK, M!MonitorTypeOK
  <1>3. c.at # "idle" => c.job \in Job
    BY DEF MTypeInv, CallInv
  <1>4. Busy => completedJobs[current] = M!NoData
    BY DEF DisjointInv, CompletedInv
  <1>5. t = "worker" \/ t = "collector"
    BY DEF Thread
  <1>6. c.at # "idle" /\ c.op = "status" =>
            /\ t = "worker" /\ c.job = current /\ control2 = "on"
            /\ worker \in {"body", "completed", "failed"}
            /\ c.new = "RUNNING" => worker = "body"
            /\ c.new \in M!Ended => worker \in {"completed", "failed"}
    BY <1>5 DEF PlaceInv, M!Ended
  <1>7. ASSUME UNCHANGED <<activeJobs, completedJobs, snapshot>>,
               NEW at \in M!Places, M!GoTo(t, at),
               \/ at \in {"idle", "should", "update", "relock", "notify"}
               \/ at = "lookup" /\ c.at = "create"
               \/ at = "publish" /\ c.op # "status"
               \/ at = "move" /\ c.at = "publish"
        PROVE  DisjointInv'
    <2>1. /\ \A u \in Thread : u # t => call'[u] = call[u]
          /\ at = "idle" => call'[t].at = "idle" /\ call'[t].op = "none"
          /\ at # "idle" => /\ call'[t].at = at /\ call'[t].op = c.op
                            /\ call'[t].job = c.job /\ call'[t].new = c.new
      BY <1>2, <1>7, GoToFields
    <2>2. FilledInv' /\ CompletedInv' /\ ViewDisjoint'
      BY <1>1, <1>7 DEF DisjointInv, FilledInv, CompletedInv, ViewDisjoint, Busy
    <2>3. WrittenInv'
      BY <1>7, <2>1, <1>5 DEF DisjointInv, WrittenInv, Thread
    <2> QED BY <2>2, <2>3 DEF DisjointInv
  <1>8. CASE \/ M!Create(t) \/ M!Should(t) \/ M!UpdateUnknown(t) \/ M!Publish(t)
             \/ M!NotifyFailure(t)
    <2>1. UNCHANGED <<activeJobs, completedJobs, snapshot>>
      BY <1>8 DEF M!Create, M!Should, M!UpdateUnknown, M!Publish, M!NotifyFailure, M!view
    <2>2. \E at \in M!Places :
             /\ M!GoTo(t, at)
             /\ \/ at \in {"idle", "should", "update", "relock", "notify"}
                \/ at = "lookup" /\ c.at = "create"
                \/ at = "move" /\ c.at = "publish"
      BY <1>8 DEF M!Create, M!Should, M!UpdateUnknown, M!Publish, M!NotifyFailure, M!At, M!Places
    <2> HIDE DEF c
    <2> QED BY <1>7, <2>1, <2>2
  <1>9. CASE M!Lookup(t)
    <2>1. PICK s \in M!JobStatus : activeJobs' = [activeJobs EXCEPT ![c.job] = [status |-> s, progress |-> 0]]
      BY <1>9 DEF M!Lookup
    <2>2. c.at = "lookup" /\ M!GoTo(t, "update") /\ UNCHANGED <<completedJobs, snapshot>>
      BY <1>9 DEF M!Lookup, M!At
    <2>3. c.op = "status" /\ c.new = "RUNNING"
      BY <2>2 DEF DisjointInv, WrittenInv
    <2>4. worker = "body" /\ c.job = current /\ t = "worker" /\ control2 = "on" /\ c.job \in Job
      BY <1>3, <1>6, <2>2, <2>3
    <2>5. completedJobs[c.job] = M!NoData
      BY <1>4, <2>4 DEF Busy
    <2>6. /\ \A u \in Thread : u # t => call'[u] = call[u]
          /\ call'[t].at = "update"
      BY <1>2, <2>2, GoToFields DEF M!Places
    <2>7. FilledInv'
      BY <1>1, <2>4 DEF FilledInv
    <2>8. CompletedInv'
      BY <1>1, <2>2 DEF DisjointInv, CompletedInv, Busy
    <2>9. WrittenInv'
      BY <2>4, <2>6 DEF DisjointInv, WrittenInv, Thread
    <2>10. ViewDisjoint'
      BY <1>2, <2>1, <2>2, <2>4, <2>5 DEF DisjointInv, ViewDisjoint
    <2> QED BY <2>7, <2>8, <2>9, <2>10 DEF DisjointInv
  <1>10. CASE M!Update(t)
    <2>1. /\ activeJobs[c.job] # M!NoData
          /\ activeJobs' = [activeJobs EXCEPT ![c.job] = M!Updated(c, activeJobs[c.job])]
          /\ c.at = "update" /\ M!GoTo(t, "publish") /\ UNCHANGED <<completedJobs, snapshot>>
      BY <1>10 DEF M!Update, M!At
    <2>2. c.job \in Job
      BY <1>3, <2>1
    <2>3. control2 \notin {"off", "snapshot", "fill"}
      BY <2>1, <2>2 DEF DisjointInv, FilledInv
    <2>4. completedJobs[c.job] = M!NoData
      BY <2>1, <2>2 DEF DisjointInv, ViewDisjoint
    <2>5. /\ \A u \in Thread : u # t => call'[u] = call[u]
          /\ call'[t].at = "publish" /\ call'[t].op = c.op
          /\ call'[t].job = c.job /\ call'[t].new = c.new
      BY <1>2, <2>1, GoToFields DEF M!Places
    <2>6. FilledInv'
      BY <1>1, <2>3 DEF FilledInv
    <2>7. CompletedInv'
      BY <1>1, <2>1 DEF DisjointInv, CompletedInv, Busy
    <2>8. WrittenInv'
      <3>1. CASE t = "worker"
        <4>1. c.op = "status" => activeJobs'[c.job].status = c.new
          <5> DEFINE d == activeJobs[c.job]
          <5>1. d \in M!Data \cup {M!NoData} /\ activeJobs'[c.job] = M!Updated(c, d)
            BY <1>2, <2>1, <2>2
          <5>2. d = [status |-> d.status, progress |-> d.progress]
            BY <5>1 DEF M!Data, M!NoData
          <5> HIDE DEF d
          <5>3. c.op = "status" => M!Updated(c, d) = [d EXCEPT !.status = c.new]
            BY DEF M!Updated
          <5> QED BY <5>1, <5>2, <5>3
        <4>2. \A u \in Thread : u # t => call'[u] = call[u]
          BY <2>5
        <4> QED BY <2>5, <3>1, <4>1 DEF DisjointInv, WrittenInv, Thread
      <3>2. CASE t = "collector"
        <4>1. c.op \notin {"status", "progress"}
          BY <2>1, <3>2 DEF PlaceInv
        <4>2. M!Updated(c, activeJobs[c.job]) = activeJobs[c.job]
          BY <4>1 DEF M!Updated
        <4>3. activeJobs' = activeJobs
          BY <1>2, <2>1, <4>2
        <4> QED BY <2>5, <3>2, <4>3 DEF DisjointInv, WrittenInv, Thread
      <3> QED BY <1>5, <3>1, <3>2
    <2>9. ViewDisjoint'
      BY <1>2, <2>1, <2>2, <2>4 DEF DisjointInv, ViewDisjoint
    <2> QED BY <2>6, <2>7, <2>8, <2>9 DEF DisjointInv
  <1>11. CASE M!Move(t)
    <2>1. /\ c.at = "move" /\ M!GoTo(t, "notify") /\ UNCHANGED snapshot
          /\ IF activeJobs[c.job] # M!NoData
             THEN /\ completedJobs' = [completedJobs EXCEPT ![c.job] = activeJobs[c.job]]
                  /\ activeJobs' = [activeJobs EXCEPT ![c.job] = M!NoData]
             ELSE UNCHANGED <<activeJobs, completedJobs>>
      BY <1>11 DEF M!Move, M!At, M!view
    <2>2. CASE UNCHANGED <<activeJobs, completedJobs>>
      BY <1>7, <2>1, <2>2 DEF M!Places
    <2>3. CASE /\ activeJobs[c.job] # M!NoData
               /\ completedJobs' = [completedJobs EXCEPT ![c.job] = activeJobs[c.job]]
               /\ activeJobs' = [activeJobs EXCEPT ![c.job] = M!NoData]
      <3>1. c.op = "status" /\ c.job \in Job
        BY <1>3, <2>1 DEF MTypeInv, CallInv
      <3>2. c.job = current /\ control2 = "on" /\ t = "worker"
        BY <1>6, <2>1, <3>1
      <3>3. c.new \in M!Ended /\ worker \in {"completed", "failed"}
        BY <1>6, <2>1, <3>1, <3>2 DEF PlaceInv
      <3>4. activeJobs[c.job].status \in M!Ended
        BY <2>1, <2>3, <3>1, <3>2, <3>3 DEF DisjointInv, WrittenInv
      <3>5. jobs[current] \notin {Absent, "PENDING"}
        BY <3>3 DEF IInv, HandInv, InHand, Executing
      <3>6. /\ \A u \in Thread : u # t => call'[u] = call[u]
            /\ call'[t].at = "notify"
        BY <1>2, <2>1, GoToFields DEF M!Places
      <3>7. FilledInv'
        BY <1>1, <3>2 DEF FilledInv
      <3>8. CompletedInv'
        BY <1>1, <1>2, <2>3, <3>1, <3>2, <3>3, <3>5 DEF DisjointInv, CompletedInv, Busy
      <3>9. WrittenInv'
        BY <3>2, <3>6 DEF DisjointInv, WrittenInv, Thread
      <3>10. ViewDisjoint'
        BY <1>2, <2>3, <3>1, <3>4 DEF DisjointInv, ViewDisjoint
      <3> QED BY <3>7, <3>8, <3>9, <3>10 DEF DisjointInv
    <2> QED BY <2>1, <2>2, <2>3
  <1> QED BY <1>1, <1>8, <1>9, <1>10, <1>11 DEF M!CallStep

(* start() fills an empty view and stop() empties it.                       *)
LEMMA DisjointControl ==
    ASSUME MTypeInv, IInv, PlaceInv, DisjointInv, [Next]_vars, MControl
    PROVE  DisjointInv'
  <1>1. UNCHANGED <<call, worker, current>> /\ up'
    BY DEF MControl, StartMonitor, SnapshotJobs, FillView, StopMonitor, ClearView, M!StartMonitor,
           M!TakeSnapshot, M!FillView, M!StopMonitor, M!ClearView, vars, data
  <1>2. \A j \in Job : jobs[j] \notin {Absent, "PENDING"} => jobs'[j] \notin {Absent, "PENDING"}
    BY <1>1, KnownStays
  <1>3. Busy' => completedJobs[current'] = M!NoData
    BY <1>1 DEF DisjointInv, CompletedInv, Busy
  <1>4. CASE StartMonitor \/ StopMonitor
    <2>1. /\ UNCHANGED <<activeJobs, completedJobs, snapshot, jobs>>
          /\ (control2 = "off" /\ control2' = "snapshot") \/ control2' = "clear"
      BY <1>4 DEF StartMonitor, StopMonitor, M!StartMonitor, M!StopMonitor, M!view, vars, data
    <2> QED BY <1>1, <1>2, <1>3, <2>1, DisjointFrame
  <1>5. CASE SnapshotJobs
    <2>1. /\ UNCHANGED <<activeJobs, completedJobs>>
          /\ control2 = "snapshot" /\ control2' = "fill"
      BY <1>5 DEF SnapshotJobs, M!TakeSnapshot, M!view
    <2>3. \A j \in Job : activeJobs'[j] = M!NoData /\ completedJobs'[j] = M!NoData
      BY <2>1 DEF DisjointInv, FilledInv
    <2>4. FilledInv'
      BY <2>3 DEF FilledInv
    <2>5. CompletedInv'
      BY <1>1, <1>2, <2>1 DEF DisjointInv, CompletedInv, Busy
    <2>6. WrittenInv' /\ ViewDisjoint'
      BY <1>1, <2>1 DEF DisjointInv, WrittenInv, ViewDisjoint
    <2> QED BY <2>4, <2>5, <2>6 DEF DisjointInv
  <1>6. CASE FillView
    <2> DEFINE Fresh(j) == [status |-> jobs[j], progress |-> 0]
    <2>1. /\ control2 = "fill" /\ control2' = "on" /\ UNCHANGED jobs
          /\ activeJobs' = [j \in Job |-> IF j \in snapshot /\ jobs[j] \notin M!Ended
                                          THEN Fresh(j) ELSE activeJobs[j]]
          /\ completedJobs' = [j \in Job |-> IF j \in snapshot /\ jobs[j] \in M!Ended
                                             THEN Fresh(j) ELSE completedJobs[j]]
      BY <1>6 DEF FillView, M!FillView, vars, data
    <2>2. \A j \in Job : activeJobs[j] = M!NoData /\ completedJobs[j] = M!NoData
      BY <2>1 DEF DisjointInv, FilledInv
    <2>3. \A j \in Job : completedJobs'[j] # M!NoData =>
             /\ jobs[j] \in M!Ended
             /\ completedJobs'[j] = Fresh(j) /\ activeJobs'[j] = M!NoData
      BY <2>1, <2>2
    <2>4. worker = "none" /\ call["worker"].at = "idle"
      BY <2>1 DEF PlaceInv
    <2>5. FilledInv'
      BY <2>1 DEF FilledInv
    <2>6. CompletedInv'
      BY <1>1, <2>1, <2>3, <2>4 DEF CompletedInv, Busy, M!Ended, Absent
    <2>7. WrittenInv'
      BY <1>1, <2>4 DEF DisjointInv, WrittenInv
    <2>8. ViewDisjoint'
      <3>1. \A j \in Job : completedJobs'[j] # M!NoData =>
               /\ completedJobs'[j].status \in M!Ended
               /\ activeJobs'[j] = M!NoData
        <4> SUFFICES ASSUME NEW j \in Job, completedJobs'[j] # M!NoData
                     PROVE  completedJobs'[j].status \in M!Ended /\ activeJobs'[j] = M!NoData
          OBVIOUS
        <4>1. completedJobs'[j] = Fresh(j) /\ jobs[j] \in M!Ended /\ activeJobs'[j] = M!NoData
          BY <2>3
        <4>2. Fresh(j).status = jobs[j]
          OBVIOUS
        <4> QED BY <4>1, <4>2
      <3> QED BY <3>1 DEF ViewDisjoint
    <2> QED BY <2>5, <2>6, <2>7, <2>8 DEF DisjointInv
  <1>7. CASE ClearView
    <2>1. /\ control2 = "clear" /\ control2' = "stopped" /\ UNCHANGED jobs
          /\ activeJobs' = [j \in Job |-> M!NoData]
          /\ completedJobs' = [j \in Job |-> M!NoData]
      BY <1>7 DEF ClearView, M!ClearView, vars, data
    <2>2. worker = "none" /\ call["worker"].at = "idle"
      BY <2>1 DEF PlaceInv
    <2>3. FilledInv'
      BY <2>1 DEF FilledInv
    <2>4. CompletedInv' /\ ViewDisjoint'
      BY <1>1, <2>1, <2>2 DEF CompletedInv, ViewDisjoint, Busy
    <2>5. WrittenInv'
      BY <1>1, <2>2 DEF DisjointInv, WrittenInv
    <2> QED BY <2>3, <2>4, <2>5 DEF DisjointInv
  <1> QED BY <1>4, <1>5, <1>6, <1>7 DEF MControl

(* Every step of the composition keeps the maps apart.                      *)
LEMMA DisjointStep ==
    MTypeInv /\ IInv /\ PlaceInv /\ DisjointInv /\ [MNext]_mvars => DisjointInv'
  <1> SUFFICES ASSUME MTypeInv, IInv, PlaceInv, DisjointInv, [MNext]_mvars PROVE DisjointInv'
    OBVIOUS
  <1>1. [Next]_vars
    BY ManagerStep
  <1>2. up' => \A j \in Job : jobs[j] \notin {Absent, "PENDING"} => jobs'[j] \notin {Absent, "PENDING"}
    BY <1>1, KnownStays
  <1>3. call \in [Thread -> M!Calls]
    BY DEF MTypeInv, MTypeOK, M!MonitorTypeOK
  <1>4. \A t \in Thread : \A c : M!Begin(t, c) =>
            /\ UNCHANGED <<activeJobs, completedJobs, snapshot>>
            /\ \A u \in Thread : u # t => call'[u] = call[u]
            /\ call'[t] = c \/ call'[t] = call[t]
    BY <1>3 DEF M!Begin, M!view
  <1>5. ASSUME UNCHANGED control2, up',
               UNCHANGED <<activeJobs, completedJobs, snapshot>>,
               Busy' => (Busy /\ UNCHANGED current) \/ (worker = "taken" /\ jobs[current'] = "PENDING"
                                                        /\ UNCHANGED current),
               \A t \in Thread : \/ call'[t] = call[t]
                                 \/ call'[t].at \in {"idle", "should", "update"}
                                 \/ /\ call'[t].at = "create"
                                    /\ call'[t].op = "status" /\ call'[t].new = "RUNNING"
        PROVE  DisjointInv'
    <2>1. \A j \in Job : completedJobs[j] # M!NoData => jobs[j] \notin {Absent, "PENDING"}
      BY DEF DisjointInv, CompletedInv
    <2>2. worker = "taken" => current \in Job
      BY DEF IInv, HandInv, InHand
    <2>3. Busy' => completedJobs[current'] = M!NoData
      BY <1>5, <2>1, <2>2 DEF DisjointInv, CompletedInv
    <2> QED BY <1>2, <1>5, <2>3, DisjointFrame
  <1>6. CASE MControl
    BY <1>1, <1>6, DisjointControl
  <1>7. CASE MExecuteStart \/ MExecuteEnd \/ MExecuteReturn \/ MExecuteRethrow
    <2>1. UNCHANGED <<activeJobs, completedJobs, snapshot, call, control2>> /\ up'
      BY <1>7 DEF MExecuteStart, MExecuteEnd, MExecuteReturn, MExecuteRethrow, ExecuteStart,
                  ExecuteSucceed, ExecuteThrow, ExecuteReturn, ExecuteRethrow, monitor, link
    <2>2. Busy' => Busy /\ UNCHANGED current
      BY <1>7 DEF MExecuteStart, MExecuteEnd, MExecuteReturn, MExecuteRethrow, ExecuteStart,
                  ExecuteSucceed, ExecuteThrow, ExecuteReturn, ExecuteRethrow, Busy
    <2> QED BY <1>5, <2>1, <2>2
  <1>8. CASE MPersistRunning \/ MPersistEnd \/ StopMetrics \/ MPersistProgress
    <2>1. \E c : /\ M!Begin("worker", c)
                 /\ \/ c.at \in {"should", "update"}
                    \/ c.at = "create" /\ c.op = "status" /\ c.new = "RUNNING"
      <3>1. \A j : M!StatusCall(j, oldStatus, "RUNNING").at = "update"
                   \/ /\ M!StatusCall(j, oldStatus, "RUNNING").at = "create"
                      /\ M!StatusCall(j, oldStatus, "RUNNING").op = "status"
                      /\ M!StatusCall(j, oldStatus, "RUNNING").new = "RUNNING"
        BY DEF M!StatusCall
      <3>2. \A j : \A n \in {"COMPLETED", "FAILED"} : M!StatusCall(j, oldStatus, n).at = "update"
        BY DEF M!StatusCall
      <3>3. \A j : \A q : M!MetricsCall(j).at = "update" /\ M!ProgressCall(j, q).at = "should"
        BY DEF M!MetricsCall, M!ProgressCall
      <3> QED BY <1>8, <3>1, <3>2, <3>3 DEF MPersistRunning, MPersistEnd, StopMetrics, MPersistProgress
    <2>2. PICK c : /\ M!Begin("worker", c)
                   /\ \/ c.at \in {"should", "update"}
                      \/ c.at = "create" /\ c.op = "status" /\ c.new = "RUNNING"
      BY <2>1
    <2>3. /\ UNCHANGED control2 /\ up'
          /\ Busy' => Busy /\ UNCHANGED current
      BY <1>8 DEF MPersistRunning, MPersistEnd, StopMetrics, MPersistProgress, PersistRunning,
                  PersistEnd, PersistProgress, Busy, vars, link
    <2>4. "worker" \in Thread
      BY DEF Thread
    <2> QED BY <1>4, <1>5, <2>2, <2>3, <2>4
  <1>9. CASE CollectorSample
    <2>1. M!Begin("collector", M!MetricsCall(collector)) /\ UNCHANGED <<worker, current, control2>> /\ up'
      BY <1>9 DEF CollectorSample, vars, link
    <2>2. M!MetricsCall(collector).at = "update" /\ "collector" \in Thread
      BY DEF M!MetricsCall, Thread
    <2> QED BY <1>4, <1>5, <2>1, <2>2 DEF Busy
  <1>10. CASE \E t \in Thread : Callback(t)
    BY <1>10, DisjointCallback
  <1>11. CASE MStart \/ MCancel
    <2>1. UNCHANGED <<activeJobs, completedJobs, snapshot, call, control2>> /\ up'
          /\ (Busy' => Busy /\ UNCHANGED current)
      BY <1>11 DEF MStart, MCancel, Start, CancelCheck, CancelWrite, monitor, link, Busy
    <2> QED BY <1>5, <2>1
  <1>12. CASE MOther
    <2>1. UNCHANGED <<activeJobs, completedJobs, snapshot, call, control2>>
      BY <1>12 DEF MOther, monitor, link
    <2>2. up'
      BY <1>12 DEF MOther, ScheduleInsert, ScheduleUnanswered, GetJobFromDb, SchedulePush,
                   GetAllJobsFromDb, WorkerLoopTest, WorkerLock, WorkerPredicate, WorkerBlock, WorkerExit, WorkerTake,
                   WorkerCheck, SpuriousWakeup, StopClear, StopNotify, StopJoin, Restart
    <2>3. Busy' => (Busy /\ UNCHANGED current) \/ (worker = "taken" /\ jobs[current'] = "PENDING"
                                                   /\ UNCHANGED current)
      BY <1>12 DEF MOther, ScheduleInsert, ScheduleUnanswered, GetJobFromDb, SchedulePush,
                   GetAllJobsFromDb, WorkerLoopTest, WorkerLock, WorkerPredicate, WorkerBlock, WorkerExit, WorkerTake,
                   WorkerCheck, SpuriousWakeup, StopClear, StopNotify, StopJoin, Restart, Notify, Busy
    <2> QED BY <1>5, <2>1, <2>2, <2>3
  <1>13. CASE MDie
    <2>1. /\ \A j \in Job : activeJobs'[j] = M!NoData /\ completedJobs'[j] = M!NoData
          /\ \A t \in Thread : call'[t] = M!NoCall
          /\ control2' = "off" /\ worker' = "none"
      BY <1>13 DEF MDie, Terminate, Crash, Die, M!Forget
    <2>2. "worker" \in Thread
      BY DEF Thread
    <2> QED BY <2>1, <2>2 DEF DisjointInv, FilledInv, CompletedInv, WrittenInv, ViewDisjoint, Busy,
                              M!NoCall
  <1>14. CASE UNCHANGED mvars
    <2>1. UNCHANGED <<activeJobs, completedJobs, snapshot, call, control2, jobs, worker, current>>
      BY <1>14 DEF mvars, vars, data, monitor, link
    <2> QED BY <2>1, DisjointFrame DEF DisjointInv, FilledInv, CompletedInv, Busy
  <1> QED BY <1>6, <1>7, <1>8, <1>9, <1>10, <1>11, <1>12, <1>13, <1>14 DEF MNext, MExecute

(* A job is in one map at most and only ended jobs are among the completed, *)
(* with cancelling clients and metrics collection as without: a callback    *)
(* that looks a job up, or moves it, does so between the steps of others.   *)
THEOREM OneMapEach == MSpec => []ViewDisjoint
  <1>1. DisjointInv => ViewDisjoint
    BY DEF DisjointInv
  <1> QED BY <1>1, MTypeInit, MTypeStep, ManagerInvariant, PlaceToldInit, PlaceStep, DisjointInit,
             DisjointStep, PTL DEF MSpec

-----------------------------------------------------------------------------
(* The view and the alerts follow the job in hand, with any features.       *)

(* The worker has begun a job and told the monitor of it.                   *)
Reporting == worker \in {"body", "completing", "failing", "completed", "failed", "escaped"}
(* How the execution of the job in hand ended.                              *)
EndOfJob == IF worker = "completed" THEN "COMPLETED" ELSE "FAILED"

(* How far the view has followed the job in hand: it is RUNNING once the    *)
(* update was made; it has the status it ended with from the update on; and *)
(* from the move on it is among the completed, which the final metrics      *)
(* update, whose job is no longer active, cannot undo.                      *)
FollowInv ==
    LET c == call["worker"] IN
    /\ worker = "body" /\ ~(c.op = "status" /\ c.at \in {"create", "lookup", "update", "relock"}) =>
          activeJobs[current].status = "RUNNING"
    /\ worker \in {"completed", "failed"} /\ c.op = "status" =>
          /\ c.at # "idle" => c.new = EndOfJob
          /\ c.at \in {"publish", "move"} => activeJobs[current].status = EndOfJob
    /\ worker \in {"completed", "failed"} /\ (c.at \in {"idle", "notify"} \/ c.op = "metrics") =>
          /\ activeJobs[current] = M!NoData
          /\ completedJobs[current].status = EndOfJob

(* Who was alerted about: the failed job in hand, once its callback is over. *)
AlertInv ==
    /\ worker = "failed" /\ call["worker"].at = "idle" => current \in alerts
    /\ \A j \in alerts : j = current /\ worker \in {"failed", "escaped"}

(* An empty view, no job in hand and no alert.                              *)
LEMMA FollowInit == MInit => FollowInv /\ AlertInv
  BY DEF MInit, Init, M!MonitorInit, FollowInv, AlertInv

(* A step that leaves the view, the alerts and the worker's callback alone, *)
(* and the worker where it is or away from any report.                      *)
LEMMA FollowFrame ==
    ASSUME FollowInv, AlertInv, UNCHANGED <<activeJobs, completedJobs, alerts>>,
           call'["worker"] = call["worker"],
           UNCHANGED <<worker, current>> \/ (~Reporting /\ ~Reporting')
    PROVE  FollowInv' /\ AlertInv'
  <1>1. FollowInv'
    BY DEF FollowInv, Reporting, EndOfJob
  <1>2. AlertInv'
    BY DEF AlertInv, Reporting
  <1> QED BY <1>1, <1>2

(* A step of the collector's callback changes neither view nor alerts.      *)
LEMMA FollowCollector ==
    ASSUME MTypeInv, PlaceInv, WrittenInv, FollowInv, AlertInv, Callback("collector")
    PROVE  FollowInv' /\ AlertInv'
  <1> DEFINE c == call["collector"]
  <1>1. UNCHANGED <<worker, current>> /\ M!CallStep("collector") /\ "collector" \in Thread
    BY DEF Callback, vars, link, Thread
  <1>2. /\ call \in [Thread -> M!Calls] /\ c \in M!Calls
        /\ activeJobs \in [Job -> M!Data \cup {M!NoData}]
    BY <1>1 DEF MTypeInv, MTypeOK, M!MonitorTypeOK
  <1>3. c.at # "idle" => c.op = "metrics" /\ c.at \notin {"create", "lookup", "move", "notify"}
    BY <1>1 DEF PlaceInv, WrittenInv, MTypeInv, CallInv
  <1>4. \/ M!Should("collector") \/ M!Update("collector") \/ M!UpdateUnknown("collector")
        \/ M!Publish("collector")
    BY <1>1, <1>3 DEF M!CallStep, M!Create, M!Lookup, M!Move, M!NotifyFailure, M!At
  <1>5. UNCHANGED <<completedJobs, alerts>>
    BY <1>4 DEF M!Should, M!Update, M!UpdateUnknown, M!Publish, M!view
  <1>6. UNCHANGED activeJobs
    <2>1. CASE M!Update("collector")
      <3>1. /\ activeJobs' = [activeJobs EXCEPT ![c.job] = M!Updated(c, activeJobs[c.job])]
            /\ c.at = "update"
        BY <2>1 DEF M!Update, M!At
      <3>2. M!Updated(c, activeJobs[c.job]) = activeJobs[c.job]
        BY <1>3, <3>1 DEF M!Updated
      <3> QED BY <1>2, <3>1, <3>2
    <2>2. CASE M!Should("collector") \/ M!UpdateUnknown("collector") \/ M!Publish("collector")
      BY <2>2 DEF M!Should, M!UpdateUnknown, M!Publish, M!view
    <2> QED BY <1>4, <2>1, <2>2
  <1>7. call'["worker"] = call["worker"]
    <2>1. PICK at \in M!Places : M!GoTo("collector", at)
      BY <1>4 DEF M!Should, M!Update, M!UpdateUnknown, M!Publish, M!Places
    <2> QED BY <1>1, <1>2, <2>1, GoToFields DEF Thread
  <1> QED BY <1>1, <1>5, <1>6, <1>7, FollowFrame

(* A step of the worker's callback takes the view and the alerts along.     *)
LEMMA FollowCallback ==
    ASSUME MTypeInv, IInv, PlaceInv, WrittenInv, FollowInv, AlertInv, Callback("worker")
    PROVE  FollowInv' /\ AlertInv'
  <1> DEFINE c == call["worker"]
  <1>1. UNCHANGED <<worker, current>> /\ M!CallStep("worker") /\ "worker" \in Thread
    BY DEF Callback, vars, link, Thread
  <1>2. /\ call \in [Thread -> M!Calls] /\ c \in M!Calls
        /\ activeJobs \in [Job -> M!Data \cup {M!NoData}]
        /\ completedJobs \in [Job -> M!Data \cup {M!NoData}]
    BY <1>1 DEF MTypeInv, MTypeOK, M!MonitorTypeOK
  <1>3. c.at # "idle"
    BY <1>1 DEF M!CallStep, M!Create, M!Lookup, M!Should, M!Update, M!UpdateUnknown, M!Publish,
                M!Move, M!NotifyFailure, M!At
  <1>4. /\ worker \in {"body", "completed", "failed"} /\ current \in Job
        /\ c.op \in {"status", "progress", "metrics"}
        /\ c.op = "metrics" => worker = "completed"
        /\ c.op # "metrics" => c.job = current
        /\ c.op = "progress" => worker = "body"
        /\ c.op = "status" /\ worker = "body" => c.new = "RUNNING"
        /\ c.op = "status" /\ worker # "body" => c.new \in M!Ended
        /\ c.at = "should" => c.op = "progress"
        /\ c.at \in {"move", "notify"} => c.op = "status"
        /\ c.at = "move" => c.new \in M!Ended
        /\ c.at \in {"create", "lookup"} => c.op = "status" /\ c.new = "RUNNING"
    BY <1>1, <1>3 DEF PlaceInv, WrittenInv, IInv, HandInv, InHand, Executing, MTypeInv, CallInv
  <1>5. \A at \in M!Places : M!GoTo("worker", at) =>
           /\ at = "idle" => call'["worker"].at = "idle" /\ call'["worker"].op = "none"
           /\ at # "idle" => /\ call'["worker"].at = at /\ call'["worker"].op = c.op
                             /\ call'["worker"].new = c.new
    BY <1>1, <1>2, GoToFields
  <1>6. worker # "failed" => alerts = {}
    BY <1>4 DEF AlertInv
  <1>7. ASSUME UNCHANGED alerts, NEW at \in M!Places, M!GoTo("worker", at),
               at = "idle" => worker # "failed"
        PROVE  AlertInv'
    BY <1>1, <1>5, <1>7 DEF AlertInv
  <1>8. CASE M!Create("worker") \/ M!Lookup("worker")
    <2>1. worker = "body" /\ c.op = "status"
      BY <1>4, <1>8 DEF M!Create, M!Lookup, M!At, M!Ended
    <2>2. UNCHANGED alerts /\ \E at \in {"lookup", "update"} : M!GoTo("worker", at)
      BY <1>8 DEF M!Create, M!Lookup
    <2>3. call'["worker"].op = "status" /\ call'["worker"].at \in {"lookup", "update"}
      BY <1>5, <2>1, <2>2 DEF M!Places
    <2>4. AlertInv'
      BY <1>7, <2>2 DEF M!Places
    <2>5. FollowInv'
      BY <1>1, <2>1, <2>3 DEF FollowInv
    <2> QED BY <2>4, <2>5
  <1>9. CASE M!Should("worker")
    <2>1. worker = "body" /\ c.op = "progress"
      BY <1>4, <1>9 DEF M!Should, M!At
    <2>2. UNCHANGED <<activeJobs, alerts>> /\ \E at \in {"idle", "update"} : M!GoTo("worker", at)
      BY <1>9 DEF M!Should, M!view
    <2>3. AlertInv'
      BY <1>7, <2>1, <2>2 DEF M!Places
    <2>4. activeJobs[current].status = "RUNNING"
      BY <2>1 DEF FollowInv
    <2>5. FollowInv'
      BY <1>1, <2>1, <2>2, <2>4 DEF FollowInv
    <2> QED BY <2>3, <2>5
  <1>10. CASE M!Update("worker")
    <2>1. /\ activeJobs[c.job] # M!NoData /\ c.at = "update"
          /\ activeJobs' = [activeJobs EXCEPT ![c.job] = M!Updated(c, activeJobs[c.job])]
          /\ M!GoTo("worker", "publish") /\ UNCHANGED <<completedJobs, alerts>>
      BY <1>10 DEF M!Update, M!At
    <2>2. call'["worker"].at = "publish" /\ call'["worker"].op = c.op /\ call'["worker"].new = c.new
      BY <1>5, <2>1 DEF M!Places
    <2>3. AlertInv'
      BY <1>7, <2>1 DEF M!Places
    <2> DEFINE d == activeJobs[current]
    <2>4. d \in M!Data \cup {M!NoData} /\ d = [status |-> d.status, progress |-> d.progress]
      BY <1>2, <1>4 DEF M!Data, M!NoData
    <2>5. c.op # "metrics" => activeJobs'[current] = M!Updated(c, d)
      BY <1>2, <1>4, <2>1
    <2>6. CASE c.op = "status"
      <3>1. M!Updated(c, d) = [d EXCEPT !.status = c.new]
        BY <2>6 DEF M!Updated
      <3> HIDE DEF d
      <3>2. activeJobs'[current].status = c.new
        BY <2>4, <2>5, <2>6, <3>1
      <3> QED BY <1>1, <1>3, <1>4, <2>2, <2>3, <2>6, <3>2 DEF FollowInv, EndOfJob
    <2>7. CASE c.op = "progress"
      <3>1. M!Updated(c, d) = [d EXCEPT !.progress = c.progress]
        BY <2>7 DEF M!Updated
      <3>2. d.status = "RUNNING"
        BY <1>4, <2>7 DEF FollowInv
      <3> HIDE DEF d
      <3>3. activeJobs'[current].status = "RUNNING"
        BY <2>4, <2>5, <2>7, <3>1, <3>2
      <3> QED BY <1>1, <1>4, <2>2, <2>3, <2>7, <3>3 DEF FollowInv
    <2>8. CASE c.op = "metrics"
      <3>1. M!Updated(c, activeJobs[c.job]) = activeJobs[c.job]
        BY <2>8 DEF M!Updated
      <3>2. activeJobs' = activeJobs
        BY <1>2, <2>1, <3>1
      <3> QED BY <1>1, <1>4, <2>1, <2>2, <2>3, <2>8, <3>2 DEF FollowInv, EndOfJob
    <2> QED BY <1>4, <2>6, <2>7, <2>8
  <1>11. CASE M!UpdateUnknown("worker")
    <2>1. /\ UNCHANGED <<activeJobs, completedJobs, alerts>> /\ M!GoTo("worker", "relock")
          /\ c.at = "update"
      BY <1>11 DEF M!UpdateUnknown, M!view, M!At
    <2>2. call'["worker"].at = "relock" /\ call'["worker"].op = c.op /\ call'["worker"].new = c.new
      BY <1>5, <2>1 DEF M!Places
    <2>3. AlertInv'
      BY <1>7, <2>1 DEF M!Places
    <2>4. FollowInv'
      BY <1>1, <1>3, <2>1, <2>2 DEF FollowInv, EndOfJob
    <2> QED BY <2>3, <2>4
  <1>12. CASE M!Publish("worker")
    <2> DEFINE at == IF c.op # "status" THEN "idle" ELSE IF c.new \in M!Ended THEN "move" ELSE "notify"
    <2>1. UNCHANGED <<activeJobs, completedJobs, alerts>> /\ M!GoTo("worker", at) /\ c.at = "publish"
      BY <1>12 DEF M!Publish, M!view, M!At
    <2>2. at \in M!Places /\ (worker = "failed" => at # "idle")
      BY <1>4 DEF M!Places
    <2>3. AlertInv'
      BY <1>7, <2>1, <2>2
    <2>4. CASE c.op = "status"
      <3>1. /\ call'["worker"].op = "status" /\ call'["worker"].new = c.new
            /\ call'["worker"].at = IF worker = "body" THEN "notify" ELSE "move"
        BY <1>4, <1>5, <2>1, <2>2, <2>4 DEF M!Ended
      <3> QED BY <1>1, <2>1, <2>3, <2>4, <3>1 DEF FollowInv, EndOfJob
    <2>5. CASE c.op # "status"
      <3>1. call'["worker"].op = "none" /\ call'["worker"].at = "idle"
        BY <1>5, <2>1, <2>2, <2>5
      <3> QED BY <1>1, <1>4, <2>1, <2>3, <2>5, <3>1 DEF FollowInv, EndOfJob
    <2> QED BY <2>4, <2>5
  <1>13. CASE M!Move("worker")
    <2>1. /\ c.at = "move" /\ M!GoTo("worker", "notify") /\ UNCHANGED alerts
          /\ activeJobs[c.job] # M!NoData =>
                /\ completedJobs' = [completedJobs EXCEPT ![c.job] = activeJobs[c.job]]
                /\ activeJobs' = [activeJobs EXCEPT ![c.job] = M!NoData]
      BY <1>13 DEF M!Move, M!At
    <2>2. /\ c.op = "status" /\ c.job = current /\ worker \in {"completed", "failed"}
          /\ activeJobs[current].status = EndOfJob
      BY <1>4, <2>1 DEF FollowInv, M!Ended
    <2>3. activeJobs[current] # M!NoData
      BY <2>2 DEF M!NoData, M!Absent, EndOfJob
    <2>4. activeJobs'[current] = M!NoData /\ completedJobs'[current].status = EndOfJob
      BY <1>2, <1>4, <2>1, <2>2, <2>3
    <2>5. /\ call'["worker"].at = "notify" /\ call'["worker"].op = "status"
          /\ call'["worker"].new = c.new
      BY <1>5, <2>1, <2>2 DEF M!Places
    <2>6. c.new = EndOfJob
      BY <1>3, <2>2 DEF FollowInv
    <2>7. AlertInv'
      BY <1>7, <2>1 DEF M!Places
    <2>8. FollowInv'
      BY <1>1, <2>2, <2>4, <2>5, <2>6 DEF FollowInv, EndOfJob
    <2> QED BY <2>7, <2>8
  <1>14. CASE M!NotifyFailure("worker")
    <2>1. /\ UNCHANGED <<activeJobs, completedJobs>> /\ M!GoTo("worker", "idle")
          /\ alerts' = IF c.new = "FAILED" THEN alerts \cup {c.job} ELSE alerts
          /\ c.at = "notify"
      BY <1>14 DEF M!NotifyFailure, M!view, M!At
    <2>2. call'["worker"].at = "idle" /\ call'["worker"].op = "none"
      BY <1>5, <2>1 DEF M!Places
    <2>3. /\ c.op = "status" /\ c.job = current
          /\ worker = "failed" <=> c.new = "FAILED"
      BY <1>3, <1>4, <2>1 DEF FollowInv, EndOfJob
    <2>4. AlertInv'
      BY <1>1, <1>4, <2>1, <2>3 DEF AlertInv
    <2>5. FollowInv'
      BY <1>1, <2>1, <2>2, <2>3 DEF FollowInv, EndOfJob
    <2> QED BY <2>4, <2>5
  <1> QED BY <1>1, <1>8, <1>9, <1>10, <1>11, <1>12, <1>13, <1>14 DEF M!CallStep

(* Every step of the composition keeps the view and the alerts with the job. *)
LEMMA FollowStep ==
    MTypeInv /\ IInv /\ PlaceInv /\ WrittenInv /\ FollowInv /\ AlertInv /\ [MNext]_mvars
        => FollowInv' /\ AlertInv'
  <1> SUFFICES ASSUME MTypeInv, IInv, PlaceInv, WrittenInv, FollowInv, AlertInv, [MNext]_mvars
               PROVE  FollowInv' /\ AlertInv'
    OBVIOUS
  <1>1. call \in [Thread -> M!Calls]
    BY DEF MTypeInv, MTypeOK, M!MonitorTypeOK
  <1>2. \A t \in Thread : \A c : M!Begin(t, c) =>
            /\ UNCHANGED <<activeJobs, completedJobs, alerts>> /\ call[t].at = "idle"
            /\ \A u \in Thread : u # t => call'[u] = call[u]
            /\ monitorRunning \/ c.op = "metrics" => call'[t] = c
    BY <1>1 DEF M!Begin, M!view, M!Idle
  <1>3. worker # "none" => monitorRunning
    BY DEF PlaceInv
  <1>4. "worker" \in Thread /\ "collector" \in Thread
    BY DEF Thread
  <1>5. worker \notin {"failed", "escaped"} => alerts = {}
    BY DEF AlertInv
  <1>6. CASE MControl
    <2>1. worker = "none" \/ UNCHANGED <<activeJobs, completedJobs>>
      BY <1>6 DEF MControl, StartMonitor, SnapshotJobs, FillView, StopMonitor, ClearView,
                  M!StartMonitor, M!TakeSnapshot, M!StopMonitor, M!view, PlaceInv
    <2>2. UNCHANGED <<worker, current, call, alerts>>
      BY <1>6 DEF MControl, StartMonitor, SnapshotJobs, FillView, StopMonitor, ClearView,
                  M!StartMonitor, M!TakeSnapshot, M!FillView, M!StopMonitor, M!ClearView, vars, data
    <2> QED BY <2>1, <2>2 DEF FollowInv, AlertInv, EndOfJob
  <1>7. CASE MExecuteStart
    <2>1. /\ UNCHANGED <<activeJobs, completedJobs, alerts, call>>
          /\ worker = "checked" /\ worker' = "started"
      BY <1>7, FeaturesAssumption DEF MExecuteStart, ExecuteStart, monitor
    <2> QED BY <2>1, FollowFrame DEF Reporting
  <1>8. CASE MPersistRunning
    <2> DEFINE c == M!StatusCall(current, oldStatus, "RUNNING")
    <2>1. worker = "started" /\ worker' = "body" /\ M!Begin("worker", c)
      BY <1>8 DEF MPersistRunning, PersistRunning
    <2>2. c.op = "status" /\ c.at \in {"create", "update"}
      BY DEF M!StatusCall
    <2> HIDE DEF c
    <2>3. call'["worker"] = c /\ UNCHANGED alerts
      BY <1>2, <1>3, <1>4, <2>1
    <2> QED BY <1>5, <2>1, <2>2, <2>3 DEF FollowInv, AlertInv
  <1>9. CASE MExecuteEnd
    <2>1. worker = "body" /\ worker' \in {"completing", "failing"} /\ UNCHANGED alerts
      BY <1>9, FeaturesAssumption DEF MExecuteEnd, ExecuteSucceed, ExecuteThrow, monitor
    <2> QED BY <1>5, <2>1 DEF FollowInv, AlertInv
  <1>10. CASE MPersistEnd
    <2> DEFINE n == IF worker = "completing" THEN "COMPLETED" ELSE "FAILED"
               c == M!StatusCall(current, oldStatus, n)
    <2>1. /\ worker \in {"completing", "failing"} /\ M!Begin("worker", c)
          /\ worker' = IF worker = "completing" THEN "completed" ELSE "failed"
      BY <1>10 DEF MPersistEnd, PersistEnd
    <2>2. c.op = "status" /\ c.at = "update" /\ c.new = n
      BY DEF M!StatusCall
    <2> HIDE DEF c
    <2>3. call'["worker"] = c /\ UNCHANGED alerts
      BY <1>2, <1>3, <1>4, <2>1
    <2> QED BY <1>5, <2>1, <2>2, <2>3 DEF FollowInv, AlertInv, EndOfJob
  <1>11. CASE StopMetrics
    <2> DEFINE c == M!MetricsCall(current)
    <2>1. worker = "completed" /\ UNCHANGED <<worker, current>> /\ M!Begin("worker", c)
      BY <1>11 DEF StopMetrics, vars
    <2>2. c.op = "metrics" /\ c.at = "update"
      BY DEF M!MetricsCall
    <2> HIDE DEF c
    <2>3. /\ call'["worker"] = c /\ UNCHANGED <<activeJobs, completedJobs, alerts>>
          /\ call["worker"].at = "idle"
      BY <1>2, <1>4, <2>1, <2>2
    <2> QED BY <2>1, <2>2, <2>3 DEF FollowInv, AlertInv, EndOfJob
  <1>12. CASE MExecuteReturn \/ MExecuteRethrow
    <2>1. /\ UNCHANGED alerts
          /\ \/ worker = "completed" /\ worker' = "loop"
             \/ worker = "failed" /\ worker' = "escaped" /\ UNCHANGED current
      BY <1>12 DEF MExecuteReturn, MExecuteRethrow, ExecuteReturn, ExecuteRethrow, monitor
    <2> QED BY <1>5, <2>1 DEF FollowInv, AlertInv
  <1>13. CASE MPersistProgress
    <2>1. PICK p \in Progress : M!Begin("worker", M!ProgressCall(current, p))
      BY <1>13 DEF MPersistProgress
    <2> DEFINE c == M!ProgressCall(current, p)
    <2>2. worker = "body" /\ UNCHANGED <<worker, current>>
      BY <1>13 DEF MPersistProgress, PersistProgress
    <2>3. c.op = "progress"
      BY DEF M!ProgressCall
    <2> HIDE DEF c
    <2>4. /\ call'["worker"] = c /\ UNCHANGED <<activeJobs, alerts>> /\ call["worker"].at = "idle"
      BY <1>2, <1>3, <1>4, <2>1, <2>2 DEF c
    <2> QED BY <2>2, <2>3, <2>4 DEF FollowInv, AlertInv
  <1>14. CASE CollectorSample
    <2>1. M!Begin("collector", M!MetricsCall(collector)) /\ UNCHANGED <<worker, current>>
      BY <1>14 DEF CollectorSample, vars
    <2>2. call'["worker"] = call["worker"] /\ UNCHANGED <<activeJobs, completedJobs, alerts>>
      BY <1>2, <1>4, <2>1
    <2> QED BY <2>1, <2>2, FollowFrame
  <1>15. CASE \E t \in Thread : Callback(t)
    BY <1>15, FollowCallback, FollowCollector DEF Thread
  <1>16. CASE MStart \/ MCancel
    <2>1. /\ UNCHANGED <<activeJobs, completedJobs, alerts, call>>
          /\ UNCHANGED <<worker, current>> \/ (worker = "none" /\ worker' = "loop")
      BY <1>16 DEF MStart, MCancel, Start, CancelCheck, CancelWrite, monitor
    <2> QED BY <2>1, FollowFrame DEF Reporting
  <1>17. CASE MOther
    <2>1. UNCHANGED <<activeJobs, completedJobs, alerts, call>>
      BY <1>17 DEF MOther, monitor
    <2>2. UNCHANGED <<worker, current>> \/ (~Reporting /\ ~Reporting')
      BY <1>17 DEF MOther, ScheduleInsert, ScheduleUnanswered, GetJobFromDb, SchedulePush,
                   GetAllJobsFromDb, WorkerLoopTest, WorkerLock, WorkerPredicate, WorkerBlock, WorkerExit, WorkerTake,
                   WorkerCheck, SpuriousWakeup, StopClear, StopNotify, StopJoin, Restart, Notify,
                   data, Reporting
    <2> QED BY <2>1, <2>2, FollowFrame
  <1>18. CASE MDie
    <2>1. worker' = "none" /\ alerts' = {}
      BY <1>18 DEF MDie, Terminate, Crash, Die, M!Forget
    <2> QED BY <2>1 DEF FollowInv, AlertInv
  <1>19. CASE UNCHANGED mvars
    <2>1. UNCHANGED <<activeJobs, completedJobs, alerts, call, worker, current>>
      BY <1>19 DEF mvars, vars, monitor
    <2> QED BY <2>1, FollowFrame
  <1> QED BY <1>6, <1>7, <1>8, <1>9, <1>10, <1>11, <1>12, <1>13, <1>14, <1>15, <1>16, <1>17, <1>18,
             <1>19 DEF MNext, MExecute

(* The two together, in every behaviour.                                    *)
LEMMA FollowInvariant == MSpec => [](FollowInv /\ AlertInv)
  <1>1. DisjointInv => WrittenInv
    BY DEF DisjointInv
  <1> QED BY <1>1, MTypeInit, MTypeStep, ManagerInvariant, PlaceToldInit, PlaceStep, DisjointInit,
             DisjointStep, FollowInit, FollowStep, PTL DEF MSpec

(* The view of the monitor shows, between two callbacks of the worker, the  *)
(* job in hand as it is: running while its work goes on, and among the      *)
(* completed with the end of its execution once that was reported, whatever *)
(* the collector and cancelling clients do in between.                      *)
THEOREM ViewFollows == MSpec => []ViewFollowsJob
  <1>1. FollowInv => ViewFollowsJob
    BY DEF FollowInv, ViewFollowsJob, Free, M!Idle, EndOfJob
  <1> QED BY <1>1, FollowInvariant, PTL

(* An alert was sent for each failed job once its last callback returned,   *)
(* and for no job that did not fail.                                        *)
THEOREM FailureAlerts == MSpec => []FailureAlerted
  <1>1. AlertInv => FailureAlerted
    BY DEF AlertInv, FailureAlerted, Free, M!Idle
  <1> QED BY <1>1, FollowInvariant, PTL

=============================================================================
