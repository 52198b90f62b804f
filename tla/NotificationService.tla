-------------------------- MODULE NotificationService --------------------------
(***************************************************************************)
(* Alerts: any thread queues a notification, one processing thread takes    *)
(* the whole queue, delivers without the lock, and puts what failed into    *)
(* the retry queue. Resource alerts have a cooldown. stop() clears running_ *)
(* and notifies without the mutex, so the wait of the processing thread has *)
(* two steps: the predicate, and the sleep that gives the mutex back.       *)
(***************************************************************************)
EXTENDS Naturals, FiniteSets, SequencesExt

CONSTANTS
    Message,        \* notifications; each is queued at most once
    Watcher,        \* threads that raise resource alerts of one type
    queueMaxSize,
    maxRetries,     \* maxRetryAttempts of the configuration
    DeliveriesFail, \* whether every delivery method may fail
    Stopping        \* whether the service is stopped and started

ASSUME NotificationAssumption ==
    /\ queueMaxSize \in Nat /\ maxRetries \in Nat
    /\ DeliveriesFail \in BOOLEAN /\ Stopping \in BOOLEAN

VARIABLES
    queue,       \* notificationQueue_
    retryQueue,  \* the ids in retryManager_; every entry has retryCount 0
    batch,       \* currentQueue and then readyForRetry of the pass
    running,     \* running_
    worker,      \* where the processing thread is
    stopper,     \* where the thread that stops the service is
    watcher,     \* where each watcher is in sendResourceAlert
    cooldown,    \* whether lastAlertTime_ is less than 5 minutes ago
    alerts,      \* history: alerts sent since the cooldown last ended
    sent,        \* history: messages given to queueNotification
    dropped,     \* history: messages refused by a full queue
    delivered,   \* history: messages delivered
    gaveUp       \* history: messages not retried any more

queues == <<queue, retryQueue>>
alerting == <<watcher, cooldown, alerts>>
outcome == <<delivered, gaveUp>>
nvars == <<queues, batch, running, worker, stopper, alerting, sent, dropped, outcome>>

(* A message in a pass; a retried one is rebuilt without its maxRetries.    *)
Entry == [id : Message, retried : BOOLEAN]
FreshMessages(s) == [i \in DOMAIN s |-> [id |-> s[i], retried |-> FALSE]]
Retried(s) == [i \in DOMAIN s |-> [id |-> s[i], retried |-> TRUE]]

Count(s, m) == Cardinality({i \in DOMAIN s : s[i] = m})
CountBatch(m) == Cardinality({i \in DOMAIN batch : batch[i].id = m})

NotificationTypeOK ==
    /\ queue \in Seq(Message) /\ Len(queue) <= queueMaxSize
    /\ retryQueue \in Seq(Message)
    /\ batch \in Seq(Entry)
    /\ running \in BOOLEAN
    /\ worker \in {"none", "loop", "test", "falling", "asleep", "deliver"}
    /\ stopper \in {"out", "notify", "join"}
    /\ watcher \in [Watcher -> {"out", "queue", "record"}]
    /\ cooldown \in BOOLEAN
    /\ alerts \in Nat
    /\ sent \subseteq Message /\ dropped \subseteq sent
    /\ delivered \subseteq sent /\ gaveUp \subseteq sent

NotificationInit ==
    /\ queue = <<>> /\ retryQueue = <<>> /\ batch = <<>>
    /\ running = TRUE
    /\ worker = "loop"
    /\ stopper = "out"
    /\ watcher = [w \in Watcher |-> "out"]
    /\ cooldown = FALSE /\ alerts = 0
    /\ sent = {} /\ dropped = {} /\ delivered = {} /\ gaveUp = {}

(* queueMutex_ is held over several steps only by a worker falling asleep. *)
MutexFree == worker # "falling"

(* Mutant: the worker is not notified. *)
QueueSilently(m) ==
    /\ MutexFree
    /\ m \notin sent
    /\ sent' = sent \cup {m}
    /\ IF Len(queue) >= queueMaxSize
       THEN dropped' = dropped \cup {m} /\ UNCHANGED <<queue, worker>>
       ELSE queue' = Append(queue, m) /\ UNCHANGED <<dropped, worker>>

(* queueNotification drops the message if the queue is full.                *)
QueueNotification(m) ==
    /\ MutexFree
    /\ m \notin sent
    /\ sent' = sent \cup {m}
    /\ IF Len(queue) >= queueMaxSize
       THEN dropped' = dropped \cup {m} /\ UNCHANGED <<queue, worker>>
       ELSE /\ queue' = Append(queue, m)
            /\ worker' = IF worker = "asleep" THEN "test" ELSE worker
            /\ UNCHANGED dropped

(* sendJobFailureAlert, sendJobTimeoutWarning, sendSystemErrorAlert.        *)
Send(m) ==
    /\ QueueNotification(m)
    /\ UNCHANGED <<retryQueue, batch, running, stopper, alerting, outcome>>

-----------------------------------------------------------------------------
(* sendResourceAlert: shouldSendResourceAlert, then the queue, then         *)
(* recordResourceAlert.                                                     *)
ShouldSend(w) ==
    /\ watcher[w] = "out"
    /\ ~cooldown
    /\ watcher' = [watcher EXCEPT ![w] = "queue"]
    /\ UNCHANGED <<queues, batch, running, worker, stopper, cooldown, alerts, sent,
                   dropped, outcome>>

QueueAlert(w, m) ==
    /\ watcher[w] = "queue"
    /\ QueueNotification(m)
    /\ watcher' = [watcher EXCEPT ![w] = "record"]
    /\ alerts' = alerts + 1
    /\ UNCHANGED <<retryQueue, batch, running, stopper, cooldown, outcome>>

RecordAlert(w) ==
    /\ watcher[w] = "record"
    /\ watcher' = [watcher EXCEPT ![w] = "out"]
    /\ cooldown' = TRUE
    /\ UNCHANGED <<queues, batch, running, worker, stopper, alerts, sent, dropped, outcome>>

(* Five minutes pass; no watcher takes that long. *)
CooldownEnds ==
    /\ cooldown
    /\ \A w \in Watcher : watcher[w] = "out"
    /\ cooldown' = FALSE
    /\ alerts' = 0
    /\ UNCHANGED <<queues, batch, running, worker, stopper, watcher, sent, dropped, outcome>>

-----------------------------------------------------------------------------
(* processNotifications. *)
Loop ==
    /\ worker = "loop"
    /\ worker' = IF running THEN "test" ELSE "none"
    /\ UNCHANGED <<queues, batch, running, stopper, alerting, sent, dropped, outcome>>

(* The predicate of the wait does not hold. *)
FallAsleep ==
    /\ worker = "test"
    /\ running /\ queue = <<>> /\ retryQueue = <<>>
    /\ worker' = "falling"
    /\ UNCHANGED <<queues, batch, running, stopper, alerting, sent, dropped, outcome>>

Sleep ==
    /\ worker = "falling"
    /\ worker' = "asleep"
    /\ UNCHANGED <<queues, batch, running, stopper, alerting, sent, dropped, outcome>>

Leave ==
    /\ worker = "test"
    /\ ~running
    /\ worker' = "none"
    /\ UNCHANGED <<queues, batch, running, stopper, alerting, sent, dropped, outcome>>

(* Mutant: what is ready for a retry stays in the retry queue. *)
TakeKeeping ==
    /\ worker = "test"
    /\ running /\ (queue # <<>> \/ retryQueue # <<>>)
    /\ \E ready \in 0 .. Len(retryQueue) :
          batch' = FreshMessages(queue) \o Retried(SubSeq(retryQueue, 1, ready))
    /\ queue' = <<>>
    /\ worker' = "deliver"
    /\ UNCHANGED <<retryQueue, running, stopper, alerting, sent, dropped, outcome>>

(* The queue is swapped with an empty one, and the retries whose time has   *)
(* come are taken: all delays are equal, so they are a prefix.              *)
Take ==
    /\ worker = "test"
    /\ running /\ (queue # <<>> \/ retryQueue # <<>>)
    /\ \E ready \in 0 .. Len(retryQueue) :
          /\ batch' = FreshMessages(queue) \o Retried(SubSeq(retryQueue, 1, ready))
          /\ retryQueue' = SubSeq(retryQueue, ready + 1, Len(retryQueue))
    /\ queue' = <<>>
    /\ worker' = "deliver"
    /\ UNCHANGED <<running, stopper, alerting, sent, dropped, outcome>>

(* A pass that takes a retry, and by their order the oldest. *)
TakeRetry == Take /\ retryQueue' # retryQueue

(* deliverNotification: some method succeeds. *)
Deliver ==
    /\ worker = "deliver" /\ batch # <<>>
    /\ batch' = Tail(batch)
    /\ delivered' = delivered \cup {Head(batch).id}
    /\ UNCHANGED <<queues, running, worker, stopper, alerting, sent, dropped, gaveUp>>

(* No method succeeds. scheduleRetry stores the message with retryCount 0   *)
(* unless retryCount >= maxRetries; of a retried message maxRetries is      *)
(* uninitialised, so after each failure it may be retried again or not.     *)
Fail ==
    LET e == Head(batch) IN
    /\ DeliveriesFail
    /\ worker = "deliver" /\ batch # <<>>
    /\ batch' = Tail(batch)
    /\ \/ /\ e.retried \/ maxRetries > 0
          /\ retryQueue' = Append(retryQueue, e.id)
          /\ UNCHANGED gaveUp
       \/ /\ e.retried \/ maxRetries = 0
          /\ gaveUp' = gaveUp \cup {e.id}
          /\ UNCHANGED retryQueue
    /\ UNCHANGED <<queue, running, worker, stopper, alerting, sent, dropped, delivered>>

PassEnds ==
    /\ worker = "deliver" /\ batch = <<>>
    /\ worker' = "loop"
    /\ UNCHANGED <<queues, batch, running, stopper, alerting, sent, dropped, outcome>>

-----------------------------------------------------------------------------
(* stop and start, called by one thread. *)
Stop ==
    /\ Stopping
    /\ stopper = "out" /\ running
    /\ running' = FALSE
    /\ stopper' = "notify"
    /\ UNCHANGED <<queues, batch, worker, alerting, sent, dropped, outcome>>

NotifyAll ==
    /\ stopper = "notify"
    /\ stopper' = "join"
    /\ worker' = IF worker = "asleep" THEN "test" ELSE worker
    /\ UNCHANGED <<queues, batch, running, alerting, sent, dropped, outcome>>

Join ==
    /\ stopper = "join"
    /\ worker = "none"
    /\ stopper' = "out"
    /\ UNCHANGED <<queues, batch, running, worker, alerting, sent, dropped, outcome>>

Start ==
    /\ stopper = "out" /\ ~running
    /\ running' = TRUE
    /\ worker' = "loop"
    /\ UNCHANGED <<queues, batch, stopper, alerting, sent, dropped, outcome>>

Worker == Loop \/ FallAsleep \/ Sleep \/ Leave \/ Take \/ Deliver \/ Fail \/ PassEnds

NotificationNext ==
    \/ \E m \in Message : Send(m)
    \/ \E w \in Watcher : \/ ShouldSend(w)
                          \/ \E m \in Message : QueueAlert(w, m)
                          \/ RecordAlert(w)
    \/ CooldownEnds
    \/ Worker
    \/ Stop \/ NotifyAll \/ Join \/ Start

NotificationSpec == NotificationInit /\ [][NotificationNext]_nvars

(* The threads are scheduled, and the backoff of every retry elapses.      *)
NotificationFairness ==
    /\ WF_nvars(Worker) /\ WF_nvars(NotifyAll) /\ WF_nvars(Join)
    /\ SF_nvars(TakeRetry)

-----------------------------------------------------------------------------
(* A message that was accepted is in exactly one place, once: the queue,    *)
(* the pass, the retry queue, delivered, or given up. Nothing is lost or    *)
(* delivered twice, through failures, stops and restarts.                   *)
Conserved ==
    \A m \in sent \ dropped :
        Count(queue, m) + CountBatch(m) + Count(retryQueue, m)
          + (IF m \in delivered THEN 1 ELSE 0) + (IF m \in gaveUp THEN 1 ELSE 0) = 1

(* With one watcher, a resource alert is sent once in five minutes.         *)
OncePerCooldown == alerts <= 1

(* No wake-up is lost and no retry forgotten: an accepted message does not  *)
(* wait for ever, neither in the queue nor, after a failure, in the retry   *)
(* queue. It is taken into a pass, again and again until it is delivered or *)
(* given up, unless the service is stopped first.                           *)
AcceptedIsTried ==
    \A m \in Message :
        m \in sent \ dropped ~>
            m \in delivered \cup gaveUp \/ CountBatch(m) > 0 \/ ~running

(* "Wait for notifications or stop signal": stop() returns.                 *)
StopReturns == stopper = "notify" ~> stopper = "out"
=============================================================================
