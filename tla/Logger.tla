------------------------------- MODULE Logger -------------------------------
(***************************************************************************)
(* The logger: callers format a line and write it themselves, or push it    *)
(* into the queue of the asynchronous worker; lines of jobs also go into    *)
(* the queue of the streaming worker. The two workers have the same code,   *)
(* so their state is indexed by Channel. enableAsyncLogging(false) and      *)
(* enableRealTimeStreaming(false) set the stop flag and notify without the  *)
(* mutex of the queue, and join the worker with configMutex_ held. The file *)
(* is rotated when the next line would exceed maxFileSize.                  *)
(***************************************************************************)
EXTENDS Naturals, FiniteSets, SequencesExt

CONSTANTS
    Thread,             \* the callers
    Level,              \* levels used, a set of numbers as in LogLevel
    minLevel,           \* config_.level
    Job, StreamedJob,   \* jobs, and config_.streamingJobFilter
    queueMax,           \* MAX_QUEUE_SIZE
    streamingQueueSize,
    maxFileSize, maxBackupFiles,
    MaxCalls,           \* bound: calls of all threads
    MaxSwitches         \* bound: calls of the configuration methods

ASSUME LoggerAssumption ==
    /\ Level \subseteq 0..4 /\ minLevel \in 0..4 /\ StreamedJob \subseteq Job
    /\ queueMax \in Nat /\ streamingQueueSize \in Nat
    /\ maxFileSize \in Nat /\ maxBackupFiles \in Nat \ {0}
    /\ MaxCalls \in Nat /\ MaxSwitches \in Nat

Channel == {"async", "stream"}

VARIABLES
    enabled,  \* config_.asyncLogging and config_.enableRealTimeStreaming
    started,  \* asyncStarted_ and streamingStarted_
    stopFlag, \* stopAsync_ and stopStreaming_
    msgs,     \* messageQueue_ and streamingQueue_
    lworker,  \* where each worker thread is
    hand,     \* the message a worker has popped
    caller,   \* each caller: where it is, its line and its number of calls
    control,  \* where the thread that configures is; it holds configMutex_
    switches, \* calls of the configuration methods so far
    fileOpen, \* fileStream_.is_open()
    file,     \* the lines of the current log file
    backups,  \* backup number -> its lines
    archived, \* the file in the archive directory; how often one was put there
    written,  \* history: lines written to the file, in order
    sentOut   \* history: lines given to the WebSocket manager, in order

flags == <<enabled, started, stopFlag>>
logFiles == <<fileOpen, file, backups, archived, written>>
lvars == <<flags, msgs, lworker, hand, caller, control, switches, logFiles, sentOut>>

Idle == [pc |-> "idle", n |-> 0, line |-> <<>>]

(* configure() copies asyncLogging into config_ before it compares the two, *)
(* so it starts no asynchronous worker; it does start the streaming worker. *)
LInit ==
    /\ enabled \in [Channel -> BOOLEAN]
    /\ started = [c \in Channel |-> c = "stream" /\ enabled[c]]
    /\ stopFlag = [c \in Channel |-> FALSE]
    /\ msgs = [c \in Channel |-> <<>>]
    /\ lworker = [c \in Channel |-> IF started[c] THEN "loop" ELSE "none"]
    /\ hand = [c \in Channel |-> <<>>]
    /\ caller = [t \in Thread |-> Idle]
    /\ control = <<"out">> /\ switches = 0
    /\ fileOpen = TRUE /\ file = <<>> /\ backups = <<>>
    /\ archived = [times |-> 0, lines |-> <<>>] /\ written = <<>> /\ sentOut = <<>>

-----------------------------------------------------------------------------
(* The file.                                                               *)

(* The header of a line (text or JSON) is as good as its identity.          *)
formatMessage(t, n, level, job) == [by |-> t, n |-> n, level |-> level, job |-> job]

(* Each line is one unit long and its newline another.                     *)
fileSize == 2 * Len(file)

MoveBackup(b, i) ==
    IF i \notin DOMAIN b THEN b
    ELSE [j \in (DOMAIN b \ {i}) \union {i + 1} |-> IF j = i + 1 THEN b[i] ELSE b[j]]

(* Mutant: the loop over the backups ends one too early.                    *)
ShiftButFirst(b) ==
    LET turn[k \in 0..(maxBackupFiles - 1)] ==
            IF k = 0 THEN b ELSE MoveBackup(turn[k - 1], maxBackupFiles - k)
    IN  turn[maxBackupFiles - 2]

(* The k-th turn of the loop, which goes from the last backup but one down  *)
(* to the first, moves backup maxBackupFiles - k.                          *)
ShiftBackups(b) ==
    LET turn[k \in 0..(maxBackupFiles - 1)] ==
            IF k = 0 THEN b ELSE MoveBackup(turn[k - 1], maxBackupFiles - k)
    IN  turn[maxBackupFiles - 1]

rotateLogFile(line) ==
    LET shifted == ShiftBackups(backups)
    IN  /\ backups' = [j \in DOMAIN shifted \union {1} |-> IF j = 1 THEN file ELSE shifted[j]]
        /\ file' = <<line>>

(* The length check leaves the newline out.                                *)
writeLogSync(line) ==
    \/ /\ fileOpen
       /\ written' = Append(written, line)
       /\ IF fileSize + 1 > maxFileSize
          THEN rotateLogFile(line)
          ELSE file' = Append(file, line) /\ UNCHANGED backups
       /\ UNCHANGED <<fileOpen, archived, sentOut>>
    \/ /\ ~fileOpen
       /\ UNCHANGED <<logFiles, sentOut>>

broadcastLogMessage(line) == sentOut' = Append(sentOut, line) /\ UNCHANGED logFiles

Deliver(c, line) ==
    IF c = "async" THEN writeLogSync(line) ELSE broadcastLogMessage(line)

(* The move to the archive directory replaces what it held under that name. *)
archiveOldLogs ==
    /\ switches < MaxSwitches
    /\ archived' = [times |-> archived.times + 1, lines |-> file]
    /\ file' = <<>> /\ fileOpen' = TRUE
    /\ switches' = switches + 1
    /\ UNCHANGED <<flags, msgs, lworker, hand, caller, control, backups, written, sentOut>>

-----------------------------------------------------------------------------
(* The callers.                                                            *)

shouldLog(level) == level >= minLevel

(* streamAllLevels is set; an empty filter lets every job through.          *)
shouldStreamLog(job) ==
    enabled["stream"] /\ (StreamedJob # {} => job \in StreamedJob)

Goto(t, pc) == caller' = [caller EXCEPT ![t].pc = pc]

logForJob(t, level, job) ==
    /\ caller[t].pc = "idle" /\ MapThenSumSet(LAMBDA u : caller[u].n, Thread) < MaxCalls
    /\ caller' = [caller EXCEPT ![t] =
           [pc |-> IF shouldLog(level) THEN "writeLog" ELSE "stream", n |-> @.n + 1,
            line |-> formatMessage(t, @.n + 1, level, job)]]
    /\ UNCHANGED <<flags, msgs, lworker, hand, control, switches, logFiles, sentOut>>

(* config_.asyncLogging is read without a lock.                            *)
writeLog(t) ==
    /\ caller[t].pc = "writeLog"
    /\ Goto(t, IF enabled["async"] THEN "async" ELSE "sync")
    /\ UNCHANGED <<flags, msgs, lworker, hand, control, switches, logFiles, sentOut>>

CallerWrites(t) ==
    /\ caller[t].pc = "sync"
    /\ writeLogSync(caller[t].line)
    /\ Goto(t, "stream")
    /\ UNCHANGED <<flags, msgs, lworker, hand, control, switches>>

StreamLog(t) ==
    /\ caller[t].pc = "stream"
    /\ Goto(t, IF shouldStreamLog(caller[t].line.job) THEN "push" ELSE "idle")
    /\ UNCHANGED <<flags, msgs, lworker, hand, control, switches, logFiles, sentOut>>

(* The worker keeps the mutex of its queue from its test to its sleep, and  *)
(* while it drains the queue at the end.                                   *)
QueueFree(c) == lworker[c] \notin {"falling", "final"}

Push(t, c, pc, next, full) ==
    /\ caller[t].pc = pc /\ QueueFree(c)
    /\ IF full
       THEN UNCHANGED <<msgs, lworker>>
       ELSE /\ msgs' = [msgs EXCEPT ![c] =
                   Append(@, [line |-> caller[t].line, late |-> stopFlag[c]])]
            /\ lworker' = [lworker EXCEPT ![c] = IF @ = "asleep" THEN "test" ELSE @]
    /\ Goto(t, next)
    /\ UNCHANGED <<flags, hand, control, switches, logFiles, sentOut>>

(* The asynchronous queue is full when it holds MORE than MAX_QUEUE_SIZE.   *)
writeLogAsync(t) == Push(t, "async", "async", "stream", Len(msgs["async"]) > queueMax)
pushStreaming(t) ==
    Push(t, "stream", "push", "idle", Len(msgs["stream"]) >= streamingQueueSize)

-----------------------------------------------------------------------------
(* The two workers.                                                        *)

Worker(c, from, to) == lworker[c] = from /\ lworker' = [lworker EXCEPT ![c] = to]
WorkerOnly == UNCHANGED <<flags, caller, control, switches>>

WorkerTest(c) ==
    /\ \/ Worker(c, "loop", IF stopFlag[c] THEN "final" ELSE "test")
       \/ Worker(c, "test", IF stopFlag[c] \/ msgs[c] # <<>> THEN "drain" ELSE "falling")
       \/ Worker(c, "falling", "asleep")
       \/ msgs[c] = <<>> /\ Worker(c, "drain", "loop")
    /\ UNCHANGED <<msgs, hand, logFiles, sentOut>>
    /\ WorkerOnly

WorkerTakes(c) ==
    /\ msgs[c] # <<>> /\ Worker(c, "drain", "write")
    /\ hand' = [hand EXCEPT ![c] = <<Head(msgs[c])>>]
    /\ msgs' = [msgs EXCEPT ![c] = Tail(@)]
    /\ UNCHANGED <<logFiles, sentOut>>
    /\ WorkerOnly

WorkerWrites(c) ==
    /\ Worker(c, "write", "drain")
    /\ Deliver(c, hand[c][1].line)
    /\ hand' = [hand EXCEPT ![c] = <<>>]
    /\ UNCHANGED msgs
    /\ WorkerOnly

(* Mutant: the worker ends without a last look at its queue.                *)
EndWithoutDrain(c) ==
    /\ Worker(c, "final", "none")
    /\ UNCHANGED <<msgs, hand, logFiles, sentOut>>
    /\ WorkerOnly

(* Mutant: a line is written and not popped.                            *)
DrainKeepsFront(c) ==
    /\ lworker[c] = "final" /\ msgs[c] # <<>>
    /\ Deliver(c, Head(msgs[c]).line)
    /\ lworker' = [lworker EXCEPT ![c] = "drain"]
    /\ UNCHANGED <<msgs, hand>>
    /\ WorkerOnly

FinalDrain(c) ==
    /\ lworker[c] = "final"
    /\ IF msgs[c] = <<>>
       THEN /\ lworker' = [lworker EXCEPT ![c] = "none"]
            /\ UNCHANGED <<msgs, logFiles, sentOut>>
       ELSE /\ Deliver(c, Head(msgs[c]).line)
            /\ msgs' = [msgs EXCEPT ![c] = Tail(@)]
            /\ UNCHANGED lworker
    /\ UNCHANGED hand
    /\ WorkerOnly

-----------------------------------------------------------------------------
(* Configuration, one call at a time: each holds configMutex_ throughout.   *)

(* enableAsyncLogging(true), enableRealTimeStreaming(true)                  *)
Enable(c) ==
    /\ control = <<"out">> /\ switches < MaxSwitches
    /\ ~enabled[c] /\ ~started[c]
    /\ enabled' = [enabled EXCEPT ![c] = TRUE]
    /\ started' = [started EXCEPT ![c] = TRUE]
    /\ stopFlag' = [stopFlag EXCEPT ![c] = FALSE]
    /\ lworker' = [lworker EXCEPT ![c] = "loop"]
    /\ switches' = switches + 1
    /\ UNCHANGED <<msgs, hand, caller, control, logFiles, sentOut>>

(* The flag of config_, then the stop flag, the notification, the join; the *)
(* calls that are left to make follow in control.                           *)
StopWorker(c, then) ==
    /\ enabled[c] /\ started[c]
    /\ enabled' = [enabled EXCEPT ![c] = FALSE]
    /\ stopFlag' = [stopFlag EXCEPT ![c] = TRUE]
    /\ lworker' = [lworker EXCEPT ![c] = IF @ = "asleep" THEN "test" ELSE @]
    /\ control' = <<"join", c>> \o then
    /\ UNCHANGED <<started, msgs, hand, caller, logFiles, sentOut>>

Disable(c) ==
    /\ control = <<"out">> /\ switches < MaxSwitches
    /\ StopWorker(c, <<"out">>)
    /\ switches' = switches + 1

Join ==
    /\ control[1] = "join" /\ lworker[control[2]] = "none"
    /\ started' = [started EXCEPT ![control[2]] = FALSE]
    /\ control' = Tail(Tail(control))
    /\ UNCHANGED <<enabled, stopFlag, msgs, lworker, hand, caller, switches, logFiles, sentOut>>

(* shutdown(): a worker whose flag configure() has cleared is not stopped.  *)
Shutdown ==
    /\ control = <<"out">> /\ switches < MaxSwitches
    /\ control' = <<"async", "stream", "close">> /\ switches' = switches + 1
    /\ UNCHANGED <<flags, msgs, lworker, hand, caller, logFiles, sentOut>>

ShutdownChannel ==
    /\ control[1] \in Channel
    /\ LET c == control[1]
       IN  IF enabled[c] /\ started[c]
           THEN StopWorker(c, Tail(control))
           ELSE /\ control' = Tail(control)
                /\ UNCHANGED <<flags, msgs, lworker, hand, caller, logFiles, sentOut>>
    /\ UNCHANGED switches

CloseFile ==
    /\ control[1] = "close"
    /\ control' = <<"ended">> /\ fileOpen' = FALSE
    /\ UNCHANGED <<flags, msgs, lworker, hand, caller, switches, file, backups, archived,
                   written, sentOut>>

(* configure() while running: the flags change, workers only start.         *)
configure(on) ==
    /\ control = <<"out">> /\ switches < MaxSwitches
    /\ switches' = switches + 1 /\ enabled' = on
    /\ fileOpen' = TRUE
    /\ LET starts == on["stream"] /\ ~started["stream"]
       IN  /\ started' = [started EXCEPT !["stream"] = @ \/ starts]
           /\ stopFlag' = [stopFlag EXCEPT !["stream"] = @ /\ ~starts]
           /\ lworker' = [lworker EXCEPT !["stream"] = IF starts THEN "loop" ELSE @]
    /\ UNCHANGED <<msgs, hand, caller, control, file, backups, archived, written, sentOut>>

CallerStep(t) == writeLog(t) \/ CallerWrites(t) \/ writeLogAsync(t) \/ StreamLog(t) \/ pushStreaming(t)
WorkerStep(c) == WorkerTest(c) \/ WorkerTakes(c) \/ WorkerWrites(c) \/ FinalDrain(c)
ControlStep == Join \/ ShutdownChannel \/ CloseFile

LNext ==
    \/ \E t \in Thread : CallerStep(t) \/ \E l \in Level, j \in Job : logForJob(t, l, j)
    \/ \E c \in Channel : WorkerStep(c) \/ Enable(c) \/ Disable(c)
    \/ ControlStep \/ Shutdown \/ archiveOldLogs
    \/ \E on \in [Channel -> BOOLEAN] : configure(on)

LFairness ==
    /\ \A c \in Channel : WF_lvars(WorkerStep(c))
    /\ \A t \in Thread : WF_lvars(CallerStep(t))
    /\ WF_lvars(ControlStep)

LSpec == LInit /\ [][LNext]_lvars /\ LFairness

-----------------------------------------------------------------------------
(* What the streaming worker has given to the WebSocket manager, holds and  *)
(* has left to take, in this order.                                         *)
Lines(s) == [i \in DOMAIN s |-> s[i].line]
Streamed == sentOut \o Lines(hand["stream"]) \o Lines(msgs["stream"])

(* The lines of a job's thread reach the WebSocket clients at most once and *)
(* in the order of the calls, across stops, starts and full queues.         *)
StreamedInOrder ==
    \A i, j \in DOMAIN Streamed :
        i < j /\ Streamed[i].by = Streamed[j].by => Streamed[i].n < Streamed[j].n

(* No line is written to the log file twice, by a caller and the worker or  *)
(* by the worker and its last drain.                                       *)
WrittenOnce ==
    \A i, j \in DOMAIN written : i # j => written[i] # written[j]

(* When a worker has ended, its queue holds nothing that was pushed before  *)
(* it was told to stop: only calls that had read the flag before that.      *)
DrainedAtStop ==
    \A c \in Channel :
        stopFlag[c] /\ lworker[c] = "none" => \A i \in DOMAIN msgs[c] : msgs[c][i].late

(* The backups, from the last to the first.                                *)
Parts(b) ==
    [k \in 1..maxBackupFiles |->
        IF maxBackupFiles + 1 - k \in DOMAIN b THEN b[maxBackupFiles + 1 - k] ELSE <<>>]

(* Their lines, and those of the file.                                     *)
Retained == FlattenSeq(Parts(backups)) \o file

(* The backups from the last to the first and the file hold the lines in    *)
(* the order they were written, and rotation loses none while there is room *)
(* for another backup.                                                     *)
RotationKeepsOrder ==
    /\ \A i, j \in DOMAIN Retained : i < j =>
           \E a, b \in DOMAIN written : a < b /\ written[a] = Retained[i] /\ written[b] = Retained[j]
    /\ archived.times = 0 /\ DOMAIN backups # 1..maxBackupFiles => Retained = written

(* enableAsyncLogging(false) and shutdown() return.                         *)
DisableReturns == control[1] = "join" ~> control[1] # "join"
=============================================================================
