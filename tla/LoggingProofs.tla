---------------------------- MODULE LoggingProofs ----------------------------
(***************************************************************************)
(* What the logger and the aggregator promise when a worker is stopped, the *)
(* order in which clients, log files, backups and destinations get the      *)
(* lines, and what a log file and its backup hold of what was accepted.     *)
(***************************************************************************)
EXTENDS Logger, LogAggregator, LogFileManager, QueueFilterProofs

-----------------------------------------------------------------------------
(* The logger.                                                             *)

LgLine == [by : Thread, n : Nat, level : Level, job : Job]
Msg == [line : LgLine, late : BOOLEAN]
Pc == {"idle", "writeLog", "async", "sync", "stream", "push"}
Place == {"none", "loop", "test", "falling", "asleep", "drain", "write", "final"}

(* The types of what the callers and the workers share; a worker holds a    *)
(* message exactly while it writes it, and a caller inside a call holds the *)
(* line of that call.                                                       *)
LTypes ==
    /\ started \in [Channel -> BOOLEAN] /\ stopFlag \in [Channel -> BOOLEAN]
    /\ enabled \in [Channel -> BOOLEAN]
    /\ lworker \in [Channel -> Place]
    /\ msgs \in [Channel -> Seq(Msg)]
    /\ hand \in [Channel -> Seq(Msg)]
    /\ \A c \in Channel : /\ Len(hand[c]) = IF lworker[c] = "write" THEN 1 ELSE 0
                          /\ ~started[c] => lworker[c] = "none"
    /\ caller \in [Thread -> [pc : Pc, n : Nat, line : LgLine \cup {<<>>}]]
    /\ \A t \in Thread : caller[t].pc # "idle" =>
          caller[t].line \in LgLine /\ caller[t].line.by = t /\ caller[t].line.n = caller[t].n
    /\ sentOut \in Seq(LgLine)

(* A worker ends only after it saw the stop flag, which stays set until a   *)
(* worker is started again; what comes into the queue of a worker that has  *)
(* ended is late.                                                           *)
Stopping ==
    /\ DrainedAtStop
    /\ \A c \in Channel :
          /\ lworker[c] = "final" => stopFlag[c]
          /\ started[c] /\ lworker[c] = "none" => stopFlag[c]

-----------------------------------------------------------------------------
(* The types of the logger are kept.                                       *)

(* What a caller does concerns its own record.                              *)
LEMMA GotoType ==
    ASSUME LTypes, NEW t \in Thread, NEW pc \in Pc, Goto(t, pc), pc = "idle" \/ caller[t].pc # "idle"
    PROVE  /\ caller' \in [Thread -> [pc : Pc, n : Nat, line : LgLine \cup {<<>>}]]
           /\ \A u \in Thread : caller'[u].n = caller[u].n /\ caller'[u].line = caller[u].line
           /\ \A u \in Thread : u # t => caller'[u] = caller[u]
           /\ caller'[t].pc = pc
           /\ \A u \in Thread : caller'[u].pc # "idle" =>
                caller'[u].line \in LgLine /\ caller'[u].line.by = u /\ caller'[u].line.n = caller'[u].n
<1> DEFINE r == [caller[t] EXCEPT !.pc = pc]
<1>1. caller[t] \in [pc : Pc, n : Nat, line : LgLine \cup {<<>>}]
  BY DEF LTypes
<1>2. r \in [pc : Pc, n : Nat, line : LgLine \cup {<<>>}]
      /\ r.pc = pc /\ r.n = caller[t].n /\ r.line = caller[t].line
  BY <1>1
<1>3. caller' = [caller EXCEPT ![t] = r]
  BY DEF Goto
<1> HIDE DEF r
<1>4. caller'[t] = r /\ \A u \in Thread : u # t => caller'[u] = caller[u]
  BY <1>3 DEF LTypes
<1> QED BY <1>2, <1>3, <1>4 DEF LTypes

(* A message given to the file or to the clients.                           *)
LEMMA DeliverType ==
    ASSUME LTypes, NEW c \in Channel, NEW line \in LgLine, Deliver(c, line)
    PROVE  /\ sentOut' \in Seq(LgLine)
           /\ c = "async" => UNCHANGED sentOut
           /\ c = "stream" => sentOut' = Append(sentOut, line)
<1>1. CASE c = "async"
  <2>1. UNCHANGED sentOut
    BY <1>1 DEF Deliver, writeLogSync
  <2> QED BY <1>1, <2>1 DEF LTypes
<1>2. CASE c = "stream"
  <2>1. sentOut' = Append(sentOut, line)
    BY <1>2 DEF Deliver, broadcastLogMessage
  <2> QED BY <1>2, <2>1 DEF LTypes
<1> QED BY <1>1, <1>2 DEF Channel

(* The types of the logger before it is configured.                         *)
LEMMA LTypesInit == LInit => LTypes
<1> SUFFICES ASSUME LInit PROVE LTypes
  OBVIOUS
<1>1. Idle \in [pc : Pc, n : Nat, line : LgLine \cup {<<>>}] /\ Idle.pc = "idle"
  BY DEF Idle, Pc
<1>2. caller \in [Thread -> [pc : Pc, n : Nat, line : LgLine \cup {<<>>}]]
      /\ \A t \in Thread : caller[t].pc = "idle"
  <2> HIDE DEF Idle
  <2> QED BY <1>1 DEF LInit
<1>3. /\ lworker \in [Channel -> Place]
      /\ \A c \in Channel : lworker[c] # "write" /\ (~started[c] => lworker[c] = "none")
  BY DEF LInit, Place
<1>4. hand \in [Channel -> Seq(Msg)] /\ \A c \in Channel : Len(hand[c]) = 0
  BY DEF LInit
<1>5. msgs \in [Channel -> Seq(Msg)] /\ sentOut \in Seq(LgLine)
  BY DEF LInit
<1>6. started \in [Channel -> BOOLEAN] /\ stopFlag \in [Channel -> BOOLEAN] /\ enabled \in [Channel -> BOOLEAN]
  BY DEF LInit
<1> QED BY <1>2, <1>3, <1>4, <1>5, <1>6 DEF LTypes

(* Every step of the logger keeps the types.                                *)
LEMMA LTypesStep == LTypes /\ [LNext]_lvars => LTypes'
<1> SUFFICES ASSUME LTypes, [LNext]_lvars PROVE LTypes'
  OBVIOUS
<1>1. ASSUME UNCHANGED <<msgs, lworker, hand, sentOut, started, stopFlag, enabled>>,
             caller' \in [Thread -> [pc : Pc, n : Nat, line : LgLine \cup {<<>>}]],
             \A u \in Thread : caller'[u].pc # "idle" =>
                caller'[u].line \in LgLine /\ caller'[u].line.by = u /\ caller'[u].line.n = caller'[u].n
      PROVE  LTypes'
  BY <1>1 DEF LTypes
<1>2. ASSUME NEW t \in Thread, CallerStep(t) PROVE LTypes'
  <2>1. CASE writeLog(t)
    <3>1. PICK pc \in Pc : Goto(t, pc)
      BY <2>1 DEF writeLog, Pc
    <3> QED BY <1>1, <2>1, <3>1, GotoType DEF writeLog, flags, logFiles
  <2>2. CASE CallerWrites(t)
    <3>1. Goto(t, "stream") /\ UNCHANGED sentOut /\ "stream" \in Pc
      BY <2>2 DEF CallerWrites, writeLogSync, Pc, logFiles
    <3> QED BY <1>1, <2>2, <3>1, GotoType DEF CallerWrites, flags
  <2>3. CASE StreamLog(t)
    <3>1. PICK pc \in Pc : Goto(t, pc)
      BY <2>3 DEF StreamLog, Pc
    <3> QED BY <1>1, <2>3, <3>1, GotoType DEF StreamLog, flags, logFiles
  <2>4. ASSUME NEW c \in Channel, NEW pc \in Pc, NEW next \in Pc, NEW full, pc # "idle", Push(t, c, pc, next, full)
        PROVE  LTypes'
    <3>1. Goto(t, next) /\ caller[t].pc # "idle" /\ UNCHANGED <<flags, hand, sentOut>>
      BY <2>4 DEF Push
    <3>2. caller[t].line \in LgLine
      BY <3>1 DEF LTypes
    <3>3. /\ lworker' \in [Channel -> Place]
          /\ \A d \in Channel : /\ lworker'[d] = "write" <=> lworker[d] = "write"
                                /\ lworker[d] = "none" => lworker'[d] = "none"
      BY <2>4 DEF Push, LTypes, Place
    <3>4. msgs' \in [Channel -> Seq(Msg)]
      <4> DEFINE m == [line |-> caller[t].line, late |-> stopFlag[c]]
      <4>1. m \in Msg
        BY <3>2 DEF Msg, LTypes
      <4>2. msgs' = msgs \/ msgs' = [msgs EXCEPT ![c] = Append(msgs[c], m)]
        BY <2>4 DEF Push
      <4> HIDE DEF m
      <4>3. Append(msgs[c], m) \in Seq(Msg)
        BY <4>1 DEF LTypes
      <4> HIDE DEF Msg
      <4> QED BY <4>2, <4>3 DEF LTypes
    <3> QED BY <3>1, <3>3, <3>4, GotoType DEF LTypes, flags
  <2>5. CASE writeLogAsync(t)
    BY <2>4, <2>5 DEF writeLogAsync, Channel, Pc
  <2>6. CASE pushStreaming(t)
    BY <2>4, <2>6 DEF pushStreaming, Channel, Pc
  <2> QED BY <1>2, <2>1, <2>2, <2>3, <2>5, <2>6 DEF CallerStep
<1>3. ASSUME NEW t \in Thread, NEW l \in Level, NEW j \in Job, logForJob(t, l, j) PROVE LTypes'
  <2> DEFINE r == [pc |-> IF shouldLog(l) THEN "writeLog" ELSE "stream", n |-> caller[t].n + 1,
                   line |-> formatMessage(t, caller[t].n + 1, l, j)]
  <2>1. caller' = [caller EXCEPT ![t] = r]
    BY <1>3 DEF logForJob
  <2>2. r.line \in LgLine /\ r.line.by = t /\ r.line.n = r.n /\ r \in [pc : Pc, n : Nat, line : LgLine \cup {<<>>}]
    BY DEF LTypes, formatMessage, LgLine, Pc
  <2> HIDE DEF r
  <2>3. caller'[t] = r /\ \A u \in Thread : u # t => caller'[u] = caller[u]
    BY <2>1 DEF LTypes
  <2>4. caller' \in [Thread -> [pc : Pc, n : Nat, line : LgLine \cup {<<>>}]]
    BY <2>1, <2>2 DEF LTypes
  <2>5. \A u \in Thread : caller'[u].pc # "idle" =>
                caller'[u].line \in LgLine /\ caller'[u].line.by = u /\ caller'[u].line.n = caller'[u].n
    <3> TAKE u \in Thread
    <3>1. CASE u = t
      BY <2>2, <2>3, <3>1
    <3>2. CASE u # t
      BY <2>3, <3>2 DEF LTypes
    <3> QED BY <3>1, <3>2
  <2> QED BY <1>1, <1>3, <2>4, <2>5 DEF logForJob, flags, logFiles
<1>4. ASSUME NEW c \in Channel, WorkerStep(c) PROVE LTypes'
  <2>0. UNCHANGED <<enabled, started, stopFlag, caller>>
    BY <1>4 DEF WorkerStep, WorkerTest, WorkerTakes, WorkerWrites, FinalDrain, WorkerOnly, flags
  <2>1. CASE WorkerTest(c)
    <3>1. UNCHANGED <<msgs, hand, sentOut>>
      BY <2>1 DEF WorkerTest
    <3>2. /\ lworker' \in [Channel -> Place]
          /\ \A d \in Channel : /\ lworker'[d] = "write" <=> lworker[d] = "write"
                                /\ lworker[d] = "none" => lworker'[d] = "none"
      <4>1. \E to \in Place \ {"write", "none"} :
               lworker' = [lworker EXCEPT ![c] = to] /\ lworker[c] \notin {"none", "write"}
        BY <2>1 DEF WorkerTest, Worker, Place
      <4> QED BY <4>1 DEF LTypes
    <3> QED BY <2>0, <3>1, <3>2 DEF LTypes
  <2>2. CASE WorkerTakes(c)
    <3>1. /\ msgs[c] \in Seq(Msg) /\ msgs[c] # <<>> /\ lworker[c] = "drain"
          /\ lworker' = [lworker EXCEPT ![c] = "write"]
          /\ hand' = [hand EXCEPT ![c] = <<Head(msgs[c])>>]
          /\ msgs' = [msgs EXCEPT ![c] = Tail(msgs[c])] /\ UNCHANGED sentOut
      BY <2>2 DEF WorkerTakes, Worker, LTypes
    <3>2. Tail(msgs[c]) \in Seq(Msg) /\ <<Head(msgs[c])>> \in Seq(Msg) /\ Len(<<Head(msgs[c])>>) = 1
      BY <3>1
    <3>3. msgs' \in [Channel -> Seq(Msg)] /\ hand' \in [Channel -> Seq(Msg)] /\ lworker' \in [Channel -> Place]
      BY <3>1, <3>2 DEF LTypes, Place
    <3>4. \A d \in Channel : /\ Len(hand'[d]) = IF lworker'[d] = "write" THEN 1 ELSE 0
                             /\ ~started[d] => lworker'[d] = "none"
      BY <3>1, <3>2 DEF LTypes
    <3> QED BY <2>0, <3>1, <3>3, <3>4 DEF LTypes
  <2>3. CASE WorkerWrites(c)
    <3>1. /\ lworker[c] = "write" /\ lworker' = [lworker EXCEPT ![c] = "drain"]
          /\ hand' = [hand EXCEPT ![c] = <<>>] /\ UNCHANGED msgs
          /\ Deliver(c, hand[c][1].line)
      BY <2>3 DEF WorkerWrites, Worker
    <3>2. hand[c] \in Seq(Msg) /\ Len(hand[c]) = 1
      BY <3>1 DEF LTypes
    <3>3. hand[c][1].line \in LgLine
      <4>1. hand[c][1] \in Msg
        BY <3>2
      <4> QED BY <4>1 DEF Msg
    <3>4. sentOut' \in Seq(LgLine)
      BY <3>1, <3>3, DeliverType
    <3>5. hand' \in [Channel -> Seq(Msg)] /\ lworker' \in [Channel -> Place]
      BY <3>1 DEF LTypes, Place
    <3>6. \A d \in Channel : /\ Len(hand'[d]) = IF lworker'[d] = "write" THEN 1 ELSE 0
                             /\ ~started[d] => lworker'[d] = "none"
      BY <3>1 DEF LTypes
    <3> QED BY <2>0, <3>1, <3>4, <3>5, <3>6 DEF LTypes
  <2>4. CASE FinalDrain(c)
    <3>1. lworker[c] = "final" /\ UNCHANGED hand /\ msgs[c] \in Seq(Msg)
      BY <2>4 DEF FinalDrain, LTypes
    <3>2. CASE msgs[c] = <<>>
      <4>1. lworker' = [lworker EXCEPT ![c] = "none"] /\ UNCHANGED <<msgs, sentOut>>
        BY <2>4, <3>2 DEF FinalDrain
      <4>2. /\ lworker' \in [Channel -> Place]
            /\ \A d \in Channel : /\ lworker'[d] = "write" <=> lworker[d] = "write"
                                  /\ lworker[d] = "none" => lworker'[d] = "none"
        BY <3>1, <4>1 DEF LTypes, Place
      <4> QED BY <2>0, <3>1, <4>1, <4>2 DEF LTypes
    <3>3. CASE msgs[c] # <<>>
      <4>1. /\ UNCHANGED lworker /\ msgs' = [msgs EXCEPT ![c] = Tail(msgs[c])]
            /\ Deliver(c, Head(msgs[c]).line)
        BY <2>4, <3>3 DEF FinalDrain
      <4>2. Tail(msgs[c]) \in Seq(Msg) /\ Head(msgs[c]) \in Msg
        BY <3>1, <3>3
      <4>3. Head(msgs[c]).line \in LgLine
        BY <4>2 DEF Msg
      <4>4. sentOut' \in Seq(LgLine)
        BY <4>1, <4>3, DeliverType
      <4>5. msgs' \in [Channel -> Seq(Msg)]
        BY <4>1, <4>2 DEF LTypes
      <4> QED BY <2>0, <3>1, <4>1, <4>4, <4>5 DEF LTypes
    <3> QED BY <3>2, <3>3
  <2> QED BY <1>4, <2>1, <2>2, <2>3, <2>4 DEF WorkerStep
<1>5. ASSUME UNCHANGED <<msgs, hand, caller, sentOut>>,
             enabled' \in [Channel -> BOOLEAN], started' \in [Channel -> BOOLEAN],
             stopFlag' \in [Channel -> BOOLEAN], lworker' \in [Channel -> Place],
             \A d \in Channel : /\ lworker'[d] = "write" <=> lworker[d] = "write"
                                /\ ~started'[d] => lworker'[d] = "none"
      PROVE  LTypes'
  BY <1>5 DEF LTypes
<1>6. ASSUME NEW c \in Channel, NEW then, StopWorker(c, then) PROVE LTypes'
  BY <1>5, <1>6 DEF StopWorker, LTypes, Place, logFiles
<1>7. ASSUME NEW c \in Channel, Enable(c) PROVE LTypes'
  BY <1>5, <1>7 DEF Enable, LTypes, Place, logFiles
<1>8. CASE ControlStep
  <2>1. CASE Join
    BY <1>5, <2>1 DEF Join, LTypes, logFiles
  <2>2. CASE ShutdownChannel
    <3>1. UNCHANGED <<flags, msgs, lworker, hand, caller, logFiles, sentOut>> => LTypes'
      BY DEF LTypes, flags
    <3> QED BY <1>6, <2>2, <3>1 DEF ShutdownChannel
  <2>3. CASE CloseFile
    BY <2>3 DEF CloseFile, LTypes, flags
  <2> QED BY <1>8, <2>1, <2>2, <2>3 DEF ControlStep
<1>9. ASSUME NEW on \in [Channel -> BOOLEAN], configure(on) PROVE LTypes'
  <2>1. UNCHANGED <<msgs, hand, caller, sentOut>> /\ enabled' \in [Channel -> BOOLEAN]
    BY <1>9 DEF configure
  <2>2. started' \in [Channel -> BOOLEAN] /\ stopFlag' \in [Channel -> BOOLEAN]
    BY <1>9 DEF configure, LTypes
  <2>3. /\ lworker' \in [Channel -> Place]
        /\ \A d \in Channel : /\ lworker'[d] = "write" <=> lworker[d] = "write"
                              /\ ~started'[d] => lworker'[d] = "none"
    BY <1>9 DEF configure, LTypes, Place, Channel
  <2> QED BY <1>5, <2>1, <2>2, <2>3
<1>10. ASSUME UNCHANGED <<flags, msgs, lworker, hand, caller, sentOut>> PROVE LTypes'
  BY <1>10 DEF LTypes, flags
<1>11. Shutdown \/ archiveOldLogs \/ UNCHANGED lvars => LTypes'
  BY <1>10 DEF Shutdown, archiveOldLogs, lvars
<1>12. ASSUME NEW c \in Channel, Disable(c) PROVE LTypes'
  BY <1>6, <1>12 DEF Disable
<1> QED BY <1>2, <1>3, <1>4, <1>7, <1>8, <1>9, <1>11, <1>12 DEF LNext

(* Every step of the logger keeps what a stopping worker has left to do.    *)
LEMMA StoppingStep == LTypes /\ Stopping /\ [LNext]_lvars => Stopping'
<1> SUFFICES ASSUME LTypes, Stopping, [LNext]_lvars PROVE Stopping'
  OBVIOUS
<1>1. UNCHANGED <<started, stopFlag, lworker, msgs>> => Stopping'
  BY DEF Stopping, DrainedAtStop
<1>2. ASSUME NEW t \in Thread, CallerStep(t) PROVE Stopping'
  <2>1. ASSUME NEW c \in Channel, NEW pc, NEW next, NEW full, Push(t, c, pc, next, full)
        PROVE  Stopping'
    <3>1. UNCHANGED <<started, stopFlag>> /\ lworker[c] # "final"
      BY <2>1 DEF Push, flags, QueueFree
    <3>2. CASE full
      BY <1>1, <2>1, <3>1, <3>2 DEF Push
    <3>3. CASE ~full
      <4> DEFINE m == [line |-> caller[t].line, late |-> stopFlag[c]]
      <4>1. /\ msgs' = [msgs EXCEPT ![c] = Append(msgs[c], m)]
            /\ lworker' = [lworker EXCEPT ![c] = IF lworker[c] = "asleep" THEN "test" ELSE lworker[c]]
        BY <2>1, <3>3 DEF Push
      <4>2. \A d \in Channel : /\ lworker'[d] = "none" <=> lworker[d] = "none"
                               /\ lworker'[d] = "final" <=> lworker[d] = "final"
        BY <4>1 DEF LTypes
      <4>3. m.late = stopFlag[c]
        OBVIOUS
      <4>4. msgs[c] \in Seq(Msg)
        BY DEF LTypes
      <4> HIDE DEF m
      <4>5. ASSUME NEW d \in Channel, stopFlag[d], lworker'[d] = "none", NEW i \in DOMAIN msgs'[d]
            PROVE  msgs'[d][i].late
        <5>1. CASE d = c
          <6>1. msgs'[d] = Append(msgs[c], m)
            BY <4>1, <5>1 DEF LTypes
          <6>2. (i \in DOMAIN msgs[c] /\ msgs'[d][i] = msgs[c][i]) \/ msgs'[d][i] = m
            BY <4>4, <4>5, <6>1
          <6>3. CASE i \in DOMAIN msgs[c] /\ msgs'[d][i] = msgs[c][i]
            BY <4>2, <4>5, <5>1, <6>3 DEF Stopping, DrainedAtStop
          <6>4. CASE msgs'[d][i] = m
            BY <4>3, <4>5, <5>1, <6>4
          <6> QED BY <6>2, <6>3, <6>4
        <5>2. CASE d # c
          BY <4>1, <4>2, <4>5, <5>2 DEF Stopping, DrainedAtStop, LTypes
        <5> QED BY <5>1, <5>2
      <4>6. DrainedAtStop'
        BY <3>1, <4>5 DEF DrainedAtStop
      <4> QED BY <3>1, <4>2, <4>6 DEF Stopping
    <3> QED BY <3>2, <3>3
  <2>2. writeLog(t) \/ CallerWrites(t) \/ StreamLog(t) => Stopping'
    BY <1>1 DEF writeLog, CallerWrites, StreamLog, flags
  <2>3. writeLogAsync(t) \/ pushStreaming(t) => Stopping'
    BY <2>1 DEF writeLogAsync, pushStreaming, Channel
  <2> QED BY <1>2, <2>2, <2>3 DEF CallerStep
<1>3. ASSUME NEW c \in Channel, WorkerStep(c) PROVE Stopping'
  <2>0. UNCHANGED <<started, stopFlag>>
    BY <1>3 DEF WorkerStep, WorkerTest, WorkerTakes, WorkerWrites, FinalDrain, WorkerOnly, flags
  <2>1. ASSUME NEW to \in Place \ {"none"}, lworker' = [lworker EXCEPT ![c] = to],
               to = "final" => stopFlag[c], \A d \in Channel \ {c} : msgs'[d] = msgs[d]
        PROVE  Stopping'
    BY <2>0, <2>1 DEF Stopping, DrainedAtStop, LTypes
  <2>2. CASE WorkerTest(c)
    <3>1. UNCHANGED msgs
      BY <2>2 DEF WorkerTest
    <3>2. \E to \in Place \ {"none"} : lworker' = [lworker EXCEPT ![c] = to] /\ (to = "final" => stopFlag[c])
      BY <2>2 DEF WorkerTest, Worker, Place
    <3> QED BY <2>1, <3>1, <3>2
  <2>3. CASE WorkerTakes(c)
    BY <2>1, <2>3 DEF WorkerTakes, Worker, LTypes, Place
  <2>4. CASE WorkerWrites(c)
    BY <2>1, <2>4 DEF WorkerWrites, Worker, LTypes, Place
  <2>5. CASE FinalDrain(c)
    <3>1. CASE msgs[c] = <<>>
      <4>1. UNCHANGED msgs /\ lworker' = [lworker EXCEPT ![c] = "none"] /\ lworker[c] = "final"
        BY <2>5, <3>1 DEF FinalDrain
      <4>2. stopFlag[c] /\ DOMAIN msgs[c] = {}
        BY <3>1, <4>1 DEF Stopping
      <4> QED BY <2>0, <4>1, <4>2 DEF Stopping, DrainedAtStop, LTypes
    <3>2. CASE msgs[c] # <<>>
      <4>1. msgs' = [msgs EXCEPT ![c] = Tail(msgs[c])] /\ UNCHANGED lworker /\ lworker[c] = "final"
        BY <2>5, <3>2 DEF FinalDrain
      <4> QED BY <2>0, <4>1 DEF Stopping, DrainedAtStop, LTypes
    <3> QED BY <3>1, <3>2
  <2> QED BY <1>3, <2>2, <2>3, <2>4, <2>5 DEF WorkerStep
<1>4. ASSUME NEW c \in Channel, Enable(c) PROVE Stopping'
  BY <1>4 DEF Enable, Stopping, DrainedAtStop, LTypes
<1>5. ASSUME NEW c \in Channel, NEW then, StopWorker(c, then) PROVE Stopping'
  <2>1. /\ started[c] /\ UNCHANGED <<started, msgs>>
        /\ stopFlag' = [stopFlag EXCEPT ![c] = TRUE]
        /\ lworker' = [lworker EXCEPT ![c] = IF lworker[c] = "asleep" THEN "test" ELSE lworker[c]]
    BY <1>5 DEF StopWorker
  <2>2. \A d \in Channel : /\ lworker'[d] = "none" <=> lworker[d] = "none"
                           /\ lworker'[d] = "final" <=> lworker[d] = "final"
                           /\ stopFlag[d] => stopFlag'[d]
                           /\ d # c => stopFlag'[d] = stopFlag[d]
    BY <2>1 DEF LTypes
  <2> QED BY <2>1, <2>2 DEF Stopping, DrainedAtStop
<1>6. ASSUME Join PROVE Stopping'
  BY <1>6 DEF Join, Stopping, DrainedAtStop, LTypes
<1>7. CASE ControlStep
  BY <1>1, <1>5, <1>6, <1>7 DEF ControlStep, ShutdownChannel, CloseFile, flags
<1>8. ASSUME NEW on \in [Channel -> BOOLEAN], configure(on) PROVE Stopping'
  <2>1. CASE on["stream"] /\ ~started["stream"]
    BY <1>8, <2>1 DEF configure, Stopping, DrainedAtStop, LTypes, Channel
  <2>2. CASE ~(on["stream"] /\ ~started["stream"])
    <3>1. \A c \in Channel : started'[c] = started[c] /\ stopFlag'[c] = stopFlag[c] /\ lworker'[c] = lworker[c]
      BY <1>8, <2>2 DEF configure, LTypes, Channel
    <3> QED BY <1>8, <3>1 DEF configure, Stopping, DrainedAtStop
  <2> QED BY <2>1, <2>2
<1>9. Shutdown \/ archiveOldLogs \/ UNCHANGED lvars => Stopping'
  BY <1>1 DEF Shutdown, archiveOldLogs, lvars, flags
<1>10. ASSUME NEW t \in Thread, NEW l \in Level, NEW j \in Job, logForJob(t, l, j) PROVE Stopping'
  BY <1>1, <1>10 DEF logForJob, flags
<1> QED BY <1>2, <1>3, <1>4, <1>5, <1>7, <1>8, <1>9, <1>10 DEF LNext, Disable

(* At the start no worker has ended that was started.                      *)
LEMMA StoppingInit == LInit => Stopping
BY DEF LInit, Stopping, DrainedAtStop

(* When a worker of the logger has ended because it was told to, all its    *)
(* queue still holds was pushed after that (disableAsyncLogging, the stop   *)
(* of streaming and shutdown, with any number of callers and any bounds).   *)
THEOREM WorkersDrain == LSpec => []DrainedAtStop
<1>1. LInit => LTypes /\ Stopping
  BY LTypesInit, StoppingInit
<1>2. LTypes /\ Stopping /\ [LNext]_lvars => (LTypes /\ Stopping)'
  BY LTypesStep, StoppingStep
<1>3. Stopping => DrainedAtStop
  BY DEF Stopping
<1> QED BY <1>1, <1>2, <1>3, PTL DEF LSpec

-----------------------------------------------------------------------------
(* The order of what is streamed.                                          *)

(* The streamed lines are in order, and none is ahead of its thread.        *)
Streaming ==
    /\ StreamedInOrder
    /\ \A i \in DOMAIN Streamed : LET x == Streamed[i] IN
          /\ x.by \in Thread /\ x.n <= caller[x.by].n
          /\ caller[x.by].pc # "idle" => x.n < caller[x.by].n

(* A sequence of one element joined at the end is appended.                 *)
LEMMA JoinOne ==
    ASSUME NEW S, NEW s \in Seq(S), NEW a \in Seq(S), Len(a) = 1
    PROVE  s \o a = Append(s, a[1])
<1>1. a[1] \in S
  OBVIOUS
<1>2. s \o a \in Seq(S) /\ Append(s, a[1]) \in Seq(S)
      /\ Len(s \o a) = Len(s) + 1 /\ Len(Append(s, a[1])) = Len(s) + 1
  BY <1>1, ConcatProperties
<1>3. \A i \in 1..(Len(s) + 1) : (s \o a)[i] = Append(s, a[1])[i]
  <2> TAKE i \in 1..(Len(s) + 1)
  <2>1. CASE i = Len(s) + 1
    BY <2>1, ConcatProperties
  <2>2. CASE i # Len(s) + 1
    <3>1. i \in 1..Len(s)
      BY <2>2
    <3> QED BY <3>1, ConcatProperties
  <2> QED BY <2>1, <2>2
<1> QED BY <1>2, <1>3, SeqEqual

(* A sequence of one element joined in front of a rest.                     *)
LEMMA JoinAtFront ==
    ASSUME NEW S, NEW a \in Seq(S), NEW b \in Seq(S), NEW l \in Seq(S),
           Len(a) = 1, Len(l) = Len(b) + 1, a[1] = l[1], \A i \in 1..Len(b) : b[i] = l[i + 1]
    PROVE  a \o b = l
<1> DEFINE c == a \o b
<1>1. c \in Seq(S) /\ Len(c) = Len(a) + Len(b)
      /\ \A i \in 1..(Len(a) + Len(b)) : c[i] = IF i <= Len(a) THEN a[i] ELSE b[i - Len(a)]
  BY ONLY ConcatProperties, a \in Seq(S), b \in Seq(S)
<1> HIDE DEF c
<1>2. Len(c) = Len(l)
  BY <1>1
<1>3. \A i \in 1..Len(l) : c[i] = l[i]
  <2> TAKE i \in 1..Len(l)
  <2>1. CASE i = 1
    BY <1>1, <2>1
  <2>2. CASE i # 1
    <3>1. i - 1 \in 1..Len(b) /\ i \in 1..(Len(a) + Len(b)) /\ i > Len(a)
      BY <2>2
    <3>2. c[i] = b[i - 1]
      BY <1>1, <3>1
    <3>3. b[i - 1] = l[(i - 1) + 1]
      BY <3>1
    <3>4. (i - 1) + 1 = i
      OBVIOUS
    <3> QED BY <3>2, <3>3, <3>4
  <2> QED BY <2>1, <2>2
<1>4. c = l
  BY <1>1, <1>2, <1>3, SeqEqual
<1> QED BY <1>4 DEF c

(* The lines of messages are as many as the messages.                       *)
LEMMA LinesType ==
    ASSUME NEW q \in Seq(Msg)
    PROVE  Lines(q) \in Seq(LgLine) /\ Len(Lines(q)) = Len(q)
           /\ \A i \in 1..Len(q) : Lines(q)[i] = q[i].line
<1>1. \A i \in 1..Len(q) : q[i].line \in LgLine
  <2> TAKE i \in 1..Len(q)
  <2>1. q[i] \in Msg
    OBVIOUS
  <2> QED BY <2>1 DEF Msg
<1> HIDE DEF Msg
<1>2. Lines(q) = [i \in 1..Len(q) |-> q[i].line]
  BY DEF Lines
<1> QED BY <1>1, <1>2

(* The lines of one message.                                                *)
LEMMA LinesOne ==
    ASSUME NEW m \in Msg
    PROVE  Lines(<<m>>) \in Seq(LgLine) /\ Len(Lines(<<m>>)) = 1 /\ Lines(<<m>>)[1] = m.line
<1> HIDE DEF Msg
<1> DEFINE q == <<m>>
<1>1. q \in Seq(Msg) /\ Len(q) = 1 /\ q[1] = m
  OBVIOUS
<1> HIDE DEF q
<1>2. Lines(q) \in Seq(LgLine) /\ Len(Lines(q)) = 1 /\ Lines(q)[1] = m.line
  BY <1>1, LinesType
<1> QED BY <1>2 DEF q

(* No message, no line.                                                     *)
LEMMA LinesNone == Lines(<<>>) = <<>>
<1>1. <<>> \in Seq(Msg) /\ Len(<<>>) = 0
  OBVIOUS
<1>2. Lines(<<>>) \in Seq(LgLine) /\ Len(Lines(<<>>)) = 0
  BY <1>1, LinesType
<1> QED BY <1>2

(* Taking the first message leaves the same lines in the same order.        *)
LEMMA LinesTaken ==
    ASSUME NEW q \in Seq(Msg), q # <<>>
    PROVE  Lines(<<Head(q)>>) \o Lines(Tail(q)) = Lines(q)
<1> DEFINE t == Tail(q)
           h == Head(q)
           a == Lines(<<h>>)
           b == Lines(t)
           l == Lines(q)
<1>1. /\ t \in Seq(Msg) /\ h \in Msg /\ Len(q) > 0 /\ Len(t) = Len(q) - 1
      /\ h = q[1] /\ \A i \in 1..Len(t) : t[i] = q[i + 1]
  BY HeadTailProperties
<1>2. a \in Seq(LgLine) /\ Len(a) = 1 /\ a[1] = h.line
  BY <1>1, LinesOne
<1>3. b \in Seq(LgLine) /\ Len(b) = Len(t) /\ \A i \in 1..Len(t) : b[i] = t[i].line
  BY <1>1, LinesType
<1>4. l \in Seq(LgLine) /\ Len(l) = Len(q) /\ \A i \in 1..Len(q) : l[i] = q[i].line
  BY LinesType
<1> HIDE DEF t, h, a, b, l
<1>5. a[1] = l[1] /\ Len(l) = Len(b) + 1
  BY <1>1, <1>2, <1>3, <1>4
<1>6. \A i \in 1..Len(b) : b[i] = l[i + 1]
  <2> TAKE i \in 1..Len(b)
  <2>1. i \in 1..Len(t) /\ i + 1 \in 1..Len(q)
    BY <1>1, <1>3
  <2> QED BY <1>1, <1>3, <1>4, <2>1
<1>7. a \o b = l
  BY <1>2, <1>3, <1>4, <1>5, <1>6, JoinAtFront
<1> QED BY <1>7 DEF t, h, a, b, l

(* One more message, one more line.                                         *)
LEMMA LinesAppend ==
    ASSUME NEW q \in Seq(Msg), NEW m \in Msg
    PROVE  Lines(Append(q, m)) = Append(Lines(q), m.line)
<1> DEFINE p == Append(q, m)
           a == Lines(p)
           b == Lines(q)
           x == m.line
<1>1. x \in LgLine
  BY DEF Msg
<1>2. /\ p \in Seq(Msg) /\ Len(p) = Len(q) + 1
      /\ p[Len(q) + 1] = m /\ \A i \in 1..Len(q) : p[i] = q[i]
  OBVIOUS
<1>3. a \in Seq(LgLine) /\ Len(a) = Len(p) /\ \A i \in 1..Len(p) : a[i] = p[i].line
  BY <1>2, LinesType
<1>4. b \in Seq(LgLine) /\ Len(b) = Len(q) /\ \A i \in 1..Len(q) : b[i] = q[i].line
  BY LinesType
<1>5. x = m.line
  OBVIOUS
<1> HIDE DEF p, a, b, x
<1>6. a[Len(q) + 1] = x /\ \A i \in 1..Len(q) : a[i] = b[i]
  BY <1>2, <1>3, <1>4, <1>5
<1>7. Append(b, x) \in Seq(LgLine) /\ Len(Append(b, x)) = Len(a)
  BY <1>1, <1>2, <1>3, <1>4
<1>8. \A i \in 1..Len(a) : a[i] = Append(b, x)[i]
  BY <1>1, <1>2, <1>3, <1>4, <1>6
<1>9. a = Append(b, x)
  BY <1>3, <1>7, <1>8, SeqEqual
<1> QED BY <1>9 DEF p, a, b, x

(* Appending to the second part appends to the whole.                       *)
LEMMA JoinAppend ==
    ASSUME NEW S, NEW s \in Seq(S), NEW q \in Seq(S), NEW x \in S
    PROVE  s \o Append(q, x) = Append(s \o q, x)
<1>1. <<x>> \in Seq(S) /\ s \o q \in Seq(S)
  BY ConcatProperties
<1>2. Append(q, x) = q \o <<x>> /\ Append(s \o q, x) = (s \o q) \o <<x>>
  BY <1>1, AppendIsConcat
<1> QED BY <1>1, <1>2, ConcatAssociative

(* What the worker has given, holds and has left is a sequence of lines.    *)
LEMMA StreamedType ==
    ASSUME LTypes
    PROVE  /\ Lines(hand["stream"]) \in Seq(LgLine) /\ Lines(msgs["stream"]) \in Seq(LgLine)
           /\ sentOut \o Lines(hand["stream"]) \in Seq(LgLine)
           /\ Streamed \in Seq(LgLine)
<1>1. hand["stream"] \in Seq(Msg) /\ msgs["stream"] \in Seq(Msg) /\ sentOut \in Seq(LgLine)
  BY DEF LTypes, Channel
<1>2. Lines(hand["stream"]) \in Seq(LgLine) /\ Lines(msgs["stream"]) \in Seq(LgLine)
  BY <1>1, LinesType
<1>3. sentOut \o Lines(hand["stream"]) \in Seq(LgLine)
  BY <1>1, <1>2, ConcatProperties
<1>4. (sentOut \o Lines(hand["stream"])) \o Lines(msgs["stream"]) \in Seq(LgLine)
  BY <1>2, <1>3, ConcatProperties
<1> QED BY <1>2, <1>3, <1>4 DEF Streamed

(* A step that leaves the three parts alone leaves the whole alone.         *)
LEMMA StreamedKept ==
    UNCHANGED <<sentOut, hand["stream"], msgs["stream"]>> => UNCHANGED Streamed
BY DEF Streamed

(* The worker moves lines from one part to the next and changes nothing of  *)
(* the whole.                                                               *)
LEMMA StreamedWorker ==
    ASSUME LTypes, NEW c \in Channel, WorkerStep(c)
    PROVE  UNCHANGED Streamed
<1>0. /\ hand["stream"] \in Seq(Msg) /\ msgs["stream"] \in Seq(Msg) /\ sentOut \in Seq(LgLine)
      /\ hand["stream"] = <<>> \/ lworker["stream"] = "write"
  BY DEF LTypes, Channel
<1>1. CASE c = "async"
  <2>1. \A line : Deliver(c, line) => UNCHANGED sentOut
    BY <1>1 DEF Deliver, writeLogSync
  <2>2. UNCHANGED <<sentOut, hand["stream"], msgs["stream"]>>
    <3>1. "stream" \in Channel /\ "stream" # c
      BY <1>1 DEF Channel
    <3>2. UNCHANGED <<sentOut, hand, msgs>> => UNCHANGED <<sentOut, hand["stream"], msgs["stream"]>>
      OBVIOUS
    <3>3. CASE WorkerTest(c)
      BY <3>2, <3>3 DEF WorkerTest
    <3>4. CASE WorkerTakes(c)
      BY <3>1, <3>4 DEF WorkerTakes, LTypes
    <3>5. CASE WorkerWrites(c)
      BY <1>1, <2>1, <3>1, <3>5 DEF WorkerWrites, LTypes
    <3>6. CASE FinalDrain(c)
      <4>1. CASE msgs[c] = <<>>
        BY <3>2, <3>6, <4>1 DEF FinalDrain
      <4>2. CASE msgs[c] # <<>>
        BY <1>1, <2>1, <3>1, <3>6, <4>2 DEF FinalDrain, LTypes
      <4> QED BY <4>1, <4>2
    <3> QED BY <1>1, <3>3, <3>4, <3>5, <3>6 DEF WorkerStep
  <2> QED BY <2>2, StreamedKept
<1>2. CASE c = "stream"
  <2>0. \A line : Deliver("stream", line) => sentOut' = Append(sentOut, line)
    BY DEF Deliver, broadcastLogMessage
  <2>1. CASE WorkerTest(c)
    BY <2>1, StreamedKept DEF WorkerTest
  <2>2. CASE WorkerTakes(c)
    <3> DEFINE q == msgs["stream"]
    <3>1. q # <<>> /\ hand'["stream"] = <<Head(q)>> /\ msgs'["stream"] = Tail(q) /\ sentOut' = sentOut
          /\ hand["stream"] = <<>>
      BY <1>0, <1>2, <2>2 DEF WorkerTakes, Worker, LTypes
    <3>2. Streamed' = (sentOut \o Lines(<<Head(q)>>)) \o Lines(Tail(q))
      BY <3>1 DEF Streamed
    <3>3. Head(q) \in Msg /\ Tail(q) \in Seq(Msg)
      BY <1>0, <3>1, HeadTailProperties
    <3>4. Lines(<<Head(q)>>) \in Seq(LgLine) /\ Lines(Tail(q)) \in Seq(LgLine) /\ Lines(q) \in Seq(LgLine)
      BY <1>0, <3>3, LinesOne, LinesType
    <3>5. Streamed' = sentOut \o Lines(q)
      <4> DEFINE a == Lines(<<Head(q)>>)
                 b == Lines(Tail(q))
      <4>1. a \in Seq(LgLine) /\ b \in Seq(LgLine) /\ a \o b = Lines(q)
        BY <1>0, <3>1, <3>4, LinesTaken
      <4>2. Streamed' = (sentOut \o a) \o b
        BY <3>2
      <4> HIDE DEF a, b
      <4>3. (sentOut \o a) \o b = sentOut \o (a \o b)
        <5>1. sentOut \in Seq(LgLine) /\ a \in Seq(LgLine) /\ b \in Seq(LgLine)
          BY <1>0, <4>1
        <5> QED BY ONLY <5>1, ConcatAssociative
      <4> QED BY <4>1, <4>2, <4>3
    <3>6. sentOut \o Lines(<<>>) = sentOut
      BY <1>0, LinesNone, ConcatEmptySeq
    <3>7. Streamed = sentOut \o Lines(q)
      BY <3>1, <3>6 DEF Streamed
    <3> QED BY <3>5, <3>7
  <2>3. CASE WorkerWrites(c)
    <3> DEFINE h == hand["stream"]
    <3>1. lworker["stream"] = "write" /\ sentOut' = Append(sentOut, h[1].line) /\ hand'["stream"] = <<>>
          /\ msgs' = msgs
      BY <1>2, <2>0, <2>3 DEF WorkerWrites, Worker, LTypes
    <3>2. Len(h) = 1 /\ h[1] \in Msg /\ h[1].line \in LgLine
      <4>1. Len(h) = 1 /\ h[1] \in Msg
        BY <1>0, <3>1 DEF LTypes, Channel
      <4> QED BY <4>1 DEF Msg
    <3>3. Lines(h) \in Seq(LgLine) /\ Len(Lines(h)) = 1 /\ Lines(h)[1] = h[1].line
      BY <1>0, <3>2, LinesType
    <3>4. sentOut \o Lines(h) = Append(sentOut, h[1].line)
      BY <1>0, <3>3, JoinOne
    <3>5. Append(sentOut, h[1].line) \in Seq(LgLine)
      BY <1>0, <3>2
    <3>6. sentOut' \o Lines(hand'["stream"]) = sentOut'
      BY <3>1, <3>5, LinesNone, ConcatEmptySeq
    <3>7. Streamed' = sentOut' \o Lines(msgs["stream"])
      BY <3>1, <3>6 DEF Streamed
    <3> QED BY <3>1, <3>4, <3>7 DEF Streamed
  <2>4. CASE FinalDrain(c)
    <3>1. CASE msgs[c] = <<>>
      BY <2>4, <3>1, StreamedKept DEF FinalDrain
    <3>2. CASE msgs[c] # <<>>
      <4> DEFINE q == msgs["stream"]
      <4>1. q # <<>> /\ hand' = hand /\ hand["stream"] = <<>> /\ msgs'["stream"] = Tail(q)
            /\ sentOut' = Append(sentOut, Head(q).line)
        BY <1>0, <1>2, <2>0, <2>4, <3>2 DEF FinalDrain, LTypes
      <4>2. Head(q) \in Msg /\ Tail(q) \in Seq(Msg)
        BY <1>0, <4>1, HeadTailProperties
      <4>3. Head(q).line \in LgLine
        BY <4>2 DEF Msg
      <4> DEFINE a == Lines(<<Head(q)>>)
                 b == Lines(Tail(q))
      <4>4. a \in Seq(LgLine) /\ Len(a) = 1 /\ a[1] = Head(q).line /\ b \in Seq(LgLine)
            /\ a \o b = Lines(q)
        BY <1>0, <4>1, <4>2, LinesOne, LinesType, LinesTaken
      <4>5. sentOut \o a = sentOut' /\ sentOut' \in Seq(LgLine)
        <5>1. sentOut \o a = Append(sentOut, a[1])
          BY <1>0, <4>4, JoinOne
        <5>2. Append(sentOut, Head(q).line) \in Seq(LgLine)
          BY <1>0, <4>3
        <5> QED BY <4>1, <4>4, <5>1, <5>2
      <4>6. sentOut' \o Lines(<<>>) = sentOut' /\ sentOut \o Lines(<<>>) = sentOut
        BY <1>0, <4>5, LinesNone, ConcatEmptySeq
      <4>7. Streamed' = (sentOut \o a) \o b
        BY <4>1, <4>5, <4>6 DEF Streamed
      <4>8. (sentOut \o a) \o b = sentOut \o Lines(q)
        <5> HIDE DEF a, b
        <5>1. (sentOut \o a) \o b = sentOut \o (a \o b)
          <6>1. sentOut \in Seq(LgLine) /\ a \in Seq(LgLine) /\ b \in Seq(LgLine)
            BY <1>0, <4>4
          <6> QED BY ONLY <6>1, ConcatAssociative
        <5> QED BY <4>4, <5>1
      <4> QED BY <4>1, <4>6, <4>7, <4>8 DEF Streamed
    <3> QED BY <3>1, <3>2
  <2> QED BY <1>2, <2>1, <2>2, <2>3, <2>4 DEF WorkerStep
<1> QED BY <1>1, <1>2 DEF Channel

(* A caller gives its line to the streaming worker last, as its call ends.  *)
LEMMA StreamedCaller ==
    ASSUME LTypes, NEW t \in Thread, CallerStep(t)
    PROVE  \/ UNCHANGED Streamed
           \/ /\ caller[t].pc = "push" /\ caller'[t].pc = "idle"
              /\ Streamed' = Append(Streamed, caller[t].line)
<1>1. CASE writeLog(t) \/ StreamLog(t)
  BY <1>1, StreamedKept DEF writeLog, StreamLog
<1>2. CASE CallerWrites(t)
  BY <1>2, StreamedKept DEF CallerWrites, writeLogSync
<1>3. CASE writeLogAsync(t)
  <2>1. Push(t, "async", "async", "stream", Len(msgs["async"]) > queueMax)
    BY <1>3 DEF writeLogAsync
  <2>2. UNCHANGED <<sentOut, hand["stream"], msgs["stream"]>>
    BY <2>1 DEF Push, LTypes, Channel
  <2> QED BY <2>2, StreamedKept
<1>4. CASE pushStreaming(t)
  <2> DEFINE m == [line |-> caller[t].line, late |-> stopFlag["stream"]]
             q == msgs["stream"]
  <2>1. /\ caller[t].pc = "push" /\ Goto(t, "idle") /\ UNCHANGED <<sentOut, hand>>
        /\ UNCHANGED msgs \/ msgs' = [msgs EXCEPT !["stream"] = Append(q, m)]
    BY <1>4 DEF pushStreaming, Push
  <2>2. caller'[t].pc = "idle"
    BY <2>1, GotoType DEF Pc
  <2>3. CASE UNCHANGED msgs
    BY <2>1, <2>3, StreamedKept
  <2>4. CASE msgs' = [msgs EXCEPT !["stream"] = Append(q, m)]
    <3>1. caller[t].line \in LgLine /\ q \in Seq(Msg) /\ m \in Msg /\ m.line = caller[t].line
      BY <2>1 DEF LTypes, Msg, Channel
    <3>2. msgs'["stream"] = Append(q, m)
      BY <2>4 DEF LTypes, Channel
    <3> DEFINE s == sentOut \o Lines(hand["stream"])
               b == Lines(q)
               x == caller[t].line
    <3>3. Lines(Append(q, m)) = Append(b, x)
      BY <3>1, LinesAppend
    <3>4. s \in Seq(LgLine) /\ b \in Seq(LgLine)
      BY StreamedType
    <3>5. s \o Append(b, x) = Append(s \o b, x)
      <4> HIDE DEF s, b, x
      <4>1. x \in LgLine
        BY <3>1 DEF x
      <4> QED BY <3>4, <4>1, JoinAppend
    <3>6. Streamed' = s \o Append(b, x)
      BY <2>1, <3>2, <3>3 DEF Streamed
    <3> QED BY <2>1, <2>2, <3>5, <3>6 DEF Streamed
  <2> QED BY <2>1, <2>3, <2>4
<1> QED BY <1>1, <1>2, <1>3, <1>4 DEF CallerStep

(* A caller's number grows when a call begins, and never otherwise.         *)
LEMMA CallerMoves ==
    ASSUME LTypes, [LNext]_lvars, NEW u \in Thread
    PROVE  /\ caller'[u].n \in Nat /\ caller[u].n \in Nat /\ caller'[u].n >= caller[u].n
           /\ caller'[u].pc = "idle" \/ caller[u].pc # "idle" \/ caller'[u].n > caller[u].n
<1>0. caller[u].n \in Nat
  BY DEF LTypes
<1>1. ASSUME NEW t \in Thread, NEW pc, pc = "idle" \/ caller[t].pc # "idle", Goto(t, pc)
      PROVE  caller'[u].n = caller[u].n /\ (caller'[u].pc = "idle" \/ caller[u].pc # "idle")
  <2>1. CASE u = t
    BY <1>1, <2>1 DEF Goto, LTypes
  <2>2. CASE u # t
    BY <1>1, <2>2 DEF Goto, LTypes
  <2> QED BY <2>1, <2>2
<1>2. ASSUME NEW t \in Thread, CallerStep(t)
      PROVE  caller'[u].n = caller[u].n /\ (caller'[u].pc = "idle" \/ caller[u].pc # "idle")
  <2>1. \E pc : Goto(t, pc) /\ (pc = "idle" \/ caller[t].pc # "idle")
    BY <1>2 DEF CallerStep, writeLog, CallerWrites, StreamLog, writeLogAsync, pushStreaming, Push
  <2> QED BY <1>1, <2>1
<1>3. ASSUME NEW t \in Thread, NEW l \in Level, NEW j \in Job, logForJob(t, l, j)
      PROVE  /\ caller'[u].n \in Nat /\ caller'[u].n >= caller[u].n
             /\ caller'[u].pc = "idle" \/ caller[u].pc # "idle" \/ caller'[u].n > caller[u].n
  <2>1. CASE u = t
    BY <1>0, <1>3, <2>1 DEF logForJob, LTypes
  <2>2. CASE u # t
    BY <1>0, <1>3, <2>2 DEF logForJob, LTypes
  <2> QED BY <2>1, <2>2
<1>4. ASSUME UNCHANGED caller
      PROVE  caller'[u].n = caller[u].n /\ (caller'[u].pc = "idle" \/ caller[u].pc # "idle")
  BY <1>4
<1>5. ASSUME NEW c \in Channel, WorkerStep(c) \/ Enable(c) \/ Disable(c) PROVE UNCHANGED caller
  BY <1>5 DEF WorkerStep, WorkerTest, WorkerTakes, WorkerWrites, FinalDrain, WorkerOnly, Enable, Disable, StopWorker
<1>6. ControlStep \/ Shutdown \/ archiveOldLogs \/ UNCHANGED lvars => UNCHANGED caller
  BY DEF ControlStep, Join, ShutdownChannel, StopWorker, CloseFile, Shutdown, archiveOldLogs, lvars
<1>7. ASSUME NEW on \in [Channel -> BOOLEAN], configure(on) PROVE UNCHANGED caller
  BY <1>7 DEF configure
<1>8. \/ \E t \in Thread : CallerStep(t) \/ \E l \in Level, j \in Job : logForJob(t, l, j)
      \/ UNCHANGED caller
  BY <1>5, <1>6, <1>7 DEF LNext
<1> QED BY <1>0, <1>2, <1>3, <1>4, <1>8

(* What is streamed does not change but at its end.                         *)
LEMMA StreamedGrows ==
    ASSUME LTypes, [LNext]_lvars
    PROVE  \/ UNCHANGED Streamed
           \/ \E t \in Thread : /\ caller[t].pc = "push" /\ caller'[t].pc = "idle"
                                /\ Streamed' = Append(Streamed, caller[t].line)
<1>1. ASSUME NEW c \in Channel, Enable(c) \/ Disable(c) PROVE UNCHANGED Streamed
  BY <1>1, StreamedKept DEF Enable, Disable, StopWorker
<1>2. ControlStep \/ Shutdown \/ archiveOldLogs \/ UNCHANGED lvars => UNCHANGED Streamed
  BY StreamedKept DEF ControlStep, Join, ShutdownChannel, StopWorker, CloseFile, Shutdown, archiveOldLogs, lvars
<1>3. ASSUME NEW on \in [Channel -> BOOLEAN], configure(on) PROVE UNCHANGED Streamed
  BY <1>3, StreamedKept DEF configure
<1>4. ASSUME NEW t \in Thread, NEW l \in Level, NEW j \in Job, logForJob(t, l, j) PROVE UNCHANGED Streamed
  BY <1>4, StreamedKept DEF logForJob
<1> QED BY <1>1, <1>2, <1>3, <1>4, StreamedWorker, StreamedCaller DEF LNext

(* Every step of the logger keeps the order of what is streamed.            *)
LEMMA StreamingStep == LTypes /\ Streaming /\ [LNext]_lvars => Streaming'
<1> SUFFICES ASSUME LTypes, Streaming, [LNext]_lvars PROVE Streaming'
  OBVIOUS
<1> DEFINE Behind(s, i, m) == /\ s[i].by \in Thread /\ s[i].n <= m[s[i].by].n
                              /\ m[s[i].by].pc # "idle" => s[i].n < m[s[i].by].n
<1>1. \A u \in Thread : /\ caller'[u].n \in Nat /\ caller[u].n \in Nat /\ caller'[u].n >= caller[u].n
                        /\ caller'[u].pc = "idle" \/ caller[u].pc # "idle" \/ caller'[u].n > caller[u].n
  BY CallerMoves
<1>2. Streamed \in Seq(LgLine) /\ \A i \in DOMAIN Streamed : Streamed[i].n \in Nat
  <2>1. Streamed \in Seq(LgLine)
    BY StreamedType
  <2>2. \A i \in DOMAIN Streamed : Streamed[i] \in LgLine
    BY <2>1
  <2> QED BY <2>1, <2>2 DEF LgLine
<1>3. \A i \in DOMAIN Streamed : Behind(Streamed, i, caller)
  BY DEF Streaming
<1>4. \A i \in DOMAIN Streamed : Behind(Streamed, i, caller')
  BY <1>1, <1>2, <1>3
<1>5. CASE UNCHANGED Streamed
  BY <1>4, <1>5 DEF Streaming, StreamedInOrder
<1>6. ASSUME NEW t \in Thread, caller[t].pc = "push", caller'[t].pc = "idle",
             Streamed' = Append(Streamed, caller[t].line)
      PROVE  Streaming'
  <2> DEFINE x == caller[t].line
             s == Streamed
             N == Len(Streamed) + 1
  <2>1. x \in LgLine /\ x.by = t /\ x.n = caller[t].n /\ x.n \in Nat
    BY <1>1, <1>6 DEF LTypes
  <2>2. /\ DOMAIN Streamed' = 1..N /\ DOMAIN s = 1..Len(s) /\ Len(s) \in Nat /\ Streamed'[N] = x
        /\ \A i \in DOMAIN s : Streamed'[i] = s[i]
    BY <1>2, <1>6, <2>1
  <2>3. \A i \in DOMAIN s : s[i].by = t => s[i].n < x.n
    BY <1>3, <1>6, <2>1
  <2> HIDE DEF x, s
  <2>4. \A i \in DOMAIN Streamed' : i \in DOMAIN s \/ i = N
    BY <2>2 DEF s
  <2>5. StreamedInOrder'
    <3> SUFFICES ASSUME NEW i \in DOMAIN Streamed', NEW j \in DOMAIN Streamed', i < j,
                        Streamed'[i].by = Streamed'[j].by
                 PROVE  Streamed'[i].n < Streamed'[j].n
      BY DEF StreamedInOrder
    <3>1. i \in DOMAIN s /\ Streamed'[i] = s[i]
      BY <2>2, <2>4
    <3>2. CASE j = N
      BY <2>1, <2>2, <2>3, <3>1, <3>2
    <3>3. CASE j \in DOMAIN s
      <4>1. Streamed'[j] = s[j]
        BY <2>2, <3>3
      <4>2. StreamedInOrder
        BY DEF Streaming
      <4> QED BY <3>1, <3>3, <4>1, <4>2 DEF StreamedInOrder, s
    <3> QED BY <2>4, <3>2, <3>3
  <2>6. \A i \in DOMAIN Streamed' : Behind(Streamed', i, caller')
    <3> TAKE i \in DOMAIN Streamed'
    <3>1. CASE i \in DOMAIN s
      BY <1>4, <2>2, <3>1 DEF s
    <3>2. CASE i = N
      BY <1>1, <1>6, <2>1, <2>2, <3>2
    <3> QED BY <2>4, <3>1, <3>2
  <2> QED BY <2>5, <2>6 DEF Streaming
<1> QED BY <1>5, <1>6, StreamedGrows

(* Nothing is streamed yet.                                                 *)
LEMMA StreamingInit == LInit => Streaming
<1> SUFFICES ASSUME LInit PROVE Streaming
  OBVIOUS
<1>1. sentOut = <<>> /\ hand["stream"] = <<>> /\ msgs["stream"] = <<>>
  BY DEF LInit, Channel
<1>2. <<>> \o <<>> = <<>>
  <2>1. <<>> \in Seq({})
    OBVIOUS
  <2> QED BY <2>1, ConcatEmptySeq
<1>3. Streamed = <<>>
  BY <1>1, <1>2, LinesNone DEF Streamed
<1> QED BY <1>3 DEF Streaming, StreamedInOrder

(* The lines of one thread reach the WebSocket clients at most once and in  *)
(* the order of its calls, whatever the streaming worker is doing when it   *)
(* is stopped and started again.                                            *)
THEOREM ClientsSeeOrder == LSpec => []StreamedInOrder
<1>1. LInit => LTypes /\ Streaming
  BY LTypesInit, StreamingInit
<1>2. LTypes /\ Streaming /\ [LNext]_lvars => (LTypes /\ Streaming)'
  BY LTypesStep, StreamingStep
<1>3. Streaming => StreamedInOrder
  BY DEF Streaming
<1> QED BY <1>1, <1>2, <1>3, PTL DEF LSpec

-----------------------------------------------------------------------------
(* The aggregator.                                                         *)

AEntry == [by : Source, n : Nat, level : Severity, late : BOOLEAN]

(* A worker of the aggregator ends only when shutdown was requested and its *)
(* queue is empty, with no batch in hand, and stays so until a worker is    *)
(* started; what is pushed after the request is late.                       *)
AggregatorInv ==
    /\ arunning \in BOOLEAN /\ ashutdown \in BOOLEAN
    /\ aqueue \in Seq(AEntry)
    /\ source \in [Source -> [pc : {"idle", "add", "push"}, n : Nat, entry : AEntry \cup {NoEntry}]]
    /\ \A s \in Source : source[s].pc # "idle" => source[s].entry \in AEntry
    /\ aworker = <<"none">> \/ aworker = <<"loop">> => abatch = <<>>
    /\ ~arunning => aworker = <<"none">>
    /\ arunning /\ aworker = <<"none">> => ashutdown /\ \A i \in DOMAIN aqueue : aqueue[i].late
    /\ astop = "join" => arunning

(* The aggregator before initialize().                                      *)
LEMMA AggregatorInit == AInit => AggregatorInv
<1> SUFFICES ASSUME AInit PROVE AggregatorInv
  OBVIOUS
<1> DEFINE r == [pc |-> "idle", n |-> 0, entry |-> NoEntry]
<1>1. r \in [pc : {"idle", "add", "push"}, n : Nat, entry : AEntry \cup {NoEntry}] /\ r.pc = "idle"
  OBVIOUS
<1>2. source = [s \in Source |-> r]
  BY DEF AInit
<1> HIDE DEF r
<1>3. /\ source \in [Source -> [pc : {"idle", "add", "push"}, n : Nat, entry : AEntry \cup {NoEntry}]]
      /\ \A s \in Source : source[s].pc = "idle"
  BY <1>1, <1>2
<1>4. <<>> \in Seq(AEntry)
  OBVIOUS
<1> QED BY <1>3, <1>4 DEF AInit, AggregatorInv

(* Every step of the aggregator keeps the invariant.                        *)
LEMMA AggregatorStep == AggregatorInv /\ [ANext]_avars => AggregatorInv'
<1> SUFFICES ASSUME AggregatorInv, [ANext]_avars PROVE AggregatorInv'
  OBVIOUS
<1> DEFINE Rec == [pc : {"idle", "add", "push"}, n : Nat, entry : AEntry \cup {NoEntry}]
<1>0. source \in [Source -> Rec] /\ \A s \in Source : source[s].pc # "idle" => source[s].entry \in AEntry
  BY DEF AggregatorInv
<1>1. UNCHANGED avars => AggregatorInv'
  BY DEF avars, AggregatorInv
<1>2. ASSUME NEW s \in Source, NEW r \in Rec, source' = [source EXCEPT ![s] = r],
             r.pc # "idle" => r.entry \in AEntry
      PROVE  /\ source' \in [Source -> Rec]
             /\ \A q \in Source : source'[q].pc # "idle" => source'[q].entry \in AEntry
  <2> HIDE DEF Rec
  <2> QED BY <1>0, <1>2
<1>3. ASSUME NEW s \in Source, NEW l \in Severity, logStructured(s, l) PROVE AggregatorInv'
  <2> DEFINE n == source[s].n + 1
             r == [pc |-> IF aggregation THEN "add" ELSE "idle", n |-> n, entry |-> createLogEntry(s, n, l)]
  <2>1. source' = [source EXCEPT ![s] = r]
    BY <1>3 DEF logStructured
  <2>2. n \in Nat
    BY <1>0
  <2> HIDE DEF n
  <2>3. r \in Rec /\ r.entry \in AEntry
    BY <2>2 DEF createLogEntry, AEntry
  <2> HIDE DEF r, Rec
  <2>4. /\ source' \in [Source -> Rec]
        /\ \A q \in Source : source'[q].pc # "idle" => source'[q].entry \in AEntry
    BY <1>2, <2>1, <2>3
  <2> USE DEF Rec
  <2> QED BY <1>3, <2>4 DEF logStructured, AggregatorInv
<1>4. ASSUME NEW s \in Source, addLogEntry(s) PROVE AggregatorInv'
  <2>1. ASSUME NEW pc \in {"idle", "push"}, source[s].pc # "idle", source' = [source EXCEPT ![s].pc = pc]
        PROVE  /\ source' \in [Source -> Rec]
               /\ \A q \in Source : source'[q].pc # "idle" => source'[q].entry \in AEntry
    <3> DEFINE r == [source[s] EXCEPT !.pc = pc]
    <3>1. source[s] \in Rec /\ source[s].entry \in AEntry
      BY <1>0, <2>1
    <3>2. r \in Rec /\ r.entry = source[s].entry
      BY <3>1
    <3>3. source' = [source EXCEPT ![s] = r]
      BY <2>1
    <3> HIDE DEF r, Rec
    <3> QED BY <1>2, <3>1, <3>2, <3>3
  <2>2. CASE source[s].pc = "add"
    <3>1. UNCHANGED <<arunning, ashutdown, aqueue, abatch, aworker, astop>>
          /\ \E pc \in {"idle", "push"} : source' = [source EXCEPT ![s].pc = pc]
      BY <1>4, <2>2 DEF addLogEntry
    <3> QED BY <2>1, <2>2, <3>1 DEF AggregatorInv
  <2>3. CASE source[s].pc = "push"
    <3> DEFINE e == [source[s].entry EXCEPT !.late = ashutdown]
    <3>1. /\ UNCHANGED <<arunning, ashutdown, abatch, aworker, astop>>
          /\ aqueue' = Append(aqueue, e) /\ source' = [source EXCEPT ![s].pc = "idle"]
      BY <1>4, <2>3 DEF addLogEntry
    <3>2. source[s].entry \in AEntry /\ ashutdown \in BOOLEAN
      BY <2>3, <1>0 DEF AggregatorInv
    <3>3. e \in AEntry /\ e.late = ashutdown
      BY <3>2 DEF AEntry
    <3> HIDE DEF e
    <3>4. aqueue \in Seq(AEntry)
      BY DEF AggregatorInv
    <3>5. aqueue' \in Seq(AEntry) /\ DOMAIN aqueue' = 1..(Len(aqueue) + 1) /\ aqueue'[Len(aqueue) + 1] = e
          /\ \A i \in DOMAIN aqueue : aqueue'[i] = aqueue[i]
      BY <3>1, <3>3, <3>4
    <3>6. ASSUME arunning, aworker = <<"none">>, NEW i \in DOMAIN aqueue' PROVE aqueue'[i].late
      <4>1. ashutdown /\ \A k \in DOMAIN aqueue : aqueue[k].late
        BY <3>6 DEF AggregatorInv
      <4>2. i \in DOMAIN aqueue \/ i = Len(aqueue) + 1
        BY <3>4, <3>5
      <4> QED BY <3>3, <3>5, <4>1, <4>2
    <3>7. arunning /\ aworker = <<"none">> => ashutdown
      BY DEF AggregatorInv
    <3>8. /\ source' \in [Source -> Rec]
          /\ \A q \in Source : source'[q].pc # "idle" => source'[q].entry \in AEntry
      BY <2>1, <2>3, <3>1
    <3> QED BY <3>1, <3>5, <3>6, <3>7, <3>8 DEF AggregatorInv
  <2> QED BY <1>4, <2>2, <2>3 DEF addLogEntry
<1>5. CASE CollectBatch
  <2>1. CASE aqueue = <<>>
    BY <1>5, <2>1 DEF CollectBatch, AggregatorInv
  <2>2. CASE aqueue # <<>>
    <3>1. \E k \in Nat : k <= Len(aqueue) /\ aqueue' = SubSeq(aqueue, k + 1, Len(aqueue))
      <4>1. Len(aqueue) \in Nat /\ MaxBatch \in Nat
        BY AggregatorAssumption DEF AggregatorInv
      <4> DEFINE k == IF Len(aqueue) < MaxBatch THEN Len(aqueue) ELSE MaxBatch
      <4>2. k \in Nat /\ k <= Len(aqueue)
        BY <4>1
      <4>3. aqueue' = SubSeq(aqueue, k + 1, Len(aqueue))
        BY <1>5, <2>2 DEF CollectBatch
      <4> HIDE DEF k
      <4> QED BY <4>2, <4>3
    <3>2. aqueue' \in Seq(AEntry)
      BY <3>1 DEF AggregatorInv
    <3>3. aworker' = <<"ship", 1>> /\ aworker = <<"loop">> /\ UNCHANGED <<arunning, ashutdown, astop, source>>
      BY <1>5, <2>2 DEF CollectBatch
    <3>4. <<"ship", 1>> # <<"none">> /\ <<"ship", 1>> # <<"loop">> /\ <<"loop">> # <<"none">>
      OBVIOUS
    <3> QED BY <3>2, <3>3, <3>4 DEF AggregatorInv
  <2> QED BY <2>1, <2>2
<1>6. CASE ShipBatch
  <2>1. aworker # <<"none">> /\ aworker # <<"loop">> /\ aworker' # <<"none">> /\ aworker' # <<"loop">>
    BY <1>6 DEF ShipBatch
  <2> QED BY <1>6, <2>1 DEF ShipBatch, AggregatorInv
<1>7. CASE EndBatch
  BY <1>7 DEF EndBatch, AggregatorInv
<1>8. CASE BatchTimeout
  BY <1>8 DEF BatchTimeout, AggregatorInv
<1>9. CASE EnableAggregation
  <2>1. <<>> \in Seq(AEntry)
    OBVIOUS
  <2> QED BY <1>9, <2>1 DEF EnableAggregation, AggregatorInv
<1>10. CASE initialize
  <2>1. aworker' = <<"loop">> /\ <<"loop">> # <<"none">> /\ arunning' = TRUE /\ (astop' = "join" => astop = "join")
        /\ UNCHANGED <<ashutdown, aqueue, abatch, source>>
    BY <1>10 DEF initialize
  <2> QED BY <1>10, <2>1 DEF initialize, AggregatorInv
<1>11. CASE ashutdownRequest
  BY <1>11 DEF ashutdownRequest, AggregatorInv
<1>12. CASE ashutdownJoin
  BY <1>12 DEF ashutdownJoin, AggregatorInv
<1>13. CASE DisableAggregation
  BY <1>13 DEF DisableAggregation, AggregatorInv
<1> QED BY <1>1, <1>3, <1>4, <1>5, <1>6, <1>7, <1>8, <1>9, <1>10, <1>11, <1>12, <1>13 DEF ANext, AWorkerStep

(* shutdown() of the aggregator returns with nothing in hand and nothing in *)
(* the queue that had been pushed before it was called.                     *)
THEOREM ShutdownLeavesNothing == ASpec => []NothingLeftBehind
<1>1. AggregatorInv => NothingLeftBehind
  BY DEF AggregatorInv, NothingLeftBehind
<1> QED BY <1>1, AggregatorInit, AggregatorStep, PTL DEF ASpec

-----------------------------------------------------------------------------
(* What the aggregator ships.                                              *)

(* The names tell the destinations apart, as removeDestination supposes.    *)
NamesDiffer ==
    \A i, j \in DOMAIN destinations : destinations[i].name = destinations[j].name => i = j

InOrder(q) == \A i, j \in DOMAIN q : i < j /\ q[i].by = q[j].by => q[i].n < q[j].n
Precedes(e, q) == \A i \in DOMAIN q : e.by = q[i].by => e.n < q[i].n
Among(e, q) == \E i \in DOMAIN q : e = q[i]
Offered(e, d) == Among(e, logs[d].sent) \/ Among(e, failed[d])
(* The call that made an entry is over, or has given it to the aggregator.   *)
Made(src, e) == e.n <= src[e.by].n /\ (src[e.by].pc # "idle" => e.n < src[e.by].n)

Files == [file : Seq(AEntry), rotated : Seq(Seq(AEntry)), sent : Seq(AEntry)]
NothingRotatedAway(l) ==
    Len(l.rotated) < maxRotated =>
        FlattenSeq(l.rotated) \in Seq(AEntry) /\ FlattenSeq(l.rotated) \o l.file = l.sent
IsFile(d) == \E i \in DOMAIN destinations : destinations[i].name = d /\ destinations[i].type = "FILE"
Shipping(i) == aworker[1] = "ship" /\ aworker[2] <= i

ShipTypes ==
    /\ logs \in [Destination -> Files] /\ failed \in [Destination -> Seq(AEntry)]
    /\ abatch \in Seq(AEntry)
    /\ aworker \in {<<"none">>, <<"loop">>} \cup {<<"ship", k>> : k \in 1..(Len(destinations) + 1)}
    /\ \A s \in Source : source[s].pc # "idle" =>
          source[s].entry.by = s /\ source[s].entry.n = source[s].n

ShipOrder ==
    /\ InOrder(abatch) /\ InOrder(aqueue)
    /\ \A i \in DOMAIN abatch : Precedes(abatch[i], aqueue) /\ Made(source, abatch[i])
    /\ \A i \in DOMAIN aqueue : Made(source, aqueue[i])
    /\ \A d \in Destination :
          /\ InOrder(logs[d].sent)
          /\ \A i \in DOMAIN logs[d].sent : ~Among(logs[d].sent[i], failed[d])
          /\ \A e \in AEntry : Offered(e, d) => Precedes(e, aqueue) /\ Made(source, e)
    /\ \A i \in DOMAIN destinations : Shipping(i) =>
          \A e \in AEntry : Offered(e, destinations[i].name) => Precedes(e, abatch)

ShipRotated == \A d \in Destination : IsFile(d) => NothingRotatedAway(logs[d])

(* A part of an ordered batch is in order, and is of the batch.             *)
LEMMA KeptInOrder ==
    ASSUME NEW q \in Seq(AEntry), InOrder(q), NEW D \in SUBSET DOMAIN q, NEW r, r = Kept(q, D)
    PROVE  r \in Seq(AEntry) /\ InOrder(r) /\ \A i \in DOMAIN r : Among(r[i], q)
<1> DEFINE N == Cardinality(D)
<1>1. r \in Seq(AEntry) /\ Len(r) = N /\ N \in Nat
  BY KeptFacts
<1>2. PICK e \in [1..N -> D] : /\ \A k \in 1..N : r[k] = q[e[k]]
                               /\ \A k, m \in 1..N : k < m => e[k] < e[m]
  BY KeptFacts
<1>3. DOMAIN r = 1..N
  <2> HIDE DEF N
  <2> QED BY <1>1
<1> HIDE DEF N
<1>4. ASSUME NEW i \in DOMAIN r, NEW j \in DOMAIN r, i < j, r[i].by = r[j].by PROVE r[i].n < r[j].n
  <2>1. e[i] \in DOMAIN q /\ e[j] \in DOMAIN q /\ e[i] < e[j] /\ r[i] = q[e[i]] /\ r[j] = q[e[j]]
    BY <1>2, <1>3, <1>4
  <2> QED BY <1>4, <2>1 DEF InOrder
<1>5. ASSUME NEW i \in DOMAIN r PROVE Among(r[i], q)
  BY <1>2, <1>3 DEF Among
<1> QED BY <1>1, <1>4, <1>5 DEF InOrder

(* Two sequences put together.                                             *)
LEMMA OneAfterOther ==
    ASSUME NEW S, NEW a \in Seq(S), NEW b \in Seq(S), NEW c, c = a \o b
    PROVE  /\ c \in Seq(S) /\ DOMAIN c = 1..(Len(a) + Len(b)) /\ Len(a) \in Nat /\ Len(b) \in Nat
           /\ DOMAIN a = 1..Len(a) /\ DOMAIN b = 1..Len(b)
           /\ \A i \in DOMAIN c : \/ i \in DOMAIN a /\ c[i] = a[i]
                                  \/ i - Len(a) \in DOMAIN b /\ c[i] = b[i - Len(a)]
           /\ \A i \in DOMAIN a : i \in DOMAIN c /\ c[i] = a[i]
           /\ \A i \in DOMAIN b : i + Len(a) \in DOMAIN c /\ c[i + Len(a)] = b[i]
OBVIOUS

(* What is in two sequences put together is in one of them.                 *)
LEMMA AmongBoth ==
    ASSUME NEW S, NEW a \in Seq(S), NEW b \in Seq(S), NEW e
    PROVE  Among(e, a \o b) <=> Among(e, a) \/ Among(e, b)
<1> DEFINE c == a \o b
<1>1. /\ \A i \in DOMAIN c : \/ i \in DOMAIN a /\ c[i] = a[i]
                             \/ i - Len(a) \in DOMAIN b /\ c[i] = b[i - Len(a)]
      /\ \A i \in DOMAIN a : i \in DOMAIN c /\ c[i] = a[i]
      /\ \A i \in DOMAIN b : i + Len(a) \in DOMAIN c /\ c[i + Len(a)] = b[i]
  BY OneAfterOther
<1> HIDE DEF c
<1>2. Among(e, c) <=> Among(e, a) \/ Among(e, b)
  BY <1>1 DEF Among
<1> QED BY <1>2 DEF c

(* Two ordered sequences put together, each of the first before the second. *)
LEMMA OrderBoth ==
    ASSUME NEW a \in Seq(AEntry), NEW b \in Seq(AEntry), InOrder(a), InOrder(b),
           \A i \in DOMAIN a : Precedes(a[i], b)
    PROVE  InOrder(a \o b)
<1> DEFINE c == a \o b
<1>1. /\ DOMAIN c = 1..(Len(a) + Len(b)) /\ Len(a) \in Nat /\ Len(b) \in Nat
      /\ DOMAIN a = 1..Len(a) /\ DOMAIN b = 1..Len(b)
      /\ \A i \in DOMAIN c : \/ i \in DOMAIN a /\ c[i] = a[i]
                             \/ i - Len(a) \in DOMAIN b /\ c[i] = b[i - Len(a)]
  BY OneAfterOther
<1> HIDE DEF c
<1>2. ASSUME NEW i \in DOMAIN c, NEW j \in DOMAIN c, i < j, c[i].by = c[j].by PROVE c[i].n < c[j].n
  <2>1. CASE i \in DOMAIN a /\ c[i] = a[i] /\ j \in DOMAIN a /\ c[j] = a[j]
    BY <1>2, <2>1 DEF InOrder
  <2>2. CASE i \in DOMAIN a /\ c[i] = a[i] /\ j - Len(a) \in DOMAIN b /\ c[j] = b[j - Len(a)]
    BY <1>2, <2>2 DEF Precedes
  <2>3. CASE /\ i - Len(a) \in DOMAIN b /\ c[i] = b[i - Len(a)]
             /\ j - Len(a) \in DOMAIN b /\ c[j] = b[j - Len(a)]
    <3>1. i - Len(a) < j - Len(a)
      BY <1>1, <1>2
    <3> QED BY <1>2, <2>3, <3>1 DEF InOrder
  <2>4. ~(i - Len(a) \in DOMAIN b /\ j \in DOMAIN a)
    BY <1>1, <1>2
  <2> QED BY <1>1, <2>1, <2>2, <2>3, <2>4
<1>3. InOrder(c)
  BY <1>2 DEF InOrder
<1> QED BY <1>3 DEF c

(* Nothing has been shipped when the aggregator is made.                    *)
LEMMA ShipInit == AInit => ShipTypes /\ ShipOrder /\ ShipRotated
<1> SUFFICES ASSUME AInit PROVE ShipTypes /\ ShipOrder /\ ShipRotated
  OBVIOUS
<1> DEFINE l == [file |-> <<>>, rotated |-> <<>>, sent |-> <<>>]
<1>1. l \in Files /\ l.sent = <<>> /\ l.rotated = <<>> /\ l.file = <<>>
  BY DEF Files
<1>2. logs = [d \in Destination |-> l] /\ failed = [d \in Destination |-> <<>>]
  BY DEF AInit
<1> HIDE DEF l
<1>3. logs \in [Destination -> Files] /\ failed \in [Destination -> Seq(AEntry)] /\ <<>> \in Seq(AEntry)
  BY <1>1, <1>2
<1>4. \A s \in Source : source[s].pc = "idle"
  BY DEF AInit
<1>5. ShipTypes
  BY <1>3, <1>4 DEF AInit, ShipTypes
<1>6. \A d \in Destination : logs[d].sent = <<>> /\ failed[d] = <<>>
  BY <1>1, <1>2
<1>7. \A e : ~Among(e, <<>>)
  BY DEF Among
<1>8. ShipOrder
  <2>1. \A i : ~Shipping(i)
    BY DEF AInit, Shipping
  <2>2. abatch = <<>> /\ aqueue = <<>> /\ InOrder(<<>>) /\ DOMAIN <<>> = {}
    BY DEF AInit, InOrder
  <2> QED BY <1>6, <1>7, <2>1, <2>2 DEF ShipOrder, Offered
<1>9. NothingRotatedAway(l)
  <2>1. FlattenSeq(<<>>) = <<>> /\ <<>> \o <<>> = <<>> /\ <<>> \in Seq(AEntry)
    BY DEF FlattenSeq
  <2> QED BY <1>1, <2>1 DEF NothingRotatedAway
<1> QED BY <1>2, <1>5, <1>8, <1>9 DEF ShipRotated

(* A destination as it is configured.                                      *)
LEMMA DestinationFacts ==
    /\ Len(destinations) \in Nat /\ DOMAIN destinations = 1..Len(destinations)
    /\ \A i \in DOMAIN destinations : destinations[i].name \in Destination
<1> DEFINE C == [name : Destination, type : {"FILE", "SYSLOG", "HTTP"},
                 enabled : BOOLEAN, levels : SUBSET Severity, rotate : BOOLEAN]
<1>1. destinations \in Seq(C)
  BY AggregatorAssumption DEF AggregatorAssumption
<1>2. \A c \in C : c.name \in Destination
  OBVIOUS
<1> HIDE DEF C
<1> QED BY <1>1, <1>2

(* What the calls have made stays made, and nothing else is disturbed.      *)
LEMMA ShipFrame ==
    ASSUME AggregatorInv, ShipTypes, ShipOrder, UNCHANGED <<abatch, aqueue, logs, failed>>,
           \A i \in DOMAIN destinations : Shipping(i)' => Shipping(i), \A e \in AEntry : Made(source, e) => Made(source', e)
    PROVE  ShipOrder'
<1>1. /\ \A i \in DOMAIN abatch : abatch[i] \in AEntry
      /\ \A i \in DOMAIN aqueue : aqueue[i] \in AEntry
  BY DEF AggregatorInv, ShipTypes
<1>2. \A e, d : Offered(e, d)' <=> Offered(e, d)
  BY DEF Offered
<1> QED BY <1>1, <1>2 DEF ShipOrder

(* A call of a source.                                                     *)
LEMMA ShipLogs ==
    ASSUME AggregatorInv, ShipTypes, ShipOrder, NEW s \in Source, NEW l \in Severity, logStructured(s, l)
    PROVE  ShipTypes' /\ ShipOrder'
<1> DEFINE n == source[s].n + 1
           r == [pc |-> IF aggregation THEN "add" ELSE "idle", n |-> n, entry |-> createLogEntry(s, n, l)]
<1>1. /\ source' = [source EXCEPT ![s] = r] /\ source[s].pc = "idle"
      /\ UNCHANGED <<abatch, aqueue, logs, failed, aworker>>
  BY DEF logStructured
<1>2. /\ source \in [Source -> [pc : {"idle", "add", "push"}, n : Nat, entry : AEntry \cup {NoEntry}]]
      /\ source[s].n \in Nat
  BY DEF AggregatorInv
<1>3. n \in Nat /\ n = source[s].n + 1
  BY <1>2
<1> HIDE DEF n
<1>4. r.n = n /\ r.entry.by = s /\ r.entry.n = n
  BY DEF createLogEntry
<1> HIDE DEF r
<1>5. source'[s] = r /\ \A t \in Source : t # s => source'[t] = source[t]
  BY <1>1, <1>2
<1>6. ShipTypes'
  BY <1>1, <1>4, <1>5 DEF ShipTypes
<1>7. ASSUME NEW e \in AEntry, Made(source, e) PROVE Made(source', e)
  <2>1. e.by \in Source /\ e.n \in Nat
    BY DEF AEntry
  <2>2. CASE e.by # s
    BY <1>5, <1>7, <2>1, <2>2 DEF Made
  <2>3. CASE e.by = s
    BY <1>2, <1>3, <1>4, <1>5, <1>7, <2>1, <2>3 DEF Made
  <2> QED BY <2>2, <2>3
<1>8. ShipOrder'
  BY <1>1, <1>7, ShipFrame DEF Shipping
<1> QED BY <1>6, <1>8

(* An entry that is pushed follows everything its source gave before.       *)
LEMMA ShipAdds ==
    ASSUME AggregatorInv, ShipTypes, ShipOrder, NEW s \in Source, addLogEntry(s)
    PROVE  ShipTypes' /\ ShipOrder'
<1>1. /\ source \in [Source -> [pc : {"idle", "add", "push"}, n : Nat, entry : AEntry \cup {NoEntry}]]
      /\ source[s].pc # "idle"
  BY DEF AggregatorInv, addLogEntry
<1>2. /\ \A t \in Source : source'[t].n = source[t].n /\ source'[t].entry = source[t].entry
      /\ \A t \in Source : source[t].pc = "idle" => source'[t].pc = "idle"
  <2>1. \E pc : source' = [source EXCEPT ![s].pc = pc]
    BY DEF addLogEntry
  <2>2. PICK pc : source' = [source EXCEPT ![s].pc = pc]
    BY <2>1
  <2>3. source'[s] = [source[s] EXCEPT !.pc = pc] /\ \A t \in Source : t # s => source'[t] = source[t]
    BY <1>1, <2>2
  <2>4. source[s] \in [pc : {"idle", "add", "push"}, n : Nat, entry : AEntry \cup {NoEntry}]
    BY <1>1
  <2>5. source'[s].n = source[s].n /\ source'[s].entry = source[s].entry
    BY <2>3, <2>4
  <2> QED BY <1>1, <2>3, <2>5
<1>3. UNCHANGED <<abatch, logs, failed, aworker>>
  BY DEF addLogEntry
<1>4. ShipTypes'
  BY <1>2, <1>3 DEF ShipTypes
<1>5. \A e \in AEntry : Made(source, e) => Made(source', e)
  <2>1. \A e \in AEntry : e.by \in Source
    BY DEF AEntry
  <2> QED BY <1>2, <2>1 DEF Made
<1>6. CASE UNCHANGED aqueue
  BY <1>3, <1>4, <1>5, <1>6, ShipFrame DEF Shipping
<1>7. CASE source[s].pc = "push"
  <2> DEFINE e == [source[s].entry EXCEPT !.late = ashutdown]
  <2>1. aqueue' = Append(aqueue, e) /\ source'[s].pc = "idle"
    BY <1>1, <1>7 DEF addLogEntry
  <2>2. source[s].entry \in AEntry /\ ashutdown \in BOOLEAN
        /\ source[s].entry.by = s /\ source[s].entry.n = source[s].n
    BY <1>7 DEF AggregatorInv, ShipTypes
  <2>3. e \in AEntry /\ e.by = s /\ e.n = source[s].n
    BY <2>2 DEF AEntry
  <2> HIDE DEF e
  <2>4. aqueue \in Seq(AEntry) /\ Len(aqueue) \in Nat
    BY DEF AggregatorInv
  <2>5. /\ DOMAIN aqueue = 1..Len(aqueue) /\ DOMAIN aqueue' = 1..(Len(aqueue) + 1)
        /\ aqueue'[Len(aqueue) + 1] = e
        /\ \A i \in DOMAIN aqueue : aqueue'[i] = aqueue[i]
    BY <2>1, <2>3, <2>4
  <2>6. \A x \in AEntry : Made(source, x) => (x.by = e.by => x.n < e.n)
    BY <1>7, <2>3 DEF Made
  <2>7. \A i \in DOMAIN aqueue' : \/ (i \in DOMAIN aqueue /\ aqueue'[i] = aqueue[i])
                                 \/ (aqueue'[i] = e /\ i = Len(aqueue) + 1)
    <3> DEFINE n == Len(aqueue)
    <3>1. n \in Nat /\ DOMAIN aqueue = 1..n /\ DOMAIN aqueue' = 1..(n + 1) /\ aqueue'[n + 1] = e
      BY <2>4, <2>5
    <3> HIDE DEF n
    <3>2. \A i \in 1..(n + 1) : i \in 1..n \/ i = n + 1
      BY <3>1
    <3>3. \A i \in 1..n : aqueue'[i] = aqueue[i]
      BY <2>5, <3>1
    <3>4. ASSUME NEW i \in DOMAIN aqueue'
          PROVE  \/ i \in DOMAIN aqueue /\ aqueue'[i] = aqueue[i]
                 \/ aqueue'[i] = e /\ i = n + 1
      BY <3>1, <3>2, <3>3
    <3> QED BY <3>4 DEF n
  <2>8. ASSUME NEW x \in AEntry, Made(source, x), Precedes(x, aqueue) PROVE Precedes(x, aqueue')
    BY <2>6, <2>7, <2>8 DEF Precedes
  <2>9. /\ \A i \in DOMAIN abatch : abatch[i] \in AEntry
        /\ \A i \in DOMAIN aqueue : aqueue[i] \in AEntry
    BY <2>4 DEF ShipTypes
  <2>10. InOrder(aqueue')
    <3>1. ASSUME NEW i \in DOMAIN aqueue', NEW j \in DOMAIN aqueue', i < j, aqueue'[i].by = aqueue'[j].by
          PROVE  aqueue'[i].n < aqueue'[j].n
      <4>1. i \in DOMAIN aqueue /\ aqueue'[i] = aqueue[i]
        BY <2>4, <2>5, <3>1
      <4>2. aqueue[i] \in AEntry /\ Made(source, aqueue[i])
        BY <2>9, <4>1 DEF ShipOrder
      <4>3. CASE j \in DOMAIN aqueue /\ aqueue'[j] = aqueue[j]
        BY <3>1, <4>1, <4>3 DEF ShipOrder, InOrder
      <4>4. CASE aqueue'[j] = e
        BY <2>6, <3>1, <4>1, <4>2, <4>4
      <4> QED BY <2>7, <4>3, <4>4
    <3> QED BY <3>1 DEF InOrder
  <2>11. Made(source', e)
    <3>1. source'[s].n = source[s].n /\ source[s].n \in Nat
      BY <1>1, <1>2
    <3> QED BY <2>1, <2>3, <3>1 DEF Made
  <2>12. ASSUME NEW i \in DOMAIN aqueue' PROVE Made(source', aqueue'[i])
    <3>1. CASE i \in DOMAIN aqueue /\ aqueue'[i] = aqueue[i]
      <4>1. aqueue[i] \in AEntry /\ Made(source, aqueue[i])
        BY <2>9, <3>1 DEF ShipOrder
      <4>2. Made(source', aqueue[i])
        BY <1>5, <4>1
      <4> QED BY <3>1, <4>2 DEF Made
    <3>2. CASE aqueue'[i] = e
      BY <2>11, <3>2 DEF Made
    <3> QED BY <2>7, <3>1, <3>2
  <2>13. \A x, d : Offered(x, d)' <=> Offered(x, d)
    BY <1>3 DEF Offered
  <2>14. \A i : Shipping(i)' <=> Shipping(i)
    BY <1>3 DEF Shipping
  <2>15. ShipOrder'
    BY <1>3, <1>5, <2>8, <2>9, <2>10, <2>12, <2>13, <2>14 DEF ShipOrder
  <2> QED BY <1>4, <2>15
<1> QED BY <1>6, <1>7 DEF addLogEntry

(* The front of the queue becomes the batch.                               *)
LEMMA ShipCollects ==
    ASSUME AggregatorInv, ShipTypes, ShipOrder, CollectBatch
    PROVE  ShipTypes' /\ ShipOrder'
<1>1. UNCHANGED <<logs, failed, source>> /\ aworker = <<"loop">>
  BY DEF CollectBatch
<1>2. aqueue \in Seq(AEntry) /\ Len(aqueue) \in Nat /\ MaxBatch \in Nat
  BY AggregatorAssumption DEF AggregatorInv, AggregatorAssumption
<1>3. \A e : Made(source', e) <=> Made(source, e)
  BY <1>1 DEF Made
<1>4. CASE aqueue = <<>>
  <2>1. UNCHANGED <<aqueue, abatch>> /\ aworker' = <<"none">>
    BY <1>4 DEF CollectBatch
  <2>2. ShipTypes'
    BY <1>1, <2>1 DEF ShipTypes
  <2>3. \A i : Shipping(i)' => Shipping(i)
    BY <2>1 DEF Shipping
  <2> QED BY <1>1, <1>3, <2>1, <2>2, <2>3, ShipFrame
<1>5. CASE aqueue # <<>>
  <2> DEFINE k == IF Len(aqueue) < MaxBatch THEN Len(aqueue) ELSE MaxBatch
             N == Len(aqueue)
  <2>1. /\ abatch' = SubSeq(aqueue, 1, k) /\ aqueue' = SubSeq(aqueue, k + 1, N)
        /\ aworker' = <<"ship", 1>>
    BY <1>5 DEF CollectBatch
  <2>2. k \in 0..N /\ N \in Nat
    BY <1>2
  <2> HIDE DEF k
  <2>3. /\ abatch' \in Seq(AEntry) /\ DOMAIN abatch' = 1..k
        /\ \A i \in 1..k : abatch'[i] = aqueue[i]
    BY <1>2, <2>1, <2>2
  <2>4. /\ aqueue' \in Seq(AEntry) /\ DOMAIN aqueue' = 1..(N - k)
        /\ \A i \in 1..(N - k) : aqueue'[i] = aqueue[k + i]
    BY <1>2, <2>1, <2>2
  <2>5. DOMAIN aqueue = 1..N
    BY <1>2
  <2> HIDE DEF N
  <2>6. /\ \A i \in DOMAIN abatch' : i \in DOMAIN aqueue /\ abatch'[i] = aqueue[i]
        /\ \A i \in DOMAIN aqueue' : k + i \in DOMAIN aqueue /\ aqueue'[i] = aqueue[k + i]
    BY <2>2, <2>3, <2>4, <2>5
  <2>7. InOrder(aqueue)
    BY DEF ShipOrder
  <2>8. InOrder(abatch')
    BY <2>6, <2>7 DEF InOrder
  <2>9. InOrder(aqueue')
    <3>1. ASSUME NEW i \in DOMAIN aqueue', NEW j \in DOMAIN aqueue', i < j, aqueue'[i].by = aqueue'[j].by
          PROVE  aqueue'[i].n < aqueue'[j].n
      <4>1. k + i < k + j
        BY <2>2, <2>4, <3>1
      <4> QED BY <2>6, <2>7, <3>1, <4>1 DEF InOrder
    <3> QED BY <3>1 DEF InOrder
  <2>10. ASSUME NEW i \in DOMAIN abatch' PROVE Precedes(abatch'[i], aqueue') /\ Made(source, abatch'[i])
    <3>1. ASSUME NEW j \in DOMAIN aqueue', abatch'[i].by = aqueue'[j].by
          PROVE  abatch'[i].n < aqueue'[j].n
      <4>1. i < k + j
        BY <2>2, <2>3, <2>4
      <4> QED BY <2>6, <2>7, <3>1, <4>1 DEF InOrder
    <3>2. Made(source, aqueue[i])
      BY <2>6 DEF ShipOrder
    <3> QED BY <2>6, <3>1, <3>2 DEF Precedes
  <2>11. ASSUME NEW x, Precedes(x, aqueue) PROVE Precedes(x, aqueue') /\ Precedes(x, abatch')
    BY <2>6, <2>11 DEF Precedes
  <2>12. \A x, d : Offered(x, d)' <=> Offered(x, d)
    BY <1>1 DEF Offered
  <2>13. \A i \in DOMAIN aqueue' : Made(source, aqueue'[i])
    BY <2>6 DEF ShipOrder
  <2>14. \A d \in Destination : \A x \in AEntry : Offered(x, d) => Precedes(x, aqueue) /\ Made(source, x)
    BY DEF ShipOrder
  <2>15. \A i \in DOMAIN destinations : destinations[i].name \in Destination
    BY DestinationFacts
  <2>16. ShipOrder'
    BY <1>1, <1>3, <2>8, <2>9, <2>10, <2>11, <2>12, <2>13, <2>14, <2>15 DEF ShipOrder
  <2>17. ShipTypes'
    <3>1. 1 \in 1..(Len(destinations) + 1)
      BY AggregatorAssumption DEF AggregatorAssumption
    <3> QED BY <1>1, <2>1, <2>3, <3>1 DEF ShipTypes
  <2> QED BY <2>16, <2>17
<1> QED BY <1>4, <1>5

(* The entries of a sequence are among them.                                *)
LEMMA EntriesAmong ==
    ASSUME NEW x \in Seq(AEntry)
    PROVE  \A i \in DOMAIN x : x[i] \in AEntry /\ Among(x[i], x)
<1>1. \A i \in DOMAIN x : x[i] \in AEntry
  OBVIOUS
<1> QED BY <1>1 DEF Among

(* What is shipped of a batch comes after all that the destination has had.  *)
LEMMA FilteredFacts ==
    ASSUME AggregatorInv, ShipTypes, ShipOrder, NEW i \in DOMAIN destinations, Shipping(i),
           NEW D \in SUBSET DOMAIN abatch, NEW q, q = Kept(abatch, D)
    PROVE  /\ q \in Seq(AEntry) /\ InOrder(q)
           /\ \A e \in AEntry : Among(e, q) => Precedes(e, aqueue) /\ Made(source, e)
           /\ \A e \in AEntry : Offered(e, destinations[i].name) => Precedes(e, q)
           /\ \A e \in AEntry : Offered(e, destinations[i].name) => ~Among(e, q)
<1>1. abatch \in Seq(AEntry) /\ InOrder(abatch)
  BY DEF ShipTypes, ShipOrder
<1>2. q \in Seq(AEntry) /\ InOrder(q) /\ \A j \in DOMAIN q : Among(q[j], abatch)
  BY <1>1, KeptInOrder
<1>3. ASSUME NEW e \in AEntry, Among(e, q) PROVE Precedes(e, aqueue) /\ Made(source, e)
  <2>1. Among(e, abatch)
    BY <1>2, <1>3 DEF Among
  <2> QED BY <2>1 DEF ShipOrder, Among
<1>4. ASSUME NEW e \in AEntry, Offered(e, destinations[i].name)
      PROVE  Precedes(e, q) /\ ~Among(e, q)
  <2>1. Precedes(e, abatch)
    BY <1>4 DEF ShipOrder
  <2>2. Precedes(e, q)
    BY <1>2, <2>1 DEF Precedes, Among
  <2>3. e.n \in Nat
    BY DEF AEntry
  <2>4. ~Among(e, q)
    BY <2>2, <2>3 DEF Precedes, Among
  <2> QED BY <2>2, <2>4
<1> QED BY <1>2, <1>3, <1>4

(* A destination has had a part of the batch, or refused it.                *)
HadPart(k, D, q) ==
    LET d == destinations[k].name IN
    /\ k \in DOMAIN destinations /\ Shipping(k)
    /\ aworker = <<"ship", k>> /\ aworker' = <<"ship", k + 1>>
    /\ D \in SUBSET DOMAIN abatch /\ q = Kept(abatch, D)
    /\ UNCHANGED <<abatch, aqueue, source>>
    /\ logs' \in [Destination -> Files] /\ failed' \in [Destination -> Seq(AEntry)]
    /\ \A x \in Destination : x # d => logs'[x].sent = logs[x].sent /\ failed'[x] = failed[x]
    /\ \/ logs'[d].sent = logs[d].sent \o q /\ failed'[d] = failed[d]
       \/ logs'[d].sent = logs[d].sent /\ failed'[d] = failed[d] \o q

(* What a destination has been offered is in order, and a failed entry is   *)
(* not among those it got.                                                  *)
LEMMA ShipSent ==
    ASSUME AggregatorInv, ShipTypes, ShipOrder, NamesDiffer, NEW k, NEW D, NEW q, HadPart(k, D, q)
    PROVE  ShipTypes' /\ ShipOrder'
<1> USE DEF HadPart
<1> DEFINE d == destinations[k].name
<1>1. d \in Destination /\ k \in 1..Len(destinations) /\ Len(destinations) \in Nat
  BY DestinationFacts
<1>2. /\ q \in Seq(AEntry) /\ InOrder(q)
      /\ \A e \in AEntry : Among(e, q) => Precedes(e, aqueue) /\ Made(source, e)
      /\ \A e \in AEntry : Offered(e, d) => Precedes(e, q) /\ ~Among(e, q)
  BY FilteredFacts
<1>3. ShipTypes'
  <2>1. /\ UNCHANGED <<abatch, source>> /\ aworker' = <<"ship", k + 1>>
        /\ logs' \in [Destination -> Files] /\ failed' \in [Destination -> Seq(AEntry)]
    OBVIOUS
  <2> HIDE DEF HadPart
  <2>2. k + 1 \in 1..(Len(destinations) + 1)
    <3> DEFINE L == Len(destinations)
    <3>1. k \in 1..L /\ L \in Nat
      BY <1>1
    <3> HIDE DEF L
    <3>2. k + 1 \in 1..(L + 1)
      BY <3>1
    <3> QED BY <3>2 DEF L
  <2>3. aworker' \in {<<"none">>, <<"loop">>} \cup {<<"ship", i>> : i \in 1..(Len(destinations) + 1)}
    BY <2>1, <2>2
  <2> QED BY <2>1, <2>3 DEF ShipTypes
<1> DEFINE old == logs[d].sent
           bad == failed[d]
<1>4. old \in Seq(AEntry) /\ bad \in Seq(AEntry)
  <2>1. logs[d] \in Files
    BY <1>1 DEF ShipTypes
  <2> QED BY <1>1, <2>1 DEF ShipTypes, Files
<1>5. \A e : Offered(e, d) <=> Among(e, old) \/ Among(e, bad)
  BY DEF Offered
<1>6. \/ logs'[d].sent = old \o q /\ failed'[d] = bad
      \/ logs'[d].sent = old /\ failed'[d] = bad \o q
  OBVIOUS
<1>7. \A x \in Destination : x # d => logs'[x].sent = logs[x].sent /\ failed'[x] = failed[x]
  OBVIOUS
<1>8. /\ InOrder(old) /\ \A i \in DOMAIN old : ~Among(old[i], bad)
      /\ \A i \in DOMAIN old : old[i] \in AEntry /\ Among(old[i], old)
      /\ \A i \in DOMAIN q : q[i] \in AEntry /\ Among(q[i], q)
  <2>1. InOrder(old) /\ \A i \in DOMAIN old : ~Among(old[i], bad)
    BY <1>1 DEF ShipOrder
  <2> HIDE DEF old, bad
  <2>2. \A i \in DOMAIN old : old[i] \in AEntry /\ Among(old[i], old)
    BY <1>4, EntriesAmong, Zenon
  <2>3. \A i \in DOMAIN q : q[i] \in AEntry /\ Among(q[i], q)
    BY <1>2, EntriesAmong, Zenon
  <2> QED BY <2>1, <2>2, <2>3
<1>9. ASSUME NEW i \in DOMAIN destinations, Shipping(i)' PROVE Shipping(i) /\ i # k
  <2>0. aworker = <<"ship", k>> /\ aworker' = <<"ship", k + 1>>
    OBVIOUS
  <2> HIDE DEF HadPart
  <2>1. i \in Int /\ k \in Int
    <3> DEFINE L == Len(destinations)
    <3>1. L \in Nat /\ i \in 1..L /\ k \in 1..L
      BY <1>1, DestinationFacts
    <3> HIDE DEF L
    <3> QED BY <3>1
  <2>2. k + 1 <= i
    BY <1>9, <2>0 DEF Shipping
  <2> QED BY <2>0, <2>1, <2>2 DEF Shipping
<1>10. \A x, e : x \in Destination /\ x # d => (Offered(e, x)' <=> Offered(e, x))
  BY <1>7 DEF Offered
<1>11. \A i \in DOMAIN destinations : destinations[i].name \in Destination /\ (i # k => destinations[i].name # d)
  BY DestinationFacts DEF NamesDiffer
<1> HIDE DEF d
<1>12. \A e : Offered(e, d)' <=> Offered(e, d) \/ Among(e, q)
  <2>1. \A e : Among(e, old \o q) <=> Among(e, old) \/ Among(e, q)
    BY <1>2, <1>4, AmongBoth
  <2>2. \A e : Among(e, bad \o q) <=> Among(e, bad) \/ Among(e, q)
    BY <1>2, <1>4, AmongBoth
  <2>3. \A e : Offered(e, d)' <=> Among(e, logs'[d].sent) \/ Among(e, failed'[d])
    BY DEF Offered
  <2> HIDE DEF old, bad
  <2> QED BY <1>5, <1>6, <2>1, <2>2, <2>3
<1> HIDE DEF old, bad
<1>13. InOrder(logs'[d].sent)
  <2>1. \A i \in DOMAIN old : Precedes(old[i], q)
    BY <1>2, <1>5, <1>8
  <2>2. InOrder(old \o q)
    BY <1>2, <1>4, <1>8, <2>1, OrderBoth
  <2> QED BY <1>6, <1>8, <2>2
<1>14. \A i \in DOMAIN (logs'[d].sent) : ~Among(logs'[d].sent[i], failed'[d])
  <2>1. CASE logs'[d].sent = old \o q /\ failed'[d] = bad
    <3> DEFINE c == old \o q
    <3>1. \A i \in DOMAIN c : \/ i \in DOMAIN old /\ c[i] = old[i]
                              \/ i - Len(old) \in DOMAIN q /\ c[i] = q[i - Len(old)]
      <4>1. old \in Seq(AEntry) /\ q \in Seq(AEntry)
        BY <1>2, <1>4
      <4> HIDE DEF HadPart
      <4> QED BY <4>1, OneAfterOther
    <3> HIDE DEF c
    <3>2. \A i \in DOMAIN q : ~Among(q[i], bad)
      BY <1>2, <1>5, <1>8
    <3>3. \A i \in DOMAIN c : ~Among(c[i], bad)
      BY <1>8, <3>1, <3>2
    <3> QED BY <2>1, <3>3 DEF c
  <2>2. CASE logs'[d].sent = old /\ failed'[d] = bad \o q
    <3>1. \A e : Among(e, bad \o q) <=> Among(e, bad) \/ Among(e, q)
      BY <1>2, <1>4, AmongBoth
    <3>2. \A i \in DOMAIN old : ~Among(old[i], q)
      BY <1>2, <1>5, <1>8
    <3> QED BY <1>8, <2>2, <3>1, <3>2
  <2> QED BY <1>6, <2>1, <2>2
<1>15. ASSUME NEW x \in Destination
       PROVE  /\ InOrder(logs'[x].sent)
              /\ \A i \in DOMAIN (logs'[x].sent) : ~Among(logs'[x].sent[i], failed'[x])
              /\ \A e \in AEntry : Offered(e, x)' => Precedes(e, aqueue) /\ Made(source, e)
  <2>1. CASE x = d
    <3>1. \A e \in AEntry : Offered(e, d) => Precedes(e, aqueue) /\ Made(source, e)
      BY <1>1 DEF ShipOrder
    <3> QED BY <1>2, <1>12, <1>13, <1>14, <2>1, <3>1
  <2>2. CASE x # d
    BY <1>7, <1>10, <2>2 DEF ShipOrder
  <2> QED BY <2>1, <2>2
<1>16. ASSUME NEW i \in DOMAIN destinations, Shipping(i)'
       PROVE  \A e \in AEntry : Offered(e, destinations[i].name)' => Precedes(e, abatch)
  BY <1>9, <1>10, <1>11, <1>16 DEF ShipOrder
<1>17. ShipOrder'
  BY <1>15, <1>16 DEF ShipOrder
<1> QED BY <1>3, <1>17

(* While a number is free, a file and its rotated parts hold what was sent:  *)
(* m is the file, rotated or not, and r the file with the batch.             *)
LEMMA ShipFile ==
    ASSUME NEW l \in Files, NEW q \in Seq(AEntry), NEW m, m \in {l, rotateAggregated(l)},
           NEW r, r = [m EXCEPT !.file = @ \o q, !.sent = @ \o q]
    PROVE  /\ r \in Files /\ r.sent = l.sent \o q
           /\ NothingRotatedAway(l) => NothingRotatedAway(r)
           /\ m \in Files /\ m.sent = l.sent
           /\ NothingRotatedAway(l) => NothingRotatedAway(m)
<1> DEFINE Q == Seq(AEntry)
<1>0. maxRotated \in Nat /\ maxRotated # 0
  BY AggregatorAssumption DEF AggregatorAssumption
<1>1. l.file \in Q /\ l.sent \in Q /\ l.rotated \in Seq(Q) /\ Len(l.rotated) \in Nat
      /\ l = [file |-> l.file, rotated |-> l.rotated, sent |-> l.sent]
  BY DEF Files
<1>2. /\ m \in Files /\ m.sent = l.sent
      /\ NothingRotatedAway(l) => NothingRotatedAway(m)
  <2>1. CASE m = l
    BY <2>1
  <2>2. CASE m = rotateAggregated(l)
    <3> DEFINE one == Append(l.rotated, l.file)
               other == [l.rotated EXCEPT ![maxRotated] = l.file]
    <3>1. m = [file |-> <<>>, rotated |-> IF Len(l.rotated) < maxRotated THEN one ELSE other,
               sent |-> l.sent]
      <4>1. rotateAggregated(l) =
               [l EXCEPT !.file = <<>>, !.rotated = IF Len(l.rotated) < maxRotated THEN one ELSE other]
        BY DEF rotateAggregated
      <4> HIDE DEF one, other
      <4> QED BY <1>1, <2>2, <4>1
    <3>2. one \in Seq(Q) /\ Len(one) = Len(l.rotated) + 1 /\ other \in Seq(Q) /\ Len(other) = Len(l.rotated)
      <4> DEFINE a == l.rotated
                 b == l.file
      <4>1. a \in Seq(Q) /\ b \in Q
        BY <1>1
      <4> HIDE DEF Q, a, b
      <4>2. Append(a, b) \in Seq(Q) /\ Len(Append(a, b)) = Len(a) + 1
        BY <4>1
      <4>3. [a EXCEPT ![maxRotated] = b] \in Seq(Q) /\ Len([a EXCEPT ![maxRotated] = b]) = Len(a)
        <5> DEFINE n == Len(a)
                   c == [a EXCEPT ![maxRotated] = b]
        <5>1. n \in Nat /\ a \in [1..n -> Q]
          BY <4>1
        <5> HIDE DEF n
        <5>2. c \in [1..n -> Q]
          BY <4>1, <5>1
        <5> HIDE DEF c
        <5>3. c \in Seq(Q) /\ Len(c) = n
          BY <5>1, <5>2
        <5> QED BY <5>3 DEF c, n
      <4> QED BY <4>2, <4>3 DEF a, b
    <3>3. ASSUME NothingRotatedAway(l) PROVE NothingRotatedAway(m)
      <4>1. CASE Len(l.rotated) + 1 < maxRotated
        <5> DEFINE F == FlattenSeq(l.rotated)
        <5>1. Len(l.rotated) < maxRotated
          BY <1>0, <1>1, <4>1
        <5>2. F \in Q /\ F \o l.file = l.sent
          BY <3>3, <5>1 DEF NothingRotatedAway
        <5>3. FlattenSeq(one) = F \o l.file
          BY <1>1, FlattenAppend
        <5> HIDE DEF F, one
        <5>4. (F \o l.file) \o <<>> = F \o l.file /\ F \o l.file \in Q
          BY <1>1, <5>2
        <5> QED BY <3>1, <5>1, <5>2, <5>3, <5>4 DEF NothingRotatedAway
      <4>2. CASE ~(Len(l.rotated) + 1 < maxRotated)
        <5> HIDE DEF one, other
        <5>1. ~(Len(m.rotated) < maxRotated)
          BY <1>0, <1>1, <3>1, <3>2, <4>2
        <5> QED BY <5>1 DEF NothingRotatedAway
      <4> QED BY <4>1, <4>2
    <3>4. m \in Files /\ m.sent = l.sent
      <4> HIDE DEF one, other
      <4>1. <<>> \in Seq(AEntry)
        OBVIOUS
      <4> QED BY <1>1, <3>1, <3>2, <4>1 DEF Files
    <3> QED BY <3>3, <3>4
  <2> QED BY <2>1, <2>2
<1>3. m.file \in Q /\ m.sent \in Q /\ m.rotated \in Seq(Q)
      /\ m = [file |-> m.file, rotated |-> m.rotated, sent |-> m.sent]
  BY <1>2 DEF Files
<1>4. r = [m EXCEPT !.file = m.file \o q, !.sent = m.sent \o q]
  OBVIOUS
<1>5. r = [file |-> m.file \o q, rotated |-> m.rotated, sent |-> m.sent \o q]
  BY <1>3, <1>4
<1>6. r \in Files /\ r.sent = l.sent \o q
  <2> DEFINE a == m.file
             b == m.sent
  <2>1. a \in Seq(AEntry) /\ b \in Seq(AEntry)
    BY <1>3
  <2> HIDE DEF a, b
  <2>2. a \o q \in Seq(AEntry) /\ b \o q \in Seq(AEntry)
    BY <2>1, ConcatProperties
  <2> QED BY <1>2, <1>3, <1>5, <2>2 DEF Files, a, b
<1>7. ASSUME NothingRotatedAway(m) PROVE NothingRotatedAway(r)
  <2>0. r.rotated = m.rotated /\ r.file = m.file \o q /\ r.sent = m.sent \o q
    BY <1>5
  <2> SUFFICES ASSUME Len(m.rotated) < maxRotated
               PROVE  FlattenSeq(m.rotated) \in Q /\ FlattenSeq(m.rotated) \o (m.file \o q) = m.sent \o q
    BY <2>0 DEF NothingRotatedAway
  <2> DEFINE F == FlattenSeq(m.rotated)
  <2>1. F \in Q /\ F \o m.file = m.sent
    BY <1>7 DEF NothingRotatedAway
  <2> HIDE DEF F
  <2>2. (F \o m.file) \o q = F \o (m.file \o q)
    <3> DEFINE a == m.file
    <3>1. F \in Seq(AEntry) /\ a \in Seq(AEntry)
      BY <1>3, <2>1
    <3> HIDE DEF a
    <3>2. (F \o a) \o q = F \o (a \o q)
      BY <3>1
    <3> QED BY <3>2 DEF a
  <2> QED BY <2>1, <2>2 DEF F
<1> QED BY <1>2, <1>6, <1>7

(* The record of a destination without a file.                             *)
LEMMA SentMore ==
    ASSUME NEW l \in Files, NEW q \in Seq(AEntry)
    PROVE  /\ [l EXCEPT !.sent = l.sent \o q] \in Files
           /\ [l EXCEPT !.sent = l.sent \o q].sent = l.sent \o q
<1> DEFINE a == l.sent \o q
<1>1. l.sent \in Seq(AEntry)
  BY DEF Files
<1>2. a \in Seq(AEntry)
  BY <1>1, ConcatProperties
<1> HIDE DEF a
<1>3. [l EXCEPT !.sent = a] \in Files /\ [l EXCEPT !.sent = a].sent = a
  BY <1>2 DEF Files
<1> QED BY <1>3 DEF a

(* The next destination is offered the batch.                              *)
LEMMA ShipShips ==
    ASSUME AggregatorInv, ShipTypes, ShipOrder, ShipRotated, NamesDiffer, ShipBatch
    PROVE  ShipTypes' /\ ShipOrder' /\ ShipRotated'
<1> DEFINE k == aworker[2]
           dest == destinations[k]
           D == {i \in DOMAIN abatch : shouldShipEntry(dest, abatch[i])}
           q == Kept(abatch, D)
           d == dest.name
<1>1. PICK n \in 1..(Len(destinations) + 1) : aworker = <<"ship", n>>
  BY DEF ShipBatch, ShipTypes
<1>2. k \in DOMAIN destinations /\ aworker = <<"ship", k>> /\ aworker' = <<"ship", k + 1>> /\ Shipping(k)
  <2>1. aworker[1] = "ship" /\ k <= Len(destinations) /\ aworker' = <<"ship", k + 1>>
    BY DEF ShipBatch
  <2>2. k = n
    BY <1>1
  <2>3. n \in 1..Len(destinations)
    BY <1>1, <2>1, <2>2, DestinationFacts
  <2> QED BY <1>1, <2>1, <2>2, <2>3, DestinationFacts DEF Shipping
<1>3. UNCHANGED <<abatch, aqueue, source>>
  BY DEF ShipBatch
<1>4. shipToDestination(dest, q) \/ UNCHANGED <<logs, failed>>
  BY DEF ShipBatch
<1>5. D \in SUBSET DOMAIN abatch
  OBVIOUS
<1>6. d \in Destination
  BY <1>2, DestinationFacts
<1>7. \E u : u = q
  OBVIOUS
<1> HIDE DEF k, D, q, d
<1>8. PICK u : u = q
  BY <1>7
<1>9. u = Kept(abatch, D) /\ u \in Seq(AEntry)
  <2>1. u = Kept(abatch, D)
    BY <1>8 DEF q
  <2> QED BY <1>2, <1>5, <2>1, FilteredFacts
<1>10. logs \in [Destination -> Files] /\ failed \in [Destination -> Seq(AEntry)]
  BY DEF ShipTypes
<1>11. CASE UNCHANGED <<logs, failed>>
  <2>1. k + 1 \in 1..(Len(destinations) + 1)
    BY <1>2, DestinationFacts
  <2>2. ShipTypes'
    BY <1>2, <1>3, <1>11, <2>1 DEF ShipTypes
  <2>3. ASSUME NEW i \in DOMAIN destinations, Shipping(i)' PROVE Shipping(i)
    <3>1. i \in Int /\ k \in Int
      BY <1>2, DestinationFacts
    <3> QED BY <1>2, <2>3, <3>1 DEF Shipping
  <2>4. ShipOrder'
    BY <1>3, <1>11, <2>3, ShipFrame
  <2> QED BY <1>11, <2>2, <2>4 DEF ShipRotated
<1>12. ASSUME NEW l \in Files, l.sent = logs[d].sent \o u, logs' = [logs EXCEPT ![d] = l], UNCHANGED failed,
              IsFile(d) => (NothingRotatedAway(logs[d]) => NothingRotatedAway(l))
       PROVE  ShipTypes' /\ ShipOrder' /\ ShipRotated'
  <2>1. /\ logs' \in [Destination -> Files] /\ logs'[d] = l
        /\ \A x \in Destination : x # d => logs'[x] = logs[x]
    BY <1>6, <1>10, <1>12
  <2>2. ShipTypes' /\ ShipOrder'
    <3>1. HadPart(k, D, u)
      BY <1>2, <1>3, <1>5, <1>9, <1>10, <1>12, <2>1 DEF HadPart, d
    <3> QED BY <3>1, ShipSent
  <2>3. ShipRotated'
    BY <1>12, <2>1 DEF ShipRotated, IsFile
  <2> QED BY <2>2, <2>3
<1>13. ASSUME NEW l \in Files, l.sent = logs[d].sent, logs' = [logs EXCEPT ![d] = l],
              NothingRotatedAway(logs[d]) => NothingRotatedAway(l),
              failed' = [failed EXCEPT ![d] = @ \o u]
       PROVE  ShipTypes' /\ ShipOrder' /\ ShipRotated'
  <2>1. failed[d] \in Seq(AEntry)
    BY <1>6, <1>10
  <2>2. failed[d] \o u \in Seq(AEntry)
    BY <1>9, <2>1
  <2>3. /\ failed' \in [Destination -> Seq(AEntry)] /\ failed'[d] = failed[d] \o u
        /\ \A x \in Destination : x # d => failed'[x] = failed[x]
    BY <1>6, <1>10, <1>13, <2>2
  <2>4. /\ logs' \in [Destination -> Files] /\ logs'[d] = l
        /\ \A x \in Destination : x # d => logs'[x] = logs[x]
    BY <1>6, <1>10, <1>13
  <2>5. ShipTypes' /\ ShipOrder'
    <3>1. HadPart(k, D, u)
      BY <1>2, <1>3, <1>5, <1>9, <1>10, <1>13, <2>3, <2>4 DEF HadPart, d
    <3> QED BY <3>1, ShipSent
  <2>6. ShipRotated'
    BY <1>13, <2>4 DEF ShipRotated, IsFile
  <2> QED BY <2>5, <2>6
<1>14. logs[d] \in Files /\ logs = [logs EXCEPT ![d] = logs[d]]
  BY <1>6, <1>10
<1>15. CASE shipToDestination(dest, q)
  <2>1. CASE dest.type = "HTTP" /\ shipOverHttp(dest, q)
    <3>1. CASE logs' = [logs EXCEPT ![d].sent = @ \o q] /\ UNCHANGED failed
      <4> DEFINE l == [logs[d] EXCEPT !.sent = logs[d].sent \o u]
      <4>1. logs' = [logs EXCEPT ![d] = l]
        BY <1>8, <3>1
      <4>2. l \in Files /\ l.sent = logs[d].sent \o u
        BY <1>9, <1>14, SentMore
      <4>3. ~IsFile(d)
        BY <1>2, <2>1 DEF IsFile, NamesDiffer, d
      <4> HIDE DEF l
      <4> QED BY <1>12, <3>1, <4>1, <4>2, <4>3
    <3>2. CASE failed' = [failed EXCEPT ![d] = @ \o q] /\ UNCHANGED logs
      BY <1>8, <1>13, <1>14, <3>2
    <3> QED BY <2>1, <3>1, <3>2 DEF shipOverHttp, d
  <2>2. CASE dest.type = "FILE" /\ shipToFile(dest, q)
    <3>1. PICK old \in Files : old = logs[d]
      BY <1>14
    <3>2. PICK m : /\ m \in {old, rotateAggregated(old)}
                   /\ \/ /\ logs' = [logs EXCEPT ![d] = [m EXCEPT !.file = @ \o u, !.sent = @ \o u]]
                         /\ UNCHANGED failed
                      \/ /\ UNCHANGED logs \/ logs' = [logs EXCEPT ![d] = m]
                         /\ failed' = [failed EXCEPT ![d] = @ \o u]
      <4>1. shipToFile(dest, u) /\ dest.name = d
        BY <1>8, <2>2 DEF d
      <4>2. PICK rotates :
              LET m == IF rotates THEN rotateAggregated(logs[d]) ELSE logs[d]
              IN  \/ /\ logs' = [logs EXCEPT ![d] = [m EXCEPT !.file = @ \o u, !.sent = @ \o u]]
                     /\ UNCHANGED failed
                  \/ /\ UNCHANGED logs \/ logs' = [logs EXCEPT ![d] = m]
                     /\ failed' = [failed EXCEPT ![d] = @ \o u]
        <5>1. \E rotates \in IF d \in fileStreams
                                THEN {dest.rotate /\ Len(logs[d].file) >= maxFileLines}
                                ELSE {dest.rotate /\ Len(logs[d].file) >= maxFileLines, FALSE} :
                LET l == IF rotates THEN rotateAggregated(logs[d]) ELSE logs[d] IN
                \/ /\ logs' = [logs EXCEPT ![d] = [l EXCEPT !.file = @ \o u, !.sent = @ \o u]]
                   /\ fileStreams' = fileStreams \union {d}
                   /\ UNCHANGED failed
                \/ /\ \/ d \notin fileStreams /\ UNCHANGED logs
                      \/ rotates /\ logs' = [logs EXCEPT ![d] = l]
                   /\ fileStreams' = fileStreams \ {d}
                   /\ failed' = [failed EXCEPT ![d] = @ \o u]
          BY <4>1, Zenon DEF shipToFile
        <5> QED BY <5>1, Zenon
      <4>3. PICK m : m = IF rotates THEN rotateAggregated(logs[d]) ELSE logs[d]
        BY Zenon
      <4>4. m \in {old, rotateAggregated(old)}
        BY <3>1, <4>3
      <4>5. \/ /\ logs' = [logs EXCEPT ![d] = [m EXCEPT !.file = @ \o u, !.sent = @ \o u]]
               /\ UNCHANGED failed
            \/ /\ UNCHANGED logs \/ logs' = [logs EXCEPT ![d] = m]
               /\ failed' = [failed EXCEPT ![d] = @ \o u]
        BY <4>2, <4>3, Zenon
      <4> QED BY <4>4, <4>5, Zenon
    <3>3. PICK l : l = [m EXCEPT !.file = @ \o u, !.sent = @ \o u]
      BY Zenon
    <3>4. /\ l \in Files /\ l.sent = old.sent \o u /\ m \in Files /\ m.sent = old.sent
          /\ NothingRotatedAway(old) => NothingRotatedAway(l) /\ NothingRotatedAway(m)
      <4>1. u \in Seq(AEntry) /\ m \in {old, rotateAggregated(old)}
        BY <1>9, <3>2
      <4>2. old \in Files
        OBVIOUS
      <4> HIDE <3>2
      <4> QED BY <3>3, <4>1, <4>2, ShipFile
    <3>5. CASE logs' = [logs EXCEPT ![d] = l] /\ UNCHANGED failed
      BY <1>12, <3>1, <3>4, <3>5
    <3>6. CASE logs' = [logs EXCEPT ![d] = m] /\ failed' = [failed EXCEPT ![d] = @ \o u]
      BY <1>13, <3>1, <3>4, <3>6
    <3>7. CASE UNCHANGED logs /\ failed' = [failed EXCEPT ![d] = @ \o u]
      BY <1>13, <1>14, <3>7
    <3> QED BY <3>2, <3>3, <3>5, <3>6, <3>7
  <2>3. CASE dest.type = "SYSLOG" /\ logs' = [logs EXCEPT ![d] = shipToSyslog(@, q)] /\ UNCHANGED failed
    <3> DEFINE l == [logs[d] EXCEPT !.sent = logs[d].sent \o u]
    <3>1. logs' = [logs EXCEPT ![d] = l] /\ UNCHANGED failed
      BY <1>8, <2>3 DEF shipToSyslog
    <3>2. l \in Files /\ l.sent = logs[d].sent \o u
      BY <1>9, <1>14, SentMore
    <3>3. ~IsFile(d)
      BY <1>2, <2>3 DEF IsFile, NamesDiffer, d
    <3> HIDE DEF l
    <3> QED BY <1>12, <3>1, <3>2, <3>3
  <2> QED BY <1>15, <2>1, <2>2, <2>3 DEF shipToDestination, d
<1> QED BY <1>4, <1>11, <1>15

(* Every step of the aggregator keeps what has been shipped in order.       *)
LEMMA ShipStep ==
    NamesDiffer /\ AggregatorInv /\ ShipTypes /\ ShipOrder /\ ShipRotated /\ [ANext]_avars
    => ShipTypes' /\ ShipOrder' /\ ShipRotated'
<1> SUFFICES ASSUME NamesDiffer, AggregatorInv, ShipTypes, ShipOrder, ShipRotated, [ANext]_avars
             PROVE  ShipTypes' /\ ShipOrder' /\ ShipRotated'
  OBVIOUS
<1>1. UNCHANGED logs => ShipRotated'
  BY DEF ShipRotated
<1>2. ASSUME NEW s \in Source, NEW l \in Severity, logStructured(s, l) PROVE ShipTypes' /\ ShipOrder'
  BY <1>2, ShipLogs
<1>3. ASSUME NEW s \in Source, addLogEntry(s) PROVE ShipTypes' /\ ShipOrder'
  BY <1>3, ShipAdds
<1>4. ASSUME UNCHANGED <<source, logs, failed>>, aworker' \in {<<"none">>, <<"loop">>, aworker},
             abatch' \in {<<>>, abatch}, aqueue' \in {<<>>, aqueue}
      PROVE  ShipTypes' /\ ShipOrder'
  <2>1. <<>> \in Seq(AEntry) /\ InOrder(<<>>) /\ (\A e : Precedes(e, <<>>)) /\ DOMAIN <<>> = {}
    BY DEF InOrder, Precedes
  <2>2. ShipTypes'
    BY <1>4, <2>1 DEF ShipTypes
  <2>3. \A i : Shipping(i)' => Shipping(i)
    BY <1>4 DEF Shipping
  <2>4. \A e, d : Offered(e, d)' <=> Offered(e, d)
    BY <1>4 DEF Offered
  <2>5. \A d \in Destination : UNCHANGED logs[d].sent /\ UNCHANGED failed[d]
    BY <1>4
  <2>6. ShipOrder'
    BY <1>4, <2>1, <2>3, <2>4, <2>5 DEF ShipOrder
  <2> QED BY <2>2, <2>6
<1>5. CASE CollectBatch
  BY <1>1, <1>5, ShipCollects DEF CollectBatch
<1>6. CASE ShipBatch
  BY <1>6, ShipShips
<1>7. CASE EndBatch
  BY <1>1, <1>4, <1>7 DEF EndBatch
<1>8. CASE BatchTimeout \/ ashutdownRequest \/ ashutdownJoin \/ DisableAggregation
  BY <1>1, <1>4, <1>8 DEF BatchTimeout, ashutdownRequest, ashutdownJoin, DisableAggregation
<1>9. CASE EnableAggregation
  BY <1>1, <1>4, <1>9 DEF EnableAggregation
<1>10. CASE initialize
  BY <1>1, <1>4, <1>10 DEF initialize
<1>11. CASE UNCHANGED avars
  BY <1>1, <1>4, <1>11 DEF avars
<1> QED BY <1>1, <1>2, <1>3, <1>5, <1>6, <1>7, <1>8, <1>9, <1>10, <1>11
        DEF ANext, AWorkerStep, logStructured, addLogEntry

(* However pushes, batches, failures, rotations and restarts interleave, a   *)
(* destination gets the entries of a source once and in the order of its     *)
(* calls, and none that it refused; and its files hold what was written while *)
(* a number is free: for any destinations whose names differ.                *)
THEOREM ShippedOnceInOrder ==
    ASSUME NamesDiffer PROVE ASpec => []ShippedInOrder
<1>1. AInit => AggregatorInv /\ ShipTypes /\ ShipOrder /\ ShipRotated
  BY AggregatorInit, ShipInit
<1>2. AggregatorInv /\ ShipTypes /\ ShipOrder /\ ShipRotated /\ [ANext]_avars
      => (AggregatorInv /\ ShipTypes /\ ShipOrder /\ ShipRotated)'
  BY NamesDiffer, AggregatorStep, ShipStep
<1>3. ShipOrder /\ ShipRotated => ShippedInOrder
  BY DEF ShipOrder, ShipRotated, ShippedInOrder, InOrder, Among, IsFile, NothingRotatedAway
<1> QED BY <1>1, <1>2, <1>3, PTL DEF ASpec

-----------------------------------------------------------------------------
(* The backups of the log file.                                            *)

(* The backups after k turns: those below stay, those above have moved.      *)
Turned(b, k) ==
    [j \in {i \in 1..maxBackupFiles :
              \/ i < maxBackupFiles - k /\ i \in DOMAIN b
              \/ i = maxBackupFiles - k /\ k = 0 /\ i \in DOMAIN b
              \/ i > maxBackupFiles - k /\ i - 1 \in DOMAIN b}
     |-> IF j > maxBackupFiles - k THEN b[j - 1] ELSE b[j]]

(* One turn of the loop moves one backup.                                   *)
LEMMA TurnOnce ==
    ASSUME NEW b, NEW m \in 0..maxBackupFiles, DOMAIN b = 1..m,
           NEW k \in Nat, k + 1 <= maxBackupFiles - 1
    PROVE  MoveBackup(Turned(b, k), maxBackupFiles - (k + 1)) = Turned(b, k + 1)
<1> DEFINE i == maxBackupFiles - (k + 1)
           t == Turned(b, k)
           u == Turned(b, k + 1)
<1>1. maxBackupFiles \in Nat /\ i \in Nat /\ i >= 1 /\ i + 1 = maxBackupFiles - k /\ m \in Nat /\ i < maxBackupFiles
  BY LoggerAssumption DEF LoggerAssumption
<1>2. i \in DOMAIN t <=> i \in 1..m
  BY <1>1 DEF Turned
<1>3. CASE i \notin 1..m
  <2>1. MoveBackup(t, i) = t
    BY <1>2, <1>3 DEF MoveBackup
  <2>2. \A j \in 1..maxBackupFiles : j \in DOMAIN t <=> j \in DOMAIN u
    BY <1>1, <1>3 DEF Turned
  <2>3. DOMAIN t \subseteq 1..maxBackupFiles /\ DOMAIN u \subseteq 1..maxBackupFiles
        /\ t = [j \in DOMAIN t |-> t[j]] /\ u = [j \in DOMAIN u |-> u[j]]
    BY DEF Turned
  <2>4. \A j \in DOMAIN t : t[j] = u[j]
    BY <1>1, <1>3 DEF Turned
  <2>5. t = u
    <3> HIDE DEF t, u
    <3> QED BY <2>2, <2>3, <2>4
  <2> QED BY <2>1, <2>5
<1>4. CASE i \in 1..m
  <2> DEFINE v == [j \in (DOMAIN t \ {i}) \cup {i + 1} |-> IF j = i + 1 THEN t[i] ELSE t[j]]
  <2>1. MoveBackup(t, i) = v
    BY <1>2, <1>4 DEF MoveBackup
  <2>2. \A j \in 1..maxBackupFiles : j \in DOMAIN v <=> j \in DOMAIN u
    BY <1>1, <1>4 DEF Turned
  <2>3. DOMAIN v \subseteq 1..maxBackupFiles /\ DOMAIN u \subseteq 1..maxBackupFiles
        /\ v = [j \in DOMAIN v |-> v[j]] /\ u = [j \in DOMAIN u |-> u[j]]
    BY <1>1 DEF Turned
  <2>4. \A j \in DOMAIN v : v[j] = u[j]
    BY <1>1, <1>4 DEF Turned
  <2>5. v = u
    <3> HIDE DEF v, u
    <3> QED BY <2>2, <2>3, <2>4
  <2> QED BY <2>1, <2>5
<1> QED BY <1>3, <1>4

(* The recursive function of the loop exists, and is what it says.           *)
LEMMA TurnsAre ==
    ASSUME NEW b, NEW m \in 0..maxBackupFiles, DOMAIN b = 1..m, b = [j \in 1..m |-> b[j]]
    PROVE  ShiftBackups(b) = Turned(b, maxBackupFiles - 1)
<1> DEFINE N == maxBackupFiles - 1
           Rec(f) == f = [k \in 0..N |-> IF k = 0 THEN b ELSE MoveBackup(f[k - 1], maxBackupFiles - k)]
           g == [k \in 0..N |-> Turned(b, k)]
           F == CHOOSE f : Rec(f)
<1>1. maxBackupFiles \in Nat /\ N \in Nat /\ N + 1 = maxBackupFiles /\ m \in Nat
  BY LoggerAssumption DEF LoggerAssumption
<1>2. Turned(b, 0) = b
  <2> DEFINE t == Turned(b, 0)
  <2>1. \A j \in 1..maxBackupFiles : j \in DOMAIN t <=> j \in DOMAIN b
    BY <1>1 DEF Turned
  <2>2. DOMAIN t \subseteq 1..maxBackupFiles /\ t = [j \in DOMAIN t |-> t[j]] /\ \A j \in DOMAIN t : t[j] = b[j]
    BY <1>1 DEF Turned
  <2>3. DOMAIN b \subseteq 1..maxBackupFiles
    BY <1>1
  <2> HIDE DEF t
  <2>4. DOMAIN t = 1..m
    BY <2>1, <2>2, <2>3
  <2>5. t = [j \in 1..m |-> t[j]] /\ \A j \in 1..m : t[j] = b[j]
    BY <2>2, <2>4
  <2>6. t = [j \in 1..m |-> b[j]]
    BY <2>5
  <2> QED BY <2>6 DEF t
<1>3. Rec(g)
  <2>1. ASSUME NEW k \in 0..N
        PROVE  g[k] = IF k = 0 THEN b ELSE MoveBackup(g[k - 1], maxBackupFiles - k)
    <3>1. g[k] = Turned(b, k)
      OBVIOUS
    <3>2. CASE k = 0
      BY <1>2, <3>1, <3>2
    <3>3. CASE k # 0
      <4>1. k - 1 \in Nat /\ k - 1 \in 0..N /\ (k - 1) + 1 = k /\ k <= maxBackupFiles - 1
        BY <1>1, <3>3
      <4>2. g[k - 1] = Turned(b, k - 1)
        BY <4>1
      <4>3. MoveBackup(Turned(b, k - 1), maxBackupFiles - ((k - 1) + 1)) = Turned(b, (k - 1) + 1)
        BY <4>1, TurnOnce
      <4> QED BY <3>1, <3>3, <4>1, <4>2, <4>3
    <3> QED BY <3>2, <3>3
  <2>2. g = [k \in 0..N |-> g[k]]
    OBVIOUS
  <2> HIDE DEF g
  <2> QED BY <2>1, <2>2
<1>4. Rec(F)
  <2> HIDE DEF g, Rec
  <2> QED BY <1>3
<1>5. \A k \in 0..N : F[k] = g[k]
  <2> DEFINE T == {k \in Nat : k \in 0..N => F[k] = g[k]}
  <2>1. \A k \in 0..N : F[k] = IF k = 0 THEN b ELSE MoveBackup(F[k - 1], maxBackupFiles - k)
    <3> HIDE DEF F
    <3> QED BY <1>4
  <2>2. \A k \in 0..N : g[k] = IF k = 0 THEN b ELSE MoveBackup(g[k - 1], maxBackupFiles - k)
    <3> HIDE DEF g
    <3> QED BY <1>3
  <2> HIDE DEF F, g, Rec
  <2>3. 0 \in T
    BY <1>1, <2>1, <2>2
  <2>4. ASSUME NEW k \in T PROVE k + 1 \in T
    <3>1. k \in Nat /\ (k \in 0..N => F[k] = g[k])
      OBVIOUS
    <3>2. ASSUME k + 1 \in 0..N PROVE F[k + 1] = g[k + 1]
      <4>1. k \in 0..N /\ k + 1 # 0 /\ (k + 1) - 1 = k
        BY <1>1, <3>1, <3>2
      <4> QED BY <2>1, <2>2, <3>1, <3>2, <4>1
    <3> QED BY <3>1, <3>2
  <2>5. T = Nat
    <3>1. T \subseteq Nat
      OBVIOUS
    <3> HIDE DEF T
    <3> QED BY <2>3, <2>4, <3>1, SetInduction
  <2> QED BY <1>1, <2>5
<1>6. ShiftBackups(b) = F[N]
  BY DEF ShiftBackups
<1>7. N \in 0..N /\ g[N] = Turned(b, N)
  BY <1>1
<1> HIDE DEF F, g
<1> QED BY <1>5, <1>6, <1>7

(* r is w with some of its lines left out.                                  *)
Left(r, w) ==
    \E e \in [DOMAIN r -> DOMAIN w] :
        /\ \A i \in DOMAIN r : w[e[i]] = r[i]
        /\ \A i, j \in DOMAIN r : i < j => e[i] < e[j]

(* A line more for both.                                                    *)
LEMMA LeftBoth ==
    ASSUME NEW S, NEW r \in Seq(S), NEW w \in Seq(S), NEW x \in S, Left(r, w)
    PROVE  Left(Append(r, x), Append(w, x))
<1> DEFINE p == Append(r, x)
           q == Append(w, x)
           n == Len(r)
           k == Len(w)
<1>1. PICK e \in [DOMAIN r -> DOMAIN w] : /\ \A i \in DOMAIN r : w[e[i]] = r[i]
                                          /\ \A i, j \in DOMAIN r : i < j => e[i] < e[j]
  BY DEF Left
<1>2. /\ n \in Nat /\ k \in Nat /\ DOMAIN r = 1..n /\ DOMAIN w = 1..k
      /\ DOMAIN p = 1..(n + 1) /\ DOMAIN q = 1..(k + 1)
      /\ p[n + 1] = x /\ q[k + 1] = x
      /\ (\A i \in 1..n : p[i] = r[i]) /\ (\A i \in 1..k : q[i] = w[i])
  OBVIOUS
<1> DEFINE h == [i \in 1..(n + 1) |-> IF i = n + 1 THEN k + 1 ELSE e[i]]
<1> HIDE DEF n, k, p, q
<1>3. \A i \in 1..n : e[i] \in 1..k /\ h[i] = e[i]
  BY <1>1, <1>2
<1>4. h[n + 1] = k + 1
  BY <1>2
<1>5. \A i \in 1..(n + 1) : i = n + 1 \/ i \in 1..n
  BY <1>2
<1>6. h \in [1..(n + 1) -> 1..(k + 1)]
  <2>1. \A i \in 1..(n + 1) : h[i] \in 1..(k + 1)
    <3> HIDE DEF h
    <3> QED BY <1>2, <1>3, <1>4, <1>5
  <2> QED BY <2>1
<1> HIDE DEF h
<1>7. ASSUME NEW i \in 1..(n + 1) PROVE q[h[i]] = p[i]
  <2>1. CASE i = n + 1
    BY <1>2, <1>4, <2>1
  <2>2. CASE i \in 1..n
    <3>1. h[i] \in 1..k /\ h[i] = e[i]
      BY <1>3, <2>2
    <3>2. q[h[i]] = w[e[i]]
      BY <1>2, <3>1
    <3> QED BY <1>1, <1>2, <2>2, <3>2
  <2> QED BY <1>5, <2>1, <2>2
<1>8. ASSUME NEW i \in 1..(n + 1), NEW j \in 1..(n + 1), i < j PROVE h[i] < h[j]
  <2>1. i \in 1..n
    BY <1>2, <1>8
  <2>2. CASE j = n + 1
    BY <1>2, <1>3, <1>4, <2>1, <2>2
  <2>3. CASE j \in 1..n
    BY <1>1, <1>2, <1>3, <1>8, <2>1, <2>3
  <2> QED BY <1>5, <2>2, <2>3
<1>9. Left(p, q)
  BY <1>2, <1>6, <1>7, <1>8 DEF Left
<1> QED BY <1>9 DEF p, q

(* What is left of w is left of it without its beginning, and without its   *)
(* end.                                                                     *)
LEMMA LeftParts ==
    ASSUME NEW S, NEW a \in Seq(S), NEW b \in Seq(S), NEW w \in Seq(S), Left(a \o b, w)
    PROVE  Left(a, w) /\ Left(b, w)
<1> DEFINE r == a \o b
           n == Len(a)
           m == Len(b)
           k == Len(w)
<1>1. PICK e \in [DOMAIN r -> DOMAIN w] : /\ \A i \in DOMAIN r : w[e[i]] = r[i]
                                          /\ \A i, j \in DOMAIN r : i < j => e[i] < e[j]
  BY DEF Left
<1>2. /\ n \in Nat /\ m \in Nat /\ DOMAIN a = 1..n /\ DOMAIN b = 1..m
      /\ DOMAIN r = 1..(n + m)
      /\ (\A i \in 1..n : r[i] = a[i]) /\ (\A i \in 1..m : r[i + n] = b[i])
  <2>1. n \in Nat /\ m \in Nat /\ DOMAIN a = 1..n /\ DOMAIN b = 1..m
    OBVIOUS
  <2>2. DOMAIN r = 1..(n + m)
    OBVIOUS
  <2>3. \A i \in 1..n : r[i] = a[i]
    OBVIOUS
  <2>4. \A i \in 1..m : r[i + n] = b[i]
    OBVIOUS
  <2> QED BY <2>1, <2>2, <2>3, <2>4
<1> HIDE DEF r, n, m, k
<1>3. Left(a, w)
  <2> DEFINE h == [i \in 1..n |-> e[i]]
  <2>1. \A i \in 1..n : i \in 1..(n + m)
    BY <1>2
  <2>2. h \in [DOMAIN a -> DOMAIN w] /\ \A i \in DOMAIN a : h[i] = e[i]
    BY <1>1, <1>2, <2>1
  <2> HIDE DEF h
  <2>3. \A i \in DOMAIN a : w[h[i]] = a[i]
    BY <1>1, <1>2, <2>1, <2>2
  <2>4. \A i, j \in DOMAIN a : i < j => h[i] < h[j]
    BY <1>1, <1>2, <2>1, <2>2
  <2> QED BY <2>2, <2>3, <2>4 DEF Left
<1>4. Left(b, w)
  <2> DEFINE h == [i \in 1..m |-> e[i + n]]
  <2>1. \A i \in 1..m : i + n \in 1..(n + m)
    BY <1>2
  <2>2. h \in [DOMAIN b -> DOMAIN w] /\ \A i \in DOMAIN b : h[i] = e[i + n]
    BY <1>1, <1>2, <2>1
  <2> HIDE DEF h
  <2>3. \A i \in DOMAIN b : w[h[i]] = b[i]
    BY <1>1, <1>2, <2>1, <2>2
  <2>4. \A i, j \in 1..m : i < j => i + n < j + n
    BY <1>2
  <2>5. ASSUME NEW i \in DOMAIN b, NEW j \in DOMAIN b, i < j PROVE h[i] < h[j]
    <3>1. i \in 1..m /\ j \in 1..m /\ i + n \in DOMAIN r /\ j + n \in DOMAIN r /\ i + n < j + n
      BY <1>2, <2>1, <2>4, <2>5
    <3> QED BY <1>1, <2>2, <3>1
  <2> QED BY <2>2, <2>3, <2>5 DEF Left
<1> QED BY <1>3, <1>4

(* Every file line is one that was written, in order, and all of them are   *)
(* there while no file has been archived and a backup is still to come.     *)
Retention ==
    /\ file \in Seq(LgLine) /\ written \in Seq(LgLine) /\ archived.times \in Nat
    /\ \E m \in 0..maxBackupFiles : backups \in [1..m -> Seq(LgLine)]
    /\ Left(Retained, written)
    /\ archived.times = 0 /\ DOMAIN backups # 1..maxBackupFiles => Retained = written

(* The parts are as many as there may be backups.                           *)
LEMMA PartsType ==
    ASSUME NEW m \in 0..maxBackupFiles, NEW b \in [1..m -> Seq(LgLine)]
    PROVE  /\ Parts(b) \in Seq(Seq(LgLine)) /\ Len(Parts(b)) = maxBackupFiles /\ Parts(b) # <<>>
           /\ \A k \in 1..maxBackupFiles :
                Parts(b)[k] = IF maxBackupFiles + 1 - k \in 1..m THEN b[maxBackupFiles + 1 - k] ELSE <<>>
<1> DEFINE Q == Seq(LgLine)
           n == maxBackupFiles
           p == Parts(b)
<1>1. n \in Nat /\ n >= 1 /\ m \in Nat /\ <<>> \in Q
  BY LoggerAssumption DEF LoggerAssumption
<1>2. b \in [1..m -> Q]
  OBVIOUS
<1> HIDE DEF Q
<1>3. DOMAIN p = 1..n /\ p = [k \in 1..n |-> p[k]]
      /\ \A k \in 1..n : p[k] = IF n + 1 - k \in 1..m THEN b[n + 1 - k] ELSE <<>>
  BY <1>2 DEF Parts
<1> HIDE DEF n, p
<1>4. \A k \in 1..n : p[k] \in Q
  BY <1>1, <1>2, <1>3
<1>5. p \in Seq(Q) /\ Len(p) = n /\ p # <<>>
  BY <1>1, <1>3, <1>4
<1> QED BY <1>3, <1>5 DEF p, n, Q

(* The backups b and the file f become the backups c: the parts lose the    *)
(* first, which is empty while there is room, and get f as the last.        *)
Rotates(b, f, c) ==
    c = [j \in DOMAIN ShiftBackups(b) \cup {1} |-> IF j = 1 THEN f ELSE ShiftBackups(b)[j]]
Rotated(m, b, f, c) ==
    /\ \E k \in 0..maxBackupFiles : /\ c \in [1..k -> Seq(LgLine)]
                                    /\ k = IF m < maxBackupFiles THEN m + 1 ELSE m
    /\ Parts(c) = Append(Tail(Parts(b)), f)
    /\ m < maxBackupFiles => Parts(b)[1] = <<>>

(* A rotation does that to the backups.                                     *)
LEMMA RotatedParts ==
    ASSUME NEW m \in 0..maxBackupFiles, NEW b \in [1..m -> Seq(LgLine)], NEW f \in Seq(LgLine),
           NEW c, Rotates(b, f, c)
    PROVE  Rotated(m, b, f, c)
<1> DEFINE Q == Seq(LgLine)
           n == maxBackupFiles
           k == IF m < n THEN m + 1 ELSE m
           s == ShiftBackups(b)
<1>1. n \in Nat /\ n >= 1 /\ m \in Nat /\ m <= n /\ k \in 0..n /\ k >= 1
  BY LoggerAssumption DEF LoggerAssumption
<1>2. b \in [1..m -> Q] /\ f \in Q
  OBVIOUS
<1>3. s = Turned(b, n - 1)
  <2>1. DOMAIN b = 1..m /\ b = [j \in 1..m |-> b[j]]
    OBVIOUS
  <2> HIDE DEF Q
  <2> QED BY <2>1, TurnsAre
<1> HIDE DEF Q, s
<1>4. \A j \in 1..n : j # 1 => (j \in DOMAIN s <=> j - 1 \in 1..m)
  BY <1>1, <1>2, <1>3 DEF Turned
<1>5. DOMAIN s \subseteq 1..n /\ \A j \in DOMAIN s : j # 1 => s[j] = b[j - 1]
  BY <1>1, <1>3 DEF Turned
<1>6. DOMAIN c = DOMAIN s \cup {1} /\ c = [j \in DOMAIN c |-> c[j]]
      /\ \A j \in DOMAIN c : c[j] = IF j = 1 THEN f ELSE s[j]
  BY DEF s, Rotates
<1> HIDE DEF n
<1>7. DOMAIN c = 1..k
  <2>1. \A j \in 1..n : j \in DOMAIN c <=> j \in 1..k
    BY <1>1, <1>4, <1>6
  <2>2. DOMAIN c \subseteq 1..n /\ 1..k \subseteq 1..n
    BY <1>1, <1>5, <1>6
  <2> HIDE DEF k
  <2> QED BY <2>1, <2>2
<1>8. \A j \in 1..k : j # 1 => j - 1 \in 1..m /\ c[j] = b[j - 1]
  BY <1>1, <1>4, <1>5, <1>6, <1>7
<1>9. c[1] = f
  BY <1>6
<1>10. c \in [1..k -> Q]
  <2>1. \A j \in 1..k : c[j] \in Q
    BY <1>2, <1>8, <1>9
  <2> HIDE DEF k
  <2> QED BY <1>6, <1>7, <2>1
<1> DEFINE p == Parts(b)
           q == Parts(c)
           t == Append(Tail(p), f)
<1>11. p \in Seq(Q) /\ Len(p) = n /\ p # <<>>
       /\ \A i \in 1..n : p[i] = IF n + 1 - i \in 1..m THEN b[n + 1 - i] ELSE <<>>
  <2> HIDE DEF p
  <2> QED BY PartsType DEF Q, n, p
<1>12. q \in Seq(Q) /\ Len(q) = n /\ \A i \in 1..n : q[i] = IF n + 1 - i \in 1..k THEN c[n + 1 - i] ELSE <<>>
  <2>1. k \in 0..maxBackupFiles /\ c \in [1..k -> Seq(LgLine)]
    BY <1>1, <1>10 DEF Q, n
  <2> HIDE DEF q, k
  <2> QED BY <2>1, PartsType DEF Q, n, q
<1> HIDE DEF p, q
<1>13. t \in Seq(Q) /\ Len(t) = n /\ t[n] = f /\ \A i \in 1..(n - 1) : t[i] = p[i + 1]
  BY <1>1, <1>2, <1>11
<1> HIDE DEF t
<1>14. \A i \in 1..n : q[i] = t[i]
  <2> TAKE i \in 1..n
  <2>1. CASE i = n
    <3>1. n + 1 - i = 1 /\ 1 \in 1..k
      BY <1>1, <2>1
    <3> QED BY <1>9, <1>12, <1>13, <2>1, <3>1
  <2>2. CASE i # n
    <3> DEFINE j == n + 1 - i
    <3>1. /\ j \in 1..n /\ j # 1 /\ i \in 1..(n - 1) /\ i + 1 \in 1..n /\ n + 1 - (i + 1) = j - 1
          /\ (j \in 1..k <=> j - 1 \in 1..m)
      BY <1>1, <2>2
    <3>2. q[i] = IF j \in 1..k THEN c[j] ELSE <<>>
      BY <1>12
    <3>3. t[i] = IF j - 1 \in 1..m THEN b[j - 1] ELSE <<>>
      BY <1>11, <1>13, <3>1
    <3> HIDE DEF j, k
    <3> QED BY <1>8, <3>1, <3>2, <3>3
  <2> QED BY <2>1, <2>2
<1>15. q = t
  BY <1>1, <1>12, <1>13, <1>14
<1>16. m < n => p[1] = <<>>
  BY <1>1, <1>11
<1> QED BY <1>1, <1>10, <1>15, <1>16 DEF p, q, t, n, Q, Rotated

(* A line written to the file.                                              *)
LEMMA WriteRetains ==
    ASSUME Retention, NEW line \in LgLine, writeLogSync(line)
    PROVE  Retention'
<1>1. PICK m \in 0..maxBackupFiles : backups \in [1..m -> Seq(LgLine)]
  BY DEF Retention
<1> DEFINE P == Parts(backups)
<1>2. P \in Seq(Seq(LgLine)) /\ P # <<>>
  BY <1>1, PartsType
<1>3. Retained = FlattenSeq(P) \o file
  BY DEF Retained
<1>4. FlattenSeq(P) \in Seq(LgLine) /\ file \in Seq(LgLine) /\ written \in Seq(LgLine)
  <2>1. FlattenSeq(P) \in Seq(LgLine)
    <3> HIDE DEF P
    <3> QED BY <1>2, FlattenType
  <2> QED BY <2>1 DEF Retention
<1>5. ASSUME NEW a \in Seq(LgLine), NEW b \in Seq(LgLine) PROVE a \o b \in Seq(LgLine)
  BY <1>5, ConcatProperties
<1>6. ASSUME NEW a \in Seq(LgLine), NEW b \in Seq(LgLine)
      PROVE  a \o Append(b, line) = Append(a \o b, line)
  BY <1>6, JoinAppend
<1>7. CASE ~fileOpen
  BY <1>7 DEF writeLogSync, logFiles, Retention, Retained
<1>8. CASE fileOpen /\ ~(fileSize + 1 > maxFileSize)
  <2>1. UNCHANGED <<backups, archived>> /\ written' = Append(written, line) /\ file' = Append(file, line)
    BY <1>8 DEF writeLogSync
  <2>2. Retained' = FlattenSeq(P) \o Append(file, line)
    BY <2>1 DEF Retained
  <2> HIDE DEF P
  <2>3. Retained' = Append(Retained, line) /\ Retained \in Seq(LgLine)
    BY <1>3, <1>4, <1>5, <1>6, <2>2
  <2>4. Left(Retained', written')
    BY <1>4, <2>1, <2>3, LeftBoth DEF Retention
  <2>5. file' \in Seq(LgLine) /\ written' \in Seq(LgLine)
    BY <1>4, <2>1
  <2> QED BY <2>1, <2>3, <2>4, <2>5 DEF Retention
<1>9. CASE fileOpen /\ fileSize + 1 > maxFileSize
  <2>0. rotateLogFile(line) /\ UNCHANGED archived /\ written' = Append(written, line)
    BY <1>9 DEF writeLogSync
  <2>1. file' = <<line>> /\ Rotates(backups, file, backups')
    BY <2>0 DEF rotateLogFile, Rotates
  <2>2. /\ \E k \in 0..maxBackupFiles : /\ backups' \in [1..k -> Seq(LgLine)]
                                        /\ k = IF m < maxBackupFiles THEN m + 1 ELSE m
        /\ Parts(backups') = Append(Tail(P), file)
        /\ m < maxBackupFiles => P[1] = <<>>
    <3>1. Rotated(m, backups, file, backups')
      BY <1>1, <1>4, <2>1, RotatedParts
    <3> QED BY <3>1 DEF Rotated
  <2> DEFINE rest == FlattenSeq(Tail(P))
  <2>3. Tail(P) \in Seq(Seq(LgLine)) /\ P[1] \in Seq(LgLine)
    <3> HIDE DEF P
    <3> DEFINE Q == Seq(LgLine)
    <3>1. P \in Seq(Q)
      BY <1>2
    <3> HIDE DEF Q
    <3>2. Tail(P) \in Seq(Q) /\ P[1] \in Q
      BY <1>2, <3>1
    <3> QED BY <3>2 DEF Q
  <2>4. FlattenSeq(P) = P[1] \o rest /\ rest \in Seq(LgLine)
    <3> HIDE DEF P
    <3> QED BY <1>2, <2>3, FlattenFirst, FlattenType
  <2>5. FlattenSeq(Parts(backups')) = rest \o file
    <3> HIDE DEF P
    <3>1. FlattenSeq(Append(Tail(P), file)) = FlattenSeq(Tail(P)) \o file
      BY <1>4, <2>3, FlattenAppend
    <3> QED BY <2>2, <3>1
  <2>6. Retained' = FlattenSeq(Parts(backups')) \o <<line>>
    BY <2>1 DEF Retained
  <2> HIDE DEF P, rest
  <2> DEFINE kept == rest \o file
  <2>7. kept \in Seq(LgLine)
    BY <1>4, <1>5, <2>4
  <2>8. Retained = P[1] \o kept
    <3> DEFINE first == P[1]
    <3>1. first \in Seq(LgLine) /\ rest \in Seq(LgLine) /\ file \in Seq(LgLine)
      BY <1>4, <2>3, <2>4
    <3>2. Retained = (first \o rest) \o file
      BY <1>3, <2>4
    <3> HIDE DEF first
    <3>3. (first \o rest) \o file = first \o (rest \o file)
      BY <3>1, ConcatAssociative
    <3> QED BY <3>2, <3>3 DEF first
  <2>9. Left(kept, written)
    <3>1. Left(P[1] \o kept, written)
      BY <2>8 DEF Retention
    <3> HIDE DEF kept
    <3> QED BY <1>4, <2>3, <2>7, <3>1, LeftParts
  <2>10. Retained' = Append(kept, line)
    <3>1. Retained' = kept \o <<line>>
      BY <2>5, <2>6
    <3> HIDE DEF kept
    <3> QED BY <2>7, <3>1
  <2>11. Left(Retained', written')
    <3> HIDE DEF kept
    <3> QED BY <1>4, <2>0, <2>7, <2>9, <2>10, LeftBoth
  <2>12. ASSUME archived.times = 0, DOMAIN backups' # 1..maxBackupFiles
         PROVE  Retained' = written'
    <3>1. m < maxBackupFiles
      BY <2>2, <2>12, LoggerAssumption DEF LoggerAssumption
    <3>2. DOMAIN backups # 1..maxBackupFiles
      <4>1. maxBackupFiles \in 1..maxBackupFiles /\ maxBackupFiles \notin 1..m
        BY <3>1, LoggerAssumption DEF LoggerAssumption
      <4> QED BY <1>1, <4>1
    <3>3. Retained = written
      BY <2>12, <3>2 DEF Retention
    <3>4. P[1] = <<>>
      BY <2>2, <3>1
    <3> HIDE DEF kept
    <3>5. <<>> \o kept = kept
      BY <2>7
    <3> QED BY <2>0, <2>8, <2>10, <3>3, <3>4, <3>5
  <2>13. file' \in Seq(LgLine) /\ written' \in Seq(LgLine)
    BY <1>4, <2>0, <2>1
  <2> QED BY <2>0, <2>2, <2>11, <2>12, <2>13 DEF Retention
<1> QED BY <1>7, <1>8, <1>9

(* The file moved to the archive.                                           *)
LEMMA ArchiveRetains == Retention /\ archiveOldLogs => Retention'
<1> SUFFICES ASSUME Retention, archiveOldLogs PROVE Retention'
  OBVIOUS
<1>1. PICK m \in 0..maxBackupFiles : backups \in [1..m -> Seq(LgLine)]
  BY DEF Retention
<1> DEFINE P == Parts(backups)
<1>2. P \in Seq(Seq(LgLine))
  BY <1>1, PartsType
<1>3. Retained = FlattenSeq(P) \o file /\ Retained' = FlattenSeq(P) \o <<>>
  BY DEF Retained, archiveOldLogs
<1> HIDE DEF P
<1>4. FlattenSeq(P) \in Seq(LgLine) /\ file \in Seq(LgLine) /\ written \in Seq(LgLine)
  BY <1>2, FlattenType DEF Retention
<1>5. Retained' = FlattenSeq(P)
  <2>1. ASSUME NEW a \in Seq(LgLine) PROVE a \o <<>> = a
    OBVIOUS
  <2> QED BY <1>3, <1>4, <2>1
<1>6. Left(Retained', written)
  <2>1. Left(FlattenSeq(P) \o file, written)
    BY <1>3 DEF Retention
  <2> QED BY <1>4, <1>5, <2>1, LeftParts
<1>7. UNCHANGED <<backups, written>> /\ file' = <<>> /\ archived'.times = archived.times + 1
  BY DEF archiveOldLogs
<1>8. archived'.times \in Nat /\ archived'.times # 0
  BY <1>7 DEF Retention
<1>9. file' \in Seq(LgLine)
  BY <1>7
<1> QED BY <1>6, <1>7, <1>8, <1>9 DEF Retention

(* The first file is empty, and has no backups.                            *)
LEMMA RetentionInit == LInit => Retention
<1> SUFFICES ASSUME LInit PROVE Retention
  OBVIOUS
<1>1. file = <<>> /\ written = <<>> /\ backups = <<>> /\ archived.times = 0
  BY DEF LInit
<1>2. 0 \in 0..maxBackupFiles /\ backups \in [1..0 -> Seq(LgLine)]
  BY <1>1, LoggerAssumption DEF LoggerAssumption
<1> DEFINE P == Parts(backups)
<1>3. P \in Seq(Seq(LgLine)) /\ Len(P) = maxBackupFiles /\ \A k \in 1..maxBackupFiles : P[k] = <<>>
  <2>1. PICK m \in 0..maxBackupFiles : m = 0 /\ backups \in [1..m -> Seq(LgLine)]
    BY <1>2
  <2>2. /\ P \in Seq(Seq(LgLine)) /\ Len(P) = maxBackupFiles
        /\ \A k \in 1..maxBackupFiles :
             P[k] = IF maxBackupFiles + 1 - k \in 1..m THEN backups[maxBackupFiles + 1 - k] ELSE <<>>
    BY <2>1, PartsType
  <2>3. \A k : k \notin 1..m
    BY <2>1
  <2> QED BY <2>2, <2>3
<1>4. Retained = FlattenSeq(P) \o file
  BY DEF Retained
<1> HIDE DEF P
<1>5. FlattenSeq(P) = <<>>
  BY <1>3, FlattenNone
<1>6. Retained = <<>>
  BY <1>1, <1>4, <1>5
<1>7. Left(Retained, written)
  <2> DEFINE e == [i \in DOMAIN Retained |-> i]
  <2>1. \A i : i \notin DOMAIN Retained
    BY <1>6
  <2>2. e \in [DOMAIN Retained -> DOMAIN written]
    BY <2>1
  <2> HIDE DEF e
  <2> QED BY <2>1, <2>2 DEF Left
<1>8. file \in Seq(LgLine) /\ written \in Seq(LgLine)
  BY <1>1
<1> QED BY <1>1, <1>2, <1>6, <1>7, <1>8 DEF Retention

(* Every step of the logger keeps what the files hold of what was written.  *)
LEMMA RetentionStep == LTypes /\ Retention /\ [LNext]_lvars => Retention'
<1> SUFFICES ASSUME LTypes, Retention, [LNext]_lvars PROVE Retention'
  OBVIOUS
<1>1. UNCHANGED <<file, backups, archived, written>> => Retention'
  BY DEF Retention, Retained
<1>2. ASSUME NEW c \in Channel, NEW line \in LgLine, Deliver(c, line) PROVE Retention'
  BY <1>1, <1>2, WriteRetains DEF Deliver, broadcastLogMessage, logFiles
<1>3. ASSUME NEW t \in Thread, CallerStep(t) PROVE Retention'
  <2>1. CASE CallerWrites(t)
    <3>1. caller[t].line \in LgLine /\ writeLogSync(caller[t].line)
      BY <2>1 DEF CallerWrites, LTypes
    <3> QED BY <3>1, WriteRetains
  <2>2. writeLog(t) \/ StreamLog(t) \/ writeLogAsync(t) \/ pushStreaming(t) => Retention'
    BY <1>1 DEF writeLog, StreamLog, writeLogAsync, pushStreaming, Push, logFiles
  <2> QED BY <1>3, <2>1, <2>2 DEF CallerStep
<1>4. ASSUME NEW t \in Thread, NEW l \in Level, NEW j \in Job, logForJob(t, l, j) PROVE Retention'
  BY <1>1, <1>4 DEF logForJob, logFiles
<1>5. ASSUME NEW c \in Channel, WorkerStep(c) PROVE Retention'
  <2>1. CASE WorkerTest(c) \/ WorkerTakes(c)
    BY <1>1, <2>1 DEF WorkerTest, WorkerTakes, logFiles
  <2>2. CASE WorkerWrites(c)
    <3>1. Deliver(c, hand[c][1].line) /\ hand[c] \in Seq(Msg) /\ Len(hand[c]) = 1
      BY <2>2 DEF WorkerWrites, Worker, LTypes
    <3>2. hand[c][1] \in Msg
      BY <3>1
    <3> QED BY <1>2, <3>1, <3>2 DEF Msg
  <2>3. CASE FinalDrain(c)
    <3>1. CASE msgs[c] = <<>>
      BY <1>1, <2>3, <3>1 DEF FinalDrain, logFiles
    <3>2. CASE msgs[c] # <<>>
      <4>1. Deliver(c, Head(msgs[c]).line) /\ msgs[c] \in Seq(Msg)
        BY <2>3, <3>2 DEF FinalDrain, LTypes
      <4>2. Head(msgs[c]) \in Msg
        BY <3>2, <4>1
      <4> QED BY <1>2, <4>1, <4>2 DEF Msg
    <3> QED BY <3>1, <3>2
  <2> QED BY <1>5, <2>1, <2>2, <2>3 DEF WorkerStep
<1>6. ASSUME NEW c \in Channel, NEW then, StopWorker(c, then) PROVE Retention'
  BY <1>1, <1>6 DEF StopWorker, logFiles
<1>7. ASSUME NEW c \in Channel, Enable(c) \/ Disable(c) PROVE Retention'
  BY <1>1, <1>6, <1>7 DEF Enable, Disable, logFiles
<1>8. CASE ControlStep \/ Shutdown
  BY <1>1, <1>6, <1>8 DEF ControlStep, Join, ShutdownChannel, CloseFile, Shutdown, logFiles
<1>9. ASSUME NEW on \in [Channel -> BOOLEAN], configure(on) PROVE Retention'
  BY <1>1, <1>9 DEF configure
<1>10. UNCHANGED lvars => Retention'
  BY <1>1 DEF lvars, logFiles
<1> QED BY <1>3, <1>4, <1>5, <1>7, <1>8, <1>9, <1>10, ArchiveRetains DEF LNext

(* The backups from the last to the first and the file hold the lines in    *)
(* the order they were written, and a rotation loses none while there is    *)
(* room for another backup.                                                 *)
THEOREM FilesKeepOrder == LSpec => []RotationKeepsOrder
<1>1. LInit => LTypes /\ Retention
  BY LTypesInit, RetentionInit
<1>2. LTypes /\ Retention /\ [LNext]_lvars => (LTypes /\ Retention)'
  BY LTypesStep, RetentionStep
<1>3. Retention => RotationKeepsOrder
  <2> SUFFICES ASSUME Retention PROVE RotationKeepsOrder
    OBVIOUS
  <2>1. PICK e \in [DOMAIN Retained -> DOMAIN written] :
            /\ \A i \in DOMAIN Retained : written[e[i]] = Retained[i]
            /\ \A i, j \in DOMAIN Retained : i < j => e[i] < e[j]
    BY DEF Retention, Left
  <2>2. ASSUME NEW i \in DOMAIN Retained, NEW j \in DOMAIN Retained, i < j
        PROVE  \E a, b \in DOMAIN written : a < b /\ written[a] = Retained[i] /\ written[b] = Retained[j]
    <3>1. e[i] \in DOMAIN written /\ e[j] \in DOMAIN written
      BY <2>1
    <3> QED BY <2>1, <2>2, <3>1
  <2>3. archived.times = 0 /\ DOMAIN backups # 1..maxBackupFiles => Retained = written
    BY DEF Retention
  <2> QED BY <2>2, <2>3 DEF RotationKeepsOrder
<1> QED BY <1>1, <1>2, <1>3, PTL DEF LSpec

-----------------------------------------------------------------------------
(* The files of the log file manager.                                      *)

Held == Writer \X Nat
Name == {x \in Seq(LogFile \cup {"1", "gz"}) : x # <<>> /\ x[1] \in LogFile}

(* Of a file that nobody deleted or overwrote: what is on disk is the end of *)
(* what was accepted, and if nothing is there nothing was accepted.          *)
Whole(f) ==
    LET b == generateBackupFileName(Base(f)) IN
    IF Base(f) \in DOMAIN disk
    THEN IsSuffix((IF b \in DOMAIN disk THEN disk[b] ELSE <<>>) \o disk[Base(f)], accepted[f])
    ELSE accepted[f] = <<>> /\ b \notin DOMAIN disk

LogFileInv ==
    /\ DOMAIN disk \subseteq Name /\ DOMAIN archive \subseteq Name
    /\ disk \in [DOMAIN disk -> Seq(Held)] /\ archive \in [DOMAIN archive -> Seq(Held)]
    /\ openFiles \subseteq DOMAIN disk /\ openFiles \subseteq {Base(f) : f \in LogFile}
    /\ accepted \in [LogFile -> Seq(Held)]
    /\ \A f \in LogFile \ replaced : Whole(f)

(* Where the lines of a suffix are.                                         *)
LEMMA SuffixAt ==
    ASSUME NEW S, NEW s \in Seq(S), NEW t \in Seq(S)
    PROVE  IsSuffix(s, t) <=> /\ Len(s) <= Len(t)
                              /\ \A i \in 1..Len(s) : s[i] = t[Len(t) - Len(s) + i]
<1> DEFINE r == Reverse(s)
           q == Reverse(t)
           L == Len(s)
           M == Len(t)
<1>1. L \in Nat /\ M \in Nat
  OBVIOUS
<1>2. r = [i \in 1..L |-> s[(L - i) + 1]] /\ q = [i \in 1..M |-> t[(M - i) + 1]]
  BY DEF Reverse
<1>3. r \in Seq(S) /\ Len(r) = L /\ q \in Seq(S) /\ Len(q) = M
  BY <1>1, <1>2
<1>4. IsSuffix(s, t) <=> L <= M /\ SubSeq(r, 1, L) = SubSeq(q, 1, L)
  BY <1>3 DEF IsSuffix, IsPrefix
<1>5. ASSUME L <= M
      PROVE  SubSeq(r, 1, L) = SubSeq(q, 1, L) <=> \A i \in 1..L : s[i] = t[M - L + i]
  <2>1. SubSeq(r, 1, L) = [i \in 1..L |-> s[(L - i) + 1]]
    <3>1. SubSeq(r, 1, L) = r
      BY <1>1, <1>3
    <3> QED BY <3>1, <1>2
  <2>2. SubSeq(q, 1, L) = [i \in 1..L |-> t[(M - i) + 1]]
    BY <1>1, <1>2, <1>3, <1>5
  <2>3. SubSeq(r, 1, L) = SubSeq(q, 1, L) <=> \A i \in 1..L : s[(L - i) + 1] = t[(M - i) + 1]
    BY <2>1, <2>2
  <2>4. ASSUME \A i \in 1..L : s[(L - i) + 1] = t[(M - i) + 1], NEW i \in 1..L
        PROVE  s[i] = t[M - L + i]
    <3>1. L - i + 1 \in 1..L /\ L - (L - i + 1) + 1 = i /\ M - (L - i + 1) + 1 = M - L + i
      BY <1>1
    <3> QED BY <3>1, <2>4
  <2>5. ASSUME \A i \in 1..L : s[i] = t[M - L + i], NEW i \in 1..L
        PROVE  s[(L - i) + 1] = t[(M - i) + 1]
    <3>1. L - i + 1 \in 1..L /\ M - L + (L - i + 1) = M - i + 1
      BY <1>1
    <3> QED BY <3>1, <2>5
  <2> QED BY <2>3, <2>4, <2>5
<1> QED BY <1>4, <1>5

(* A line more at the end of both leaves a suffix a suffix.                 *)
LEMMA SuffixAppend ==
    ASSUME NEW S, NEW b \in Seq(S), NEW d \in Seq(S), NEW a \in Seq(S), NEW x \in S,
           IsSuffix(b \o d, a)
    PROVE  IsSuffix(b \o Append(d, x), Append(a, x))
<1>1. b \o d \in Seq(S) /\ Len(b \o d) = Len(b) + Len(d)
  OBVIOUS
<1>2. /\ Len(b \o d) <= Len(a)
      /\ \A i \in 1..Len(b \o d) : (b \o d)[i] = a[Len(a) - Len(b \o d) + i]
  BY <1>1, SuffixAt
<1>3. b \o Append(d, x) = Append(b \o d, x)
  OBVIOUS
<1> DEFINE s == Append(b \o d, x)
           t == Append(a, x)
<1>4. s \in Seq(S) /\ t \in Seq(S) /\ Len(s) = Len(b \o d) + 1 /\ Len(t) = Len(a) + 1
  BY <1>1
<1>5. Len(s) <= Len(t) /\ \A i \in 1..Len(s) : s[i] = t[Len(t) - Len(s) + i]
  <2>1. Len(b \o d) \in Nat /\ Len(a) \in Nat
    BY <1>1
  <2>2. Len(s) <= Len(t)
    BY <1>2, <1>4, <2>1
  <2>3. ASSUME NEW i \in 1..Len(s), i = Len(s) PROVE s[i] = t[Len(t) - Len(s) + i]
    <3>1. i = Len(b \o d) + 1 /\ Len(t) - Len(s) + i = Len(a) + 1
      BY <1>4, <2>1, <2>3
    <3> QED BY <1>1, <3>1
  <2>4. ASSUME NEW i \in 1..Len(s), i # Len(s) PROVE s[i] = t[Len(t) - Len(s) + i]
    <3> DEFINE n == Len(b \o d)
               m == Len(a)
    <3>0. n \in Nat /\ m \in Nat /\ n <= m /\ Len(s) = n + 1 /\ Len(t) = m + 1
      BY <1>2, <1>4, <2>1
    <3>1. i \in 1..n /\ m - n + i \in 1..m /\ Len(t) - Len(s) + i = m - n + i
      <4> HIDE DEF n, m, s, t
      <4> QED BY <2>4, <3>0
    <3>2. s[i] = (b \o d)[i] /\ t[Len(a) - Len(b \o d) + i] = a[Len(a) - Len(b \o d) + i]
      BY <1>1, <3>1
    <3> QED BY <1>2, <3>1, <3>2
  <2> HIDE DEF s, t
  <2> QED BY <2>2, <2>3, <2>4
<1>6. IsSuffix(s, t)
  <2> HIDE DEF s, t
  <2> QED BY <1>4, <1>5, SuffixAt
<1> QED BY <1>3, <1>6

(* Nothing, and the line just written, are suffixes.                        *)
LEMMA SuffixEnd ==
    ASSUME NEW S, NEW b \in Seq(S), NEW d \in Seq(S), NEW a \in Seq(S), IsSuffix(b \o d, a)
    PROVE  IsSuffix(d \o <<>>, a)
<1>1. b \o d \in Seq(S) /\ Len(b \o d) = Len(b) + Len(d) /\ d \o <<>> = d
  OBVIOUS
<1>2. /\ Len(b \o d) <= Len(a)
      /\ \A i \in 1..Len(b \o d) : (b \o d)[i] = a[Len(a) - Len(b \o d) + i]
  BY <1>1, SuffixAt
<1>3. Len(b) \in Nat /\ Len(d) \in Nat /\ Len(a) \in Nat
  OBVIOUS
<1>4. ASSUME NEW i \in 1..Len(d) PROVE d[i] = a[Len(a) - Len(d) + i]
  <2>1. Len(b) + i \in 1..Len(b \o d) /\ Len(a) - Len(b \o d) + (Len(b) + i) = Len(a) - Len(d) + i
    BY <1>1, <1>3
  <2>2. (b \o d)[Len(b) + i] = d[i]
    BY <1>1, <1>3, <2>1
  <2> QED BY <1>2, <2>1, <2>2
<1>5. IsSuffix(d, a)
  BY <1>1, <1>2, <1>3, <1>4, SuffixAt
<1> QED BY <1>1, <1>5

(* There are no files when the manager is made.                             *)
LEMMA LogFileInit == MInit => LogFileInv
<1> SUFFICES ASSUME MInit PROVE LogFileInv
  OBVIOUS
<1>1. DOMAIN disk = {} /\ DOMAIN archive = {} /\ openFiles = {}
  BY DEF MInit
<1>2. disk \in [DOMAIN disk -> Seq(Held)] /\ archive \in [DOMAIN archive -> Seq(Held)]
  BY <1>1 DEF MInit
<1>3. accepted \in [LogFile -> Seq(Held)]
  BY DEF MInit
<1>4. ASSUME NEW f \in LogFile PROVE Whole(f)
  BY <1>1 DEF MInit, Whole
<1> QED BY <1>1, <1>2, <1>3, <1>4 DEF LogFileInv

(* The backup of a file has two elements.                                   *)
LEMMA BackupName ==
    ASSUME NEW f
    PROVE  /\ generateBackupFileName(Base(f)) \in Seq({f, "1"})
           /\ Len(generateBackupFileName(Base(f))) = 2
           /\ generateBackupFileName(Base(f))[1] = f /\ generateBackupFileName(Base(f))[2] = "1"
<1> DEFINE S == {f, "1"}
<1>1. <<f>> \in Seq(S) /\ Len(<<f>>) = 1 /\ <<f>>[1] = f /\ "1" \in S
  OBVIOUS
<1> HIDE DEF S
<1>2. /\ Append(<<f>>, "1") \in Seq(S) /\ Len(Append(<<f>>, "1")) = 2
      /\ Append(<<f>>, "1")[1] = f /\ Append(<<f>>, "1")[2] = "1"
  BY <1>1
<1> QED BY <1>2 DEF generateBackupFileName, Base, S

(* What a name is made of.                                                 *)
LEMMA NameFacts ==
    ASSUME NEW x \in Name
    PROVE  /\ Append(x, "gz") \in Name /\ \A f \in LogFile : Append(x, "gz") # Base(f)
           /\ \A f \in LogFile : Append(x, "gz") # generateBackupFileName(Base(f))
           /\ isCompressedFile(Append(x, "gz")) /\ Front(Append(x, "gz")) = x
           /\ isCompressedFile(x) => Front(x) \in Name /\ Front(x)[1] = x[1]
           /\ x[1] \in LogFile
<1> DEFINE A == LogFile \cup {"1", "gz"}
           y == Append(x, "gz")
<1>1. x \in Seq(A) /\ Len(x) \in Nat /\ Len(x) # 0 /\ x[1] \in LogFile
  BY DEF Name
<1>2. y \in Seq(A) /\ Len(y) = Len(x) + 1 /\ y[Len(y)] = "gz" /\ y[1] = x[1] /\ y # <<>>
  BY <1>1
<1>3. ASSUME NEW f \in LogFile PROVE y # Base(f)
  BY <1>1, <1>2 DEF Base
<1>4. ASSUME NEW f \in LogFile PROVE y # generateBackupFileName(Base(f))
  <2>1. Len(generateBackupFileName(Base(f))) = 2 /\ generateBackupFileName(Base(f))[2] = "1"
    BY BackupName
  <2> QED BY <1>2, <2>1
<1>5. isCompressedFile(y)
  BY <1>2 DEF isCompressedFile, Last
<1>6. Front(y) = x
  BY <1>1, <1>2 DEF Front
<1>7. ASSUME isCompressedFile(x) PROVE Front(x) \in Name /\ Front(x)[1] = x[1]
  <2>1. x[Len(x)] = "gz"
    BY <1>7 DEF isCompressedFile, Last
  <2>2. Len(x) # 1
    BY <1>1, <2>1, LogFileAssumption DEF LogFileAssumption
  <2>3. Front(x) = SubSeq(x, 1, Len(x) - 1)
    BY DEF Front
  <2> DEFINE n == Len(x)
  <2>4. n - 1 \in 1..n
    <3>1. n \in Nat /\ n # 0 /\ n # 1
      BY <1>1, <2>2
    <3> HIDE DEF n
    <3> QED BY <3>1
  <2>5. SubSeq(x, 1, Len(x) - 1) \in Seq(A) /\ Len(SubSeq(x, 1, Len(x) - 1)) = Len(x) - 1
        /\ SubSeq(x, 1, Len(x) - 1)[1] = x[1]
    BY <1>1, <2>4
  <2>6. SubSeq(x, 1, Len(x) - 1) # <<>>
    <3> DEFINE u == SubSeq(x, 1, Len(x) - 1)
    <3>1. u \in Seq(A) /\ Len(u) = n - 1 /\ n - 1 \in 1..n
      BY <2>4, <2>5
    <3> HIDE DEF u, n
    <3>2. Len(u) # 0
      BY <3>1
    <3>3. u # <<>>
      BY <3>2
    <3> QED BY <3>3 DEF u
  <2> QED BY <1>1, <2>3, <2>5, <2>6 DEF Name
<1> QED BY <1>1, <1>2, <1>3, <1>4, <1>5, <1>6, <1>7 DEF Name, isCompressedFile

(* The names of a log file and of its backup.                               *)
LEMMA BaseFacts ==
    ASSUME NEW f \in LogFile
    PROVE  /\ Base(f) \in Name /\ generateBackupFileName(Base(f)) \in Name
           /\ Base(f) # generateBackupFileName(Base(f)) /\ Base(f)[1] = f
           /\ generateBackupFileName(Base(f))[1] = f
           /\ ~isCompressedFile(Base(f)) /\ ~isCompressedFile(generateBackupFileName(Base(f)))
           /\ \A g \in LogFile \ {f} :
                 /\ Base(g) # Base(f) /\ Base(g) # generateBackupFileName(Base(f))
                 /\ generateBackupFileName(Base(g)) # Base(f)
                 /\ generateBackupFileName(Base(g)) # generateBackupFileName(Base(f))
<1>1. ASSUME NEW g
      PROVE  /\ generateBackupFileName(Base(g)) \in Seq({g, "1"})
             /\ Len(generateBackupFileName(Base(g))) = 2
             /\ generateBackupFileName(Base(g))[1] = g /\ generateBackupFileName(Base(g))[2] = "1"
             /\ Len(Base(g)) = 1 /\ Base(g)[1] = g
  BY BackupName DEF Base
<1>2. Base(f) \in Name
  BY DEF Name, Base
<1>3. generateBackupFileName(Base(f)) \in Name
  <2> DEFINE b == generateBackupFileName(Base(f))
  <2>1. b \in Seq({f, "1"}) /\ Len(b) = 2 /\ b[1] = f
    BY <1>1
  <2> HIDE DEF b
  <2>2. b \in Seq(LogFile \cup {"1", "gz"}) /\ b # <<>>
    BY <2>1
  <2>3. b \in Name
    BY <2>1, <2>2 DEF Name
  <2> QED BY <2>3 DEF b
<1>4. ~isCompressedFile(Base(f)) /\ ~isCompressedFile(generateBackupFileName(Base(f)))
  <2>1. f # "gz" /\ "1" # "gz"
    BY LogFileAssumption DEF LogFileAssumption
  <2>2. isCompressedFile(Base(f)) <=> f = "gz"
    BY <1>1 DEF isCompressedFile, Last
  <2>3. isCompressedFile(generateBackupFileName(Base(f))) <=> "1" = "gz"
    BY <1>1 DEF isCompressedFile, Last
  <2> QED BY <2>1, <2>2, <2>3
<1>5. ASSUME NEW g \in LogFile \ {f}
      PROVE  /\ Base(g) # Base(f) /\ Base(g) # generateBackupFileName(Base(f))
             /\ generateBackupFileName(Base(g)) # Base(f)
             /\ generateBackupFileName(Base(g)) # generateBackupFileName(Base(f))
  <2> DEFINE bf == generateBackupFileName(Base(f))
             bg == generateBackupFileName(Base(g))
             nf == Base(f)
             ng == Base(g)
  <2>1. /\ Len(bf) = 2 /\ bf[1] = f /\ Len(bg) = 2 /\ bg[1] = g
        /\ Len(nf) = 1 /\ nf[1] = f /\ Len(ng) = 1 /\ ng[1] = g /\ f # g
    BY <1>1
  <2> HIDE DEF bf, bg, nf, ng
  <2>2. ng # nf /\ ng # bf /\ bg # nf /\ bg # bf
    BY <2>1
  <2> QED BY <2>2 DEF bf, bg, nf, ng
<1>6. Base(f) # generateBackupFileName(Base(f))
  <2>1. Len(Base(f)) = 1 /\ Len(generateBackupFileName(Base(f))) = 2
    BY <1>1
  <2> QED BY <2>1
<1> QED BY <1>1, <1>2, <1>3, <1>4, <1>5, <1>6

(* A rotation of an open file.                                             *)
LEMMA RotateKeeps ==
    ASSUME LogFileInv, NEW name, rotateManaged(name), UNCHANGED <<archive, openFiles, accepted, replaced>>
    PROVE  LogFileInv'
<1>1. CASE name \notin openFiles
  BY <1>1 DEF rotateManaged, LogFileInv, Whole
<1>2. CASE name \in openFiles
  <2>1. PICK f \in LogFile : name = Base(f)
    BY <1>2 DEF LogFileInv
  <2> DEFINE b == generateBackupFileName(Base(f))
  <2>2. /\ Base(f) \in DOMAIN disk /\ disk[Base(f)] \in Seq(Held)
        /\ Base(f) \in Name /\ b \in Name /\ Base(f) # b
    BY <1>2, <2>1, BaseFacts DEF LogFileInv
  <2>3. /\ DOMAIN disk' = DOMAIN disk \cup {Base(f), b}
        /\ disk'[Base(f)] = <<>> /\ disk'[b] = disk[Base(f)]
        /\ \A x \in DOMAIN disk : x # Base(f) /\ x # b => disk'[x] = disk[x]
        /\ disk' \in [DOMAIN disk' -> Seq(Held)]
    <3> DEFINE one == Put(disk, b, disk[Base(f)])
               T == Seq(Held)
    <3>1. disk' = Put(one, Base(f), <<>>)
      BY <1>2, <2>1 DEF rotateManaged
    <3>2. disk \in [DOMAIN disk -> T] /\ <<>> \in T /\ disk[Base(f)] \in T
      BY <2>2 DEF LogFileInv
    <3> HIDE DEF b, T
    <3>3. DOMAIN one = DOMAIN disk \cup {b} /\ one \in [DOMAIN one -> T] /\ one[b] = disk[Base(f)]
          /\ \A x \in DOMAIN disk : x # b => one[x] = disk[x]
      BY <3>2 DEF Put
    <3> HIDE DEF one
    <3>4. /\ DOMAIN disk' = DOMAIN one \cup {Base(f)} /\ disk' \in [DOMAIN disk' -> T]
          /\ disk'[Base(f)] = <<>> /\ \A x \in DOMAIN one : x # Base(f) => disk'[x] = one[x]
      BY <3>1, <3>2, <3>3 DEF Put
    <3> QED BY <2>2, <3>3, <3>4 DEF T
  <2>5. ASSUME NEW g \in LogFile \ replaced PROVE Whole(g)'
    <3>1. Whole(g)
      BY DEF LogFileInv
    <3>2. CASE g = f
      <4> DEFINE u == IF b \in DOMAIN disk THEN disk[b] ELSE <<>>
      <4>1. u \in Seq(Held) /\ accepted[f] \in Seq(Held)
        BY DEF LogFileInv
      <4>2. IsSuffix(u \o disk[Base(f)], accepted[f])
        BY <2>2, <3>1, <3>2 DEF Whole
      <4>3. IsSuffix(disk[Base(f)] \o <<>>, accepted[f])
        <5> HIDE DEF u
        <5> QED BY <2>2, <4>1, <4>2, SuffixEnd
      <4>4. b \in DOMAIN disk' /\ Base(f) \in DOMAIN disk' /\ disk'[b] = disk[Base(f)]
            /\ disk'[Base(f)] = <<>>
        BY <2>2, <2>3
      <4> QED BY <3>2, <4>3, <4>4 DEF Whole
    <3>3. CASE g # f
      <4>1. /\ Base(g) # Base(f) /\ Base(g) # b
            /\ generateBackupFileName(Base(g)) # Base(f) /\ generateBackupFileName(Base(g)) # b
        BY <3>3, BaseFacts
      <4> QED BY <2>3, <3>1, <4>1 DEF Whole
    <3> QED BY <3>2, <3>3
  <2>6. DOMAIN disk' \subseteq Name
    BY <2>2, <2>3 DEF LogFileInv
  <2> QED BY <2>3, <2>5, <2>6 DEF LogFileInv
<1> QED BY <1>1, <1>2

(* A copy over a file: what was replaced is known.                          *)
LEMMA OverwriteKeeps ==
    ASSUME LogFileInv, NEW name \in Name, NEW lines \in Seq(Held), Overwrite(name, lines),
           UNCHANGED accepted
    PROVE  LogFileInv'
<1>1. /\ DOMAIN disk' = DOMAIN disk \cup {name} /\ disk' \in [DOMAIN disk' -> Seq(Held)]
      /\ \A x \in DOMAIN disk : x # name => disk'[x] = disk[x]
      /\ replaced' = replaced \cup {name[1]} /\ archive' = archive /\ openFiles' = openFiles
  <2> DEFINE T == Seq(Held)
  <2>1. disk \in [DOMAIN disk -> T] /\ lines \in T /\ disk' = Put(disk, name, lines)
    BY DEF LogFileInv, Overwrite
  <2> HIDE DEF T
  <2>2. /\ DOMAIN disk' = DOMAIN disk \cup {name} /\ disk' \in [DOMAIN disk' -> T]
        /\ \A x \in DOMAIN disk : x # name => disk'[x] = disk[x]
    BY <2>1 DEF Put
  <2> QED BY <2>2 DEF T, Overwrite
<1>3. ASSUME NEW g \in LogFile \ replaced' PROVE Whole(g)'
  <2>1. Whole(g)
    BY <1>1 DEF LogFileInv
  <2>2. name # Base(g) /\ name # generateBackupFileName(Base(g))
    BY <1>1, BaseFacts
  <2> QED BY <1>1, <2>1, <2>2 DEF Whole
<1> QED BY <1>1, <1>3 DEF LogFileInv


(* Every step of the manager, of a writer or of the maintenance keeps it.   *)
LEMMA LogFileStep == LogFileInv /\ [MNext]_mvars => LogFileInv'
<1> SUFFICES ASSUME LogFileInv, [MNext]_mvars PROVE LogFileInv'
  OBVIOUS
<1> DEFINE Back(f) == generateBackupFileName(Base(f))
<1>1. ASSUME NEW f \in LogFile, initializeLogFile(f) PROVE LogFileInv'
  <2>1. /\ Base(f) \in Name /\ Base(f) \notin DOMAIN disk /\ f \notin replaced
        /\ DOMAIN disk' = DOMAIN disk \cup {Base(f)} /\ disk'[Base(f)] = <<>>
        /\ disk' \in [DOMAIN disk' -> Seq(Held)]
        /\ \A x \in DOMAIN disk : disk'[x] = disk[x]
    <3> DEFINE T == Seq(Held)
    <3>1. disk \in [DOMAIN disk -> T] /\ <<>> \in T /\ disk' = Put(disk, Base(f), <<>>)
          /\ Base(f) \notin DOMAIN disk /\ f \notin replaced
      BY <1>1 DEF LogFileInv, initializeLogFile
    <3> HIDE DEF T
    <3>2. /\ DOMAIN disk' = DOMAIN disk \cup {Base(f)} /\ disk'[Base(f)] = <<>>
          /\ disk' \in [DOMAIN disk' -> T] /\ \A x \in DOMAIN disk : disk'[x] = disk[x]
      BY <3>1 DEF Put
    <3> QED BY <3>1, <3>2, BaseFacts DEF T
  <2>2. /\ openFiles' = openFiles \cup {Base(f)} /\ archive' = archive /\ accepted' = accepted
        /\ replaced' = replaced
    BY <1>1 DEF initializeLogFile
  <2>3. ASSUME NEW g \in LogFile \ replaced PROVE Whole(g)'
    <3>1. Whole(g)
      BY DEF LogFileInv
    <3>2. CASE g = f
      <4>1. accepted[f] = <<>> /\ Back(f) \notin DOMAIN disk'
        <5>1. accepted[f] = <<>> /\ Back(f) \notin DOMAIN disk
          BY <2>1, <3>1, <3>2 DEF Whole
        <5>2. Back(f) # Base(f)
          BY BaseFacts
        <5> QED BY <2>1, <5>1, <5>2
      <4>2. IsSuffix(<<>> \o <<>>, accepted[f])
        <5> DEFINE e == <<>> \o <<>>
        <5>1. e = <<>> /\ accepted[f] \in Seq(Held) /\ e \in Seq(Held) /\ Len(e) = 0
          BY <4>1
        <5> DEFINE a == accepted[f]
        <5>2. a \in Seq(Held) /\ Len(e) <= Len(a) /\ \A i \in 1..Len(e) : e[i] = a[Len(a) - Len(e) + i]
          BY <5>1
        <5> HIDE DEF e, a
        <5>3. IsSuffix(e, a)
          BY <5>1, <5>2, SuffixAt
        <5> QED BY <5>3 DEF e, a
      <4> QED BY <2>1, <2>2, <3>2, <4>1, <4>2 DEF Whole
    <3>3. CASE g # f
      <4>1. Base(g) # Base(f) /\ Back(g) # Base(f)
        BY <3>3, BaseFacts
      <4> QED BY <2>1, <2>2, <3>1, <4>1 DEF Whole
    <3> QED BY <3>2, <3>3
  <2> QED BY <2>1, <2>2, <2>3 DEF LogFileInv
<1>2. ASSUME NEW w \in Writer, writeToFile(w) PROVE LogFileInv'
  <2> DEFINE f == writer[w][2]
             line == <<w, Len(accepted[f]) + 1>>
  <2>1. CASE Base(f) \notin openFiles
    BY <1>2, <2>1 DEF writeToFile, LogFileInv, Whole
  <2>2. CASE Base(f) \in openFiles
    <3>1. f \in LogFile
      BY <2>2 DEF LogFileInv, Base
    <3>2. line \in Held
      <4>1. accepted[f] \in Seq(Held)
        BY <3>1 DEF LogFileInv
      <4> DEFINE n == Len(accepted[f]) + 1
      <4>2. n \in Nat
        BY <4>1
      <4> HIDE DEF n
      <4>3. <<w, n>> \in Held
        BY <4>2 DEF Held
      <4> QED BY <4>3 DEF n
    <3>3. /\ disk' = [disk EXCEPT ![Base(f)] = Append(@, line)]
          /\ accepted' = [accepted EXCEPT ![f] = Append(@, line)]
          /\ archive' = archive /\ openFiles' = openFiles /\ replaced' = replaced
      BY <1>2, <2>2 DEF writeToFile
    <3>4. /\ Base(f) \in DOMAIN disk /\ disk \in [DOMAIN disk -> Seq(Held)]
          /\ accepted \in [LogFile -> Seq(Held)]
      BY <2>2 DEF LogFileInv
    <3> HIDE DEF f, line
    <3>5. Append(disk[Base(f)], line) \in Seq(Held) /\ Append(accepted[f], line) \in Seq(Held)
          /\ disk[Base(f)] \in Seq(Held) /\ accepted[f] \in Seq(Held)
      BY <3>1, <3>2, <3>4
    <3>6. /\ disk' \in [DOMAIN disk -> Seq(Held)] /\ DOMAIN disk' = DOMAIN disk
          /\ accepted' \in [LogFile -> Seq(Held)]
      BY <3>1, <3>3, <3>4, <3>5
    <3>7. ASSUME NEW g \in LogFile \ replaced PROVE Whole(g)'
      <4>1. Whole(g)
        BY DEF LogFileInv
      <4>2. CASE g = f
        <5> DEFINE u == IF Back(f) \in DOMAIN disk THEN disk[Back(f)] ELSE <<>>
        <5>1. u \in Seq(Held)
          BY <3>4
        <5>2. IsSuffix(u \o disk[Base(f)], accepted[f])
          BY <3>4, <4>1, <4>2 DEF Whole
        <5>3. IsSuffix(u \o Append(disk[Base(f)], line), Append(accepted[f], line))
          <6> HIDE DEF u
          <6> QED BY <3>2, <3>5, <5>1, <5>2, SuffixAppend
        <5>4. Back(f) # Base(f)
          BY <3>1, BaseFacts
        <5>5. /\ disk'[Base(f)] = Append(disk[Base(f)], line)
              /\ accepted'[f] = Append(accepted[f], line)
              /\ Back(f) \in DOMAIN disk => disk'[Back(f)] = disk[Back(f)]
          BY <3>1, <3>3, <3>4, <5>4
        <5> QED BY <3>4, <3>6, <4>2, <5>3, <5>5 DEF Whole
      <4>3. CASE g # f
        <5>1. Base(g) # Base(f) /\ Back(g) # Base(f)
          BY <3>1, <4>3, BaseFacts
        <5>2. /\ accepted'[g] = accepted[g]
              /\ \A x \in DOMAIN disk : x # Base(f) => disk'[x] = disk[x]
          BY <3>3, <3>4, <4>3
        <5> QED BY <3>6, <4>1, <5>1, <5>2 DEF Whole
      <4> QED BY <4>2, <4>3
    <3> QED BY <3>3, <3>6, <3>7 DEF LogFileInv
  <2> QED BY <2>1, <2>2
<1>3. ASSUME NEW w \in Writer, WriteRotates(w) PROVE LogFileInv'
  BY <1>3, RotateKeeps DEF WriteRotates
<1>4. ASSUME performRotationMaintenance PROVE LogFileInv'
  BY <1>4, RotateKeeps DEF performRotationMaintenance
<1>5. ASSUME NEW f \in LogFile, closeLogFile(f) PROVE LogFileInv'
  BY <1>5 DEF closeLogFile, Manage, LogFileInv, Whole
<1>6. ASSUME closeAllFiles PROVE LogFileInv'
  BY <1>6 DEF closeAllFiles, Manage, LogFileInv, Whole
<1>7. ASSUME NEW names \in SUBSET DOMAIN disk, archiveFiles(names) PROVE LogFileInv'
  <2>1. /\ archive' = [x \in DOMAIN archive \cup names |->
                         IF x \in names THEN archiveFile(x)[x] ELSE archive[x]]
        /\ UNCHANGED <<disk, openFiles, replaced, accepted>>
    BY <1>7 DEF archiveFiles, Manage
  <2>2. ASSUME NEW x \in names PROVE archiveFile(x)[x] \in Seq(Held)
    <3>1. archiveFile(x)[x] = disk[x]
      BY DEF archiveFile, Put
    <3> QED BY <3>1 DEF LogFileInv
  <2>3. archive' \in [DOMAIN archive' -> Seq(Held)] /\ DOMAIN archive' = DOMAIN archive \cup names
    <3> DEFINE T == Seq(Held)
    <3>1. archive \in [DOMAIN archive -> T] /\ \A x \in names : archiveFile(x)[x] \in T
      BY <2>2 DEF LogFileInv
    <3> HIDE DEF T
    <3> QED BY <2>1, <3>1 DEF T
  <2> QED BY <2>1, <2>3 DEF LogFileInv, Whole
<1>8. ASSUME NEW old \in SUBSET DOMAIN disk, compressEligibleFiles(old) PROVE LogFileInv'
  <2> DEFINE names == {x \in old : ~isCompressedFile(x)}
             packed == {getCompressionExtension(y) : y \in names}
  <2>1. /\ disk' = [x \in DOMAIN disk \cup packed |->
                      IF isCompressedFile(x) /\ Front(x) \in names THEN disk[Front(x)] ELSE disk[x]]
        /\ UNCHANGED <<archive, openFiles, replaced, accepted>>
    BY <1>8 DEF compressEligibleFiles, Manage
  <2>2. names \subseteq DOMAIN disk /\ DOMAIN disk \subseteq Name
    BY DEF LogFileInv
  <2>3. ASSUME NEW x \in packed
        PROVE  /\ x \in Name /\ isCompressedFile(x) /\ Front(x) \in names
               /\ \A f \in LogFile : x # Base(f) /\ x # Back(f)
    <3>1. PICK y \in names : x = Append(y, "gz")
      BY DEF getCompressionExtension
    <3>2. y \in Name
      BY <2>2
    <3> QED BY <3>1, <3>2, NameFacts
  <2>4. DOMAIN disk' = DOMAIN disk \cup packed
    BY <2>1
  <2>5. disk' \in [DOMAIN disk' -> Seq(Held)]
    <3> DEFINE T == Seq(Held)
    <3>1. disk \in [DOMAIN disk -> T]
      BY DEF LogFileInv
    <3> HIDE DEF T, packed, names
    <3>2. \A x \in DOMAIN disk \cup packed : disk'[x] \in T
      BY <2>1, <2>2, <2>3, <3>1
    <3> QED BY <2>1, <3>2 DEF T
  <2>6. ASSUME NEW f \in LogFile \ replaced PROVE Whole(f)'
    <3>1. ~isCompressedFile(Base(f)) /\ ~isCompressedFile(Back(f))
      BY BaseFacts
    <3>2. Base(f) \notin packed /\ Back(f) \notin packed
      BY <2>3
    <3> HIDE DEF packed, names
    <3>3. /\ Base(f) \in DOMAIN disk' <=> Base(f) \in DOMAIN disk
          /\ Back(f) \in DOMAIN disk' <=> Back(f) \in DOMAIN disk
          /\ \A x \in DOMAIN disk : ~isCompressedFile(x) => disk'[x] = disk[x]
      BY <2>1, <2>4, <3>2
    <3>4. Whole(f)
      BY DEF LogFileInv
    <3> QED BY <2>1, <3>1, <3>3, <3>4 DEF Whole
  <2>7. DOMAIN disk' \subseteq Name /\ openFiles' \subseteq DOMAIN disk'
    BY <2>1, <2>2, <2>3, <2>4 DEF LogFileInv
  <2> QED BY <2>1, <2>5, <2>6, <2>7 DEF LogFileInv
<1>9. ASSUME NEW names \in SUBSET DOMAIN disk, deleteLogFiles(names) PROVE LogFileInv'
  <2>1. /\ disk' = [x \in DOMAIN disk \ names |-> disk[x]] /\ openFiles' = openFiles \ names
        /\ replaced' = replaced \cup {x[1] : x \in names}
        /\ UNCHANGED <<archive, accepted>>
    BY <1>9 DEF deleteLogFiles, Manage, Without
  <2>2. disk' \in [DOMAIN disk' -> Seq(Held)] /\ DOMAIN disk' = DOMAIN disk \ names
    BY <2>1 DEF LogFileInv
  <2>3. ASSUME NEW f \in LogFile \ replaced' PROVE Whole(f)'
    <3>1. Whole(f)
      BY <2>1 DEF LogFileInv
    <3>2. Base(f) \notin names /\ Back(f) \notin names
      <4>1. Base(f)[1] = f /\ Back(f)[1] = f
        BY BaseFacts
      <4> QED BY <2>1, <4>1
    <3> QED BY <2>1, <2>2, <3>1, <3>2 DEF Whole
  <2> QED BY <2>1, <2>2, <2>3 DEF LogFileInv
<1>10. ASSUME NEW x \in DOMAIN disk, decompressLogFile(x) PROVE LogFileInv'
  <2>1. x \in Name /\ disk[x] \in Seq(Held)
    BY DEF LogFileInv
  <2>2. isCompressedFile(x) /\ Overwrite(Front(x), disk[x]) /\ UNCHANGED accepted
    BY <1>10 DEF decompressLogFile, Manage
  <2>3. Front(x) \in Name
    BY <2>1, <2>2, NameFacts
  <2> QED BY <2>1, <2>2, <2>3, OverwriteKeeps
<1>11. ASSUME NEW x \in DOMAIN archive, restoreArchivedFile(x) PROVE LogFileInv'
  <2>1. x \in Name /\ archive[x] \in Seq(Held)
    BY DEF LogFileInv
  <2> DEFINE y == IF isCompressedFile(x) THEN Front(x) ELSE x
  <2>2. Overwrite(y, archive[x]) /\ UNCHANGED accepted
    BY <1>11 DEF restoreArchivedFile, Manage
  <2>3. y \in Name
    BY <2>1, NameFacts
  <2> HIDE DEF y
  <2> QED BY <2>1, <2>2, <2>3, OverwriteKeeps
<1>12. ASSUME NEW w \in Writer, NEW f \in LogFile, WriteTest(w, f) PROVE LogFileInv'
  BY <1>12 DEF WriteTest, LogFileInv, Whole
<1>13. CASE startBackgroundMaintenance \/ maintenanceWorker \/ stopBackgroundMaintenance
  BY <1>13 DEF startBackgroundMaintenance, maintenanceWorker, stopBackgroundMaintenance, LogFileInv, Whole
<1>14. CASE UNCHANGED mvars
  BY <1>14 DEF mvars, LogFileInv, Whole
<1> QED BY <1>1, <1>2, <1>3, <1>4, <1>5, <1>6, <1>7, <1>8, <1>9, <1>10, <1>11, <1>12, <1>13, <1>14
        DEF MNext

(* The backup of a log file and the file hold the last lines accepted for   *)
(* it, in order and without a gap, for any files, writers and sizes.        *)
THEOREM NoLineOutOfOrder == MSpec => []LinesKeepOrder
<1>1. LogFileInv => LinesKeepOrder
  BY DEF LogFileInv, LinesKeepOrder, Whole
<1> QED BY <1>1, LogFileInit, LogFileStep, PTL DEF MSpec
=============================================================================
