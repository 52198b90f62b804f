----------------------- MODULE WebSocketFilterManager -----------------------
(***************************************************************************)
(* The filter manager and the filters of the connections it works on. A     *)
(* handler first looks for the connection among the open ones, then checks  *)
(* its argument, then has the change made through the WebSocket manager,    *)
(* the broadcaster and the connection, then stores preferences. The manager *)
(* and the broadcaster do nothing, and say nothing, when the manager does   *)
(* not run or the connection is not open any more. Each change is made      *)
(* under the mutex of the connection; the filters are read without it, one  *)
(* list after another. A pool lock that is not had in time throws.         *)
(***************************************************************************)
EXTENDS JobMonitoringModels, FiniteSets

CONSTANTS
    FilterThread,  \* threads that call the manager
    Peer,          \* ids that are asked for
    Stranger,      \* those that no connection has
    JobArgument,   \* texts given as job ids
    LevelArgument, \* texts given as log levels
    TypeArgument,  \* texts given as message types
    FilterBody,    \* request bodies that hold filters
    TestMessages,  \* messages whose filtering is tested
    GivenFilters,  \* filters the program gives itself
    MaxFilterCalls \* bound: calls

AreFilters(f) == f = [list \in DOMAIN NoFilters |-> f[list]]

ASSUME FilterAssumption ==
    /\ IsFiniteSet(Peer) /\ Peer # {} /\ Stranger \subseteq Peer
    /\ \A f \in GivenFilters : AreFilters(f)
    /\ MaxFilterCalls \in Nat

VARIABLES
    wsRunning,          \* running_ of the WebSocketManager
    peers,              \* of each connection: "open" or "closed"
    filters,            \* filters_ of each connection
    storedPreferences,  \* storedPreferences_: a function on ids
    filterTemplates,    \* filterTemplates_: a function on names
    request,            \* what each thread is doing
    calls,              \* number of calls begun
    alone               \* history: connections all whose changes were asked for one
                        \* after another and were made

fmvars == <<wsRunning, peers, filters, storedPreferences, filterTemplates, request, calls, alone>>

NoRequest == [at |-> "idle"]

(* operator[] of a map, assigned to.                                        *)
Assigned(map, key, value) ==
    [k \in DOMAIN map \union {key} |-> IF k = key THEN value ELSE map[k]]

(* initializeDefaultTemplates.                                             *)
DefaultTemplates ==
    [error |-> [NoFilters EXCEPT !.logLevels = << <<"ERROR">>, <<"FATAL">> >>],
     jobs |-> [NoFilters EXCEPT !.messageTypes = <<"job_status_update", "job_progress_update">>],
     system |-> [NoFilters EXCEPT !.messageTypes = <<"system_notification", "error_message">>],
     verbose |-> [NoFilters EXCEPT !.logLevels =
                     << <<"DEBUG">>, <<"INFO">>, <<"WARN">>, <<"ERROR">> >>]]

FMInit ==
    /\ wsRunning = TRUE
    /\ peers = [c \in Peer |-> IF c \in Stranger THEN "closed" ELSE "open"]
    /\ filters = [c \in Peer |-> NoFilters]
    /\ storedPreferences = [c \in {} |-> NoFilters]
    /\ filterTemplates = DefaultTemplates
    /\ request = [t \in FilterThread |-> NoRequest]
    /\ calls = 0 /\ alone = Peer

---------------------------------------------------------------------------
(* What the pool and the broadcaster answer now.                           *)
getConnectionIds == IF wsRunning THEN {c \in Peer : peers[c] = "open"} ELSE {}
Found(c) == wsRunning /\ peers[c] = "open"

---------------------------------------------------------------------------
(* Where a call is. "given" and "forget" change several connections one     *)
(* after another, without an answer: rest are those that follow.            *)
Go(t, r) ==
    /\ request' = [request EXCEPT ![t] = r]
    /\ UNCHANGED <<wsRunning, peers, filters, storedPreferences, filterTemplates, calls>>
(* A handler answers with a text: a status alone, or what it found.         *)
Answered(t, answer) == Go(t, [at |-> "answered", answer |-> answer])

Changes == {"set", "update", "add", "remove", "clear", "given", "forget"}
Changing(c) ==
    {t \in FilterThread : /\ request[t].at \notin {"idle", "answered"} /\ request[t].call.op \in Changes
                          /\ c = request[t].call.peer \/ c \in ToSet(request[t].call.rest)}

Ask(t, call) ==
    /\ request[t].at = "idle" /\ calls < MaxFilterCalls
    /\ request' = [request EXCEPT ![t] = [at |-> "exists", call |-> call]]
    /\ calls' = calls + 1
    /\ alone' = IF call.op \notin Changes THEN alone
                ELSE {c \in alone : Changing(c) = {} \/ c \notin ToSet(call.rest) \union {call.peer}}
    /\ UNCHANGED <<wsRunning, peers, filters, storedPreferences, filterTemplates>>

Call(op, c) == [op |-> op, peer |-> c, rest |-> <<>>]
handleGetConnectionFilters(t, c) == Ask(t, Call("get", c))
WithBody(op, c, body) == [op |-> op, peer |-> c, rest |-> <<>>, body |-> body]
handleSetConnectionFilters(t, c, body) == Ask(t, WithBody("set", c, body))
handleUpdateConnectionFilters(t, c, body) == Ask(t, WithBody("update", c, body))
handleClearConnectionFilters(t, c) == Ask(t, Call("clear", c))
handleTestConnectionFilter(t, c, message) ==
    Ask(t, [op |-> "test", peer |-> c, rest |-> <<>>, message |-> message])
OnList(op, c, list, value) ==
    [op |-> op, peer |-> c, rest |-> <<>>, list |-> list, value |-> value]
handleAddJobFilter(t, c, v) == Ask(t, OnList("add", c, "jobIds", v))
handleRemoveJobFilter(t, c, v) == Ask(t, OnList("remove", c, "jobIds", v))
handleAddMessageTypeFilter(t, c, v) == Ask(t, OnList("add", c, "messageTypes", v))
handleRemoveMessageTypeFilter(t, c, v) == Ask(t, OnList("remove", c, "messageTypes", v))
handleAddLogLevelFilter(t, c, v) == Ask(t, OnList("add", c, "logLevels", v))
handleRemoveLogLevelFilter(t, c, v) == Ask(t, OnList("remove", c, "logLevels", v))

Several(op, ids, given) == [op |-> op, peer |-> Head(ids), rest |-> Tail(ids), given |-> given]
applyFiltersToMultipleConnections(t, ids, given) == Ask(t, Several("given", ids, given))
clearFiltersFromMultipleConnections(t, ids) == Ask(t, Several("forget", ids, NoFilters))
(* A copy of the template is taken; an unknown one ends the call.           *)
applyFilterTemplate(t, c, name) ==
    /\ name \in DOMAIN filterTemplates
    /\ Ask(t, Several("given", <<c>>, filterTemplates[name]))
saveFilterTemplate(name, given) ==
    /\ calls < MaxFilterCalls /\ calls' = calls + 1
    /\ filterTemplates' = Assigned(filterTemplates, name, given)
    /\ UNCHANGED <<wsRunning, peers, filters, storedPreferences, request, alone>>

(* A call without an answer goes on with the next connection.               *)
Finished(call) ==
    CASE call.op \notin {"given", "forget"} -> [at |-> "answered", answer |-> <<"200">>]
      [] call.op \in {"given", "forget"} /\ call.rest = <<>> -> NoRequest
      [] OTHER -> [at |-> "exists", call |-> Several(call.op, call.rest, call.given)]

validateFilterData(body) == isValid(filtersFromJson(body))

(* A body is parsed and checked. The argument of an add is checked, that of *)
(* a remove is not.                                                        *)
ArgumentValid(call) ==
    CASE call.op \in {"set", "update"} -> validateFilterData(call.body)
      [] call.op = "add" /\ call.list = "jobIds" -> validateJobId(call.value)
      [] call.op = "add" /\ call.list = "logLevels" -> validateLogLevel(call.value)
      [] call.op = "add" /\ call.list = "messageTypes" -> validateMessageType(call.value)
      [] OTHER -> TRUE

validateConnectionExists(t) ==
    /\ request[t].at = "exists"
    /\ LET call == request[t].call IN
       CASE call.peer \notin getConnectionIds ->
              IF call.op \in {"given", "forget"} THEN Go(t, Finished(call)) ELSE Answered(t, <<"404">>)
         [] call.peer \in getConnectionIds /\ ~ArgumentValid(call) -> Answered(t, <<"400">>)
         [] OTHER -> Go(t, [at |-> IF call.op = "get" THEN "read" ELSE "find", call |-> call])
    /\ UNCHANGED alone
(* The lock of the pool is not had: before the try of the handler, and in it. *)
ExistsThrows(t) ==
    /\ request[t].at = "exists" /\ Go(t, NoRequest) /\ UNCHANGED alone
FindThrows(t) ==
    /\ request[t].at \in {"find", "read"}
    /\ LET op == request[t].call.op IN
       /\ IF op \in {"given", "forget"} THEN Go(t, NoRequest)
          ELSE Answered(t, IF op \in {"set", "update", "test"} THEN <<"400">> ELSE <<"500">>)
       /\ alone' = IF op \in Changes THEN alone \ {request[t].call.peer} ELSE alone

Find(t) ==
    /\ request[t].at = "find"
    /\ LET call == request[t].call IN
       CASE call.op \in Changes ->
              Go(t, [at |-> IF Found(call.peer) THEN "change" ELSE "changed", call |-> call])
         [] call.op = "test" /\ ~Found(call.peer) ->
              Answered(t, <<"false">>)
         [] OTHER -> Go(t, [at |-> "test", call |-> call])
    /\ UNCHANGED alone

(* The broadcaster asks the connection, under its mutex.                    *)
testConnectionFilter(t) ==
    /\ request[t].at = "test"
    /\ LET call == request[t].call IN
       Answered(t, IF shouldReceiveMessage(filters[call.peer], call.message)
                   THEN <<"true">> ELSE <<"false">>)
    /\ UNCHANGED alone

---------------------------------------------------------------------------
(* The change itself, under the mutex of the connection.                   *)
TypeOrText(list, value) == IF list = "messageTypes" THEN stringToMessageType(value) ELSE value
addFilter(f, list, value) == [f EXCEPT ![list] = AddTo(@, TypeOrText(list, value))]
removeFilter(f, list, value) == [f EXCEPT ![list] = RemoveFrom(@, TypeOrText(list, value))]

ChangedFilters(f, call) ==
    CASE call.op \in {"set", "update"} -> filtersFromJson(call.body)
      [] call.op = "given" -> call.given
      [] call.op = "add" -> addFilter(f, call.list, call.value)
      [] call.op = "remove" -> removeFilter(f, call.list, call.value)
      [] call.op \in {"clear", "forget"} -> NoFilters

Change(t) ==
    /\ request[t].at = "change"
    /\ LET call == request[t].call IN
       /\ filters' = [filters EXCEPT ![call.peer] = ChangedFilters(@, call)]
       /\ request' = [request EXCEPT ![t] = [at |-> "changed", call |-> call]]
    /\ UNCHANGED <<wsRunning, peers, storedPreferences, filterTemplates, calls, alone>>

(* After an add or a remove the filters are read back; the others store     *)
(* what they were given, or forget what was stored.                        *)
Changed(t) ==
    /\ request[t].at = "changed"
    /\ LET call == request[t].call IN
       Go(t, IF call.op \in {"add", "remove"} THEN [at |-> "read", call |-> call]
             ELSE [at |-> "store", call |-> call,
                   copy |-> CASE call.op \in {"set", "update"} -> filtersFromJson(call.body)
                              [] call.op = "given" -> call.given
                              [] OTHER -> NoFilters])
    /\ UNCHANGED alone

(* getConnectionFilters: the defaults when the connection is gone, else a   *)
(* reference to its filters, which is copied list by list.                  *)
getConnectionFilters(t) ==
    /\ request[t].at = "read"
    /\ LET call == request[t].call IN
       Go(t, IF ~Found(call.peer)
             THEN [at |-> IF call.op = "get" THEN "write" ELSE "store", call |-> call,
                   copy |-> NoFilters]
             ELSE [at |-> "copy", call |-> call,
                   copy |-> [NoFilters EXCEPT !.jobIds = filters[call.peer].jobIds]])
    /\ UNCHANGED alone
CopyRest(t) ==
    /\ request[t].at = "copy"
    /\ LET call == request[t].call
           live == filters[call.peer]
       IN Go(t, [at |-> IF call.op = "get" THEN "write" ELSE "store", call |-> call,
                 copy |-> [live EXCEPT !.jobIds = request[t].copy.jobIds]])
    /\ UNCHANGED alone

(* Mutant: what is given without an answer is not stored.                   *)
ForgetGiven(op, stored, c, copy) ==
    CASE op \in {"clear", "forget"} -> [p \in DOMAIN stored \ {c} |-> stored[p]]
      [] op = "given" -> stored
      [] OTHER -> Assigned(stored, c, copy)

(* clearStoredPreferences, and saveConnectionPreferences of the others.     *)
Preferences(op, stored, c, copy) ==
    IF op \in {"clear", "forget"} THEN [p \in DOMAIN stored \ {c} |-> stored[p]]
    ELSE Assigned(stored, c, copy)

Store(t) ==
    /\ request[t].at = "store"
    /\ LET call == request[t].call IN
       /\ storedPreferences' =
             Preferences(call.op, storedPreferences, call.peer, request[t].copy)
       /\ request' = [request EXCEPT ![t] = Finished(call)]
    /\ UNCHANGED <<wsRunning, peers, filters, filterTemplates, calls, alone>>

(* The answer of a get.                                                    *)
Write(t) ==
    /\ request[t].at = "write"
    /\ Answered(t, filtersToJson(request[t].copy))
    /\ UNCHANGED alone
Reply(t) == request[t].at = "answered" /\ Go(t, NoRequest) /\ UNCHANGED alone

---------------------------------------------------------------------------
(* A connection closes. Stopping ends the manager, then the pool closes and  *)
(* drops every connection.                                                 *)
PeerCloses(c) ==
    /\ peers[c] = "open" /\ peers' = [peers EXCEPT ![c] = "closed"]
    /\ UNCHANGED <<wsRunning, filters, storedPreferences, filterTemplates, request, calls, alone>>
ManagerStops ==
    /\ wsRunning /\ wsRunning' = FALSE
    /\ UNCHANGED <<peers, filters, storedPreferences, filterTemplates, request, calls, alone>>
PoolStops ==
    /\ ~wsRunning /\ peers' = [c \in Peer |-> "closed"]
    /\ UNCHANGED <<wsRunning, filters, storedPreferences, filterTemplates, request, calls, alone>>

FMNext ==
    \/ \E t \in FilterThread :
          \/ \E c \in Peer :
                \/ handleGetConnectionFilters(t, c) \/ handleClearConnectionFilters(t, c)
                \/ \E body \in FilterBody : \/ handleSetConnectionFilters(t, c, body)
                                             \/ handleUpdateConnectionFilters(t, c, body)
                \/ \E m \in TestMessages : handleTestConnectionFilter(t, c, m)
                \/ \E v \in JobArgument : \/ handleAddJobFilter(t, c, v)
                                           \/ handleRemoveJobFilter(t, c, v)
                \/ \E v \in TypeArgument : \/ handleAddMessageTypeFilter(t, c, v)
                                            \/ handleRemoveMessageTypeFilter(t, c, v)
                \/ \E v \in LevelArgument : \/ handleAddLogLevelFilter(t, c, v)
                                             \/ handleRemoveLogLevelFilter(t, c, v)
                \/ \E name \in DOMAIN filterTemplates : applyFilterTemplate(t, c, name)
          \/ \E given \in GivenFilters :
                \E ids \in SetToSeqs(Peer) : applyFiltersToMultipleConnections(t, ids, given)
          \/ \E ids \in SetToSeqs(Peer) : clearFiltersFromMultipleConnections(t, ids)
          \/ validateConnectionExists(t) \/ ExistsThrows(t) \/ Find(t) \/ FindThrows(t)
          \/ testConnectionFilter(t) \/ Change(t) \/ Changed(t) \/ getConnectionFilters(t)
          \/ CopyRest(t) \/ Store(t) \/ Write(t) \/ Reply(t)
    \/ \E given \in GivenFilters : saveFilterTemplate("error", given)
    \/ \E c \in Peer : PeerCloses(c)
    \/ ManagerStops \/ PoolStops

FMSpec == FMInit /\ [][FMNext]_fmvars

---------------------------------------------------------------------------
(* When no change of an open connection is under way, its stored preferences *)
(* are its filters, and it has none if nothing is stored, as long as its     *)
(* changes were asked for one after another and none was stopped half way by *)
(* a lock: a connection that comes back would find what it had.             *)
StoredIsLast ==
    \A c \in alone :
        wsRunning /\ peers[c] = "open" /\ Changing(c) = {} =>
            filters[c] = (IF c \in DOMAIN storedPreferences THEN storedPreferences[c]
                          ELSE NoFilters)
=============================================================================
