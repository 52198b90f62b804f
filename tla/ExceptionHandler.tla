-------------------------- MODULE ExceptionHandler --------------------------
(***************************************************************************)
(* One operation run by executeWithRetry, with a database transaction       *)
(* around its code (WITH_DATABASE_TRANSACTION): begin, the code, commit, a  *)
(* rollback when the code or the commit throws, and the destructor of the   *)
(* scope, which rolls back what is still open. A call of the database may   *)
(* be refused, its answer may be lost after it took effect, and the         *)
(* connection may go away between two calls. The code may assign a new      *)
(* scope to its own, which ends the transaction it held.                   *)
(***************************************************************************)
EXTENDS Integers, FiniteSets

CONSTANTS
    maxAttempts,        \* RetryConfig
    initialDelay, maxDelay, backoffMultiplier,
    Thrown,             \* what the code may throw: error codes, or "standard"
    MaxTransactions     \* bound: transactions begun

ASSUME RetryAssumption ==
    /\ maxAttempts \in Nat \ {0} /\ MaxTransactions \in Nat
    /\ {initialDelay, maxDelay, backoffMultiplier} \subseteq Nat \ {0}
    /\ "none" \notin Thrown

VARIABLES
    phase,      \* where the call of executeWithRetry is
    attempt, delay,
    scope,      \* the TransactionScope: its transaction, committed_, rollbackOnDestroy_
    begun,      \* transactions begun so far
    open,       \* transactions the database holds open
    commits,    \* history: transactions committed
    raised,      \* the exception in flight
    connected,
    excused     \* history: an end was refused or lost, or the connection was away

xvars == <<phase, attempt, delay, scope, begun, open, commits, raised, connected, excused>>

NoError == "none"
NewScope(t) == [transaction |-> t, committed |-> FALSE, rollbackOnDestroy |-> TRUE]

XInit ==
    /\ phase = "attempt" /\ attempt = 1 /\ delay = 0
    /\ scope = NewScope(0) /\ begun = 0 /\ open = {} /\ commits = 0
    /\ raised = NoError /\ connected = TRUE /\ excused = FALSE

calculateDelay(k) ==
    LET raw == initialDelay * backoffMultiplier ^ (k - 1) IN
    IF raw < maxDelay THEN raw ELSE maxDelay

shouldRetry(e) ==
    e \in {"NETWORK_ERROR", "DATABASE_ERROR", "COMPONENT_UNAVAILABLE", "LOCK_TIMEOUT"}

(* The constructor throws when the database is away or refuses to begin.   *)
BeginFails ==
    /\ phase = "attempt"
    /\ phase' = "caught" /\ raised' = "DATABASE_ERROR"
    /\ UNCHANGED <<attempt, delay, scope, begun, open, commits, connected, excused>>

Begin ==
    /\ phase = "attempt" /\ connected /\ begun < MaxTransactions
    /\ phase' = "body" /\ begun' = begun + 1 /\ open' = open \union {begun + 1}
    /\ scope' = NewScope(begun + 1)
    /\ UNCHANGED <<attempt, delay, commits, raised, connected, excused>>

Undone(t, how) ==
    /\ open' = IF how = "done" THEN open \ {t} ELSE open
    /\ excused' = (excused \/ how = "refused")

(* Mutant: the transaction held is dropped.                                *)
MoveAway ==
    /\ phase = "body" /\ connected /\ begun < MaxTransactions
    /\ begun' = begun + 1 /\ scope' = NewScope(begun + 1)
    /\ open' = open \union {begun + 1}
    /\ UNCHANGED <<phase, attempt, delay, commits, raised, connected, excused>>

MoveAssign ==
    /\ phase = "body" /\ connected /\ begun < MaxTransactions
    /\ begun' = begun + 1 /\ scope' = NewScope(begun + 1)
    /\ \E how \in {"done", "refused"} :
          /\ open' = (IF how = "done" THEN open \ {scope.transaction} ELSE open)
                     \union {begun + 1}
          /\ excused' = (excused \/ how = "refused")
    /\ UNCHANGED <<phase, attempt, delay, commits, raised, connected>>

setRollbackOnDestroy ==
    /\ phase = "body" /\ scope.rollbackOnDestroy
    /\ scope' = [scope EXCEPT !.rollbackOnDestroy = FALSE] /\ excused' = TRUE
    /\ UNCHANGED <<phase, attempt, delay, begun, open, commits, raised, connected>>

BodyThrows(e) ==
    /\ phase = "body" /\ phase' = "rollback" /\ raised' = e
    /\ UNCHANGED <<attempt, delay, scope, begun, open, commits, connected, excused>>

commit ==
    /\ phase = "body" /\ connected
    /\ phase' = "destroy" /\ scope' = [scope EXCEPT !.committed = TRUE]
    /\ open' = open \ {scope.transaction} /\ commits' = commits + 1
    /\ UNCHANGED <<attempt, delay, begun, raised, connected, excused>>

CommitFails ==
    /\ phase = "body" /\ phase' = "rollback" /\ raised' = "DATABASE_ERROR"
    /\ \/ UNCHANGED <<open, commits, excused>>
       \/ /\ connected /\ open' = open \ {scope.transaction}
          /\ commits' = commits + 1 /\ excused' = TRUE
    /\ UNCHANGED <<attempt, delay, scope, begun, connected>>

(* Without a connection rollback only warns; when it is refused it throws,  *)
(* and the exception that led to it is lost.                               *)
rollback ==
    /\ phase = "rollback" /\ phase' = "destroy"
    /\ \/ /\ connected /\ Undone(scope.transaction, "done")
          /\ scope' = [scope EXCEPT !.committed = TRUE] /\ UNCHANGED raised
       \/ /\ connected /\ raised' = "DATABASE_ERROR" /\ UNCHANGED <<scope, open, excused>>
       \/ ~connected /\ UNCHANGED <<scope, open, excused, raised>>
    /\ UNCHANGED <<attempt, delay, begun, commits, connected>>

Destroy ==
    /\ phase = "destroy"
    /\ phase' = IF raised = NoError THEN "returned" ELSE "caught"
    /\ IF scope.committed \/ ~scope.rollbackOnDestroy
       THEN UNCHANGED <<open, excused>>
       ELSE \E how \in {"done", "refused"} :
               /\ how = "done" => connected
               /\ Undone(scope.transaction, how)
    /\ UNCHANGED <<attempt, delay, scope, begun, commits, raised, connected>>

(* What is not an exception of the program's own is retried whatever the    *)
(* policy says, and becomes an internal error at the last attempt.         *)
Retry ==
    /\ phase = "caught"
    /\ IF attempt < maxAttempts /\ (raised = "standard" \/ shouldRetry(raised))
       THEN /\ phase' = "attempt" /\ attempt' = attempt + 1
            /\ delay' = calculateDelay(attempt) /\ raised' = NoError
       ELSE /\ phase' = "thrown"
            /\ raised' = IF raised = "standard" THEN "INTERNAL_ERROR" ELSE raised
            /\ UNCHANGED <<attempt, delay>>
    /\ UNCHANGED <<scope, begun, open, commits, connected, excused>>

Connection ==
    /\ connected' = ~connected /\ phase \notin {"returned", "thrown"}
    /\ UNCHANGED <<phase, attempt, delay, scope, begun, open, commits, raised, excused>>

XNext ==
    \/ BeginFails \/ Begin \/ MoveAssign \/ setRollbackOnDestroy
    \/ \E e \in Thrown : BodyThrows(e)
    \/ commit \/ CommitFails \/ rollback \/ Destroy \/ Retry \/ Connection

XSpec == XInit /\ [][XNext]_xvars

(* Unless an end was refused, lost or made without a connection, no         *)
(* transaction stays open after an attempt, an operation that returned has  *)
(* been committed once and one that threw not at all.                      *)
AllOrNothing ==
    ~excused =>
        /\ phase \in {"caught", "returned", "thrown"} => open = {}
        /\ phase = "returned" => commits = 1
        /\ phase = "thrown" => commits = 0
=============================================================================
