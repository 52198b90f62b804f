----------------------------- MODULE JobExecutor -----------------------------
(***************************************************************************)
(* What ETLJobManager promises its clients, with no thread, lock or table   *)
(* in sight: a job id is used once; accepted jobs begin one at a time in    *)
(* the order they were accepted; a job whose cancellation came before its   *)
(* turn is skipped; the end of the process loses what waits; and an id can  *)
(* be used up by a job that is refused.                                     *)
(***************************************************************************)
EXTENDS Naturals, Sequences

CONSTANTS
    Job,     \* the job identifiers
    NoJob    \* "none is executing"

VARIABLES
    used,       \* the ids that may not come again: they survive the process
    waiting,    \* the accepted jobs whose turn has not come
    cancelled,  \* those of them that have been cancelled
    executing   \* the job whose turn it is

vars == <<used, waiting, cancelled, executing>>

Init ==
    /\ used = {}
    /\ waiting = <<>>
    /\ cancelled = {}
    /\ executing = NoJob

(* The client is told that the job was refused, and its id is used all the  *)
(* same: the row was written and the answer lost.                           *)
UseUp(j) ==
    /\ j \notin used
    /\ used' = used \cup {j}
    /\ UNCHANGED <<waiting, cancelled, executing>>

Accept(j) ==
    /\ j \notin used
    /\ used' = used \cup {j}
    /\ waiting' = Append(waiting, j)
    /\ UNCHANGED <<cancelled, executing>>

Cancel(j) ==
    /\ \E i \in DOMAIN waiting : waiting[i] = j
    /\ cancelled' = cancelled \cup {j}
    /\ UNCHANGED <<used, waiting, executing>>

Begin ==
    /\ executing = NoJob
    /\ waiting # <<>>
    /\ Head(waiting) \notin cancelled
    /\ executing' = Head(waiting)
    /\ waiting' = Tail(waiting)
    /\ UNCHANGED <<used, cancelled>>

Skip ==
    /\ executing = NoJob
    /\ waiting # <<>>
    /\ Head(waiting) \in cancelled
    /\ waiting' = Tail(waiting)
    /\ cancelled' = cancelled \ {Head(waiting)}
    /\ UNCHANGED <<used, executing>>

End ==
    /\ executing # NoJob
    /\ executing' = NoJob
    /\ UNCHANGED <<used, waiting, cancelled>>

Lose ==
    /\ waiting' = <<>>
    /\ cancelled' = {}
    /\ executing' = NoJob
    /\ UNCHANGED used

Next ==
    \/ \E j \in Job : Accept(j) \/ UseUp(j) \/ Cancel(j)
    \/ Begin
    \/ Skip
    \/ End
    \/ Lose

Spec == Init /\ [][Next]_vars
=============================================================================
