------------------------------ MODULE LockUtils ------------------------------
(***************************************************************************)
(* The lock utilities: scoped locks with a timeout on mutexes that have a   *)
(* level, and the deadlock detector that refuses a lock below a level the   *)
(* thread has registered. A scoped lock registers before it waits and       *)
(* unregisters in its destructor; a constructor that times out throws, so   *)
(* its destructor never runs.                                               *)
(*                                                                          *)
(* The detector keeps a list of (level, id) pairs per thread and mode; it   *)
(* only asks whether a level is there and removes all equal pairs at once,  *)
(* so a set says the same. Detection is enabled from the start and nothing  *)
(* in the program disables it.                                              *)
(***************************************************************************)
EXTENDS Naturals, Sequences

CONSTANTS
    Thread,     \* the threads
    Mutex,      \* the mutexes
    Level,      \* LockLevel of each mutex
    Nesting,    \* whether callers nest locks of one level
    MaxHeld     \* bound: scoped locks a thread holds at once

ASSUME LockAssumption ==
    /\ Level \in [Mutex -> 1 .. 4]
    /\ Nesting \in BOOLEAN
    /\ MaxHeld \in Nat

VARIABLES
    held,        \* the scoped locks of each thread, innermost last
    waiting,     \* the lock a thread waits for in a constructor
    threadLocks  \* the detector's exclusiveLocks and sharedLocks

lvars == <<held, waiting, threadLocks>>

Lock == [mutex : Mutex, mode : {"exclusive", "shared"}]
NoLock == [mutex |-> "none", mode |-> "none"]

Holds(t, l) == \E i \in DOMAIN held[t] : held[t][i] = l

Conflict(l, k) ==
    l.mutex = k.mutex /\ (l.mode = "exclusive" \/ k.mode = "exclusive")

LTypeOK ==
    /\ held \in [Thread -> Seq(Lock)]
    /\ waiting \in [Thread -> Lock \cup {NoLock}]
    /\ threadLocks \in [Thread -> SUBSET Lock]

LInit ==
    /\ held = [t \in Thread |-> <<>>]
    /\ waiting = [t \in Thread |-> NoLock]
    /\ threadLocks = [t \in Thread |-> {}]

(* validateLockOrdering: no registered level is above the new one. *)
Valid(t, l) == \A k \in threadLocks[t] : Level[k.mutex] <= Level[l.mutex]

(* What the callers keep to if they do not nest locks of one level. *)
Disciplined(t, l) ==
    \A i \in DOMAIN held[t] : Level[held[t][i].mutex] # Level[l.mutex]

(* Mutant: the lock is registered and not validated. *)
RequestUnchecked(t, l) ==
    /\ waiting[t] = NoLock
    /\ Len(held[t]) < MaxHeld
    /\ Nesting \/ Disciplined(t, l)
    /\ waiting' = [waiting EXCEPT ![t] = l]
    /\ threadLocks' = [threadLocks EXCEPT ![t] = @ \cup {l}]
    /\ UNCHANGED held

(* The constructor up to try_lock_for; a lock that is not Valid throws      *)
(* DeadlockException and changes nothing.                                   *)
Request(t, l) ==
    /\ waiting[t] = NoLock
    /\ Len(held[t]) < MaxHeld
    /\ Nesting \/ Disciplined(t, l)
    /\ Valid(t, l)
    /\ waiting' = [waiting EXCEPT ![t] = l]
    /\ threadLocks' = [threadLocks EXCEPT ![t] = @ \cup {l}]
    /\ UNCHANGED held

(* try_lock_for succeeds. *)
Acquire(t) ==
    /\ waiting[t] # NoLock
    /\ \A u \in Thread : \A i \in DOMAIN held[u] : ~Conflict(held[u][i], waiting[t])
    /\ held' = [held EXCEPT ![t] = Append(@, waiting[t])]
    /\ waiting' = [waiting EXCEPT ![t] = NoLock]
    /\ UNCHANGED threadLocks

(* try_lock_for fails after its timeout and the constructor throws.         *)
TimeOut(t) ==
    /\ waiting[t] # NoLock
    /\ waiting' = [waiting EXCEPT ![t] = NoLock]
    /\ UNCHANGED <<held, threadLocks>>

(* The destructor of the innermost scoped lock. It unregisters and then     *)
(* unlocks; only the thread itself reads its entries, so one step will do.  *)
Release(t) ==
    LET last == Len(held[t]) IN
    /\ waiting[t] = NoLock
    /\ held[t] # <<>>
    /\ held' = [held EXCEPT ![t] = SubSeq(@, 1, last - 1)]
    /\ threadLocks' = [threadLocks EXCEPT ![t] = @ \ {held[t][last]}]
    /\ UNCHANGED waiting

LNext ==
    \E t \in Thread :
        \/ \E l \in Lock : Request(t, l)
        \/ Acquire(t)
        \/ TimeOut(t)
        \/ Release(t)

LSpec == LInit /\ [][LNext]_lvars

-----------------------------------------------------------------------------
(* The detector forgets no lock that is held or waited for.                 *)
HeldIsRegistered ==
    \A t \in Thread :
        /\ \A i \in DOMAIN held[t] : held[t][i] \in threadLocks[t]
        /\ waiting[t] # NoLock => waiting[t] \in threadLocks[t]

(* Every thread acquires its locks in strictly ascending order, and what it *)
(* waits for is above what it holds.                                        *)
AscendingOrder ==
    \A t \in Thread :
        /\ \A i, k \in DOMAIN held[t] :
              i < k => Level[held[t][i].mutex] < Level[held[t][k].mutex]
        /\ waiting[t] # NoLock =>
              \A i \in DOMAIN held[t] :
                  Level[held[t][i].mutex] < Level[waiting[t].mutex]

(* lock_utils.hpp: the order prevents circular wait conditions. In no set   *)
(* of threads does each wait for a lock that one of the set holds.          *)
WaitsFor(t, u) ==
    /\ waiting[t] # NoLock
    /\ \E i \in DOMAIN held[u] : Conflict(held[u][i], waiting[t])

NoCircularWait ==
    \A S \in (SUBSET Thread) \ {{}} : \E t \in S : \A u \in S : ~WaitsFor(t, u)

(* lock_utils.cpp: a DeadlockException says that the thread already holds a *)
(* lock of a higher level.                                                  *)
RefusedLockIsHeld ==
    \A t \in Thread, l \in Lock :
        waiting[t] = NoLock /\ ~Valid(t, l) =>
            \E i \in DOMAIN held[t] : Level[held[t][i].mutex] > Level[l.mutex]
=============================================================================
