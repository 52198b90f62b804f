------------------------------- MODULE QueueFilter -------------------------------
(***************************************************************************)
(* What is left of a queue when the elements to keep are moved, from the    *)
(* front, into a new one: the loops by which the pool drops expired         *)
(* requests and idle sessions. The k-th element kept is the one with k      *)
(* kept positions up to it.                                                 *)
(***************************************************************************)
EXTENDS Naturals, Sequences, FiniteSets

(* The elements of q at the positions of D, in their order.                 *)
Kept(q, D) ==
    [k \in 1..Cardinality(D) |-> q[CHOOSE i \in D : Cardinality({j \in D : j <= i}) = k]]
=============================================================================
