---------------------------- MODULE QueueFilterProofs ----------------------------
(***************************************************************************)
(* What the proofs of several components rest on. What is left of a queue    *)
(* that is filtered: as many elements as are to be kept, in their order; of *)
(* a queue in ascending order from which what is too small is dropped, the  *)
(* end. Induction over the positions of a sequence, and sequences that are  *)
(* put together.                                                           *)
(***************************************************************************)
EXTENDS QueueFilter, SequencesExt, FiniteSetTheorems, SequenceTheorems, NaturalsInduction,
        WellFoundedInduction, TLAPS

(* What is kept of a queue: as many elements as positions, every one of     *)
(* them once, and in the order they had.                                    *)
LEMMA KeptFacts ==
    ASSUME NEW S, NEW q \in Seq(S), NEW D \in SUBSET (DOMAIN q)
    PROVE  /\ Kept(q, D) \in Seq(S)
           /\ Cardinality(D) \in Nat /\ Cardinality(D) <= Len(q)
           /\ Len(Kept(q, D)) = Cardinality(D)
           /\ \E e \in [1..Cardinality(D) -> D] :
                 /\ \A k \in 1..Cardinality(D) : Kept(q, D)[k] = q[e[k]]
                 /\ \A k, m \in 1..Cardinality(D) : k < m => e[k] < e[m]
                 /\ \A i \in D : \E k \in 1..Cardinality(D) : e[k] = i
<1> DEFINE N == Cardinality(D)
           U(i) == {j \in D : j <= i}
           r == [i \in D |-> Cardinality(U(i))]
           e == [k \in 1..N |-> CHOOSE i \in D : Cardinality(U(i)) = k]
<1>1. /\ IsFiniteSet(D) /\ N \in Nat /\ N <= Len(q) /\ D \subseteq Nat
      /\ IsFiniteSet(1..N) /\ Cardinality(1..N) = N
  <2>1. DOMAIN q = 1..Len(q) /\ Len(q) \in Nat
    OBVIOUS
  <2>2. IsFiniteSet(1..Len(q)) /\ Cardinality(1..Len(q)) = Len(q)
    <3> DEFINE n == Len(q)
    <3>1. n \in Nat
      BY <2>1
    <3> HIDE DEF n
    <3>2. IsFiniteSet(1..n) /\ Cardinality(1..n) = n
      BY <3>1, FS_Interval
    <3> QED BY <3>2 DEF n
  <2>3. IsFiniteSet(D) /\ N <= Len(q)
    BY <2>1, <2>2, FS_Subset
  <2>4. N \in Nat
    BY <2>3, FS_CardinalityType
  <2>5. IsFiniteSet(1..N) /\ Cardinality(1..N) = N
    <3> DEFINE n == N
    <3>1. n \in Nat
      BY <2>4
    <3> HIDE DEF n
    <3>2. IsFiniteSet(1..n) /\ Cardinality(1..n) = n
      BY <3>1, FS_Interval
    <3> QED BY <3>2 DEF n
  <2>6. D \subseteq Nat
    BY <2>1
  <2> QED BY <2>3, <2>4, <2>5, <2>6
<1>2. ASSUME NEW i \in D PROVE IsFiniteSet(U(i)) /\ Cardinality(U(i)) \in 1..N
  <2>1. IsFiniteSet(U(i)) /\ Cardinality(U(i)) <= N
    <3>1. U(i) \in SUBSET D
      OBVIOUS
    <3> HIDE DEF U
    <3> QED BY <1>1, <3>1, FS_Subset
  <2>2. Cardinality(U(i)) \in Nat
    BY <2>1, FS_CardinalityType
  <2>3. i \in U(i)
    BY <1>1
  <2>4. Cardinality(U(i)) # 0
    BY <2>1, <2>3, FS_EmptySet
  <2> QED BY <2>1, <2>2, <2>4, <1>1
<1>3. ASSUME NEW i \in D, NEW j \in D, i < j PROVE Cardinality(U(i)) < Cardinality(U(j))
  <2>1. U(i) \subseteq U(j) /\ j \in U(j) /\ j \notin U(i)
    BY <1>1, <1>3
  <2>2. Cardinality(U(i)) <= Cardinality(U(j)) /\ Cardinality(U(j)) # Cardinality(U(i))
    <3> HIDE DEF U
    <3>1. U(i) \in SUBSET U(j) /\ U(i) # U(j) /\ IsFiniteSet(U(j))
      BY <2>1, <1>2
    <3> QED BY <3>1, FS_Subset
  <2> HIDE DEF U, N
  <2> QED BY <2>2, <1>2, <1>1
<1>4. r \in Injection(D, 1..N)
  <2>1. r \in [D -> 1..N]
    BY <1>2
  <2>2. ASSUME NEW i \in D, NEW j \in D, r[i] = r[j] PROVE i = j
    <3> HIDE DEF U
    <3>1. i \in Nat /\ j \in Nat
      BY <1>1
    <3>2. ~(i < j)
      BY <2>2, <1>2, <1>3
    <3>3. ~(j < i)
      BY <2>2, <1>2, <1>3
    <3> QED BY <3>1, <3>2, <3>3
  <2> HIDE DEF r, N
  <2> QED BY <2>1, <2>2 DEF Injection, IsInjective
<1>5. r \in Surjection(D, 1..N)
  <2> HIDE DEF r, N
  <2> QED BY <1>1, <1>4, FS_Injection DEF N
<1>6. ASSUME NEW k \in 1..N PROVE e[k] \in D /\ Cardinality(U(e[k])) = k
  <2> HIDE DEF U
  <2>1. PICK i \in D : r[i] = k
    <3> HIDE DEF r, N
    <3> QED BY <1>5 DEF Surjection
  <2>2. \E i0 \in D : Cardinality(U(i0)) = k
    BY <2>1
  <2> QED BY <2>2
<1>7. Kept(q, D) = [k \in 1..N |-> q[e[k]]]
  BY DEF Kept
<1>8. e \in [1..N -> D]
  BY <1>6
<1>9. \A k \in 1..N : Kept(q, D)[k] = q[e[k]]
  BY <1>7
<1>10. Kept(q, D) \in Seq(S) /\ Len(Kept(q, D)) = N
  <2> HIDE DEF e, N
  <2>1. \A k \in 1..N : q[e[k]] \in S
    BY <1>8
  <2> QED BY <1>1, <1>7, <2>1
<1>11. ASSUME NEW k \in 1..N, NEW m \in 1..N, k < m PROVE e[k] < e[m]
  <2> HIDE DEF e, U, N
  <2>1. e[k] \in Nat /\ e[m] \in Nat /\ e[k] \in D /\ e[m] \in D
    BY <1>8, <1>1
  <2>2. ~(e[m] < e[k])
    BY <2>1, <1>6, <1>3, <1>1, <1>11
  <2>3. e[m] # e[k]
    BY <1>6, <1>11, <1>1
  <2> QED BY <2>1, <2>2, <2>3
<1>12. ASSUME NEW i \in D PROVE \E k \in 1..N : e[k] = i
  <2> DEFINE k == Cardinality(U(i))
  <2>1. k \in 1..N
    BY <1>2
  <2>2. e[k] \in D /\ r[e[k]] = r[i]
    <3> HIDE DEF U
    <3> QED BY <2>1, <1>6
  <2>3. e[k] = i
    <3> HIDE DEF e, r, k, N
    <3> QED BY <2>2, <1>4 DEF Injection, IsInjective
  <2> QED BY <2>1, <2>3
<1> QED
  <2> HIDE DEF e, N
  <2> QED BY <1>1, <1>8, <1>9, <1>10, <1>11, <1>12 DEF N

(* The elements kept are elements of the queue, and distinct if those are.  *)
LEMMA KeptElements ==
    ASSUME NEW S, NEW q \in Seq(S), NEW D \in SUBSET (DOMAIN q), NEW r, r = Kept(q, D)
    PROVE  /\ \A k \in DOMAIN r : \E i \in D : r[k] = q[i]
           /\ (\A i, j \in DOMAIN q : q[i] = q[j] => i = j)
              => \A k, m \in DOMAIN r : r[k] = r[m] => k = m
<1>1. /\ Kept(q, D) \in Seq(S) /\ Len(Kept(q, D)) = Cardinality(D)
      /\ Cardinality(D) \in Nat
  BY KeptFacts
<1>2. PICK e \in [1..Cardinality(D) -> D] :
         /\ \A k \in 1..Cardinality(D) : Kept(q, D)[k] = q[e[k]]
         /\ \A k, m \in 1..Cardinality(D) : k < m => e[k] < e[m]
  BY KeptFacts
<1> DEFINE N == Cardinality(D)
<1>3. /\ r \in Seq(S) /\ Len(r) = N /\ N \in Nat
      /\ e \in [1..N -> D]
      /\ \A k \in 1..N : r[k] = q[e[k]]
      /\ \A k, m \in 1..N : k < m => e[k] < e[m]
  BY <1>1, <1>2
<1> HIDE DEF N
<1>4. \A k \in DOMAIN r : k \in 1..N /\ e[k] \in D /\ r[k] = q[e[k]]
  <2>1. DOMAIN r = 1..N
    BY <1>3
  <2>2. \A k \in 1..N : e[k] \in D
    BY <1>3
  <2> QED BY <1>3, <2>1, <2>2
<1>5. ASSUME \A i, j \in DOMAIN q : q[i] = q[j] => i = j,
             NEW k \in DOMAIN r, NEW m \in DOMAIN r, r[k] = r[m]
      PROVE  k = m
  <2>1. e[k] \in DOMAIN q /\ e[m] \in DOMAIN q /\ q[e[k]] = q[e[m]] /\ k \in 1..N /\ m \in 1..N
    BY <1>4, <1>5
  <2>2. e[k] = e[m] /\ e[k] \in Nat
    BY <1>5, <2>1
  <2>3. ~(k < m) /\ ~(m < k)
    BY <1>3, <2>1, <2>2
  <2> QED BY <1>3, <2>1, <2>3
<1>6. \A k \in DOMAIN r : \E i \in D : r[k] = q[i]
  BY <1>4
<1>7. (\A i, j \in DOMAIN q : q[i] = q[j] => i = j)
      => \A k, m \in DOMAIN r : r[k] = r[m] => k = m
  BY <1>5
<1> QED BY <1>6, <1>7

(* To keep the positions from a on is to cut off what comes before.         *)
LEMMA KeptEnd ==
    ASSUME NEW S, NEW q \in Seq(S), NEW a \in 1..(Len(q) + 1)
    PROVE  Kept(q, a..Len(q)) = SubSeq(q, a, Len(q))
<1> DEFINE n == Len(q)
           D == a..n
           U(i) == {j \in D : j <= i}
<1>1. n \in Nat /\ a \in 1..(n + 1) /\ DOMAIN q = 1..n
  OBVIOUS
<1> HIDE DEF n
<1>2. Cardinality(D) = n - a + 1
  <2>1. a \in Int /\ n \in Int /\ (a > n => a = n + 1)
    BY <1>1
  <2>2. Cardinality(a..n) = IF a > n THEN 0 ELSE n - a + 1
    BY <2>1, FS_Interval
  <2> QED BY <2>1, <2>2
<1>3. ASSUME NEW i \in D PROVE Cardinality(U(i)) = i - a + 1
  <2>1. U(i) = a..i /\ a \in Int /\ i \in Int /\ ~(a > i)
    BY <1>1
  <2> QED BY <2>1, FS_Interval
<1>4. ASSUME NEW k \in 1..(n - a + 1)
      PROVE  (CHOOSE i \in D : Cardinality(U(i)) = k) = a + k - 1
  <2>1. a + k - 1 \in D /\ (a + k - 1) - a + 1 = k
    BY <1>1
  <2>2. \A i \in D : Cardinality(U(i)) = k <=> i = a + k - 1
    BY <1>1, <1>3
  <2> HIDE DEF D, U
  <2> QED BY <2>1, <2>2
<1>5. Kept(q, D) = [k \in 1..(n - a + 1) |-> q[CHOOSE i \in D : Cardinality(U(i)) = k]]
  BY <1>2 DEF Kept
<1>6. Kept(q, D) = [k \in 1..(n - a + 1) |-> q[a + k - 1]]
  <2> HIDE DEF D, U
  <2> QED BY <1>4, <1>5
<1>7. SubSeq(q, a, n) = [k \in 1..(n - a + 1) |-> q[a + k - 1]]
  BY <1>1
<1> QED BY <1>6, <1>7 DEF n

(* Where in the queue each of the elements kept was.                        *)
Origins(q, D, r, e) ==
    /\ \A k \in DOMAIN r : e[k] \in D /\ r[k] = q[e[k]]
    /\ \A i \in D : \E k \in DOMAIN r : e[k] = i

(* Every element kept was at a position to keep, and every such position is*)
(* kept.                                                                   *)
LEMMA KeptOrigins ==
    ASSUME NEW S, NEW q \in Seq(S), NEW D \in SUBSET (DOMAIN q), NEW r, r = Kept(q, D)
    PROVE  r \in Seq(S) /\ \E e : Origins(q, D, r, e)
<1> DEFINE N == Cardinality(D)
<1>1. r \in Seq(S) /\ Len(r) = N /\ N \in Nat
  BY KeptFacts
<1>2. PICK e \in [1..N -> D] :
         /\ \A k \in 1..N : r[k] = q[e[k]]
         /\ \A i \in D : \E k \in 1..N : e[k] = i
  BY KeptFacts
<1>3. DOMAIN r = 1..N
  <2> HIDE DEF N
  <2> QED BY <1>1
<1>4. Origins(q, D, r, e)
  <2> HIDE DEF N
  <2> QED BY <1>2, <1>3 DEF Origins
<1> QED BY <1>1, <1>4

(* Positions to keep have a first one. *)
LEMMA FirstKept ==
    ASSUME NEW S, NEW q \in Seq(S), NEW D \in SUBSET (DOMAIN q), D # {}
    PROVE  \E a \in D : \A i \in D : a <= i
<1> DEFINE N == Cardinality(D)
<1>1. N \in Nat /\ \A i \in D : i \in Nat
  BY KeptFacts
<1>2. PICK e \in [1..N -> D] :
         /\ \A k, m \in 1..N : k < m => e[k] < e[m]
         /\ \A i \in D : \E k \in 1..N : e[k] = i
  BY KeptFacts
<1> HIDE DEF N
<1>3. 1 \in 1..N /\ e[1] \in D
  BY <1>1, <1>2
<1>4. ASSUME NEW i \in D PROVE e[1] <= i
  <2>1. PICK k \in 1..N : e[k] = i
    BY <1>2
  <2>2. k = 1 \/ 1 < k
    BY <1>1
  <2> QED BY <1>1, <1>2, <1>3, <2>1, <2>2
<1> QED BY <1>3, <1>4

(* A queue is in ascending order. *)
Ascends(q) == \A i, j \in DOMAIN q : i <= j => q[i] <= q[j]

(* The positions of what is not too small in a queue in ascending order.    *)
LEMMA LargeAtEnd ==
    ASSUME NEW q \in Seq(Int), Ascends(q), NEW m \in Int
    PROVE  \E a \in 1..(Len(q) + 1) : {i \in DOMAIN q : q[i] >= m} = a..Len(q)
<1> DEFINE n == Len(q)
           D == {i \in DOMAIN q : q[i] >= m}
<1>1. n \in Nat /\ DOMAIN q = 1..n /\ D \in SUBSET (DOMAIN q) /\ \A i \in 1..n : q[i] \in Int
  OBVIOUS
<1>2. CASE D = {}
  <2>1. D = (n + 1)..n /\ n + 1 \in 1..(n + 1)
    BY <1>1, <1>2
  <2> QED BY <2>1
<1>3. CASE D # {}
  <2> HIDE DEF D
  <2>1. PICK a \in D : \A i \in D : a <= i
    BY <1>1, <1>3, FirstKept
  <2>2. a \in 1..n
    BY <1>1, <2>1
  <2>3. ASSUME NEW i \in a..n PROVE i \in D
    <3>1. i \in 1..n /\ a <= i
      BY <1>1, <2>2
    <3>2. q[a] <= q[i] /\ q[a] >= m
      BY <1>1, <2>1, <2>2, <3>1 DEF Ascends, D
    <3> QED BY <1>1, <2>2, <3>1, <3>2 DEF D
  <2>4. D = a..n
    <3>1. \A i \in D : i \in a..n
      BY <1>1, <2>1, <2>2
    <3> QED BY <2>3, <3>1
  <2>5. a \in 1..(n + 1)
    BY <1>1, <2>2
  <2> QED BY <2>4, <2>5 DEF D
<1> QED BY <1>2, <1>3
-----------------------------------------------------------------------------
(* Induction, and sequences put together.                                  *)

(* A set of numbers with 0 that holds the next of each of its own is Nat.    *)
LEMMA SetInduction ==
    ASSUME NEW T \in SUBSET Nat, 0 \in T, \A n \in T : n + 1 \in T
    PROVE  T = Nat
<1> DEFINE R == {p \in Nat \X Nat : p[1] < p[2]}
<1>1. IsWellFoundedOn(OpToRel(<, Nat), Nat)
  BY NatLessThanWellFounded
<1>2. IsWellFoundedOn(R, Nat)
  BY <1>1, SMT DEF OpToRel
<1> SUFFICES ASSUME Nat \ T # {} PROVE FALSE
  OBVIOUS
<1>3. PICK x \in Nat \ T : \A y \in Nat \ T : ~(<<y, x>> \in R)
  <2> HIDE DEF R
  <2> QED BY <1>2, WFMin
<1>4. x # 0
  OBVIOUS
<1>5. x - 1 \in Nat /\ x - 1 < x
  BY <1>4
<1>6. x - 1 \in T
  BY <1>3, <1>5
<1> QED BY <1>5, <1>6

(* The parts of s put together, up to each of them.                         *)
Partial(s, f) == \A i \in 1..Len(s) : f[i] = IF i = 1 THEN s[i] ELSE f[i - 1] \o s[i]

Begins(s, t) ==
    Len(s) \in Nat /\ Len(t) \in Nat /\ Len(s) <= Len(t) /\ \A i \in 1..Len(s) : t[i] = s[i]

(* There is one for every sequence: the library's FlattenSeq chooses it.     *)
LEMMA PartialExists ==
    ASSUME NEW S, NEW s \in Seq(S)
    PROVE  \E f : f = [i \in 1..Len(s) |-> IF i = 1 THEN s[i] ELSE f[i - 1] \o s[i]]
<1> DEFINE Goal(n) == \E f : f = [i \in 1..n |-> IF i = 1 THEN s[i] ELSE f[i - 1] \o s[i]]
           T == {n \in Nat : n <= Len(s) => Goal(n)}
<1>1. 0 \in T
  <2> DEFINE f == [i \in 1..0 |-> s]
  <2>1. \A i : i \notin 1..0
    OBVIOUS
  <2>2. f = [i \in 1..0 |-> IF i = 1 THEN s[i] ELSE f[i - 1] \o s[i]]
    BY <2>1
  <2> HIDE DEF f
  <2>3. Goal(0)
    BY <2>2
  <2> HIDE DEF Goal
  <2> QED BY <2>3
<1>2. ASSUME NEW n \in T PROVE n + 1 \in T
  <2>0. ASSUME n \in Nat, n + 1 <= Len(s) => Goal(n + 1) PROVE n + 1 \in T
    <3> HIDE DEF Goal
    <3> QED BY <2>0
  <2> SUFFICES ASSUME n + 1 <= Len(s) PROVE Goal(n + 1)
    BY <2>0
  <2>1. n \in Nat /\ Len(s) \in Nat /\ n <= Len(s)
    OBVIOUS
  <2>2. PICK f : f = [i \in 1..n |-> IF i = 1 THEN s[i] ELSE f[i - 1] \o s[i]]
    BY <2>1
  <2> DEFINE g == [i \in 1..(n + 1) |-> IF i \in 1..n THEN f[i] ELSE IF i = 1 THEN s[i] ELSE f[i - 1] \o s[i]]
  <2>3. ASSUME NEW i \in 1..(n + 1) PROVE g[i] = IF i = 1 THEN s[i] ELSE g[i - 1] \o s[i]
    <3>1. CASE i \in 1..n
      <4>1. g[i] = f[i] /\ f[i] = IF i = 1 THEN s[i] ELSE f[i - 1] \o s[i]
        BY <2>2, <3>1
      <4>2. i # 1 => i - 1 \in 1..n /\ i - 1 \in 1..(n + 1)
        BY <2>1, <3>1
      <4>3. i # 1 => g[i - 1] = f[i - 1]
        BY <4>2
      <4> QED BY <4>1, <4>3
    <3>2. CASE i = n + 1
      <4>1. i \notin 1..n
        BY <2>1, <3>2
      <4>2. g[i] = IF i = 1 THEN s[i] ELSE f[i - 1] \o s[i]
        BY <4>1
      <4>3. i # 1 => i - 1 \in 1..n /\ i - 1 \in 1..(n + 1)
        BY <2>1, <3>2
      <4>4. i # 1 => g[i - 1] = f[i - 1]
        BY <4>3
      <4> QED BY <4>2, <4>4
    <3> QED BY <2>1, <3>1, <3>2
  <2>4. g = [i \in 1..(n + 1) |-> IF i = 1 THEN s[i] ELSE g[i - 1] \o s[i]]
    <3>1. DOMAIN g = 1..(n + 1) /\ g = [i \in 1..(n + 1) |-> g[i]]
      OBVIOUS
    <3> HIDE DEF g
    <3> QED BY <2>3, <3>1
  <2> QED BY <2>4
<1>3. T = Nat
  <2> HIDE DEF T
  <2>1. T \subseteq Nat
    BY DEF T
  <2> QED BY <1>1, <1>2, <2>1, SetInduction
<1>4. Len(s) \in T /\ Len(s) <= Len(s)
  <2> HIDE DEF T
  <2> QED BY <1>3
<1> QED BY <1>4

(* What FlattenSeq returns is the last of the parts put together.           *)
LEMMA FlattenIs ==
    ASSUME NEW S, NEW s \in Seq(S), s # <<>>
    PROVE  \E f : Partial(s, f) /\ FlattenSeq(s) = f[Len(s)]
<1>1. Len(s) # 0
  OBVIOUS
<1> DEFINE F == CHOOSE f : f = [i \in 1..Len(s) |-> IF i = 1 THEN s[i] ELSE f[i - 1] \o s[i]]
<1>2. F = [i \in 1..Len(s) |-> IF i = 1 THEN s[i] ELSE F[i - 1] \o s[i]]
  <2>1. \E f : f = [i \in 1..Len(s) |-> IF i = 1 THEN s[i] ELSE f[i - 1] \o s[i]]
    BY PartialExists
  <2> QED BY <2>1
<1>3. FlattenSeq(s) = F[Len(s)]
  BY <1>1 DEF FlattenSeq
<1>4. Partial(s, F)
  <2> HIDE DEF F
  <2>1. ASSUME NEW i \in 1..Len(s) PROVE F[i] = IF i = 1 THEN s[i] ELSE F[i - 1] \o s[i]
    BY <1>2
  <2> QED BY <2>1 DEF Partial
<1> HIDE DEF F
<1> QED BY <1>3, <1>4

(* Two of them agree as far as their parts do.                              *)
LEMMA PartialAgree ==
    ASSUME NEW s, NEW t, Begins(s, t), NEW f, Partial(s, f), NEW g, Partial(t, g)
    PROVE  \A i \in 1..Len(s) : g[i] = f[i]
<1>0. Len(s) \in Nat /\ Len(t) \in Nat /\ Len(s) <= Len(t) /\ \A i \in 1..Len(s) : t[i] = s[i]
  BY DEF Begins
<1> DEFINE T == {n \in Nat : n \in 1..Len(s) => g[n] = f[n]}
<1>1. 0 \in T
  OBVIOUS
<1>2. ASSUME NEW n \in T PROVE n + 1 \in T
  <2> SUFFICES ASSUME n + 1 \in 1..Len(s) PROVE g[n + 1] = f[n + 1]
    OBVIOUS
  <2>1. n \in Nat /\ Len(s) \in Nat /\ Len(t) \in Nat /\ n + 1 \in 1..Len(t) /\ s[n + 1] = t[n + 1]
    BY <1>0
  <2>2. /\ f[n + 1] = IF n + 1 = 1 THEN s[n + 1] ELSE f[n + 1 - 1] \o s[n + 1]
        /\ g[n + 1] = IF n + 1 = 1 THEN t[n + 1] ELSE g[n + 1 - 1] \o t[n + 1]
    BY <2>1 DEF Partial
  <2>3. n # 0 => f[n] = g[n]
    BY <2>1
  <2>4. n + 1 - 1 = n /\ (n = 0 <=> n + 1 = 1)
    BY <2>1
  <2> QED BY <2>1, <2>2, <2>3, <2>4
<1>3. T = Nat
  <2> HIDE DEF T
  <2>1. T \subseteq Nat
    BY DEF T
  <2> QED BY <1>1, <1>2, <2>1, SetInduction
<1> QED BY <1>3

(* One part more.                                                          *)
LEMMA FlattenAppend ==
    ASSUME NEW S, NEW s \in Seq(Seq(S)), NEW x \in Seq(S)
    PROVE  FlattenSeq(Append(s, x)) = FlattenSeq(s) \o x
<1> DEFINE Q == Seq(S)
           t == Append(s, x)
<1>1. x \in Q /\ s \in Seq(Q)
  OBVIOUS
<1>2. <<>> \o x = x
  OBVIOUS
<1> HIDE DEF Q
<1>3. t \in Seq(Q) /\ Len(t) = Len(s) + 1 /\ Len(s) \in Nat /\ t[Len(s) + 1] = x /\ t # <<>>
      /\ (\A i \in DOMAIN s : t[i] = s[i]) /\ DOMAIN s = 1..Len(s)
  <2>1. \A i \in 1..Len(s) : t[i] = s[i]
    BY <1>1
  <2>2. t \in Seq(Q) /\ Len(t) = Len(s) + 1 /\ Len(s) \in Nat /\ t[Len(s) + 1] = x /\ t # <<>>
    BY <1>1
  <2>3. DOMAIN s = 1..Len(s)
    BY <1>1
  <2> HIDE DEF t
  <2> QED BY <2>1, <2>2, <2>3
<1> HIDE DEF t
<1>4. PICK g : Partial(t, g) /\ FlattenSeq(t) = g[Len(t)]
  BY <1>3, FlattenIs
<1>5. g[Len(t)] = IF Len(t) = 1 THEN x ELSE g[Len(s)] \o x
  <2>1. Len(t) \in 1..Len(t) /\ Len(t) - 1 = Len(s)
    BY <1>3
  <2> QED BY <1>3, <1>4, <2>1 DEF Partial
<1>6. CASE s = <<>>
  <2>1. FlattenSeq(s) = <<>> /\ Len(t) = 1
    BY <1>3, <1>6 DEF FlattenSeq
  <2> QED BY <1>2, <1>4, <1>5, <2>1 DEF t
<1>7. CASE s # <<>>
  <2>1. PICK f : Partial(s, f) /\ FlattenSeq(s) = f[Len(s)]
    BY <1>1, <1>7, FlattenIs
  <2>2. Len(s) <= Len(t) /\ Len(t) \in Nat /\ Len(s) \in 1..Len(s) /\ Len(t) # 1
    BY <1>1, <1>3, <1>7
  <2>3. g[Len(s)] = f[Len(s)]
    <3>1. Begins(s, t)
      BY <1>3, <2>2 DEF Begins
    <3>2. \A i \in 1..Len(s) : g[i] = f[i]
      BY <1>4, <2>1, <3>1, PartialAgree
    <3> QED BY <1>3, <2>2, <3>2
  <2> QED BY <1>4, <1>5, <2>1, <2>2, <2>3 DEF t
<1> QED BY <1>6, <1>7

(* Parts that are sequences over S put together are one.                    *)
LEMMA PartialType ==
    ASSUME NEW S, NEW s \in Seq(Seq(S)), NEW f, Partial(s, f)
    PROVE  \A i \in 1..Len(s) : f[i] \in Seq(S)
<1> DEFINE T == {n \in Nat : n \in 1..Len(s) => f[n] \in Seq(S)}
<1>1. 0 \in T
  OBVIOUS
<1>2. ASSUME NEW n \in T PROVE n + 1 \in T
  <2> SUFFICES ASSUME n + 1 \in 1..Len(s) PROVE f[n + 1] \in Seq(S)
    OBVIOUS
  <2>1. n \in Nat /\ Len(s) \in Nat /\ s[n + 1] \in Seq(S) /\ (n + 1) - 1 = n /\ (n = 0 <=> n + 1 = 1)
    OBVIOUS
  <2>2. f[n + 1] = IF n + 1 = 1 THEN s[n + 1] ELSE f[(n + 1) - 1] \o s[n + 1]
    BY DEF Partial
  <2>3. n # 0 => n \in 1..Len(s)
    BY <2>1
  <2>4. n # 0 => f[n] \in Seq(S)
    BY <2>3
  <2>5. ASSUME NEW a \in Seq(S), NEW b \in Seq(S) PROVE a \o b \in Seq(S)
    BY ConcatProperties
  <2> HIDE DEF T
  <2>6. CASE n = 0
    BY <2>1, <2>2, <2>6
  <2>7. CASE n # 0
    BY <2>1, <2>2, <2>4, <2>5, <2>7
  <2> QED BY <2>6, <2>7
<1>3. T = Nat
  <2>1. T \subseteq Nat
    OBVIOUS
  <2> HIDE DEF T
  <2> QED BY <1>1, <1>2, <2>1, SetInduction
<1> QED BY <1>3

(* Sequences over S put together are one.                                   *)
LEMMA FlattenType ==
    ASSUME NEW S, NEW s \in Seq(Seq(S))
    PROVE  FlattenSeq(s) \in Seq(S)
<1>1. CASE s = <<>>
  <2>1. FlattenSeq(s) = <<>>
    BY <1>1 DEF FlattenSeq
  <2> QED BY <2>1
<1>2. CASE s # <<>>
  <2> DEFINE Q == Seq(S)
  <2>1. s \in Seq(Q)
    OBVIOUS
  <2> HIDE DEF Q
  <2>2. PICK f : Partial(s, f) /\ FlattenSeq(s) = f[Len(s)]
    BY <1>2, <2>1, FlattenIs
  <2>3. Len(s) \in 1..Len(s)
    BY <1>2, <2>1
  <2>4. \A i \in 1..Len(s) : f[i] \in Seq(S)
    BY <2>2, PartialType
  <2> QED BY <2>2, <2>3, <2>4
<1> QED BY <1>1, <1>2

(* Nothing put together is nothing.                                         *)
LEMMA FlattenNone ==
    ASSUME NEW S, NEW s \in Seq(Seq(S)), \A i \in 1..Len(s) : s[i] = <<>>
    PROVE  FlattenSeq(s) = <<>>
<1>1. CASE s = <<>>
  BY <1>1 DEF FlattenSeq
<1>2. CASE s # <<>>
  <2> DEFINE Q == Seq(S)
  <2>1. s \in Seq(Q)
    OBVIOUS
  <2> HIDE DEF Q
  <2>2. PICK f : Partial(s, f) /\ FlattenSeq(s) = f[Len(s)]
    BY <1>2, <2>1, FlattenIs
  <2>3. Len(s) \in 1..Len(s) /\ Len(s) \in Nat
    BY <1>2, <2>1
  <2> DEFINE T == {n \in Nat : n \in 1..Len(s) => f[n] = <<>>}
  <2>4. 0 \in T
    OBVIOUS
  <2>5. ASSUME NEW n \in T PROVE n + 1 \in T
    <3> SUFFICES ASSUME n + 1 \in 1..Len(s) PROVE f[n + 1] = <<>>
      OBVIOUS
    <3>1. n \in Nat /\ s[n + 1] = <<>> /\ (n + 1) - 1 = n /\ (n = 0 <=> n + 1 = 1)
      OBVIOUS
    <3>2. f[n + 1] = IF n + 1 = 1 THEN s[n + 1] ELSE f[(n + 1) - 1] \o s[n + 1]
      BY <2>2 DEF Partial
    <3>3. n # 0 => f[n] = <<>>
      BY <2>3
    <3>4. <<>> \o <<>> = <<>>
      OBVIOUS
    <3> HIDE DEF T
    <3> QED BY <3>1, <3>2, <3>3, <3>4
  <2>6. T = Nat
    <3>1. T \subseteq Nat
      OBVIOUS
    <3> HIDE DEF T
    <3> QED BY <2>4, <2>5, <3>1, SetInduction
  <2> QED BY <2>2, <2>3, <2>6
<1> QED BY <1>1, <1>2

(* Three sequences put together, one way or the other.                      *)
LEMMA JoinThree ==
    ASSUME NEW S
    PROVE  \A a, b, c \in Seq(S) : (a \o b) \o c = a \o (b \o c)
BY ConcatAssociative

(* The first part, and the rest put together.                               *)
LEMMA FlattenFirst ==
    ASSUME NEW S, NEW s \in Seq(Seq(S)), s # <<>>
    PROVE  FlattenSeq(s) = s[1] \o FlattenSeq(Tail(s))
<1> DEFINE Q == Seq(S)
           t == Tail(s)
<1>1. s \in Seq(Q)
  OBVIOUS
<1> HIDE DEF Q
<1>2. t \in Seq(Q) /\ Len(s) \in Nat /\ Len(s) >= 1 /\ Len(t) = Len(s) - 1
      /\ s[1] \in Q /\ \A i \in 1..Len(t) : t[i] = s[i + 1] /\ t[i] \in Q
  BY <1>1
<1>3. PICK f : Partial(s, f) /\ FlattenSeq(s) = f[Len(s)]
  BY <1>1, FlattenIs
<1>4. f[1] = s[1]
  BY <1>2, <1>3 DEF Partial
<1>5. CASE t = <<>>
  <2>1. Len(s) = 1
    <3>1. \A q : q = <<>> => Len(q) = 0
      OBVIOUS
    <3> HIDE DEF t
    <3>2. Len(t) = 0
      BY <1>5, <3>1
    <3> QED BY <1>2, <3>2
  <2>2. FlattenSeq(t) = <<>>
    BY <1>5 DEF FlattenSeq
  <2>3. s[1] \o <<>> = s[1]
    BY <1>2 DEF Q
  <2> QED BY <1>3, <1>4, <2>1, <2>2, <2>3
<1>6. CASE t # <<>>
  <2>1. PICK g : Partial(t, g) /\ FlattenSeq(t) = g[Len(t)]
    BY <1>2, <1>6, FlattenIs
  <2>2. \A i \in 1..Len(t) : g[i] \in Q
    <3>1. t \in Seq(Seq(S))
      BY <1>2 DEF Q
    <3> HIDE DEF t
    <3>2. \A i \in 1..Len(t) : g[i] \in Seq(S)
      BY <2>1, <3>1, PartialType
    <3> QED BY <3>2 DEF Q
  <2>3. Len(t) \in Nat /\ Len(t) \in 1..Len(t)
    BY <1>2, <1>6
  <2> HIDE DEF t
  <2> DEFINE Goal(n) == f[n + 1] = s[1] \o g[n]
             T == {n \in Nat : n \in 1..Len(t) => Goal(n)}
  <2>4. 0 \in T
    <3> HIDE DEF Goal
    <3> QED OBVIOUS
  <2>5. ASSUME NEW n \in T PROVE n + 1 \in T
    <3> HIDE DEF Goal
    <3> SUFFICES ASSUME n + 1 \in 1..Len(t) PROVE Goal(n + 1)
      OBVIOUS
    <3>0. n \in Nat /\ (n \in 1..Len(t) => Goal(n))
      OBVIOUS
    <3> USE DEF Goal
    <3>1. n \in Nat /\ (n \in 1..Len(t) => f[n + 1] = s[1] \o g[n])
      BY <3>0
    <3> HIDE DEF T
    <3>2. /\ ((n + 1) + 1) - 1 = n + 1 /\ (n + 1) + 1 # 1 /\ (n + 1) + 1 \in 1..Len(s)
          /\ (n + 1) - 1 = n /\ (n = 0 <=> n + 1 = 1) /\ (n # 0 => n \in 1..Len(t))
      BY <1>2, <2>3, <3>1
    <3>3. f[(n + 1) + 1] = f[n + 1] \o t[n + 1]
      BY <1>2, <1>3, <3>2 DEF Partial
    <3>4. g[n + 1] = IF n + 1 = 1 THEN t[n + 1] ELSE g[(n + 1) - 1] \o t[n + 1]
      BY <2>1 DEF Partial
    <3>5. t[n + 1] \in Q
      BY <1>2
    <3>6. CASE n = 0
      BY <1>4, <3>2, <3>3, <3>4, <3>6
    <3>7. CASE n # 0
      <4>1. g[n] \in Q
        BY <2>2, <3>2, <3>7
      <4>2. (s[1] \o g[n]) \o t[n + 1] = s[1] \o (g[n] \o t[n + 1])
        <5>1. \A a, b, c \in Q : (a \o b) \o c = a \o (b \o c)
          BY JoinThree, SMTT(60) DEF Q
        <5>2. s[1] \in Q /\ g[n] \in Q /\ t[n + 1] \in Q
          BY <1>2, <3>5, <4>1, Zenon
        <5> QED BY <5>1, <5>2, Zenon
      <4> QED BY <3>1, <3>2, <3>3, <3>4, <3>7, <4>2
    <3> QED BY <3>6, <3>7
  <2>6. T = Nat
    <3>1. T \subseteq Nat
      OBVIOUS
    <3> HIDE DEF T
    <3> QED BY <2>4, <2>5, <3>1, SetInduction
  <2>7. f[Len(t) + 1] = s[1] \o g[Len(t)]
    BY <2>3, <2>6
  <2>8. Len(t) + 1 = Len(s)
    BY <1>2
  <2> QED BY <1>3, <2>1, <2>7, <2>8 DEF t
<1> QED BY <1>5, <1>6

(* What sequences put together have that each has.                           *)
LEMMA FlattenIn ==
    ASSUME NEW S, NEW G \in SUBSET Seq(S), <<>> \in G, \A a, b \in G : a \o b \in G,
           NEW s \in Seq(G)
    PROVE  FlattenSeq(s) \in G
  <1> DEFINE n == Len(s)
             T == {m \in Nat : m <= n => FlattenSeq(SubSeq(s, 1, m)) \in G}
  <1>1. n \in Nat /\ s \in Seq(Seq(S)) /\ \A i \in 1..n : s[i] \in G
    OBVIOUS
  <1>2. 0 \in T /\ T \in SUBSET Nat
    <2>1. SubSeq(s, 1, 0) = <<>>
      OBVIOUS
    <2>2. FlattenSeq(<<>>) = <<>>
      BY DEF FlattenSeq
    <2> QED BY <2>1, <2>2
  <1>3. ASSUME NEW m \in T PROVE m + 1 \in T
    <2> SUFFICES ASSUME m + 1 <= n PROVE FlattenSeq(SubSeq(s, 1, m + 1)) \in G
      BY <1>2
    <2> DEFINE p == SubSeq(s, 1, m)
    <2>1. m \in Nat /\ m <= n /\ m + 1 \in 1..n
      BY <1>1, <1>2
    <2>2. p \in Seq(Seq(S)) /\ SubSeq(s, 1, m + 1) = Append(p, s[m + 1])
      BY <1>1, <2>1
    <2>3. FlattenSeq(p) \in G /\ s[m + 1] \in G
      BY <1>1, <2>1
    <2> HIDE DEF p, T
    <2>4. FlattenSeq(Append(p, s[m + 1])) = FlattenSeq(p) \o s[m + 1]
      <3>1. s[m + 1] \in Seq(S)
        BY <2>3
      <3> QED BY <2>2, <3>1, FlattenAppend
    <2> QED BY <2>2, <2>3, <2>4
  <1>4. n \in T
    <2> HIDE DEF T
    <2> QED BY <1>1, <1>2, <1>3, SetInduction
  <1>5. SubSeq(s, 1, n) = s
    OBVIOUS
  <1>6. FlattenSeq(SubSeq(s, 1, n)) \in G
    <2> HIDE DEF n
    <2> QED BY <1>1, <1>4
  <1> QED BY <1>5, <1>6

(* A sequence of texts, where each text after the j-th opens with x.         *)
Marked(S, s, j, x) ==
    /\ s \in Seq(Seq(S)) /\ j \in 1..Len(s)
    /\ \A i \in j + 1..Len(s) : s[i] # <<>> /\ s[i][1] = x

(* Put together, it is what stands before the j-th, the j-th and what        *)
(* follows, if anything does from an x on.                                   *)
SplitAt(S, s, j, x) ==
    \E b \in Seq(S) : /\ FlattenSeq(s) = FlattenSeq(SubSeq(s, 1, j - 1)) \o (s[j] \o b)
                      /\ b = <<>> \/ b[1] = x

(* What stands before one of them, and after it.                             *)
LEMMA FlattenAround ==
    \A S, s, j, x : Marked(S, s, j, x) => SplitAt(S, s, j, x)
  <1> SUFFICES ASSUME NEW S, NEW s \in Seq(Seq(S)), NEW j \in 1..Len(s), NEW x,
                      \A i \in j + 1..Len(s) : s[i] # <<>> /\ s[i][1] = x
               PROVE  SplitAt(S, s, j, x)
    BY Zenon DEF Marked
  <1> DEFINE n == Len(s)
             a == FlattenSeq(SubSeq(s, 1, j - 1))
             Around(m) == \E b \in Seq(S) : /\ FlattenSeq(SubSeq(s, 1, m)) = a \o (s[j] \o b)
                                            /\ b = <<>> \/ b[1] = x
             T == {d \in Nat : j + d <= n => Around(j + d)}
  <1>1. n \in Nat /\ j \in 1..n /\ \A i \in 1..n : s[i] \in Seq(S)
    OBVIOUS
  <1>2. ASSUME NEW m \in 0..n - 1
        PROVE  /\ FlattenSeq(SubSeq(s, 1, m)) \in Seq(S)
               /\ FlattenSeq(SubSeq(s, 1, m + 1)) = FlattenSeq(SubSeq(s, 1, m)) \o s[m + 1]
    <2> DEFINE p == SubSeq(s, 1, m)
    <2>1. p \in Seq(Seq(S)) /\ SubSeq(s, 1, m + 1) = Append(p, s[m + 1]) /\ s[m + 1] \in Seq(S)
      BY <1>1
    <2> HIDE DEF p
    <2>2. FlattenSeq(p) \in Seq(S) /\ FlattenSeq(Append(p, s[m + 1])) = FlattenSeq(p) \o s[m + 1]
      BY <2>1, FlattenAppend, FlattenType
    <2> QED BY <2>1, <2>2 DEF p
  <1>3. a \in Seq(S) /\ FlattenSeq(SubSeq(s, 1, j)) = a \o s[j]
    <2>1. j - 1 \in 0..n - 1 /\ (j - 1) + 1 = j
      BY <1>1
    <2> HIDE DEF n
    <2> QED BY <1>2, <2>1
  <1> HIDE DEF a
  <1>4. 0 \in T /\ T \in SUBSET Nat
    <2>1. j + 0 = j
      BY <1>1
    <2>2. s[j] \o <<>> = s[j] /\ <<>> \in Seq(S)
      BY <1>1
    <2>3. Around(j)
      BY <1>3, <2>2
    <2> QED BY <2>1, <2>3
  <1>5. ASSUME NEW d \in T PROVE d + 1 \in T
    <2>0. d \in Nat /\ d + 1 \in Nat
      BY <1>4
    <2> SUFFICES ASSUME j + (d + 1) <= n PROVE Around(j + (d + 1))
      <3> HIDE DEF Around
      <3> QED BY <2>0
    <2> DEFINE m == j + d
    <2>1. m \in 0..n - 1 /\ m + 1 = j + (d + 1) /\ m + 1 \in j + 1..n /\ j + d <= n /\ m + 1 \in 1..n
      BY <1>1, <1>4
    <2>2. Around(m)
      BY <2>1
    <2> HIDE DEF m, n, T
    <2>3. PICK b \in Seq(S) : /\ FlattenSeq(SubSeq(s, 1, m)) = a \o (s[j] \o b)
                              /\ b = <<>> \/ b[1] = x
      BY <2>2
    <2>4. s[m + 1] \in Seq(S) /\ s[m + 1] # <<>> /\ s[m + 1][1] = x
      BY <1>1, <2>1 DEF n
    <2> DEFINE c == b \o s[m + 1]
    <2>5. c \in Seq(S) /\ c[1] = x
      <3> DEFINE u == s[m + 1]
      <3>1. u \in Seq(S) /\ Len(u) >= 1 /\ u[1] = x
        BY <2>4
      <3>2. b \in Seq(S) /\ (b # <<>> => Len(b) >= 1 /\ b[1] = x)
        BY <2>3
      <3> HIDE DEF u
      <3>3. (b \o u) \in Seq(S)
        BY <3>1, <3>2
      <3>4. CASE b = <<>>
        <4>1. b \o u = u
          BY <3>1, <3>4
        <4> QED BY <3>1, <3>3, <4>1 DEF u
      <3>5. CASE b # <<>>
        <4>1. (b \o u)[1] = b[1]
          BY <3>1, <3>2, <3>5
        <4> QED BY <3>2, <3>3, <3>5, <4>1 DEF u
      <3> QED BY <3>4, <3>5
    <2>6. FlattenSeq(SubSeq(s, 1, m + 1)) = (a \o (s[j] \o b)) \o s[m + 1]
      BY <1>2, <2>1, <2>3
    <2>7. (a \o (s[j] \o b)) \o s[m + 1] = a \o (s[j] \o c)
      <3> DEFINE u == s[j]
                 v == s[m + 1]
                 Q == Seq(S)
                 e == u \o b
      <3>1. a \in Q /\ u \in Q /\ v \in Q /\ b \in Q
        BY <1>1, <1>3, <2>4
      <3> HIDE DEF u, v
      <3>2. e \in Q
        BY <3>1
      <3>3. \A p, q, r \in Q : (p \o q) \o r = p \o (q \o r)
        BY JoinThree, SMTT(60)
      <3> HIDE DEF Q
      <3>4. e \o v = u \o (b \o v)
        BY <3>1, <3>3
      <3> HIDE DEF e
      <3>5. (a \o e) \o v = a \o (e \o v)
        BY <3>1, <3>2, <3>3
      <3> QED BY <3>4, <3>5 DEF e, u, v
    <2> HIDE DEF c
    <2>8. Around(m + 1)
      BY <2>5, <2>6, <2>7
    <2> QED BY <2>1, <2>8
  <1>6. n - j \in T
    <2>1. n - j \in Nat
      BY <1>1
    <2> HIDE DEF T, n
    <2> QED BY <2>1, <1>4, <1>5, SetInduction
  <1>7. Around(n)
    <2>1. j + (n - j) = n
      BY <1>1
    <2> HIDE DEF Around
    <2> QED BY <1>1, <1>6, <2>1
  <1>8. SubSeq(s, 1, n) = s
    OBVIOUS
  <1> QED BY <1>7, <1>8 DEF a, SplitAt

(* One sequence and then another: a name that hides how they are joined.     *)
Then(a, b) == a \o b

(* Three sequences, one after the other.                                    *)
LEMMA ThenThree ==
    ASSUME NEW S
    PROVE  \A a, b, c \in Seq(S) : Then(Then(a, b), c) = Then(a, Then(b, c)) /\ Then(a, b) \in Seq(S)
  <1> DEFINE Q == Seq(S)
  <1>1. \A p, q, r \in Q : (p \o q) \o r = p \o (q \o r)
    BY JoinThree, SMTT(60)
  <1>2. \A p, q \in Q : p \o q \in Q
    OBVIOUS
  <1> HIDE DEF Q
  <1>3. \A a, b, c \in Q : Then(Then(a, b), c) = Then(a, Then(b, c)) /\ Then(a, b) \in Q
    BY <1>1, <1>2, Zenon DEF Then
  <1> QED BY <1>3 DEF Q

(* The least one is.                                                        *)
LEMMA MinIs ==
    ASSUME NEW T \in SUBSET Int, NEW x \in T, \A y \in T : x <= y
    PROVE  Min(T) = x
  <1>1. Min(T) \in T /\ \A y \in T : Min(T) =< y
    <2>1. \E z \in T : \A y \in T : z =< y
      OBVIOUS
    <2> QED BY <2>1 DEF Min
  <1> DEFINE m == Min(T)
  <1>2. m \in Int /\ x \in Int /\ m =< x /\ x =< m
    BY <1>1
  <1> HIDE DEF m
  <1>3. m = x
    BY <1>2
  <1> QED BY <1>3 DEF m
=============================================================================
