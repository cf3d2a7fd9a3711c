----------------------- MODULE WorkflowCompilerProofs -----------------------
(***************************************************************************)
(* The compiler is correct for every expression: it accepts exactly the    *)
(* well-formed ones, and its plans implement them.                         *)
(***************************************************************************)
EXTENDS WorkflowCompiler, FiniteSetTheorems, FunctionTheorems, SequenceTheorems, WellFoundedInduction, TLAPS

-----------------------------------------------------------------------------
(* Recursion over positions.                                                *)

LEMMA HasLeast ==
    ASSUME NEW S, S \subseteq Nat, S # {}
    PROVE  \E m \in S : \A k \in S : m <= k
<1> DEFINE R == OpToRel(<, Nat)
<1>1. IsWellFoundedOn(R, Nat)
    BY NatLessThanWellFounded
<1>2. PICK m \in S : \A k \in S : <<k, m>> \notin R
    <2> HIDE DEF R
    <2> QED
        BY <1>1, WFMin
<1>3. \A k \in S : ~(k < m)
    BY <1>2 DEF OpToRel
<1> QED
    BY <1>3

\* G gives the value at a position i from those before it.
FromEarlier(a, n, V, G) ==
    /\ \A i \in a..n, f \in [a..n -> V] : G[<<i, f>>] \in V
    /\ \A i \in a..n, f \in [a..n -> V], g \in [a..n -> V] :
          (\A j \in a..(i - 1) : f[j] = g[j]) => G[<<i, f>>] = G[<<i, g>>]

Defined(a, n, V, G) == \E f \in [a..n -> V] : \A i \in a..n : f[i] = G[<<i, f>>]

\* Then there are such values at all of a..n.
LEMMA Recursion ==
    ASSUME NEW a \in Nat, NEW n \in Nat, NEW V, V # {}, NEW G, FromEarlier(a, n, V, G)
    PROVE  Defined(a, n, V, G)
<1> USE DEF FromEarlier, Defined
<1> DEFINE Upto(m) == \E f \in [a..n -> V] : \A i \in a..n : i < m => f[i] = G[<<i, f>>]
           S == {m \in Nat : m <= n + 1 /\ ~Upto(m)}
<1>1. Upto(0)
    <2>1. PICK v \in V : TRUE
        OBVIOUS
    <2>2. [i \in a..n |-> v] \in [a..n -> V]
        OBVIOUS
    <2>3. \A i \in a..n : ~(i < 0)
        OBVIOUS
    <2> QED
        BY <2>2, <2>3
<1>2. ASSUME NEW m \in Nat, m <= n, Upto(m)
      PROVE  Upto(m + 1)
    <2>1. PICK f \in [a..n -> V] : \A i \in a..n : i < m => f[i] = G[<<i, f>>]
        BY <1>2
    <2>2. CASE m \in a..n
        <3> DEFINE g == [f EXCEPT ![m] = G[<<m, f>>]]
        <3>1. G[<<m, f>>] \in V
            BY <2>2
        <3>2. g \in [a..n -> V]
            BY <3>1
        <3>3. \A i \in a..n : g[i] = IF i = m THEN G[<<m, f>>] ELSE f[i]
            OBVIOUS
        <3> HIDE DEF g
        <3>4. ASSUME NEW i \in a..n, i < m + 1
              PROVE  g[i] = G[<<i, g>>]
            <4>1. \A j \in a..(i - 1) : f[j] = g[j]
                BY <3>3, <3>4
            <4>2. G[<<i, f>>] = G[<<i, g>>]
                BY <3>2, <4>1
            <4>3. CASE i = m
                BY <3>3, <4>2, <4>3
            <4>4. CASE i # m
                BY <2>1, <3>3, <3>4, <4>2, <4>4
            <4> QED
                BY <4>3, <4>4
        <3> QED
            BY <3>2, <3>4
    <2>3. CASE m \notin a..n
        BY <2>1, <2>3
    <2> QED
        BY <2>2, <2>3
<1>3. S = {}
    <2>1. SUFFICES ASSUME S # {} PROVE FALSE
        OBVIOUS
    <2>2. S \subseteq Nat
        OBVIOUS
    <2>3. PICK m \in S : \A k \in S : m <= k
        <3> HIDE DEF S
        <3> QED
            BY <2>1, <2>2, HasLeast
    <2>4. m \in Nat /\ m <= n + 1 /\ ~Upto(m) /\ m # 0
        BY <1>1
    <2> HIDE DEF Upto
    <2>5. m - 1 \in Nat /\ m - 1 <= n /\ m - 1 \notin S
        BY <2>3, <2>4
    <2>6. Upto(m - 1)
        BY <2>5
    <2> QED
        BY <1>2, <2>4, <2>5, <2>6
<1>4. Upto(n + 1)
    <2> HIDE DEF Upto
    <2> QED
        BY <1>3
<1>5. PICK f \in [a..n -> V] : \A i \in a..n : i < n + 1 => f[i] = G[<<i, f>>]
    BY <1>4
<1> QED
    BY <1>5

\* Complete induction over the positions a..n.
LEMMA Positions ==
    ASSUME NEW a \in Nat, NEW n \in Nat, NEW S,
           \A i \in a..n : (\A j \in a..(i - 1) : j \in S) => i \in S
    PROVE  \A i \in a..n : i \in S
<1> DEFINE T == {i \in a..n : i \notin S}
<1>1. SUFFICES ASSUME T # {} PROVE FALSE
    OBVIOUS
<1>2. T \subseteq Nat
    OBVIOUS
<1>3. PICK m \in T : \A k \in T : m <= k
    <2> HIDE DEF T
    <2> QED
        BY <1>1, <1>2, HasLeast
<1>4. \A j \in a..(m - 1) : j \in a..n /\ ~(m <= j)
    BY <1>3
<1>5. \A j \in a..(m - 1) : j \in S
    BY <1>3, <1>4
<1> QED
    BY <1>3, <1>5

-----------------------------------------------------------------------------
(* Sorting.                                                                 *)

\* How many keys are smaller.
Rank(S, k) == Cardinality({l \in S : l < k})

\* The ranks are below the cardinality,
LEMMA RankBound ==
    ASSUME NEW S \in SUBSET Nat, IsFiniteSet(S), NEW k \in S
    PROVE  Rank(S, k) \in Nat /\ Rank(S, k) < Cardinality(S)
<1> DEFINE less == {j \in S : j < k}
<1>1. k \in Nat
    OBVIOUS
<1>2. less \in SUBSET S /\ k \notin less
    BY <1>1
<1>3. Rank(S, k) = Cardinality(less)
    BY DEF Rank
<1> HIDE DEF less
<1>4. Cardinality(S) \in Nat
    BY FS_CardinalityType
<1>5. IsFiniteSet(less) /\ Cardinality(less) <= Cardinality(S) /\ less # S
    BY <1>2, FS_Subset
<1>6. Cardinality(less) \in Nat
    BY <1>5, FS_CardinalityType
<1>7. Cardinality(less) # Cardinality(S)
    BY <1>2, <1>5, FS_Subset
<1> QED
    BY <1>3, <1>4, <1>5, <1>6, <1>7

\* they ascend with the keys,
LEMMA RankAscends ==
    ASSUME NEW S \in SUBSET Nat, IsFiniteSet(S), NEW k \in S, NEW l \in S, k < l
    PROVE  Rank(S, k) < Rank(S, l)
<1> DEFINE lessK == {j \in S : j < k}
           lessL == {j \in S : j < l}
<1>1. k \in Nat /\ l \in Nat /\ \A j \in S : j \in Nat
    OBVIOUS
<1>2. lessK \in SUBSET lessL /\ k \in lessL /\ k \notin lessK /\ lessL \in SUBSET S
    <2>1. \A j \in S : j < k => j < l
        BY <1>1
    <2>2. ~(k < k)
        BY <1>1
    <2> QED
        BY <2>1, <2>2
<1>3. Rank(S, k) = Cardinality(lessK) /\ Rank(S, l) = Cardinality(lessL)
    BY DEF Rank
<1> HIDE DEF lessK, lessL
<1>4. IsFiniteSet(lessL)
    BY <1>2, FS_Subset
<1>5. IsFiniteSet(lessK) /\ Cardinality(lessK) <= Cardinality(lessL) /\ lessK # lessL
    BY <1>2, <1>4, FS_Subset
<1>6. Cardinality(lessK) # Cardinality(lessL)
    BY <1>2, <1>4, <1>5, FS_Subset
<1>7. Cardinality(lessK) \in Nat /\ Cardinality(lessL) \in Nat
    BY <1>4, <1>5, FS_CardinalityType
<1> QED
    BY <1>3, <1>5, <1>6, <1>7

\* no two keys have the same,
LEMMA RankInjective ==
    ASSUME NEW S \in SUBSET Nat, IsFiniteSet(S), NEW k \in S, NEW l \in S, Rank(S, k) = Rank(S, l)
    PROVE  k = l
<1>1. k \in Nat /\ l \in Nat /\ Rank(S, k) \in Nat
    BY RankBound
<1>2. (k < l => Rank(S, k) < Rank(S, l)) /\ (l < k => Rank(S, l) < Rank(S, k))
    BY RankAscends
<1> QED
    BY <1>1, <1>2

\* and none is left out.
LEMMA RankOnto ==
    ASSUME NEW S \in SUBSET Nat, IsFiniteSet(S), NEW i \in 1..Cardinality(S)
    PROVE  \E k \in S : Rank(S, k) = i - 1
<1> DEFINE r == [k \in S |-> Rank(S, k) + 1]
<1>1. PICK n \in Nat : n = Cardinality(S)
    BY FS_CardinalityType
<1>2. \A k \in S : Rank(S, k) \in Nat /\ Rank(S, k) < n
    BY <1>1, RankBound
<1>3. \A k, l \in S : Rank(S, k) = Rank(S, l) => k = l
    BY RankInjective
<1>4. \A k \in S : Rank(S, k) + 1 \in 1..n
    BY <1>2
<1>5. r \in [S -> 1..n]
    BY <1>4
<1>6. \A k \in S : r[k] = Rank(S, k) + 1
    OBVIOUS
<1> HIDE DEF r
<1>7. \A k, l \in S : r[k] = r[l] => k = l
    BY <1>2, <1>3, <1>6
<1>8. r \in Injection(S, 1..n)
    BY <1>5, <1>7, Fun_IsInj
<1>9. IsFiniteSet(1..n) /\ Cardinality(1..n) = Cardinality(S)
    <2>1. IsFiniteSet(1..n) /\ Cardinality(1..n) = IF 1 > n THEN 0 ELSE n - 1 + 1
        BY FS_Interval
    <2>2. (IF 1 > n THEN 0 ELSE n - 1 + 1) = n
        OBVIOUS
    <2> QED
        BY <1>1, <2>1, <2>2
<1>10. r \in Surjection(S, 1..n)
    BY <1>8, <1>9, FS_Injection
<1>11. \A t \in 1..n : \E k \in S : r[k] = t
    BY <1>10, Fun_SurjectionProperties, Zenon
<1>12. PICK k \in S : r[k] = i
    BY <1>1, <1>11
<1> QED
    BY <1>1, <1>2, <1>6, <1>12

\* A sorted sequence has the given keys, each once, in ascending order.
LEMMA SortedKeys ==
    ASSUME NEW S \in SUBSET Nat, IsFiniteSet(S)
    PROVE  /\ Cardinality(S) \in Nat
           /\ Sorted(S) \in Seq(S)
           /\ Len(Sorted(S)) = Cardinality(S)
           /\ \A i \in 1..Len(Sorted(S)) : Rank(S, Sorted(S)[i]) = i - 1
           /\ \A k \in S : \E i \in 1..Len(Sorted(S)) : Sorted(S)[i] = k
           /\ \A i, j \in 1..Len(Sorted(S)) : i < j => Sorted(S)[i] < Sorted(S)[j]
<1> DEFINE s == Sorted(S)
<1>1. PICK n \in Nat : n = Cardinality(S)
    BY FS_CardinalityType
<1>2. s = [i \in 1..n |-> CHOOSE k \in S : Rank(S, k) = i - 1]
    BY <1>1 DEF Sorted, Rank
<1> HIDE DEF s
<1>3. \A i \in 1..n : s[i] \in S /\ Rank(S, s[i]) = i - 1
    <2>1. \A i \in 1..n : \E k \in S : Rank(S, k) = i - 1
        BY <1>1, RankOnto
    <2> QED
        BY <1>2, <2>1
<1>4. s \in [1..n -> S]
    BY <1>2, <1>3
<1>5. s \in Seq(S) /\ Len(s) = n
    BY <1>2, <1>4
<1>6. \A k \in S : \E i \in 1..n : s[i] = k
    <2> SUFFICES ASSUME NEW k \in S
                 PROVE  \E i \in 1..n : s[i] = k
        OBVIOUS
    <2>1. Rank(S, k) \in Nat /\ Rank(S, k) < n
        BY <1>1, RankBound
    <2>2. PICK i \in 1..n : Rank(S, k) = i - 1
        <3>1. Rank(S, k) + 1 \in 1..n /\ Rank(S, k) = (Rank(S, k) + 1) - 1
            BY <2>1
        <3> QED
            BY <3>1
    <2>3. s[i] \in S /\ Rank(S, s[i]) = Rank(S, k)
        BY <1>3, <2>2
    <2>4. \A l \in S : Rank(S, l) = Rank(S, k) => l = k
        BY RankInjective
    <2> QED
        BY <2>3, <2>4
<1>7. \A i, j \in 1..n : i < j => s[i] < s[j]
    <2> SUFFICES ASSUME NEW i \in 1..n, NEW j \in 1..n, i < j
                 PROVE  s[i] < s[j]
        OBVIOUS
    <2>1. s[i] \in S /\ s[j] \in S /\ Rank(S, s[i]) = i - 1 /\ Rank(S, s[j]) = j - 1
        BY <1>3
    <2>2. s[i] \in Nat /\ s[j] \in Nat
        BY <2>1
    <2>3. s[j] < s[i] => Rank(S, s[j]) < Rank(S, s[i])
        BY <2>1, RankAscends
    <2>4. s[i] # s[j]
        BY <2>1
    <2> QED
        BY <2>1, <2>2, <2>3, <2>4
<1> QED
    BY <1>1, <1>3, <1>5, <1>6, <1>7 DEF s

-----------------------------------------------------------------------------
(* The queue of the topological sort.                                       *)

Distinct(q) == \A i, j \in 1..Len(q) : q[i] = q[j] => i = j

\* What has been taken from the queue after t turns.
Taken(q, t) == {q[s] : s \in {s \in 1..Len(q) : s <= t}}

Queued(q, k) == \E i \in 1..Len(q) : q[i] = k

\* Nothing is queued before its dependencies.
DependenciesFirst(deps, q) ==
    \A j \in 1..Len(q) : \A k \in deps[q[j]] : \E i \in 1..Len(q) : i < j /\ q[i] = k

\* Otherwise the order is that in which the last dependencies were queued.
LastFirst(deps, q) ==
    \A i, j, a \in 1..Len(q) : i < j /\ q[a] \in deps[q[i]] =>
        \E b \in 1..Len(q) : a <= b /\ q[b] \in deps[q[j]]

\* Keys with the same last dependency are in ascending order.
TiesSorted(deps, q) ==
    \A i, j \in 1..Len(q) :
        /\ i < j
        /\ \A a \in 1..Len(q) : q[a] \in deps[q[j]] =>
              \E b \in 1..Len(q) : a <= b /\ q[b] \in deps[q[i]]
        => q[i] < q[j]

\* After t turns the queue has exactly the keys without a dependency that has
\* not been taken.
QueueInv(deps, q, t) ==
    /\ q \in Seq(DOMAIN deps)
    /\ Distinct(q)
    /\ \A k \in DOMAIN deps : Queued(q, k) <=> deps[k] \subseteq Taken(q, t)
    /\ DependenciesFirst(deps, q)
    /\ LastFirst(deps, q)
    /\ TiesSorted(deps, q)

Graph(deps) ==
    /\ DOMAIN deps \in SUBSET Nat
    /\ IsFiniteSet(DOMAIN deps)
    /\ deps \in [DOMAIN deps -> SUBSET DOMAIN deps]

LEMMA SortedSubset ==
    ASSUME NEW K \in SUBSET Nat, IsFiniteSet(K), NEW S \in SUBSET K
    PROVE  /\ Sorted(S) \in Seq(K)
           /\ Distinct(Sorted(S))
           /\ \A i, j \in 1..Len(Sorted(S)) : i < j => Sorted(S)[i] < Sorted(S)[j]
           /\ \A k : Queued(Sorted(S), k) <=> k \in S
<1>1. S \in SUBSET Nat /\ IsFiniteSet(S)
    BY FS_Subset
<1> DEFINE s == Sorted(S)
<1>2. /\ s \in Seq(S)
      /\ \A k \in S : \E i \in 1..Len(s) : s[i] = k
      /\ \A i, j \in 1..Len(s) : i < j => s[i] < s[j]
    BY <1>1, SortedKeys
<1> HIDE DEF s
<1>3. Len(s) \in Nat /\ s \in [1..Len(s) -> S]
    BY <1>2
<1>4. \A i, j \in 1..Len(s) : s[i] = s[j] => i = j
    <2> SUFFICES ASSUME NEW i \in 1..Len(s), NEW j \in 1..Len(s), s[i] = s[j]
                 PROVE  i = j
        OBVIOUS
    <2>1. s[i] \in Nat /\ s[j] \in Nat
        BY <1>1, <1>3
    <2>2. ~(i < j) /\ ~(j < i)
        BY <1>2, <2>1
    <2> QED
        BY <1>3, <2>2
<1>5. s \in Seq(K)
    <2>1. s \in [1..Len(s) -> K]
        BY <1>3
    <2> QED
        BY <1>3, <2>1
<1>6. \A k : (\E i \in 1..Len(s) : s[i] = k) <=> k \in S
    BY <1>2, <1>3
<1> QED
    BY <1>2, <1>4, <1>5, <1>6 DEF s, Distinct, Queued

LEMMA QueueStarts ==
    ASSUME NEW deps, Graph(deps)
    PROVE  QueueInv(deps, Sorted({k \in DOMAIN deps : deps[k] = {}}), 0)
<1> DEFINE S == {k \in DOMAIN deps : deps[k] = {}}
           s == Sorted(S)
<1>1. /\ s \in Seq(DOMAIN deps)
      /\ Distinct(s)
      /\ \A i, j \in 1..Len(s) : i < j => s[i] < s[j]
      /\ \A k : Queued(s, k) <=> k \in S
    <2> HIDE DEF S
    <2>1. S \in SUBSET DOMAIN deps
        BY DEF S
    <2> QED
        BY <2>1, SortedSubset DEF Graph
<1> HIDE DEF s
<1>2. Len(s) \in Nat
    BY <1>1
<1>3. Taken(s, 0) = {}
    BY <1>2 DEF Taken
<1>4. \A k \in DOMAIN deps : deps[k] \subseteq {} <=> k \in S
    BY DEF Graph
<1>5. \A i \in 1..Len(s) : deps[s[i]] = {}
    BY <1>1 DEF Queued
<1>6. DependenciesFirst(deps, s) /\ LastFirst(deps, s) /\ TiesSorted(deps, s)
    BY <1>1, <1>5 DEF DependenciesFirst, LastFirst, TiesSorted
<1> HIDE DEF S
<1> QED
    BY <1>1, <1>3, <1>4, <1>6 DEF QueueInv, s, S

LEMMA TurnKeeps ==
    ASSUME NEW deps, Graph(deps), NEW t \in Nat \ {0}, NEW q, QueueInv(deps, q, t - 1)
    PROVE  QueueInv(deps, Turn(deps, q, t), t)
<1> DEFINE K == DOMAIN deps
           F == Freed(deps, q, t)
           r == Sorted(F)
           p == q \o r
<1>1. Len(q) \in Nat /\ q \in [1..Len(q) -> K] /\ q \in Seq(K)
    BY DEF QueueInv
<1>2. CASE t > Len(q)
    <2>1. Taken(q, t) = Taken(q, t - 1)
        <3>1. \A s \in 1..Len(q) : s <= t /\ s <= t - 1
            BY <1>1, <1>2
        <3> QED
            BY <3>1 DEF Taken
    <2>2. Turn(deps, q, t) = q
        BY <1>2 DEF Turn
    <2> QED
        BY <2>1, <2>2 DEF QueueInv
<1>3. CASE t <= Len(q)
    <2>1. t \in 1..Len(q)
        BY <1>1, <1>3
    <2>2. F \in SUBSET K
        BY DEF Freed
    <2>3. /\ r \in Seq(K)
          /\ Distinct(r)
          /\ \A i, j \in 1..Len(r) : i < j => r[i] < r[j]
          /\ \A k : Queued(r, k) <=> k \in F
        <3> HIDE DEF F
        <3> QED
            BY <2>2, SortedSubset DEF Graph
    <2> HIDE DEF r
    <2>4. Len(r) \in Nat /\ r \in [1..Len(r) -> K]
        BY <2>3
    <2>5. p \in Seq(K) /\ Len(p) = Len(q) + Len(r)
        BY <1>1, <2>3
    <2>6. \A i \in 1..Len(q) : p[i] = q[i]
        BY <1>1, <2>3, <2>4
    <2>7. \A i \in 1..Len(r) : p[Len(q) + i] = r[i]
        BY <1>1, <2>3, <2>4
    <2>8. Turn(deps, q, t) = p
        <3>1. ~(t > Len(q))
            BY <1>1, <1>3
        <3>2. Turn(deps, q, t) = Enqueued(deps, q, t)
            BY <3>1 DEF Turn
        <3> QED
            BY <3>2 DEF Enqueued, r
    <2> HIDE DEF p
    <2>9. \A i \in 1..Len(p) : i \in 1..Len(q) \/ (i > Len(q) /\ i - Len(q) \in 1..Len(r))
        BY <1>1, <2>4, <2>5
    <2>10. \A i \in 1..Len(p) : i > Len(q) => p[i] = r[i - Len(q)]
        BY <1>1, <2>4, <2>5, <2>7, <2>9
    <2>11. /\ Taken(q, t) = {q[s] : s \in 1..t}
           /\ Taken(p, t) = Taken(q, t)
        <3>1. \A s \in 1..t : s \in 1..Len(q) /\ s \in 1..Len(p) /\ p[s] = q[s]
            BY <1>1, <1>3, <2>4, <2>5, <2>6
        <3>2. {s \in 1..Len(q) : s <= t} = 1..t
            BY <1>1, <1>3
        <3>3. {s \in 1..Len(p) : s <= t} = 1..t
            BY <1>1, <1>3, <2>4, <2>5
        <3> QED
            BY <3>1, <3>2, <3>3 DEF Taken
    <2>12. Taken(q, t) = Taken(q, t - 1) \cup {q[t]}
        <3>1. {s \in 1..Len(q) : s <= t} = {s \in 1..Len(q) : s <= t - 1} \cup {t}
            BY <1>1, <2>1
        <3> QED
            BY <3>1 DEF Taken
    <2>13. q[t] \notin Taken(q, t - 1)
        <3>1. SUFFICES ASSUME NEW s \in 1..Len(q), s <= t - 1, q[t] = q[s]
                       PROVE  FALSE
            BY DEF Taken
        <3>2. s = t
            BY <2>1, <3>1 DEF QueueInv, Distinct
        <3> QED
            BY <1>1, <2>1, <3>1, <3>2
    <2>14. \A k \in K : k \in F <=> q[t] \in deps[k] /\ deps[k] \subseteq Taken(q, t)
        BY <2>11 DEF Freed
    <2> HIDE DEF F
    <2>15. \A k \in K : Queued(q, k) <=> deps[k] \subseteq Taken(q, t - 1)
        BY DEF QueueInv
    <2>16. \A k \in K : k \in F => ~Queued(q, k)
        BY <2>13, <2>14, <2>15
    <2>17. \A k \in K : Queued(p, k) <=> Queued(q, k) \/ Queued(r, k)
        <3>1. ASSUME NEW k \in K, NEW i \in 1..Len(p), p[i] = k
              PROVE  Queued(q, k) \/ Queued(r, k)
            BY <2>6, <2>9, <2>10, <3>1 DEF Queued
        <3>2. ASSUME NEW k \in K, NEW i \in 1..Len(q), q[i] = k
              PROVE  Queued(p, k)
            <4>1. i \in 1..Len(p)
                BY <1>1, <2>4, <2>5
            <4> QED
                BY <2>6, <3>2, <4>1 DEF Queued
        <3>3. ASSUME NEW k \in K, NEW i \in 1..Len(r), r[i] = k
              PROVE  Queued(p, k)
            <4>1. Len(q) + i \in 1..Len(p)
                BY <1>1, <2>4, <2>5
            <4> QED
                BY <2>7, <3>3, <4>1 DEF Queued
        <3> QED
            BY <3>1, <3>2, <3>3 DEF Queued
    <2>18. \A k \in K : Queued(p, k) <=> deps[k] \subseteq Taken(p, t)
        BY <2>3, <2>11, <2>12, <2>14, <2>15, <2>17
    <2>19. Distinct(p)
        <3>1. ASSUME NEW i \in 1..Len(p), NEW j \in 1..Len(p), p[i] = p[j], i <= Len(q), j > Len(q)
              PROVE  FALSE
            <4>1. i \in 1..Len(q) /\ p[i] = q[i]
                BY <1>1, <2>6, <3>1
            <4>2. j - Len(q) \in 1..Len(r) /\ p[j] = r[j - Len(q)]
                BY <1>1, <2>9, <2>10, <3>1
            <4>3. Queued(q, p[i]) /\ Queued(r, p[i]) /\ p[i] \in K
                BY <1>1, <3>1, <4>1, <4>2 DEF Queued
            <4> QED
                BY <2>3, <2>16, <4>3
        <3>2. ASSUME NEW i \in 1..Len(p), NEW j \in 1..Len(p), p[i] = p[j], i <= Len(q), j <= Len(q)
              PROVE  i = j
            <4>1. i \in 1..Len(q) /\ j \in 1..Len(q)
                BY <1>1, <3>2
            <4> QED
                BY <2>6, <3>2, <4>1 DEF QueueInv, Distinct
        <3>3. ASSUME NEW i \in 1..Len(p), NEW j \in 1..Len(p), p[i] = p[j], i > Len(q), j > Len(q)
              PROVE  i = j
            <4>1. i - Len(q) \in 1..Len(r) /\ j - Len(q) \in 1..Len(r)
                BY <1>1, <2>9, <3>3
            <4>2. i - Len(q) = j - Len(q)
                BY <2>3, <2>10, <3>3, <4>1 DEF Distinct
            <4> QED
                BY <1>1, <4>2
        <3>4. \A i \in 1..Len(p) : i <= Len(q) \/ i > Len(q)
            BY <1>1
        <3> QED
            BY <3>1, <3>2, <3>3, <3>4 DEF Distinct
    <2>20. \A j \in 1..Len(p) : j > Len(q) =>
              q[t] \in deps[p[j]] /\ deps[p[j]] \subseteq Taken(q, t)
        <3>1. SUFFICES ASSUME NEW j \in 1..Len(p), j > Len(q)
                       PROVE  p[j] \in F /\ p[j] \in K
            BY <2>14
        <3>2. j - Len(q) \in 1..Len(r) /\ p[j] = r[j - Len(q)]
            BY <1>1, <2>9, <2>10, <3>1
        <3> QED
            BY <2>2, <2>3, <3>2 DEF Queued
    <2>21. DependenciesFirst(deps, p)
        <3> SUFFICES ASSUME NEW j \in 1..Len(p), NEW k \in deps[p[j]]
                     PROVE  \E i \in 1..Len(p) : i < j /\ p[i] = k
            BY DEF DependenciesFirst
        <3>1. CASE j <= Len(q)
            <4>1. j \in 1..Len(q) /\ p[j] = q[j]
                BY <1>1, <2>6, <3>1
            <4>2. PICK i \in 1..Len(q) : i < j /\ q[i] = k
                BY <4>1 DEF QueueInv, DependenciesFirst
            <4>3. i \in 1..Len(p) /\ p[i] = q[i]
                BY <1>1, <2>4, <2>5, <2>6
            <4> QED
                BY <4>2, <4>3
        <3>2. CASE j > Len(q)
            <4>1. k \in Taken(q, t)
                BY <2>20, <3>2
            <4>2. PICK i \in 1..Len(q) : k = q[i]
                BY <4>1 DEF Taken
            <4>3. i \in 1..Len(p) /\ p[i] = q[i] /\ i < j
                BY <1>1, <2>4, <2>5, <2>6, <3>2
            <4> QED
                BY <4>2, <4>3
        <3> QED
            BY <1>1, <3>1, <3>2
    <2>22. \A i, a \in 1..Len(p) : p[a] \in deps[p[i]] => a <= Len(q) /\ (i > Len(q) => a <= t)
                                                          /\ (i <= Len(q) => a <= t - 1)
        <3> SUFFICES ASSUME NEW i \in 1..Len(p), NEW a \in 1..Len(p), p[a] \in deps[p[i]]
                     PROVE  a <= Len(q) /\ (i > Len(q) => a <= t) /\ (i <= Len(q) => a <= t - 1)
            OBVIOUS
        <3>1. ASSUME NEW s \in 1..Len(q), p[a] = q[s]
              PROVE  a = s
            <4>1. s \in 1..Len(p) /\ p[s] = q[s]
                BY <1>1, <2>4, <2>5, <2>6
            <4> QED
                BY <2>19, <3>1, <4>1 DEF Distinct
        <3>2. CASE i > Len(q)
            <4>1. p[a] \in Taken(q, t)
                BY <2>20, <3>2
            <4>2. PICK s \in 1..Len(q) : s <= t /\ p[a] = q[s]
                BY <4>1 DEF Taken
            <4>3. a = s
                BY <3>1, <4>2
            <4> QED
                BY <1>1, <3>2, <4>2, <4>3
        <3>3. CASE i <= Len(q)
            <4>1. i \in 1..Len(q) /\ p[i] = q[i] /\ q[i] \in K
                BY <1>1, <2>6, <3>3
            <4>2. Queued(q, q[i])
                BY <4>1 DEF Queued
            <4>3. p[a] \in Taken(q, t - 1)
                BY <2>15, <4>1, <4>2
            <4>4. PICK s \in 1..Len(q) : s <= t - 1 /\ p[a] = q[s]
                BY <4>3 DEF Taken
            <4>5. a = s
                BY <3>1, <4>4
            <4> QED
                BY <1>1, <3>3, <4>4, <4>5
        <3> QED
            BY <1>1, <3>2, <3>3
    <2>23. LastFirst(deps, p)
        <3> SUFFICES ASSUME NEW i \in 1..Len(p), NEW j \in 1..Len(p), NEW a \in 1..Len(p),
                            i < j, p[a] \in deps[p[i]]
                     PROVE  \E b \in 1..Len(p) : a <= b /\ p[b] \in deps[p[j]]
            BY DEF LastFirst
        <3>1. a \in 1..Len(q) /\ a <= t
            BY <1>1, <2>1, <2>22
        <3>2. \A b \in 1..Len(q) : b \in 1..Len(p) /\ p[b] = q[b]
            BY <1>1, <2>4, <2>5, <2>6
        <3>3. CASE j <= Len(q)
            <4>1. i \in 1..Len(q) /\ j \in 1..Len(q)
                BY <1>1, <3>3
            <4>2. q[a] \in deps[q[i]]
                BY <3>1, <3>2, <4>1
            <4>3. PICK b \in 1..Len(q) : a <= b /\ q[b] \in deps[q[j]]
                BY <3>1, <4>1, <4>2 DEF QueueInv, LastFirst
            <4> QED
                BY <3>2, <4>1, <4>3
        <3>4. CASE j > Len(q)
            BY <2>1, <2>20, <3>1, <3>2, <3>4
        <3> QED
            BY <1>1, <3>3, <3>4
    <2>24. TiesSorted(deps, p)
        <3> SUFFICES ASSUME NEW i \in 1..Len(p), NEW j \in 1..Len(p), i < j,
                            \A a \in 1..Len(p) : p[a] \in deps[p[j]] =>
                               \E b \in 1..Len(p) : a <= b /\ p[b] \in deps[p[i]]
                     PROVE  p[i] < p[j]
            BY DEF TiesSorted
        <3>1. \A b \in 1..Len(q) : b \in 1..Len(p) /\ p[b] = q[b]
            BY <1>1, <2>4, <2>5, <2>6
        <3>2. CASE j <= Len(q)
            <4>1. i \in 1..Len(q) /\ j \in 1..Len(q)
                BY <1>1, <3>2
            <4>2. ASSUME NEW a \in 1..Len(q), q[a] \in deps[q[j]]
                  PROVE  \E b \in 1..Len(q) : a <= b /\ q[b] \in deps[q[i]]
                <5>1. PICK b \in 1..Len(p) : a <= b /\ p[b] \in deps[p[i]]
                    BY <3>1, <4>1, <4>2
                <5>2. b \in 1..Len(q)
                    BY <1>1, <2>22, <5>1
                <5> QED
                    BY <3>1, <4>1, <5>1, <5>2
            <4>3. q[i] < q[j]
                BY <4>1, <4>2 DEF QueueInv, TiesSorted
            <4> QED
                BY <3>1, <4>1, <4>3
        <3>3. CASE i <= Len(q) /\ j > Len(q)
            <4>1. t \in 1..Len(p) /\ p[t] \in deps[p[j]]
                BY <2>1, <2>20, <3>1, <3>3
            <4>2. PICK b \in 1..Len(p) : t <= b /\ p[b] \in deps[p[i]]
                BY <4>1
            <4>3. b <= t - 1
                BY <2>22, <3>3, <4>2
            <4> QED
                BY <4>2, <4>3
        <3>4. CASE i > Len(q)
            <4>1. i - Len(q) \in 1..Len(r) /\ j - Len(q) \in 1..Len(r) /\ i - Len(q) < j - Len(q)
                BY <1>1, <2>9, <3>4
            <4>2. p[i] = r[i - Len(q)] /\ p[j] = r[j - Len(q)]
                BY <1>1, <2>10, <3>4
            <4> QED
                BY <2>3, <4>1, <4>2
        <3> QED
            BY <1>1, <3>2, <3>3, <3>4
    <2> QED
        BY <2>5, <2>8, <2>18, <2>19, <2>21, <2>23, <2>24 DEF QueueInv
<1> QED
    BY <1>1, <1>2, <1>3

LEMMA TurnType ==
    ASSUME NEW deps, Graph(deps), NEW t \in Nat, NEW q \in Seq(DOMAIN deps)
    PROVE  Turn(deps, q, t) \in Seq(DOMAIN deps)
<1>1. Freed(deps, q, t) \in SUBSET DOMAIN deps
    BY DEF Freed
<1>2. Sorted(Freed(deps, q, t)) \in Seq(DOMAIN deps)
    BY <1>1, SortedSubset DEF Graph
<1>3. q \o Sorted(Freed(deps, q, t)) \in Seq(DOMAIN deps)
    BY <1>2
<1> QED
    BY <1>3, Zenon DEF Turn, Enqueued

LEMMA QueueEquation ==
    ASSUME NEW deps, Graph(deps)
    PROVE  Queue(deps) = [t \in 0..Cardinality(DOMAIN deps) |->
                             IF t = 0 THEN Sorted({k \in DOMAIN deps : deps[k] = {}})
                             ELSE Turn(deps, Queue(deps)[t - 1], t)]
<1> DEFINE K == DOMAIN deps
           n == Cardinality(K)
           V == Seq(K)
           first == Sorted({k \in K : deps[k] = {}})
           G == [x \in (0..n) \X [0..n -> V] |->
                    IF x[1] = 0 THEN first ELSE Turn(deps, x[2][x[1] - 1], x[1])]
<1>1. n \in Nat
    BY FS_CardinalityType DEF Graph
<1>2. first \in V
    BY QueueStarts DEF QueueInv
<1>3. \A i \in 0..n, f \in [0..n -> V] :
         G[<<i, f>>] = IF i = 0 THEN first ELSE Turn(deps, f[i - 1], i)
    OBVIOUS
<1> HIDE DEF n, G, first
<1>4. \A i \in 0..n, f \in [0..n -> V] : G[<<i, f>>] \in V
    <2> SUFFICES ASSUME NEW i \in 0..n, NEW f \in [0..n -> V]
                 PROVE  G[<<i, f>>] \in V
        OBVIOUS
    <2>1. CASE i = 0
        BY <1>2, <1>3, <2>1
    <2>2. CASE i # 0
        <3>1. i \in Nat /\ i - 1 \in 0..n
            BY <1>1, <2>2
        <3>2. f[i - 1] \in V
            BY <3>1
        <3>3. Turn(deps, f[i - 1], i) \in V
            BY <3>1, <3>2, TurnType
        <3> QED
            BY <1>3, <2>2, <3>3
    <2> QED
        BY <2>1, <2>2
<1>5. \A i \in 0..n, f \in [0..n -> V], g \in [0..n -> V] :
         (\A j \in 0..(i - 1) : f[j] = g[j]) => G[<<i, f>>] = G[<<i, g>>]
    <2> SUFFICES ASSUME NEW i \in 0..n, NEW f \in [0..n -> V], NEW g \in [0..n -> V],
                        \A j \in 0..(i - 1) : f[j] = g[j]
                 PROVE  G[<<i, f>>] = G[<<i, g>>]
        OBVIOUS
    <2>1. i # 0 => i - 1 \in 0..(i - 1)
        BY <1>1
    <2>2. i # 0 => f[i - 1] = g[i - 1]
        BY <2>1
    <2> QED
        BY <1>3, <2>2
<1>6. V # {}
    BY <1>2
<1>7. PICK f \in [0..n -> V] : \A i \in 0..n : f[i] = G[<<i, f>>]
    <2> HIDE DEF V
    <2>1. FromEarlier(0, n, V, G)
        BY <1>4, <1>5 DEF FromEarlier
    <2>2. Defined(0, n, V, G)
        BY <1>1, <1>6, <2>1, Recursion
    <2> QED
        BY <2>2 DEF Defined
<1>8. f = [t \in 0..n |-> IF t = 0 THEN first ELSE Turn(deps, f[t - 1], t)]
    <2>1. \A i \in 0..n : f[i] = IF i = 0 THEN first ELSE Turn(deps, f[i - 1], i)
        BY <1>3, <1>7
    <2> QED
        BY <2>1
<1> QED
    BY <1>8 DEF Queue, n, first

LEMMA QueueAlways ==
    ASSUME NEW deps, Graph(deps), NEW t \in 0..Cardinality(DOMAIN deps)
    PROVE  QueueInv(deps, Queue(deps)[t], t)
<1> DEFINE n == Cardinality(DOMAIN deps)
           S == {s \in 0..n : QueueInv(deps, Queue(deps)[s], s)}
<1>1. n \in Nat
    BY FS_CardinalityType DEF Graph
<1>2. Queue(deps)[0] = Sorted({k \in DOMAIN deps : deps[k] = {}})
    BY <1>1, QueueEquation
<1>3. \A s \in 0..n : s # 0 => Queue(deps)[s] = Turn(deps, Queue(deps)[s - 1], s)
    BY QueueEquation
<1> HIDE DEF n
<1>4. 0 \in S
    BY <1>1, <1>2, QueueStarts
<1>5. ASSUME NEW s \in 0..n, \A r \in 0..(s - 1) : r \in S
      PROVE  s \in S
    <2>1. CASE s # 0
        <3>1. s \in Nat \ {0} /\ s - 1 \in 0..(s - 1)
            BY <1>1, <2>1
        <3>2. QueueInv(deps, Queue(deps)[s - 1], s - 1)
            BY <1>5, <3>1
        <3>3. QueueInv(deps, Turn(deps, Queue(deps)[s - 1], s), s)
            BY <3>1, <3>2, TurnKeeps
        <3> QED
            BY <1>3, <2>1, <3>3
    <2> QED
        BY <1>4, <2>1
<1>6. \A s \in 0..n : s \in S
    <2> HIDE DEF S
    <2> QED
        BY <1>1, <1>5, Positions
<1> QED
    BY <1>6 DEF n

\* The order has exactly the keys all of whose dependencies it has, each once
\* and after them.
LEMMA OrderFacts ==
    ASSUME NEW deps, Graph(deps)
    PROVE  LET q == TopologicalOrder(deps)
           IN  /\ q \in Seq(DOMAIN deps)
               /\ Distinct(q)
               /\ Len(q) <= Cardinality(DOMAIN deps)
               /\ \A k \in DOMAIN deps : Queued(q, k) <=> \A l \in deps[k] : Queued(q, l)
               /\ DependenciesFirst(deps, q)
               /\ LastFirst(deps, q)
               /\ TiesSorted(deps, q)
<1> DEFINE q == TopologicalOrder(deps)
           K == DOMAIN deps
<1>1. PICK n \in Nat : n = Cardinality(K)
    BY FS_CardinalityType DEF Graph
<1>2. QueueInv(deps, q, n)
    BY <1>1, QueueAlways DEF TopologicalOrder
<1> HIDE DEF q
<1>3. Len(q) \in Nat /\ q \in [1..Len(q) -> K]
    BY <1>2 DEF QueueInv
<1>4. Len(q) <= n
    <2>1. q \in Injection(1..Len(q), K)
        BY <1>2, <1>3, Fun_IsInj DEF QueueInv, Distinct
    <2>2. Cardinality(1..Len(q)) <= n
        BY <1>1, <2>1, FS_Injection DEF Graph
    <2>3. Cardinality(1..Len(q)) = IF 1 > Len(q) THEN 0 ELSE Len(q) - 1 + 1
        BY <1>3, FS_Interval
    <2>4. Cardinality(1..Len(q)) = Len(q)
        BY <1>3, <2>3
    <2> QED
        BY <2>2, <2>4
<1>5. \A s \in 1..Len(q) : s <= n
    BY <1>3, <1>4
<1>6. \A k : k \in Taken(q, n) <=> Queued(q, k)
    BY <1>5 DEF Taken, Queued
<1>7. \A k \in K : Queued(q, k) <=> \A l \in deps[k] : Queued(q, l)
    BY <1>2, <1>6 DEF QueueInv
<1> QED
    BY <1>1, <1>2, <1>4, <1>7 DEF QueueInv, q

\* It is as long as there are keys when it has them all.
LEMMA OrderLength ==
    ASSUME NEW deps, Graph(deps)
    PROVE  Len(TopologicalOrder(deps)) = Cardinality(DOMAIN deps)
              <=> \A k \in DOMAIN deps : Queued(TopologicalOrder(deps), k)
<1> DEFINE q == TopologicalOrder(deps)
           K == DOMAIN deps
<1>1. q \in Seq(K) /\ Distinct(q)
    BY OrderFacts
<1> HIDE DEF q
<1>2. Len(q) \in Nat /\ q \in [1..Len(q) -> K]
    BY <1>1
<1>3. q \in Injection(1..Len(q), K)
    BY <1>1, <1>2, Fun_IsInj DEF Distinct
<1>4. Cardinality(1..Len(q)) = Len(q)
    <2>1. Cardinality(1..Len(q)) = IF 1 > Len(q) THEN 0 ELSE Len(q) - 1 + 1
        BY <1>2, FS_Interval
    <2> QED
        BY <1>2, <2>1
<1>5. Len(q) = Cardinality(K) <=> q \in Surjection(1..Len(q), K)
    BY <1>3, <1>4, FS_Injection DEF Graph
<1>6. q \in Surjection(1..Len(q), K) <=> \A k \in K : \E i \in 1..Len(q) : q[i] = k
    <2>1. ASSUME q \in Surjection(1..Len(q), K)
          PROVE  \A k \in K : \E i \in 1..Len(q) : q[i] = k
        BY <2>1 DEF Surjection
    <2>2. ASSUME \A k \in K : \E i \in 1..Len(q) : q[i] = k
          PROVE  q \in Surjection(1..Len(q), K)
        BY <1>2, <2>2, Fun_IsSurj
    <2> QED
        BY <2>1, <2>2
<1> QED
    BY <1>5, <1>6 DEF q, Queued

\* Nothing is left out when there is no cycle: of any keys one that waits for
\* none of them.
Acyclic(deps) ==
    \A C \in SUBSET DOMAIN deps : C # {} => \E k \in C : deps[k] \cap C = {}

LEMMA OrderComplete ==
    ASSUME NEW deps, Graph(deps)
    PROVE  Len(TopologicalOrder(deps)) = Cardinality(DOMAIN deps) <=> Acyclic(deps)
<1> DEFINE q == TopologicalOrder(deps)
           K == DOMAIN deps
<1>1. /\ q \in Seq(K)
      /\ \A k \in K : Queued(q, k) <=> \A l \in deps[k] : Queued(q, l)
      /\ DependenciesFirst(deps, q)
      /\ Distinct(q)
    BY OrderFacts
<1>2. Len(q) = Cardinality(K) <=> \A k \in K : Queued(q, k)
    BY OrderLength
<1> HIDE DEF q
<1>3. Len(q) \in Nat /\ q \in [1..Len(q) -> K]
    BY <1>1
<1>4. ASSUME \A k \in K : Queued(q, k)
      PROVE  Acyclic(deps)
    <2> SUFFICES ASSUME NEW C \in SUBSET K, C # {}
                 PROVE  \E k \in C : deps[k] \cap C = {}
        BY DEF Acyclic
    <2> DEFINE S == {i \in 1..Len(q) : q[i] \in C}
    <2>1. S # {} /\ S \subseteq Nat
        BY <1>3, <1>4 DEF Queued
    <2>2. PICK m \in S : \A i \in S : m <= i
        <3> HIDE DEF S
        <3> QED
            BY <2>1, HasLeast
    <2>3. m \in 1..Len(q) /\ q[m] \in C
        BY <2>2
    <2>4. ASSUME NEW l \in deps[q[m]], l \in C
          PROVE  FALSE
        <3>1. PICK i \in 1..Len(q) : i < m /\ q[i] = l
            BY <1>1, <2>3 DEF DependenciesFirst
        <3> QED
            BY <1>3, <2>2, <2>3, <2>4, <3>1
    <2> QED
        BY <2>3, <2>4
<1>5. ASSUME Acyclic(deps)
      PROVE  \A k \in K : Queued(q, k)
    <2> DEFINE C == {k \in K : ~Queued(q, k)}
    <2>1. SUFFICES ASSUME C # {} PROVE FALSE
        OBVIOUS
    <2>2. PICK k \in C : deps[k] \cap C = {}
        BY <1>5, <2>1 DEF Acyclic
    <2>3. \A l \in deps[k] : l \in K
        BY <2>2 DEF Graph
    <2>4. \A l \in deps[k] : Queued(q, l)
        BY <2>2, <2>3
    <2> QED
        BY <1>1, <2>2, <2>4
<1> QED
    BY <1>2, <1>4, <1>5 DEF q

-----------------------------------------------------------------------------
(* Objects, what they are compiled to and what they mean.                   *)

Objects ==
    [op : {"task"}, key : Nat, deps : SUBSET Nat]
        \cup [op : {"expansion"}, prefix : Nat, items : Nat, size : Nat]
        \cup [op : {"chain", "group", "chord"}, parts : Seq(Nat)]

\* A leaf has at least one key, a compound at least one part, all before it.
LEMMA ObjectFacts ==
    ASSUME NEW e, IsExpression(e), ~Raises(e), NEW i \in 1..Len(e)
    PROVE  /\ Len(e) \in Nat
           /\ IsLeaf(e[i]) =>
                 /\ LeafKeys(e[i]) \in SUBSET Nat
                 /\ LeafKeys(e[i]) # {}
                 /\ IsFiniteSet(LeafKeys(e[i]))
                 /\ LeafDeps(e[i]) \in SUBSET Nat
           /\ ~IsLeaf(e[i]) =>
                 /\ Len(e[i].parts) \in Nat \ {0}
                 /\ DOMAIN e[i].parts = 1..Len(e[i].parts)
                 /\ \A q \in 1..Len(e[i].parts) : e[i].parts[q] \in 1..(i - 1)
<1> DEFINE x == e[i]
<1>1. e \in Seq(Objects)
    BY DEF IsExpression, Objects
<1>2. Len(e) \in Nat /\ DOMAIN e = 1..Len(e) /\ x \in Objects
    BY <1>1
<1>3. x.op = "expansion" => x.size # 0 /\ x.items # 0
    BY <1>2 DEF Raises
<1>4. ~IsLeaf(x) => x.parts # <<>> /\ \A q \in DOMAIN x.parts : x.parts[q] \in 1..(i - 1)
    BY <1>2 DEF Raises, IsExpression
<1> HIDE DEF x
<1>5. CASE x.op = "task"
    <2>1. x.key \in Nat /\ x.deps \in SUBSET Nat
        BY <1>2, <1>5 DEF Objects
    <2>2. LeafKeys(x) = {x.key} /\ LeafDeps(x) = x.deps /\ IsLeaf(x)
        BY <1>5 DEF LeafKeys, LeafDeps, IsLeaf
    <2> QED
        BY <1>2, <2>1, <2>2, FS_Singleton DEF x
<1>6. CASE x.op = "expansion"
    <2>1. x.prefix \in Nat /\ x.items \in Nat \ {0} /\ x.size \in Nat \ {0}
        BY <1>2, <1>3, <1>6 DEF Objects
    <2>2. PICK n \in Nat : n = NodeTotal(x) /\ n # 0
        <3>1. NodeTotal(x) \in Nat /\ NodeTotal(x) >= 1
            <4> DEFINE a == x.items + x.size - 1
                       b == x.size
            <4>1. a \in Nat /\ b \in Nat \ {0} /\ a >= b
                BY <2>1
            <4> HIDE DEF a, b
            <4>2. a \div b \in Nat
                BY <4>1
            <4>3. a \div b >= 1
                BY <4>1
            <4> QED
                BY <4>2, <4>3 DEF NodeTotal, a, b
        <3> QED
            BY <3>1
    <2>3. LeafKeys(x) = {x.prefix + j : j \in 0..(n - 1)} /\ LeafDeps(x) = {} /\ IsLeaf(x)
        BY <1>6, <2>2 DEF LeafKeys, LeafDeps, IsLeaf
    <2>4. x.prefix + 0 \in LeafKeys(x) /\ LeafKeys(x) \in SUBSET Nat
        BY <2>1, <2>2, <2>3
    <2>5. \A k \in LeafKeys(x) : k <= x.prefix + n
        BY <2>1, <2>2, <2>3
    <2>6. IsFiniteSet(LeafKeys(x))
        <3>1. x.prefix + n \in Nat
            BY <2>1, <2>2
        <3> QED
            BY <2>4, <2>5, <3>1, FS_BoundedSetOfNaturals
    <2> QED
        BY <1>2, <2>3, <2>4, <2>6 DEF x
<1>7. CASE x.op \notin {"task", "expansion"}
    <2>1. ~IsLeaf(x) /\ x.parts \in Seq(Nat)
        BY <1>2, <1>7 DEF Objects, IsLeaf
    <2>2. Len(x.parts) \in Nat /\ DOMAIN x.parts = 1..Len(x.parts)
        BY <2>1
    <2>3. Len(x.parts) # 0
        BY <1>4, <2>1
    <2> QED
        BY <1>2, <1>4, <2>1, <2>2, <2>3 DEF x
<1> QED
    BY <1>5, <1>6, <1>7

CompiledNodes == [at : Seq(Nat), key : Nat, deps : SUBSET Nat]

Compilations == [nodes : SUBSET CompiledNodes, roots : SUBSET Nat, leaves : SUBSET Nat]

AllMeanings == [places : SUBSET (Seq(Nat) \X Nat), waits : SUBSET (Nat \X Nat)]

\* A place in the q-th part.
Under(q, at) == <<q>> \o at

\* The parts of a compound with what has been linked to them.
Linked(cs, W, q, x) ==
    Node(Under(q, x.at), x.key, IF x.key \in cs[q].roots THEN x.deps \cup W[q] ELSE x.deps)

Together(cs, W) == UNION {{Linked(cs, W, q, x) : x \in cs[q].nodes} : q \in DOMAIN cs}

NoLinks(cs) == [q \in DOMAIN cs |-> {}]

ChainLinks(cs) == [q \in DOMAIN cs |-> Previous(cs, q)]

LEMMA CompoundNodes ==
    ASSUME NEW cs
    PROVE  /\ Beside(cs).nodes = Together(cs, NoLinks(cs))
           /\ InTurn(cs).nodes = Together(cs, ChainLinks(cs))
<1>1. \A q \in DOMAIN cs : Part(cs, q, {}) = {Linked(cs, NoLinks(cs), q, x) : x \in cs[q].nodes}
    BY DEF Part, Linked, Under, NoLinks
<1>2. \A q \in DOMAIN cs : Part(cs, q, Previous(cs, q))
                              = {Linked(cs, ChainLinks(cs), q, x) : x \in cs[q].nodes}
    BY DEF Part, Linked, Under, ChainLinks
<1>3. Beside(cs).nodes = UNION {Part(cs, q, {}) : q \in DOMAIN cs}
    BY DEF Beside
<1>4. InTurn(cs).nodes = UNION {Part(cs, q, Previous(cs, q)) : q \in DOMAIN cs}
    BY DEF InTurn
<1> QED
    BY <1>1, <1>2, <1>3, <1>4 DEF Together

LEMMA TogetherType ==
    ASSUME NEW n \in Nat, NEW cs \in [1..n -> Compilations], NEW W \in [1..n -> SUBSET Nat]
    PROVE  Together(cs, W) \in SUBSET CompiledNodes
<1>1. SUFFICES ASSUME NEW q \in 1..n, NEW x \in cs[q].nodes
               PROVE  Linked(cs, W, q, x) \in CompiledNodes
    BY DEF Together
<1>2. x \in CompiledNodes /\ W[q] \in SUBSET Nat
    BY DEF Compilations
<1>3. x.at \in Seq(Nat) /\ x.key \in Nat /\ x.deps \in SUBSET Nat
    BY <1>2 DEF CompiledNodes
<1>4. Under(q, x.at) \in Seq(Nat)
    BY <1>3 DEF Under
<1> QED
    BY <1>2, <1>3, <1>4 DEF Linked, Node, CompiledNodes

LEMMA CompoundTypes ==
    ASSUME NEW n \in Nat \ {0}, NEW cs \in [1..n -> Compilations]
    PROVE  /\ Len(cs) = n
           /\ NoLinks(cs) \in [1..n -> SUBSET Nat]
           /\ ChainLinks(cs) \in [1..n -> SUBSET Nat]
           /\ Beside(cs) \in Compilations
           /\ InTurn(cs) \in Compilations
<1>1. Len(cs) = n /\ DOMAIN cs = 1..n /\ 1 \in 1..n /\ n \in 1..n
    BY DEF Compilations
<1>2. \A q \in 1..n : cs[q].roots \in SUBSET Nat /\ cs[q].leaves \in SUBSET Nat
    BY DEF Compilations
<1>3. NoLinks(cs) \in [1..n -> SUBSET Nat]
    BY <1>1 DEF NoLinks
<1>4. ChainLinks(cs) \in [1..n -> SUBSET Nat]
    <2>1. \A q \in 1..n : q # 1 => q - 1 \in 1..n
        OBVIOUS
    <2>2. \A q \in 1..n : Previous(cs, q) \in SUBSET Nat
        BY <1>2, <2>1 DEF Previous
    <2> QED
        BY <1>1, <2>2 DEF ChainLinks
<1>5. Together(cs, NoLinks(cs)) \in SUBSET CompiledNodes
    BY <1>3, TogetherType
<1>6. Together(cs, ChainLinks(cs)) \in SUBSET CompiledNodes
    BY <1>4, TogetherType
<1>7. Beside(cs).nodes \in SUBSET CompiledNodes /\ InTurn(cs).nodes \in SUBSET CompiledNodes
    BY <1>5, <1>6, CompoundNodes
<1>8. Beside(cs) \in Compilations
    <2>1. UNION {cs[q].roots : q \in DOMAIN cs} \in SUBSET Nat
        BY <1>1, <1>2
    <2>2. UNION {cs[q].leaves : q \in DOMAIN cs} \in SUBSET Nat
        BY <1>1, <1>2
    <2> QED
        BY <1>7, <2>1, <2>2 DEF Beside, Compilations
<1>9. InTurn(cs) \in Compilations
    <2>1. cs[1].roots \in SUBSET Nat /\ cs[Len(cs)].leaves \in SUBSET Nat
        BY <1>1, <1>2
    <2> QED
        BY <1>7, <2>1 DEF InTurn, Compilations
<1> QED
    BY <1>1, <1>3, <1>4, <1>8, <1>9

\* The parts of a compound, when all objects have been compiled or given a
\* meaning.
PartsOf(x, c) == [q \in DOMAIN x.parts |-> c[x.parts[q]]]

LEMMA PartsFacts ==
    ASSUME NEW e, IsExpression(e), ~Raises(e), NEW i \in 1..Len(e), ~IsLeaf(e[i]),
           NEW V, NEW c, c \in [1..Len(e) -> V]
    PROVE  /\ Len(e[i].parts) \in Nat \ {0}
           /\ PartsOf(e[i], c) \in [1..Len(e[i].parts) -> V]
           /\ \A q \in 1..Len(e[i].parts) : /\ e[i].parts[q] \in 1..(i - 1)
                                            /\ PartsOf(e[i], c)[q] = c[e[i].parts[q]]
<1>1. PICK n \in Nat \ {0} : /\ n = Len(e[i].parts)
                             /\ DOMAIN e[i].parts = 1..n
                             /\ \A q \in 1..n : e[i].parts[q] \in 1..(i - 1)
    BY ObjectFacts
<1>2. \A q \in 1..n : e[i].parts[q] \in 1..Len(e)
    BY <1>1, ObjectFacts
<1>3. PartsOf(e[i], c) \in [1..n -> V]
    BY <1>1, <1>2 DEF PartsOf
<1>4. \A q \in 1..n : PartsOf(e[i], c)[q] = c[e[i].parts[q]]
    BY <1>1 DEF PartsOf
<1> QED
    BY <1>1, <1>3, <1>4

\* Compounds only depend on what is before them.
LEMMA PartsEarlier ==
    ASSUME NEW e, IsExpression(e), ~Raises(e), NEW i \in 1..Len(e), ~IsLeaf(e[i]),
           NEW f, NEW g, \A j \in 1..(i - 1) : f[j] = g[j]
    PROVE  PartsOf(e[i], f) = PartsOf(e[i], g)
<1>1. \A q \in DOMAIN e[i].parts : e[i].parts[q] \in 1..(i - 1)
    BY ObjectFacts
<1>2. \A q \in DOMAIN e[i].parts : f[e[i].parts[q]] = g[e[i].parts[q]]
    BY <1>1
<1> QED
    BY <1>2 DEF PartsOf

LEMMA CompileObjectCases ==
    ASSUME NEW x, NEW c
    PROVE  CompileObject(x, c) =
              IF IsLeaf(x) THEN CompiledLeaf(x)
              ELSE IF x.op = "group" THEN Beside(PartsOf(x, c)) ELSE InTurn(PartsOf(x, c))
BY DEF CompileObject, PartsOf

LEMMA CompileObjectType ==
    ASSUME NEW e, IsExpression(e), ~Raises(e), NEW i \in 1..Len(e),
           NEW c \in [1..Len(e) -> Compilations]
    PROVE  CompileObject(e[i], c) \in Compilations
<1>1. CASE IsLeaf(e[i])
    <2>1. LeafKeys(e[i]) \in SUBSET Nat /\ LeafDeps(e[i]) \in SUBSET Nat
        BY <1>1, ObjectFacts
    <2>2. <<>> \in Seq(Nat)
        OBVIOUS
    <2>3. {Node(<<>>, k, LeafDeps(e[i])) : k \in LeafKeys(e[i])} \in SUBSET CompiledNodes
        <3>1. \A at \in Seq(Nat), k \in Nat, d \in SUBSET Nat : Node(at, k, d) \in CompiledNodes
            BY DEF CompiledNodes, Node
        <3>2. \A k \in LeafKeys(e[i]) : Node(<<>>, k, LeafDeps(e[i])) \in CompiledNodes
            BY <2>1, <2>2, <3>1
        <3> QED
            BY <3>2
    <2>4. CompiledLeaf(e[i]) \in Compilations
        BY <2>1, <2>3 DEF CompiledLeaf, Compilations
    <2> QED
        BY <1>1, <2>4, CompileObjectCases
<1>2. CASE ~IsLeaf(e[i])
    <2>1. PICK n \in Nat \ {0} : PartsOf(e[i], c) \in [1..n -> Compilations]
        BY <1>2, PartsFacts
    <2>2. Beside(PartsOf(e[i], c)) \in Compilations /\ InTurn(PartsOf(e[i], c)) \in Compilations
        BY <2>1, CompoundTypes
    <2> QED
        BY <1>2, <2>2, CompileObjectCases
<1> QED
    BY <1>1, <1>2

\* _compile_expr is what its definition says, at every object.
LEMMA CompiledEquation ==
    ASSUME NEW e, IsExpression(e), ~Raises(e)
    PROVE  /\ Compiled(e) \in [1..Len(e) -> Compilations]
           /\ \A i \in 1..Len(e) : Compiled(e)[i] = CompileObject(e[i], Compiled(e))
<1> DEFINE G == [x \in (1..Len(e)) \X [1..Len(e) -> Compilations] |-> CompileObject(e[x[1]], x[2])]
<1>1. PICK n \in Nat : n = Len(e) /\ DOMAIN e = 1..n
    BY DEF IsExpression
<1>2. \A i \in 1..n, f \in [1..n -> Compilations] : G[<<i, f>>] = CompileObject(e[i], f)
    BY <1>1
<1> HIDE DEF G
<1>3. \A i \in 1..n, f \in [1..n -> Compilations] : G[<<i, f>>] \in Compilations
    <2>1. \A i \in 1..n, f \in [1..n -> Compilations] : CompileObject(e[i], f) \in Compilations
        BY <1>1, CompileObjectType
    <2> QED
        BY <1>2, <2>1
<1>4. \A i \in 1..n, f \in [1..n -> Compilations], g \in [1..n -> Compilations] :
         (\A j \in 1..(i - 1) : f[j] = g[j]) => G[<<i, f>>] = G[<<i, g>>]
    <2> SUFFICES ASSUME NEW i \in 1..n, NEW f \in [1..n -> Compilations],
                        NEW g \in [1..n -> Compilations], \A j \in 1..(i - 1) : f[j] = g[j]
                 PROVE  G[<<i, f>>] = G[<<i, g>>]
        OBVIOUS
    <2>1. ~IsLeaf(e[i]) => PartsOf(e[i], f) = PartsOf(e[i], g)
        BY <1>1, PartsEarlier
    <2>2. CompileObject(e[i], f) = CompileObject(e[i], g)
        BY <2>1, CompileObjectCases
    <2> QED
        BY <1>2, <2>2
<1>5. Compilations # {}
    <2>1. [nodes |-> {}, roots |-> {}, leaves |-> {}] \in Compilations
        BY DEF Compilations
    <2> QED
        BY <2>1
<1>6. FromEarlier(1, n, Compilations, G)
    BY <1>3, <1>4 DEF FromEarlier
<1>7. Defined(1, n, Compilations, G)
    BY <1>5, <1>6, Recursion
<1>8. PICK f \in [1..n -> Compilations] : \A i \in 1..n : f[i] = G[<<i, f>>]
    BY <1>7 DEF Defined
<1>9. f = [i \in DOMAIN e |-> CompileObject(e[i], f)]
    <2>1. \A i \in 1..n : f[i] = CompileObject(e[i], f)
        BY <1>2, <1>8
    <2> QED
        BY <1>1, <2>1
<1>10. Compiled(e) = [i \in DOMAIN e |-> CompileObject(e[i], Compiled(e))]
    BY <1>9 DEF Compiled
<1>11. \A i \in 1..n : Compiled(e)[i] = CompileObject(e[i], Compiled(e))
    BY <1>1, <1>10
<1> DEFINE S == {i \in 1..n : Compiled(e)[i] \in Compilations}
<1>12. ASSUME NEW i \in 1..n, \A j \in 1..(i - 1) : j \in S
       PROVE  i \in S
    <2> DEFINE g == [j \in 1..n |-> IF j < i THEN Compiled(e)[j] ELSE f[j]]
    <2>1. g \in [1..n -> Compilations]
        <3>1. \A j \in 1..n : j < i => j \in 1..(i - 1)
            BY <1>12
        <3> QED
            BY <1>8, <1>12, <3>1
    <2>2. \A j \in 1..(i - 1) : Compiled(e)[j] = g[j]
        BY <1>12
    <2> HIDE DEF g
    <2>3. CompileObject(e[i], g) \in Compilations
        BY <1>1, <2>1, CompileObjectType
    <2>4. ~IsLeaf(e[i]) => PartsOf(e[i], Compiled(e)) = PartsOf(e[i], g)
        BY <1>1, <2>2, PartsEarlier
    <2>5. CompileObject(e[i], Compiled(e)) = CompileObject(e[i], g)
        BY <2>4, CompileObjectCases
    <2> QED
        BY <1>11, <2>3, <2>5
<1>13. \A i \in 1..n : i \in S
    <2> HIDE DEF S
    <2> QED
        BY <1>12, Positions
<1>14. Compiled(e) \in [1..n -> Compilations]
    BY <1>1, <1>10, <1>13
<1> QED
    BY <1>1, <1>11, <1>14

Placed(q, p) == <<Under(q, p[1]), p[2]>>

PlacesOf(ms) == UNION {{Placed(q, p) : p \in ms[q].places} : q \in DOMAIN ms}

Inside(ms) == UNION {ms[q].waits : q \in DOMAIN ms}

Across(ms) ==
    UNION {MeantKeys(ms[p[1]]) \X MeantKeys(ms[p[2]]) :
              p \in {p \in (DOMAIN ms) \X (DOMAIN ms) : p[1] < p[2]}}

Abreast(ms) == [places |-> PlacesOf(ms), waits |-> Inside(ms)]

InOrder(ms) == [places |-> PlacesOf(ms), waits |-> Inside(ms) \cup Across(ms)]

LEMMA MeaningCases ==
    ASSUME NEW x, NEW m
    PROVE  MeaningOf(x, m) =
              IF IsLeaf(x)
              THEN [places |-> {<<>>} \X LeafKeys(x), waits |-> LeafDeps(x) \X LeafKeys(x)]
              ELSE IF x.op = "group" THEN Abreast(PartsOf(x, m)) ELSE InOrder(PartsOf(x, m))
<1>1. CASE IsLeaf(x)
    BY <1>1 DEF MeaningOf
<1>2. CASE ~IsLeaf(x)
    <2> DEFINE ms == PartsOf(x, m)
    <2>1. MeaningOf(x, m) =
             [places |-> PlacesOf(ms),
              waits  |-> IF x.op = "group" THEN Inside(ms) ELSE Inside(ms) \cup Across(ms)]
        BY <1>2 DEF MeaningOf, PartsOf, PlacesOf, Placed, Under, Inside, Across
    <2> HIDE DEF ms
    <2>2. MeaningOf(x, m) = IF x.op = "group" THEN Abreast(ms) ELSE InOrder(ms)
        BY <2>1 DEF Abreast, InOrder
    <2> QED
        BY <1>2, <2>2 DEF ms
<1> QED
    BY <1>1, <1>2

LEMMA CompoundMeanings ==
    ASSUME NEW n \in Nat, NEW ms \in [1..n -> AllMeanings]
    PROVE  /\ Abreast(ms) \in AllMeanings
           /\ InOrder(ms) \in AllMeanings
           /\ \A q \in 1..n : MeantKeys(ms[q]) \in SUBSET Nat
<1>1. \A q \in 1..n : ms[q].places \in SUBSET (Seq(Nat) \X Nat) /\ ms[q].waits \in SUBSET (Nat \X Nat)
    BY DEF AllMeanings
<1>2. \A q \in 1..n : MeantKeys(ms[q]) \in SUBSET Nat
    BY <1>1 DEF MeantKeys
<1>3. PlacesOf(ms) \in SUBSET (Seq(Nat) \X Nat)
    <2>1. SUFFICES ASSUME NEW q \in 1..n, NEW p \in ms[q].places
                   PROVE  Placed(q, p) \in Seq(Nat) \X Nat
        BY DEF PlacesOf
    <2>2. p \in Seq(Nat) \X Nat
        BY <1>1
    <2>3. p[1] \in Seq(Nat) /\ p[2] \in Nat
        BY <2>2
    <2>4. Under(q, p[1]) \in Seq(Nat)
        BY <2>3 DEF Under
    <2> QED
        BY <2>3, <2>4 DEF Placed
<1>4. Inside(ms) \in SUBSET (Nat \X Nat)
    BY <1>1 DEF Inside
<1>5. Across(ms) \in SUBSET (Nat \X Nat)
    BY <1>2 DEF Across
<1>6. Abreast(ms) \in AllMeanings
    BY <1>3, <1>4 DEF Abreast, AllMeanings
<1>7. InOrder(ms) \in AllMeanings
    <2>1. Inside(ms) \cup Across(ms) \in SUBSET (Nat \X Nat)
        BY <1>4, <1>5
    <2> QED
        BY <1>3, <2>1 DEF InOrder, AllMeanings
<1> QED
    BY <1>2, <1>6, <1>7

LEMMA MeaningOfType ==
    ASSUME NEW e, IsExpression(e), ~Raises(e), NEW i \in 1..Len(e),
           NEW m \in [1..Len(e) -> AllMeanings]
    PROVE  MeaningOf(e[i], m) \in AllMeanings
<1>1. CASE IsLeaf(e[i])
    <2>1. LeafKeys(e[i]) \in SUBSET Nat /\ LeafDeps(e[i]) \in SUBSET Nat
        BY <1>1, ObjectFacts
    <2>2. <<>> \in Seq(Nat)
        OBVIOUS
    <2>3. {<<>>} \X LeafKeys(e[i]) \in SUBSET (Seq(Nat) \X Nat)
        BY <2>1, <2>2
    <2>4. LeafDeps(e[i]) \X LeafKeys(e[i]) \in SUBSET (Nat \X Nat)
        BY <2>1
    <2>5. [places |-> {<<>>} \X LeafKeys(e[i]), waits |-> LeafDeps(e[i]) \X LeafKeys(e[i])]
             \in AllMeanings
        BY <2>3, <2>4 DEF AllMeanings
    <2> QED
        BY <1>1, <2>5, MeaningCases
<1>2. CASE ~IsLeaf(e[i])
    <2>1. PICK n \in Nat \ {0} : PartsOf(e[i], m) \in [1..n -> AllMeanings]
        BY <1>2, PartsFacts
    <2>2. Abreast(PartsOf(e[i], m)) \in AllMeanings /\ InOrder(PartsOf(e[i], m)) \in AllMeanings
        BY <2>1, CompoundMeanings
    <2> QED
        BY <1>2, <2>2, MeaningCases
<1> QED
    BY <1>1, <1>2

LEMMA MeaningsEquation ==
    ASSUME NEW e, IsExpression(e), ~Raises(e)
    PROVE  /\ Meanings(e) \in [1..Len(e) -> AllMeanings]
           /\ \A i \in 1..Len(e) : Meanings(e)[i] = MeaningOf(e[i], Meanings(e))
<1> DEFINE G == [x \in (1..Len(e)) \X [1..Len(e) -> AllMeanings] |-> MeaningOf(e[x[1]], x[2])]
<1>1. PICK n \in Nat : n = Len(e) /\ DOMAIN e = 1..n
    BY DEF IsExpression
<1>2. \A i \in 1..n, f \in [1..n -> AllMeanings] : G[<<i, f>>] = MeaningOf(e[i], f)
    BY <1>1
<1> HIDE DEF G
<1>3. \A i \in 1..n, f \in [1..n -> AllMeanings] : G[<<i, f>>] \in AllMeanings
    <2>1. \A i \in 1..n, f \in [1..n -> AllMeanings] : MeaningOf(e[i], f) \in AllMeanings
        BY <1>1, MeaningOfType
    <2> QED
        BY <1>2, <2>1
<1>4. \A i \in 1..n, f \in [1..n -> AllMeanings], g \in [1..n -> AllMeanings] :
         (\A j \in 1..(i - 1) : f[j] = g[j]) => G[<<i, f>>] = G[<<i, g>>]
    <2> SUFFICES ASSUME NEW i \in 1..n, NEW f \in [1..n -> AllMeanings],
                        NEW g \in [1..n -> AllMeanings], \A j \in 1..(i - 1) : f[j] = g[j]
                 PROVE  G[<<i, f>>] = G[<<i, g>>]
        OBVIOUS
    <2>1. ~IsLeaf(e[i]) => PartsOf(e[i], f) = PartsOf(e[i], g)
        BY <1>1, PartsEarlier
    <2>2. MeaningOf(e[i], f) = MeaningOf(e[i], g)
        BY <2>1, MeaningCases
    <2> QED
        BY <1>2, <2>2
<1>5. AllMeanings # {}
    <2>1. [places |-> {}, waits |-> {}] \in AllMeanings
        BY DEF AllMeanings
    <2> QED
        BY <2>1
<1>6. FromEarlier(1, n, AllMeanings, G)
    BY <1>3, <1>4 DEF FromEarlier
<1>7. Defined(1, n, AllMeanings, G)
    BY <1>5, <1>6, Recursion
<1>8. PICK f \in [1..n -> AllMeanings] : \A i \in 1..n : f[i] = G[<<i, f>>]
    BY <1>7 DEF Defined
<1>9. f = [i \in DOMAIN e |-> MeaningOf(e[i], f)]
    <2>1. \A i \in 1..n : f[i] = MeaningOf(e[i], f)
        BY <1>2, <1>8
    <2> QED
        BY <1>1, <2>1
<1>10. Meanings(e) = [i \in DOMAIN e |-> MeaningOf(e[i], Meanings(e))]
    BY <1>9 DEF Meanings
<1>11. \A i \in 1..n : Meanings(e)[i] = MeaningOf(e[i], Meanings(e))
    BY <1>1, <1>10
<1> DEFINE S == {i \in 1..n : Meanings(e)[i] \in AllMeanings}
<1>12. ASSUME NEW i \in 1..n, \A j \in 1..(i - 1) : j \in S
       PROVE  i \in S
    <2> DEFINE g == [j \in 1..n |-> IF j < i THEN Meanings(e)[j] ELSE f[j]]
    <2>1. g \in [1..n -> AllMeanings]
        <3>1. \A j \in 1..n : j < i => j \in 1..(i - 1)
            BY <1>12
        <3> QED
            BY <1>8, <1>12, <3>1
    <2>2. \A j \in 1..(i - 1) : Meanings(e)[j] = g[j]
        BY <1>12
    <2> HIDE DEF g
    <2>3. MeaningOf(e[i], g) \in AllMeanings
        BY <1>1, <2>1, MeaningOfType
    <2>4. ~IsLeaf(e[i]) => PartsOf(e[i], Meanings(e)) = PartsOf(e[i], g)
        BY <1>1, <2>2, PartsEarlier
    <2>5. MeaningOf(e[i], Meanings(e)) = MeaningOf(e[i], g)
        BY <2>4, MeaningCases
    <2> QED
        BY <1>11, <2>3, <2>5
<1>13. \A i \in 1..n : i \in S
    <2> HIDE DEF S
    <2> QED
        BY <1>12, Positions
<1>14. Meanings(e) \in [1..n -> AllMeanings]
    BY <1>1, <1>10, <1>13
<1> QED
    BY <1>1, <1>11, <1>14

-----------------------------------------------------------------------------
(* What is compiled has the nodes that are meant, and linking only roots to *)
(* leaves makes nodes wait for exactly what they are meant to wait for.     *)

\* The node keys of D may be those that have run.
Runs(D, nodes) == \A x \in nodes : x.key \in D => x.deps \subseteq D

\* One node for each key at each place.
SameNodes(c, m) ==
    /\ \A x \in c.nodes : <<x.at, x.key>> \in m.places
    /\ \A p \in m.places : \E x \in c.nodes : x.at = p[1] /\ x.key = p[2]
    /\ \A x, y \in c.nodes : x.at = y.at /\ x.key = y.key => x = y

\* There are nodes, finitely many, and roots and leaves are among them.
ProperEnds(c, m) ==
    /\ MeantKeys(m) # {}
    /\ IsFiniteSet(MeantKeys(m))
    /\ c.roots \subseteq MeantKeys(m)
    /\ c.leaves \subseteq MeantKeys(m)

\* Dependencies are waits, and waits are for nodes or for dependencies; a node
\* waits for itself only if it depends on itself or is there twice.
Justified(c, m) ==
    /\ \A x \in c.nodes : \A d \in x.deps : <<d, x.key>> \in m.waits
    /\ \A w \in m.waits : /\ w[2] \in MeantKeys(m)
                          /\ w[1] \in MeantKeys(m) \/ \E x \in c.nodes : w[1] \in x.deps
    /\ \A w \in m.waits : w[1] = w[2] =>
          \/ \E x \in c.nodes : x.key = w[2] /\ w[2] \in x.deps
          \/ \E p, r \in m.places : p # r /\ p[2] = w[2] /\ r[2] = w[2]

\* Nothing runs before a root, with all leaves everything has run, and nothing
\* runs before what it waits for.
WaitsFor(c, m, D) ==
    /\ D \cap MeantKeys(m) # {} => D \cap c.roots # {}
    /\ c.leaves \subseteq D => MeantKeys(m) \subseteq D
    /\ Closed(D, m.waits)

Faithful(c, m) ==
    /\ SameNodes(c, m)
    /\ ProperEnds(c, m)
    /\ Justified(c, m)
    /\ \A D \in SUBSET Nat : Runs(D, c.nodes) => WaitsFor(c, m, D)

LEMMA LeafFaithful ==
    ASSUME NEW x, LeafKeys(x) # {}, IsFiniteSet(LeafKeys(x)), IsLeaf(x), NEW c, NEW m,
           c = CompiledLeaf(x),
           m = [places |-> {<<>>} \X LeafKeys(x), waits |-> LeafDeps(x) \X LeafKeys(x)]
    PROVE  Faithful(c, m)
<1> DEFINE K == LeafKeys(x)
           N == LeafDeps(x)
<1>1. c.nodes = {Node(<<>>, k, N) : k \in K} /\ c.roots = K /\ c.leaves = K
    BY DEF CompiledLeaf
<1>2. m.places = {<<>>} \X K /\ m.waits = N \X K
    OBVIOUS
<1>3. MeantKeys(m) = K
    <2> HIDE DEF K
    <2>1. \A k \in K : <<<<>>, k>> \in m.places /\ <<<<>>, k>>[2] = k
        BY <1>2
    <2>2. \A p \in m.places : p[2] \in K
        BY <1>2
    <2> QED
        BY <2>1, <2>2 DEF MeantKeys
<1>4. \A y \in c.nodes : y.at = <<>> /\ y.key \in K /\ y.deps = N /\ y = Node(<<>>, y.key, N)
    BY <1>1 DEF Node
<1>5. \A k \in K : \E y \in c.nodes : y.at = <<>> /\ y.key = k /\ y.deps = N
    <2> SUFFICES ASSUME NEW k \in K
                 PROVE  \E y \in c.nodes : y.at = <<>> /\ y.key = k /\ y.deps = N
        OBVIOUS
    <2>1. Node(<<>>, k, N) \in c.nodes
        BY <1>1
    <2>2. Node(<<>>, k, N).at = <<>> /\ Node(<<>>, k, N).key = k /\ Node(<<>>, k, N).deps = N
        BY DEF Node
    <2> QED
        BY <2>1, <2>2
<1> HIDE DEF K, N
<1>6. SameNodes(c, m)
    BY <1>2, <1>4, <1>5 DEF SameNodes
<1>7. ProperEnds(c, m)
    BY <1>1, <1>3 DEF ProperEnds, K
<1>8. Justified(c, m)
    BY <1>2, <1>3, <1>4, <1>5 DEF Justified
<1>9. ASSUME NEW D \in SUBSET Nat, Runs(D, c.nodes)
      PROVE  WaitsFor(c, m, D)
    <2>1. \A k \in K : k \in D => N \subseteq D
        BY <1>5, <1>9 DEF Runs
    <2>2. Closed(D, m.waits)
        BY <1>2, <2>1 DEF Closed
    <2> QED
        BY <1>1, <1>3, <2>2 DEF WaitsFor
<1> QED
    BY <1>6, <1>7, <1>8, <1>9 DEF Faithful

LEMMA PlaceInjective ==
    \A q, r \in Nat, a, b \in Seq(Nat) : Under(q, a) = Under(r, b) => q = r /\ a = b
<1> SUFFICES ASSUME NEW q \in Nat, NEW r \in Nat, NEW a \in Seq(Nat), NEW b \in Seq(Nat),
                    <<q>> \o a = <<r>> \o b
             PROVE  q = r /\ a = b
    BY DEF Under
<1>1. (<<q>> \o a)[1] = q /\ (<<r>> \o b)[1] = r
    OBVIOUS
<1>2. Len(a) \in Nat /\ Len(b) \in Nat /\ Len(<<q>> \o a) = 1 + Len(a) /\ Len(<<r>> \o b) = 1 + Len(b)
    OBVIOUS
<1>3. Len(a) = Len(b)
    BY <1>2
<1>4. \A i \in 1..Len(a) : a[i] = (<<q>> \o a)[i + 1]
    OBVIOUS
<1>5. \A i \in 1..Len(b) : b[i] = (<<r>> \o b)[i + 1]
    OBVIOUS
<1>6. \A i \in 1..Len(a) : a[i] = b[i]
    BY <1>3, <1>4, <1>5
<1>7. a = b
    BY <1>3, <1>6, SeqEqual
<1> QED
    BY <1>1, <1>7

\* The compiled parts of a compound and what they mean.
FaithfulParts(n, cs, ms, W) ==
    /\ cs \in [1..n -> Compilations]
    /\ ms \in [1..n -> AllMeanings]
    /\ W \in [1..n -> SUBSET Nat]
    /\ \A q \in 1..n : Faithful(cs[q], ms[q])

\* What linking does to a node.
LEMMA LinkedNodes ==
    ASSUME NEW n \in Nat, NEW cs, NEW ms, NEW W, FaithfulParts(n, cs, ms, W)
    PROVE  /\ \A y \in Together(cs, W) : \E q \in 1..n : \E x \in cs[q].nodes : y = Linked(cs, W, q, x)
           /\ \A q \in 1..n : \A x \in cs[q].nodes :
                 /\ Linked(cs, W, q, x) \in Together(cs, W)
                 /\ Linked(cs, W, q, x).at = Under(q, x.at)
                 /\ Linked(cs, W, q, x).key = x.key
                 /\ x.key \in cs[q].roots => Linked(cs, W, q, x).deps = x.deps \cup W[q]
                 /\ x.key \notin cs[q].roots => Linked(cs, W, q, x).deps = x.deps
                 /\ x.at \in Seq(Nat) /\ x.key \in Nat
<1>1. DOMAIN cs = 1..n
    BY DEF FaithfulParts
<1>2. \A q \in 1..n : cs[q].nodes \in SUBSET CompiledNodes
    BY DEF FaithfulParts, Compilations
<1>3. \A y \in Together(cs, W) : \E q \in 1..n : \E x \in cs[q].nodes : y = Linked(cs, W, q, x)
    BY <1>1 DEF Together
<1>4. \A q \in 1..n : \A x \in cs[q].nodes : Linked(cs, W, q, x) \in Together(cs, W)
    BY <1>1 DEF Together
<1>5. \A q \in 1..n : \A x \in cs[q].nodes : x.at \in Seq(Nat) /\ x.key \in Nat
    BY <1>2 DEF CompiledNodes
<1>6. \A q \in 1..n : \A x \in cs[q].nodes :
         /\ Linked(cs, W, q, x).at = Under(q, x.at)
         /\ Linked(cs, W, q, x).key = x.key
         /\ x.key \in cs[q].roots => Linked(cs, W, q, x).deps = x.deps \cup W[q]
         /\ x.key \notin cs[q].roots => Linked(cs, W, q, x).deps = x.deps
    BY DEF Linked, Node
<1> QED
    BY <1>3, <1>4, <1>5, <1>6

\* The places of a compound are those of its parts, each in its part.
LEMMA PlacedParts ==
    ASSUME NEW n \in Nat, NEW cs, NEW ms, NEW W, FaithfulParts(n, cs, ms, W)
    PROVE  /\ \A r \in PlacesOf(ms) : \E q \in 1..n : \E p \in ms[q].places : r = Placed(q, p)
           /\ \A q \in 1..n : \A p \in ms[q].places :
                 /\ Placed(q, p) \in PlacesOf(ms)
                 /\ Placed(q, p)[1] = Under(q, p[1])
                 /\ Placed(q, p)[2] = p[2]
                 /\ p[1] \in Seq(Nat) /\ p[2] \in Nat
                 /\ p = <<p[1], p[2]>>
<1>1. DOMAIN ms = 1..n
    BY DEF FaithfulParts
<1>2. \A q \in 1..n : ms[q].places \in SUBSET (Seq(Nat) \X Nat)
    BY DEF FaithfulParts, AllMeanings
<1>3. \A r \in PlacesOf(ms) : \E q \in 1..n : \E p \in ms[q].places : r = Placed(q, p)
    BY <1>1 DEF PlacesOf
<1>4. \A q \in 1..n : \A p \in ms[q].places : Placed(q, p) \in PlacesOf(ms)
    BY <1>1 DEF PlacesOf
<1>5. \A q \in 1..n : \A p \in ms[q].places :
         p[1] \in Seq(Nat) /\ p[2] \in Nat /\ p = <<p[1], p[2]>>
    BY <1>2
<1>6. \A q, p : Placed(q, p)[1] = Under(q, p[1]) /\ Placed(q, p)[2] = p[2]
    BY DEF Placed
<1> QED
    BY <1>3, <1>4, <1>5, <1>6

\* So are its keys.
LEMMA CompoundKeys ==
    ASSUME NEW n \in Nat, NEW cs, NEW ms, NEW W, FaithfulParts(n, cs, ms, W),
           NEW m, m.places = PlacesOf(ms)
    PROVE  /\ \A k : k \in MeantKeys(m) <=> \E q \in 1..n : k \in MeantKeys(ms[q])
           /\ IsFiniteSet(MeantKeys(m))
<1>0. \A q \in 1..n : \A p \in ms[q].places :
         /\ Placed(q, p) \in PlacesOf(ms)
         /\ Placed(q, p)[1] = Under(q, p[1])
         /\ Placed(q, p)[2] = p[2]
    BY PlacedParts
<1>1. ASSUME NEW k \in MeantKeys(m)
      PROVE  \E q \in 1..n : k \in MeantKeys(ms[q])
    <2>1. PICK r \in PlacesOf(ms) : k = r[2]
        BY <1>1 DEF MeantKeys
    <2>q. PICK q \in 1..n : \E p \in ms[q].places : r = Placed(q, p)
        BY PlacedParts
    <2>2. PICK p \in ms[q].places : r = Placed(q, p)
        BY <2>q
    <2>3. k = p[2]
        BY <1>0, <2>1, <2>2
    <2> QED
        BY <2>3 DEF MeantKeys
<1>2. ASSUME NEW q \in 1..n, NEW k \in MeantKeys(ms[q])
      PROVE  k \in MeantKeys(m)
    <2>1. PICK p \in ms[q].places : k = p[2]
        BY <1>2 DEF MeantKeys
    <2>2. Placed(q, p) \in PlacesOf(ms) /\ Placed(q, p)[2] = k
        BY <1>0, <2>1
    <2> QED
        BY <2>2 DEF MeantKeys
<1>3. \A k : k \in MeantKeys(m) <=> \E q \in 1..n : k \in MeantKeys(ms[q])
    BY <1>1, <1>2
<1>4. IsFiniteSet(MeantKeys(m))
    <2> DEFINE all == [q \in 1..n |-> MeantKeys(ms[q])]
    <2>1. \A q \in 1..n : all[q] = MeantKeys(ms[q]) /\ IsFiniteSet(all[q])
        BY DEF FaithfulParts, Faithful, ProperEnds
    <2>2. all = [q \in 1..n |-> all[q]]
        OBVIOUS
    <2> DEFINE SS == {all[q] : q \in 1..n}
    <2>3. IsFiniteSet(SS)
        <3>1. IsFiniteSet(1..n)
            BY FS_Interval
        <3>2. all \in Surjection(1..n, SS)
            <4> HIDE DEF all
            <4>1. all \in [1..n -> SS]
                BY <2>2
            <4>2. \A t \in SS : \E q \in 1..n : all[q] = t
                OBVIOUS
            <4> HIDE DEF SS
            <4> QED
                BY <4>1, <4>2, Fun_IsSurj
        <3> HIDE DEF SS
        <3> QED
            BY <3>1, <3>2, FS_Surjection
    <2>4. \A T \in SS : IsFiniteSet(T)
        <3> HIDE DEF all
        <3> QED
            BY <2>1
    <2>5. IsFiniteSet(UNION SS)
        <3> HIDE DEF SS
        <3> QED
            BY <2>3, <2>4, FS_UNION
    <2>6. \A k : k \in UNION SS <=> \E q \in 1..n : k \in MeantKeys(ms[q])
        <3> HIDE DEF all
        <3> QED
            BY <2>1
    <2> HIDE DEF SS
    <2>7. MeantKeys(m) = UNION SS
        BY <1>3, <2>6
    <2> QED
        BY <2>5, <2>7
<1> QED
    BY <1>3, <1>4

LEMMA TogetherSameNodes ==
    ASSUME NEW n \in Nat, NEW cs, NEW ms, NEW W, FaithfulParts(n, cs, ms, W),
           NEW c, NEW m, c.nodes = Together(cs, W), m.places = PlacesOf(ms)
    PROVE  SameNodes(c, m)
<1>0. \A q \in 1..n : \A p \in ms[q].places :
         /\ Placed(q, p) \in PlacesOf(ms)
         /\ Placed(q, p)[1] = Under(q, p[1])
         /\ Placed(q, p)[2] = p[2]
    BY PlacedParts
<1>a. \A q \in 1..n : \A x \in cs[q].nodes :
         /\ Linked(cs, W, q, x) \in Together(cs, W)
         /\ Linked(cs, W, q, x).at = Under(q, x.at)
         /\ Linked(cs, W, q, x).key = x.key
         /\ x.at \in Seq(Nat) /\ x.key \in Nat
    BY LinkedNodes
<1>1. \A q \in 1..n : SameNodes(cs[q], ms[q])
    BY DEF FaithfulParts, Faithful
<1>2. ASSUME NEW y \in c.nodes
      PROVE  <<y.at, y.key>> \in m.places
    <2>q. PICK q \in 1..n : \E x \in cs[q].nodes : y = Linked(cs, W, q, x)
        BY LinkedNodes
    <2>1. PICK x \in cs[q].nodes : y = Linked(cs, W, q, x)
        BY <2>q
    <2>2. y.at = Under(q, x.at) /\ y.key = x.key
        BY <1>a, <2>1
    <2>3. <<x.at, x.key>> \in ms[q].places
        BY <1>1 DEF SameNodes
    <2>4. Placed(q, <<x.at, x.key>>) \in m.places
        BY <1>0, <2>3
    <2>5. Placed(q, <<x.at, x.key>>) = <<y.at, y.key>>
        BY <2>2 DEF Placed
    <2> QED
        BY <2>4, <2>5
<1>3. ASSUME NEW r \in m.places
      PROVE  \E y \in c.nodes : y.at = r[1] /\ y.key = r[2]
    <2>q. PICK q \in 1..n : \E p \in ms[q].places : r = Placed(q, p)
        BY PlacedParts
    <2>1. PICK p \in ms[q].places : r = Placed(q, p)
        BY <2>q
    <2>2. PICK x \in cs[q].nodes : x.at = p[1] /\ x.key = p[2]
        BY <1>1 DEF SameNodes
    <2>3. /\ Linked(cs, W, q, x) \in c.nodes
          /\ Linked(cs, W, q, x).at = Under(q, x.at)
          /\ Linked(cs, W, q, x).key = x.key
        BY <1>a
    <2>4. r[1] = Under(q, p[1]) /\ r[2] = p[2]
        BY <1>0, <2>1
    <2> QED
        BY <2>2, <2>3, <2>4
<1>4. ASSUME NEW y \in c.nodes, NEW z \in c.nodes, y.at = z.at, y.key = z.key
      PROVE  y = z
    <2>q. PICK q \in 1..n : \E x \in cs[q].nodes : y = Linked(cs, W, q, x)
        BY LinkedNodes
    <2>1. PICK x \in cs[q].nodes : y = Linked(cs, W, q, x)
        BY <2>q
    <2>r. PICK r \in 1..n : \E v \in cs[r].nodes : z = Linked(cs, W, r, v)
        BY LinkedNodes
    <2>2. PICK v \in cs[r].nodes : z = Linked(cs, W, r, v)
        BY <2>r
    <2>3. /\ y.at = Under(q, x.at) /\ y.key = x.key
          /\ z.at = Under(r, v.at) /\ z.key = v.key
          /\ x.at \in Seq(Nat) /\ v.at \in Seq(Nat)
        BY <1>a, <2>1, <2>2
    <2>4. q = r /\ x.at = v.at
        <3>1. Under(q, x.at) = Under(r, v.at)
            BY <1>4, <2>3, Zenon
        <3>2. q \in Nat /\ r \in Nat
            OBVIOUS
        <3> QED
            BY <2>3, <3>1, <3>2, PlaceInjective, SMTT(30)
    <2>5. x = v
        <3>1. SameNodes(cs[q], ms[q]) /\ v \in cs[q].nodes /\ x.key = v.key
            BY <1>1, <1>4, <2>3, <2>4
        <3> QED
            BY <2>4, <3>1 DEF SameNodes
    <2> QED
        BY <2>1, <2>2, <2>4, <2>5
<1> QED
    BY <1>2, <1>3, <1>4 DEF SameNodes

LEMMA WaitsOfParts ==
    ASSUME NEW n \in Nat, NEW cs, NEW ms, NEW W, FaithfulParts(n, cs, ms, W)
    PROVE  /\ \A w : w \in Inside(ms) <=> \E q \in 1..n : w \in ms[q].waits
           /\ \A w \in Across(ms) : \E p, q \in 1..n :
                 p < q /\ w[1] \in MeantKeys(ms[p]) /\ w[2] \in MeantKeys(ms[q])
           /\ \A p, q \in 1..n : p < q =>
                 \A a \in MeantKeys(ms[p]), b \in MeantKeys(ms[q]) : <<a, b>> \in Across(ms)
<1>1. DOMAIN ms = 1..n
    BY DEF FaithfulParts
<1>2. \A w : w \in Inside(ms) <=> \E q \in 1..n : w \in ms[q].waits
    BY <1>1 DEF Inside
<1>3. ASSUME NEW w \in Across(ms)
      PROVE  \E p, q \in 1..n : p < q /\ w[1] \in MeantKeys(ms[p]) /\ w[2] \in MeantKeys(ms[q])
    <2>1. PICK o \in (1..n) \X (1..n) :
             o[1] < o[2] /\ w \in MeantKeys(ms[o[1]]) \X MeantKeys(ms[o[2]])
        BY <1>1, <1>3 DEF Across
    <2>2. o[1] \in 1..n /\ o[2] \in 1..n
        BY <2>1
    <2>3. w[1] \in MeantKeys(ms[o[1]]) /\ w[2] \in MeantKeys(ms[o[2]])
        BY <2>1
    <2> QED
        BY <2>1, <2>2, <2>3
<1>4. ASSUME NEW p \in 1..n, NEW q \in 1..n, p < q,
             NEW a \in MeantKeys(ms[p]), NEW b \in MeantKeys(ms[q])
      PROVE  <<a, b>> \in Across(ms)
    <2> DEFINE o == <<p, q>>
    <2>1. o \in (DOMAIN ms) \X (DOMAIN ms) /\ o[1] = p /\ o[2] = q
        BY <1>1
    <2> HIDE DEF o
    <2>2. <<a, b>> \in MeantKeys(ms[o[1]]) \X MeantKeys(ms[o[2]])
        BY <2>1
    <2> QED
        BY <1>4, <2>1, <2>2 DEF Across
<1> QED
    BY <1>2, <1>3, <1>4

LEMMA CompoundJustified ==
    ASSUME NEW n \in Nat, NEW cs, NEW ms, NEW W, FaithfulParts(n, cs, ms, W),
           NEW c, NEW m, c.nodes = Together(cs, W), m.places = PlacesOf(ms),
           Inside(ms) \subseteq m.waits, m.waits \subseteq Inside(ms) \cup Across(ms),
           \A q \in 1..n : \A a \in W[q], k \in MeantKeys(ms[q]) : <<a, k>> \in m.waits
    PROVE  Justified(c, m)
<1>1. \A q \in 1..n : SameNodes(cs[q], ms[q]) /\ Justified(cs[q], ms[q]) /\ ProperEnds(cs[q], ms[q])
    BY DEF FaithfulParts, Faithful
<1>2. \A q \in 1..n : \A k \in MeantKeys(ms[q]) : k \in MeantKeys(m)
    BY CompoundKeys
<1>3. \A q \in 1..n : \A x \in cs[q].nodes :
         /\ Linked(cs, W, q, x) \in c.nodes
         /\ Linked(cs, W, q, x).key = x.key
         /\ x.key \in cs[q].roots => Linked(cs, W, q, x).deps = x.deps \cup W[q]
         /\ x.key \notin cs[q].roots => Linked(cs, W, q, x).deps = x.deps
    BY LinkedNodes
<1>4. \A q \in 1..n : \A p \in ms[q].places :
         /\ Placed(q, p) \in m.places
         /\ Placed(q, p)[1] = Under(q, p[1])
         /\ Placed(q, p)[2] = p[2]
         /\ p[1] \in Seq(Nat) /\ p[2] \in Nat
         /\ p = <<p[1], p[2]>>
    BY PlacedParts
<1>5. \A q \in 1..n : \A w \in ms[q].waits : w \in m.waits
    BY WaitsOfParts
<1>6. \A w \in m.waits :
         \/ \E q \in 1..n : w \in ms[q].waits
         \/ \E p, q \in 1..n : p < q /\ w[1] \in MeantKeys(ms[p]) /\ w[2] \in MeantKeys(ms[q])
    <2>1. \A w \in m.waits : w \in Inside(ms) \/ w \in Across(ms)
        OBVIOUS
    <2>2. \A w \in Inside(ms) : \E q \in 1..n : w \in ms[q].waits
        BY WaitsOfParts
    <2>3. \A w \in Across(ms) : \E p, q \in 1..n :
             p < q /\ w[1] \in MeantKeys(ms[p]) /\ w[2] \in MeantKeys(ms[q])
        BY WaitsOfParts
    <2> QED
        BY <2>1, <2>2, <2>3
<1>7. ASSUME NEW y \in c.nodes, NEW d \in y.deps
      PROVE  <<d, y.key>> \in m.waits
    <2>1. PICK q \in 1..n : \E x \in cs[q].nodes : y = Linked(cs, W, q, x)
        BY LinkedNodes
    <2>2. PICK x \in cs[q].nodes : y = Linked(cs, W, q, x)
        BY <2>1
    <2>3. CASE d \in x.deps
        <3>1. <<d, x.key>> \in ms[q].waits
            BY <1>1, <2>3 DEF Justified
        <3> QED
            BY <1>3, <1>5, <2>2, <3>1
    <2>4. CASE d \notin x.deps
        <3>1. x.key \in cs[q].roots /\ d \in W[q]
            BY <1>3, <1>7, <2>2, <2>4
        <3>2. x.key \in MeantKeys(ms[q])
            BY <1>1, <3>1 DEF ProperEnds
        <3>3. <<d, x.key>> \in m.waits
            BY <3>1, <3>2
        <3> QED
            BY <1>3, <2>2, <3>3
    <2> QED
        BY <2>3, <2>4
<1>8. \A q \in 1..n : \A x \in cs[q].nodes : x.deps \subseteq Linked(cs, W, q, x).deps
    BY <1>3
<1>9. ASSUME NEW w \in m.waits
      PROVE  w[2] \in MeantKeys(m) /\ (w[1] \in MeantKeys(m) \/ \E y \in c.nodes : w[1] \in y.deps)
    <2>1. ASSUME NEW q \in 1..n, w \in ms[q].waits
          PROVE  w[2] \in MeantKeys(m) /\ (w[1] \in MeantKeys(m) \/ \E y \in c.nodes : w[1] \in y.deps)
        <3>1. w[2] \in MeantKeys(ms[q])
            BY <1>1, <2>1 DEF Justified
        <3>2. w[1] \in MeantKeys(ms[q]) \/ \E x \in cs[q].nodes : w[1] \in x.deps
            BY <1>1, <2>1 DEF Justified
        <3>3. ASSUME NEW x \in cs[q].nodes, w[1] \in x.deps
              PROVE  \E y \in c.nodes : w[1] \in y.deps
            BY <1>3, <1>8, <3>3
        <3> QED
            BY <1>2, <3>1, <3>2, <3>3
    <2> QED
        BY <1>2, <1>6, <2>1
<1>10. ASSUME NEW w \in m.waits, w[1] = w[2]
       PROVE  \/ \E y \in c.nodes : y.key = w[2] /\ w[2] \in y.deps
              \/ \E p, r \in m.places : p # r /\ p[2] = w[2] /\ r[2] = w[2]
    <2>1. ASSUME NEW q \in 1..n, w \in ms[q].waits
          PROVE  \/ \E y \in c.nodes : y.key = w[2] /\ w[2] \in y.deps
                 \/ \E p, r \in m.places : p # r /\ p[2] = w[2] /\ r[2] = w[2]
        <3>1. \/ \E x \in cs[q].nodes : x.key = w[2] /\ w[2] \in x.deps
              \/ \E p, r \in ms[q].places : p # r /\ p[2] = w[2] /\ r[2] = w[2]
            BY <1>1, <1>10, <2>1 DEF Justified
        <3>2. ASSUME NEW x \in cs[q].nodes, x.key = w[2], w[2] \in x.deps
              PROVE  \E y \in c.nodes : y.key = w[2] /\ w[2] \in y.deps
            BY <1>3, <1>8, <3>2
        <3>3. ASSUME NEW p \in ms[q].places, NEW r \in ms[q].places,
                     p # r, p[2] = w[2], r[2] = w[2]
              PROVE  \E o, t \in m.places : o # t /\ o[2] = w[2] /\ t[2] = w[2]
            <4>1. p[1] # r[1]
                BY <1>4, <3>3
            <4>2. Under(q, p[1]) # Under(q, r[1])
                <5>1. p[1] \in Seq(Nat) /\ r[1] \in Seq(Nat)
                    BY <1>4
                <5>2. q \in Nat
                    OBVIOUS
                <5> QED
                    BY <4>1, <5>1, <5>2, PlaceInjective
            <4>3. Placed(q, p) # Placed(q, r)
                BY <1>4, <4>2
            <4> QED
                BY <1>4, <3>3, <4>3
        <3> QED
            BY <3>1, <3>2, <3>3
    <2>2. ASSUME NEW s \in 1..n, NEW q \in 1..n, s < q,
                 w[1] \in MeantKeys(ms[s]), w[2] \in MeantKeys(ms[q])
          PROVE  \E p, r \in m.places : p # r /\ p[2] = w[2] /\ r[2] = w[2]
        <3>1. PICK p \in ms[s].places : w[2] = p[2]
            BY <1>10, <2>2 DEF MeantKeys
        <3>2. PICK r \in ms[q].places : w[2] = r[2]
            BY <2>2 DEF MeantKeys
        <3>3. Under(s, p[1]) # Under(q, r[1])
            <4>1. p[1] \in Seq(Nat) /\ r[1] \in Seq(Nat)
                BY <1>4
            <4>2. s \in Nat /\ q \in Nat /\ s # q
                BY <2>2
            <4> QED
                BY <4>1, <4>2, PlaceInjective
        <3>4. Placed(s, p) # Placed(q, r)
            BY <1>4, <3>3
        <3>5. Placed(s, p) \in m.places /\ Placed(s, p)[2] = w[2]
            BY <1>4, <3>1
        <3>6. Placed(q, r) \in m.places /\ Placed(q, r)[2] = w[2]
            BY <1>4, <3>2
        <3> QED
            BY <3>4, <3>5, <3>6
    <2> QED
        BY <1>6, <2>1, <2>2
<1> QED
    BY <1>7, <1>9, <1>10 DEF Justified

\* When nodes of a compound have run, so have nodes of its parts, and a part
\* that has begun finds what it is linked to.
LEMMA PartsRun ==
    ASSUME NEW n \in Nat, NEW cs, NEW ms, NEW W, FaithfulParts(n, cs, ms, W),
           NEW D \in SUBSET Nat, Runs(D, Together(cs, W)), NEW q \in 1..n
    PROVE  /\ WaitsFor(cs[q], ms[q], D)
           /\ D \cap MeantKeys(ms[q]) # {} => W[q] \subseteq D
<1>1. SameNodes(cs[q], ms[q]) /\ ProperEnds(cs[q], ms[q])
    BY DEF FaithfulParts, Faithful
<1>2. \A x \in cs[q].nodes :
         /\ Linked(cs, W, q, x) \in Together(cs, W)
         /\ Linked(cs, W, q, x).key = x.key
         /\ x.key \in cs[q].roots => Linked(cs, W, q, x).deps = x.deps \cup W[q]
         /\ x.key \notin cs[q].roots => Linked(cs, W, q, x).deps = x.deps
    BY LinkedNodes
<1>3. \A x \in cs[q].nodes : x.key \in D => Linked(cs, W, q, x).deps \subseteq D
    BY <1>2 DEF Runs
<1>4. Runs(D, cs[q].nodes)
    BY <1>2, <1>3 DEF Runs
<1>5. WaitsFor(cs[q], ms[q], D)
    BY <1>4 DEF FaithfulParts, Faithful
<1>6. ASSUME D \cap MeantKeys(ms[q]) # {}
      PROVE  W[q] \subseteq D
    <2>1. PICK k \in D : k \in cs[q].roots
        BY <1>5, <1>6 DEF WaitsFor
    <2>2. PICK p \in ms[q].places : p[2] = k
        BY <1>1, <2>1 DEF ProperEnds, MeantKeys
    <2>3. PICK x \in cs[q].nodes : x.key = k
        BY <1>1, <2>2 DEF SameNodes
    <2> QED
        BY <1>2, <1>3, <2>1, <2>3
<1> QED
    BY <1>5, <1>6

LEMMA BesideFaithful ==
    ASSUME NEW n \in Nat \ {0}, NEW cs, NEW ms, FaithfulParts(n, cs, ms, NoLinks(cs))
    PROVE  Faithful(Beside(cs), Abreast(ms))
<1> DEFINE c == Beside(cs)
           m == Abreast(ms)
           W == NoLinks(cs)
<1>1. DOMAIN cs = 1..n /\ cs \in [1..n -> Compilations]
    BY DEF FaithfulParts
<1>2. c.nodes = Together(cs, W)
    BY CompoundNodes
<1>3. /\ \A k : k \in c.roots <=> \E q \in 1..n : k \in cs[q].roots
      /\ \A k : k \in c.leaves <=> \E q \in 1..n : k \in cs[q].leaves
    BY <1>1 DEF Beside
<1>4. m.places = PlacesOf(ms) /\ m.waits = Inside(ms)
    BY DEF Abreast
<1>5. \A q \in 1..n : W[q] = {}
    BY <1>1 DEF NoLinks
<1> HIDE DEF c, m, W
<1>6. FaithfulParts(n, cs, ms, W)
    BY DEF W
<1>7. \A k : k \in MeantKeys(m) <=> \E q \in 1..n : k \in MeantKeys(ms[q])
    BY <1>4, <1>6, CompoundKeys
<1>8. \A q \in 1..n : ProperEnds(cs[q], ms[q])
    BY <1>6 DEF FaithfulParts, Faithful
<1>9. SameNodes(c, m)
    BY <1>2, <1>4, <1>6, TogetherSameNodes
<1>10. ProperEnds(c, m)
    <2>1. IsFiniteSet(MeantKeys(m))
        BY <1>4, <1>6, CompoundKeys
    <2>2. MeantKeys(m) # {}
        <3>1. 1 \in 1..n
            OBVIOUS
        <3>2. MeantKeys(ms[1]) # {}
            BY <1>8, <3>1 DEF ProperEnds
        <3> QED
            BY <1>7, <3>1, <3>2
    <2>3. c.roots \subseteq MeantKeys(m) /\ c.leaves \subseteq MeantKeys(m)
        BY <1>3, <1>7, <1>8 DEF ProperEnds
    <2> QED
        BY <2>1, <2>2, <2>3 DEF ProperEnds
<1>11. Justified(c, m)
    <2>1. \A q \in 1..n : \A a \in W[q], k \in MeantKeys(ms[q]) : <<a, k>> \in m.waits
        BY <1>5
    <2> QED
        BY <1>2, <1>4, <1>6, <2>1, CompoundJustified
<1>12. ASSUME NEW D \in SUBSET Nat, Runs(D, c.nodes)
       PROVE  WaitsFor(c, m, D)
    <2>1. \A q \in 1..n : WaitsFor(cs[q], ms[q], D)
        BY <1>2, <1>6, <1>12, PartsRun
    <2>2. ASSUME D \cap MeantKeys(m) # {}
          PROVE  D \cap c.roots # {}
        <3>1. PICK q \in 1..n : D \cap MeantKeys(ms[q]) # {}
            BY <1>7, <2>2
        <3>2. D \cap cs[q].roots # {}
            BY <2>1, <3>1 DEF WaitsFor
        <3> QED
            BY <1>3, <3>2
    <2>3. ASSUME c.leaves \subseteq D
          PROVE  MeantKeys(m) \subseteq D
        <3>1. \A q \in 1..n : cs[q].leaves \subseteq D
            BY <1>3, <2>3
        <3>2. \A q \in 1..n : MeantKeys(ms[q]) \subseteq D
            BY <2>1, <3>1 DEF WaitsFor
        <3> QED
            BY <1>7, <3>2
    <2>4. Closed(D, m.waits)
        <3>1. \A w \in m.waits : \E q \in 1..n : w \in ms[q].waits
            BY <1>4, <1>6, WaitsOfParts
        <3>2. \A q \in 1..n : Closed(D, ms[q].waits)
            BY <2>1 DEF WaitsFor
        <3> QED
            BY <3>1, <3>2 DEF Closed
    <2> QED
        BY <2>2, <2>3, <2>4 DEF WaitsFor
<1> QED
    BY <1>9, <1>10, <1>11, <1>12 DEF Faithful, c, m

\* Where a step of a chain has begun, the steps before it are over.
LEMMA StepsInTurn ==
    ASSUME NEW n \in Nat \ {0}, NEW cs, NEW ms, FaithfulParts(n, cs, ms, ChainLinks(cs)),
           NEW D \in SUBSET Nat, Runs(D, Together(cs, ChainLinks(cs)))
    PROVE  \A q \in 1..n : D \cap MeantKeys(ms[q]) # {} =>
              \A p \in 1..n : p < q => MeantKeys(ms[p]) \subseteq D
<1> DEFINE W == ChainLinks(cs)
           S == {q \in 1..n : D \cap MeantKeys(ms[q]) # {} =>
                    \A p \in 1..n : p < q => MeantKeys(ms[p]) \subseteq D}
<1>1. \A q \in 1..n : /\ WaitsFor(cs[q], ms[q], D)
                      /\ D \cap MeantKeys(ms[q]) # {} => W[q] \subseteq D
    BY PartsRun
<1>2. \A q \in 1..n : q # 1 => W[q] = cs[q - 1].leaves
    BY DEF FaithfulParts, ChainLinks, Previous
<1>3. \A q \in 1..n : MeantKeys(ms[q]) # {}
    BY DEF FaithfulParts, Faithful, ProperEnds
<1> HIDE DEF W
<1>4. ASSUME NEW q \in 1..n, \A p \in 1..(q - 1) : p \in S
      PROVE  q \in S
    <2> SUFFICES ASSUME D \cap MeantKeys(ms[q]) # {}, NEW p \in 1..n, p < q
                 PROVE  MeantKeys(ms[p]) \subseteq D
        OBVIOUS
    <2>1. q # 1 /\ q - 1 \in 1..n /\ q - 1 \in 1..(q - 1)
        OBVIOUS
    <2>2. cs[q - 1].leaves \subseteq D
        BY <1>1, <1>2, <2>1
    <2>3. MeantKeys(ms[q - 1]) \subseteq D
        BY <1>1, <2>1, <2>2 DEF WaitsFor
    <2>4. D \cap MeantKeys(ms[q - 1]) # {}
        BY <1>3, <2>1, <2>3
    <2>5. CASE p = q - 1
        BY <2>3, <2>5
    <2>6. CASE p # q - 1
        <3>1. p < q - 1
            BY <2>6
        <3> QED
            BY <1>4, <2>1, <2>4, <3>1
    <2> QED
        BY <2>5, <2>6
<1>5. \A q \in 1..n : q \in S
    <2> HIDE DEF S
    <2> QED
        BY <1>4, Positions
<1> QED
    BY <1>5

LEMMA InTurnFaithful ==
    ASSUME NEW n \in Nat \ {0}, NEW cs, NEW ms, FaithfulParts(n, cs, ms, ChainLinks(cs))
    PROVE  Faithful(InTurn(cs), InOrder(ms))
<1> DEFINE c == InTurn(cs)
           m == InOrder(ms)
           W == ChainLinks(cs)
<1>1. DOMAIN cs = 1..n /\ Len(cs) = n /\ 1 \in 1..n /\ n \in 1..n
    BY CompoundTypes DEF FaithfulParts
<1>2. c.nodes = Together(cs, W)
    BY CompoundNodes
<1>3. c.roots = cs[1].roots /\ c.leaves = cs[n].leaves
    BY <1>1 DEF InTurn
<1>4. m.places = PlacesOf(ms) /\ m.waits = Inside(ms) \cup Across(ms)
    BY DEF InOrder
<1>5. \A q \in 1..n : W[q] = IF q = 1 THEN {} ELSE cs[q - 1].leaves
    BY <1>1 DEF ChainLinks, Previous
<1> HIDE DEF c, m, W
<1>6. FaithfulParts(n, cs, ms, W)
    BY DEF W
<1>7. \A k : k \in MeantKeys(m) <=> \E q \in 1..n : k \in MeantKeys(ms[q])
    BY <1>4, <1>6, CompoundKeys
<1>8. \A q \in 1..n : ProperEnds(cs[q], ms[q])
    BY <1>6 DEF FaithfulParts, Faithful
<1>9. SameNodes(c, m)
    BY <1>2, <1>4, <1>6, TogetherSameNodes
<1>10. ProperEnds(c, m)
    <2>1. IsFiniteSet(MeantKeys(m))
        BY <1>4, <1>6, CompoundKeys
    <2>2. MeantKeys(m) # {}
        <3>1. MeantKeys(ms[1]) # {}
            BY <1>1, <1>8 DEF ProperEnds
        <3> QED
            BY <1>1, <1>7, <3>1
    <2>3. c.roots \subseteq MeantKeys(m) /\ c.leaves \subseteq MeantKeys(m)
        BY <1>1, <1>3, <1>7, <1>8 DEF ProperEnds
    <2> QED
        BY <2>1, <2>2, <2>3 DEF ProperEnds
<1>11. Justified(c, m)
    <2>1. \A p, q \in 1..n : p < q =>
             \A a \in MeantKeys(ms[p]), b \in MeantKeys(ms[q]) : <<a, b>> \in Across(ms)
        BY <1>6, WaitsOfParts
    <2>2. ASSUME NEW q \in 1..n, NEW a \in W[q], NEW k \in MeantKeys(ms[q])
          PROVE  <<a, k>> \in m.waits
        <3>1. q # 1 /\ a \in cs[q - 1].leaves
            BY <1>5, <2>2
        <3>2. q - 1 \in 1..n /\ q - 1 < q
            BY <3>1
        <3>3. a \in MeantKeys(ms[q - 1])
            BY <1>8, <3>1, <3>2 DEF ProperEnds
        <3>4. <<a, k>> \in Across(ms)
            BY <2>1, <3>2, <3>3
        <3> QED
            BY <1>4, <3>4
    <2>3. Inside(ms) \subseteq m.waits /\ m.waits \subseteq Inside(ms) \cup Across(ms)
        BY <1>4
    <2> QED
        BY <1>2, <1>4, <1>6, <2>2, <2>3, CompoundJustified
<1>12. ASSUME NEW D \in SUBSET Nat, Runs(D, c.nodes)
       PROVE  WaitsFor(c, m, D)
    <2>1. \A q \in 1..n : WaitsFor(cs[q], ms[q], D)
        BY <1>2, <1>6, <1>12, PartsRun
    <2>2. \A q \in 1..n : D \cap MeantKeys(ms[q]) # {} =>
             \A p \in 1..n : p < q => MeantKeys(ms[p]) \subseteq D
        BY <1>2, <1>12, StepsInTurn DEF W
    <2>3. \A q \in 1..n : MeantKeys(ms[q]) # {}
        BY <1>8 DEF ProperEnds
    <2>4. ASSUME D \cap MeantKeys(m) # {}
          PROVE  D \cap c.roots # {}
        <3>1. PICK q \in 1..n : D \cap MeantKeys(ms[q]) # {}
            BY <1>7, <2>4
        <3>2. D \cap MeantKeys(ms[1]) # {}
            <4>1. CASE q = 1
                BY <3>1, <4>1
            <4>2. CASE q # 1
                <5>1. MeantKeys(ms[1]) \subseteq D
                    BY <1>1, <2>2, <3>1, <4>2
                <5> QED
                    BY <1>1, <2>3, <5>1
            <4> QED
                BY <4>1, <4>2
        <3>3. D \cap cs[1].roots # {}
            BY <1>1, <2>1, <3>2 DEF WaitsFor
        <3> QED
            BY <1>3, <3>3
    <2>5. ASSUME c.leaves \subseteq D
          PROVE  MeantKeys(m) \subseteq D
        <3>1. MeantKeys(ms[n]) \subseteq D
            BY <1>1, <1>3, <2>1, <2>5 DEF WaitsFor
        <3>2. D \cap MeantKeys(ms[n]) # {}
            BY <1>1, <2>3, <3>1
        <3>3. \A p \in 1..n : p < n => MeantKeys(ms[p]) \subseteq D
            BY <1>1, <2>2, <3>2
        <3>4. \A p \in 1..n : p < n \/ p = n
            OBVIOUS
        <3> QED
            BY <1>7, <3>1, <3>3, <3>4
    <2>6. Closed(D, m.waits)
        <3> SUFFICES ASSUME NEW w \in m.waits, w[2] \in D
                     PROVE  w[1] \in D
            BY DEF Closed
        <3>1. CASE w \in Inside(ms)
            <4>1. PICK q \in 1..n : w \in ms[q].waits
                BY <1>6, <3>1, WaitsOfParts
            <4>2. Closed(D, ms[q].waits)
                BY <2>1 DEF WaitsFor
            <4> QED
                BY <4>1, <4>2 DEF Closed
        <3>2. CASE w \in Across(ms)
            <4>1. PICK p, q \in 1..n :
                     p < q /\ w[1] \in MeantKeys(ms[p]) /\ w[2] \in MeantKeys(ms[q])
                BY <1>6, <3>2, WaitsOfParts
            <4>2. MeantKeys(ms[p]) \subseteq D
                BY <2>2, <4>1
            <4> QED
                BY <4>1, <4>2
        <3> QED
            BY <1>4, <3>1, <3>2
    <2> QED
        BY <2>4, <2>5, <2>6 DEF WaitsFor
<1> QED
    BY <1>9, <1>10, <1>11, <1>12 DEF Faithful, c, m

\* So every object is compiled to what it means.
LEMMA ObjectsFaithful ==
    ASSUME NEW e, IsExpression(e), ~Raises(e)
    PROVE  \A i \in 1..Len(e) : Faithful(Compiled(e)[i], Meanings(e)[i])
<1> DEFINE S == {i \in 1..Len(e) : Faithful(Compiled(e)[i], Meanings(e)[i])}
<1>1. Len(e) \in Nat
    BY DEF IsExpression
<1>2. /\ Compiled(e) \in [1..Len(e) -> Compilations]
      /\ \A i \in 1..Len(e) : Compiled(e)[i] = CompileObject(e[i], Compiled(e))
    BY CompiledEquation
<1>3. /\ Meanings(e) \in [1..Len(e) -> AllMeanings]
      /\ \A i \in 1..Len(e) : Meanings(e)[i] = MeaningOf(e[i], Meanings(e))
    BY MeaningsEquation
<1>4. ASSUME NEW i \in 1..Len(e), \A j \in 1..(i - 1) : j \in S
      PROVE  Faithful(Compiled(e)[i], Meanings(e)[i])
    <2>1. CASE IsLeaf(e[i])
        <3>1. LeafKeys(e[i]) # {} /\ IsFiniteSet(LeafKeys(e[i]))
            BY <2>1, ObjectFacts
        <3>2. Compiled(e)[i] = CompiledLeaf(e[i])
            BY <1>2, <2>1, CompileObjectCases
        <3>3. Meanings(e)[i] = [places |-> {<<>>} \X LeafKeys(e[i]),
                                waits |-> LeafDeps(e[i]) \X LeafKeys(e[i])]
            BY <1>3, <2>1, MeaningCases
        <3> QED
            BY <2>1, <3>1, <3>2, <3>3, LeafFaithful
    <2>2. CASE ~IsLeaf(e[i])
        <3> DEFINE cs == PartsOf(e[i], Compiled(e))
                   ms == PartsOf(e[i], Meanings(e))
        <3>1. PICK n \in Nat \ {0} : n = Len(e[i].parts)
            BY <2>2, ObjectFacts
        <3>2. /\ cs \in [1..n -> Compilations]
              /\ \A q \in 1..n : /\ e[i].parts[q] \in 1..(i - 1)
                                 /\ cs[q] = Compiled(e)[e[i].parts[q]]
            <4>1. Compiled(e) \in [1..Len(e) -> Compilations]
                BY <1>2
            <4>2. cs \in [1..Len(e[i].parts) -> Compilations]
                BY <2>2, <4>1, PartsFacts
            <4>3. \A q \in 1..Len(e[i].parts) : e[i].parts[q] \in 1..(i - 1)
                BY <2>2, <4>1, PartsFacts
            <4>4. \A q \in 1..Len(e[i].parts) : cs[q] = Compiled(e)[e[i].parts[q]]
                BY <2>2, ObjectFacts DEF PartsOf
            <4> QED
                BY <3>1, <4>2, <4>3, <4>4
        <3>3. /\ ms \in [1..n -> AllMeanings]
              /\ \A q \in 1..n : ms[q] = Meanings(e)[e[i].parts[q]]
            <4>1. Meanings(e) \in [1..Len(e) -> AllMeanings]
                BY <1>3
            <4>2. ms \in [1..Len(e[i].parts) -> AllMeanings]
                BY <2>2, <4>1, PartsFacts
            <4>3. \A q \in 1..Len(e[i].parts) : ms[q] = Meanings(e)[e[i].parts[q]]
                BY <2>2, ObjectFacts DEF PartsOf
            <4> QED
                BY <3>1, <4>2, <4>3
        <3>4. Compiled(e)[i] = IF e[i].op = "group" THEN Beside(cs) ELSE InTurn(cs)
            BY <1>2, <2>2, CompileObjectCases
        <3>5. Meanings(e)[i] = IF e[i].op = "group" THEN Abreast(ms) ELSE InOrder(ms)
            BY <1>3, <2>2, MeaningCases
        <3> HIDE DEF cs, ms
        <3>6. \A q \in 1..n : Faithful(cs[q], ms[q])
            BY <1>4, <3>2, <3>3
        <3>7. NoLinks(cs) \in [1..n -> SUBSET Nat] /\ ChainLinks(cs) \in [1..n -> SUBSET Nat]
            BY <3>2, CompoundTypes
        <3>8. FaithfulParts(n, cs, ms, NoLinks(cs)) /\ FaithfulParts(n, cs, ms, ChainLinks(cs))
            BY <3>2, <3>3, <3>6, <3>7 DEF FaithfulParts
        <3>9. Faithful(Beside(cs), Abreast(ms)) /\ Faithful(InTurn(cs), InOrder(ms))
            BY <3>8, BesideFaithful, InTurnFaithful
        <3> QED
            BY <3>4, <3>5, <3>9
    <2> QED
        BY <2>1, <2>2
<1>5. \A i \in 1..Len(e) : (\A j \in 1..(i - 1) : j \in S) => i \in S
    BY <1>4
<1>6. \A i \in 1..Len(e) : i \in S
    <2> HIDE DEF S
    <2> QED
        BY <1>1, <1>5, Positions
<1> QED
    BY <1>6

-----------------------------------------------------------------------------
(* The whole compiler.                                                      *)

LEMMA ExpressionFaithful ==
    ASSUME NEW e, IsExpression(e), ~Raises(e)
    PROVE  /\ CompileExpr(e) \in Compilations
           /\ Meaning(e) \in AllMeanings
           /\ Faithful(CompileExpr(e), Meaning(e))
<1>1. Len(e) \in 1..Len(e)
    BY DEF IsExpression
<1>2. Compiled(e) \in [1..Len(e) -> Compilations] /\ Meanings(e) \in [1..Len(e) -> AllMeanings]
    BY CompiledEquation, MeaningsEquation
<1>3. Faithful(Compiled(e)[Len(e)], Meanings(e)[Len(e)])
    BY <1>1, ObjectsFaithful
<1> QED
    BY <1>1, <1>2, <1>3 DEF CompileExpr, Meaning

\* The dependencies as the topological sort gets them.
DepsOf(nodes) == [k \in Keys(nodes) |-> NodeOf(nodes, k).deps]

LEMMA KeysMeant ==
    ASSUME NEW c \in Compilations, NEW m \in AllMeanings, Faithful(c, m)
    PROVE  /\ Keys(c.nodes) = MeantKeys(m)
           /\ Keys(c.nodes) \in SUBSET Nat
           /\ IsFiniteSet(Keys(c.nodes))
           /\ Keys(c.nodes) # {}
<1>1. SameNodes(c, m) /\ ProperEnds(c, m)
    BY DEF Faithful
<1>2. ASSUME NEW x \in c.nodes
      PROVE  x.key \in MeantKeys(m)
    <2>1. <<x.at, x.key>> \in m.places
        BY <1>1 DEF SameNodes
    <2>2. <<x.at, x.key>>[2] = x.key
        OBVIOUS
    <2> QED
        BY <2>1, <2>2 DEF MeantKeys
<1>3. ASSUME NEW p \in m.places
      PROVE  p[2] \in Keys(c.nodes)
    BY <1>1 DEF SameNodes, Keys
<1>4. Keys(c.nodes) = MeantKeys(m)
    BY <1>2, <1>3 DEF Keys, MeantKeys
<1>5. Keys(c.nodes) \in SUBSET Nat
    BY DEF Compilations, CompiledNodes, Keys
<1> QED
    BY <1>1, <1>4, <1>5 DEF ProperEnds

\* Nodes may have run when they do not wait for others.
LEMMA RunsIsClosed ==
    ASSUME NEW c \in Compilations, NEW m \in AllMeanings, Faithful(c, m), NEW D \in SUBSET Nat
    PROVE  Runs(D, c.nodes) <=> Closed(D, m.waits)
<1>1. ASSUME Runs(D, c.nodes)
      PROVE  Closed(D, m.waits)
    BY <1>1 DEF Faithful, WaitsFor
<1>2. ASSUME Closed(D, m.waits), NEW x \in c.nodes, x.key \in D, NEW d \in x.deps
      PROVE  d \in D
    <2>1. <<d, x.key>> \in m.waits
        BY DEF Faithful, Justified
    <2>2. <<d, x.key>>[1] = d /\ <<d, x.key>>[2] = x.key
        OBVIOUS
    <2> QED
        BY <1>2, <2>1, <2>2 DEF Closed
<1> QED
    BY <1>1, <1>2 DEF Runs

LEMMA DepsGraph ==
    ASSUME NEW c \in Compilations, NEW m \in AllMeanings, Faithful(c, m),
           NoDuplicates(c.nodes), KnownDependencies(c.nodes)
    PROVE  /\ Graph(DepsOf(c.nodes))
           /\ DOMAIN DepsOf(c.nodes) = Keys(c.nodes)
           /\ \A x \in c.nodes : /\ x.key \in Keys(c.nodes)
                                 /\ NodeOf(c.nodes, x.key) = x
                                 /\ DepsOf(c.nodes)[x.key] = x.deps
           /\ \A k \in Keys(c.nodes) : \E x \in c.nodes : x.key = k
<1>1. \A k \in Keys(c.nodes) : \E x \in c.nodes : x.key = k
    BY DEF Keys
<1>2. ASSUME NEW x \in c.nodes
      PROVE  NodeOf(c.nodes, x.key) = x
    BY DEF NodeOf, NoDuplicates
<1>3. \A x \in c.nodes : x.key \in Keys(c.nodes)
    BY DEF Keys
<1>4. \A x \in c.nodes : DepsOf(c.nodes)[x.key] = x.deps
    BY <1>2, <1>3 DEF DepsOf
<1>5. DOMAIN DepsOf(c.nodes) = Keys(c.nodes)
    BY DEF DepsOf
<1>6. DepsOf(c.nodes) \in [Keys(c.nodes) -> SUBSET Keys(c.nodes)]
    <2>1. \A k \in Keys(c.nodes) : NodeOf(c.nodes, k).deps \in SUBSET Keys(c.nodes)
        BY <1>1, <1>2 DEF KnownDependencies
    <2> QED
        BY <2>1 DEF DepsOf
<1>7. Graph(DepsOf(c.nodes))
    BY <1>5, <1>6, KeysMeant DEF Graph
<1> QED
    BY <1>1, <1>2, <1>3, <1>4, <1>5, <1>7

\* What a node waits for comes before it in the plan.
LEMMA WaitsInOrder ==
    ASSUME NEW c \in Compilations, NEW m \in AllMeanings, Faithful(c, m),
           NoDuplicates(c.nodes), KnownDependencies(c.nodes), NEW q, q = PlanOrder(c.nodes)
    PROVE  \A i, j \in 1..Len(q) : <<q[i], q[j]>> \in m.waits => i < j
<1> DEFINE nodes == c.nodes
           deps == DepsOf(nodes)
<1>1. q = TopologicalOrder(deps)
    BY DEF PlanOrder, DepsOf
<1>2. /\ Graph(deps)
      /\ DOMAIN deps = Keys(nodes)
      /\ \A x \in nodes : x.key \in Keys(nodes) /\ deps[x.key] = x.deps
    BY DepsGraph
<1> HIDE DEF deps
<1>3. q \in Seq(Keys(nodes)) /\ Distinct(q) /\ DependenciesFirst(deps, q)
    BY <1>1, <1>2, OrderFacts
<1>4. Len(q) \in Nat /\ q \in [1..Len(q) -> Keys(nodes)] /\ Keys(nodes) \in SUBSET Nat
    BY <1>3, KeysMeant
<1> SUFFICES ASSUME NEW i \in 1..Len(q), NEW j \in 1..Len(q), <<q[i], q[j]>> \in m.waits
             PROVE  i < j
    OBVIOUS
<1> DEFINE D == Taken(q, j)
<1>5. \A k : k \in D <=> \E s \in 1..Len(q) : s <= j /\ k = q[s]
    BY DEF Taken
<1> HIDE DEF D
<1>6. D \in SUBSET Nat
    BY <1>4, <1>5
<1>7. Runs(D, nodes)
    <2> SUFFICES ASSUME NEW x \in nodes, x.key \in D, NEW d \in x.deps
                 PROVE  d \in D
        BY DEF Runs
    <2>1. PICK s \in 1..Len(q) : s <= j /\ x.key = q[s]
        BY <1>5
    <2>2. d \in deps[q[s]]
        BY <1>2, <2>1
    <2>3. PICK t \in 1..Len(q) : t < s /\ q[t] = d
        BY <1>3, <2>2 DEF DependenciesFirst
    <2>4. t <= j
        BY <1>4, <2>1, <2>3
    <2> QED
        BY <1>5, <2>3, <2>4
<1>8. Closed(D, m.waits)
    BY <1>6, <1>7, RunsIsClosed
<1>9. q[j] \in D
    BY <1>4, <1>5
<1>10. q[i] \in D
    <2>1. <<q[i], q[j]>>[1] = q[i] /\ <<q[i], q[j]>>[2] = q[j]
        OBVIOUS
    <2> QED
        BY <1>8, <1>9, <2>1 DEF Closed
<1>11. i <= j
    <2>1. PICK s \in 1..Len(q) : s <= j /\ q[i] = q[s]
        BY <1>5, <1>10
    <2>2. i = s
        BY <1>3, <2>1 DEF Distinct
    <2> QED
        BY <2>1, <2>2
<1>12. i # j
    <2>1. SUFFICES ASSUME i = j PROVE FALSE
        OBVIOUS
    <2> DEFINE w == <<q[i], q[j]>>
               k == q[i]
    <2>2. w \in m.waits /\ w[1] = k /\ w[2] = k
        BY <2>1
    <2> HIDE DEF w
    <2>3. \/ \E x \in nodes : x.key = k /\ k \in x.deps
          \/ \E p, r \in m.places : p # r /\ p[2] = k /\ r[2] = k
        BY <2>2 DEF Faithful, Justified
    <2>4. ASSUME NEW x \in nodes, x.key = k, k \in x.deps
          PROVE  FALSE
        <3>1. k \in deps[q[i]]
            BY <1>2, <2>4
        <3>2. PICK t \in 1..Len(q) : t < i /\ q[t] = k
            BY <1>3, <3>1 DEF DependenciesFirst
        <3>3. t = i
            BY <1>3, <3>2 DEF Distinct
        <3> QED
            BY <1>4, <3>2, <3>3
    <2>5. ASSUME NEW p \in m.places, NEW r \in m.places, p # r, p[2] = k, r[2] = k
          PROVE  FALSE
        <3>1. PICK x \in nodes : x.at = p[1] /\ x.key = p[2]
            BY DEF Faithful, SameNodes
        <3>2. PICK y \in nodes : y.at = r[1] /\ y.key = r[2]
            BY DEF Faithful, SameNodes
        <3>3. x = y
            BY <2>5, <3>1, <3>2 DEF NoDuplicates
        <3>4. p = <<p[1], p[2]>> /\ r = <<r[1], r[2]>>
            BY DEF AllMeanings
        <3> QED
            BY <2>5, <3>1, <3>2, <3>3, <3>4
    <2> QED
        BY <2>3, <2>4, <2>5
<1> QED
    BY <1>4, <1>11, <1>12

\* The compiler accepts an expression when it is well-formed: every check of
\* compile_workflow and _topological_order is needed, and no more are.
LEMMA AcceptedIsWellFormed ==
    ASSUME NEW e, IsExpression(e), ~Raises(e), NEW maxNodes
    PROVE  Accepted(CompileExpr(e).nodes, maxNodes) <=> WellFormed(e, maxNodes)
<1> DEFINE c == CompileExpr(e)
           m == Meaning(e)
           K == MeantKeys(m)
           deps == DepsOf(c.nodes)
           q == PlanOrder(c.nodes)
<1>1. c \in Compilations /\ m \in AllMeanings /\ Faithful(c, m)
    BY ExpressionFaithful
<1> HIDE DEF c, m
<1>2. Keys(c.nodes) = K /\ K \in SUBSET Nat /\ IsFiniteSet(K)
    BY <1>1, KeysMeant
<1>3. q = TopologicalOrder(deps)
    BY DEF PlanOrder, DepsOf
<1> HIDE DEF deps, q
<1>4. SameNodes(c, m) /\ Justified(c, m)
    BY <1>1 DEF Faithful
<1>5. ASSUME NoDuplicates(c.nodes), KnownDependencies(c.nodes)
      PROVE  /\ Graph(deps)
             /\ DOMAIN deps = K
             /\ \A x \in c.nodes : x.key \in K /\ deps[x.key] = x.deps
             /\ \A k \in K : \E x \in c.nodes : x.key = k
    BY <1>1, <1>2, <1>5, DepsGraph DEF deps
<1>6. NoDuplicates(c.nodes) <=> \A p, r \in m.places : p[2] = r[2] => p = r
    <2>1. ASSUME NoDuplicates(c.nodes), NEW p \in m.places, NEW r \in m.places, p[2] = r[2]
          PROVE  p = r
        <3>1. PICK x \in c.nodes : x.at = p[1] /\ x.key = p[2]
            BY <1>4 DEF SameNodes
        <3>2. PICK y \in c.nodes : y.at = r[1] /\ y.key = r[2]
            BY <1>4 DEF SameNodes
        <3>3. x = y
            BY <2>1, <3>1, <3>2 DEF NoDuplicates
        <3>4. p = <<p[1], p[2]>> /\ r = <<r[1], r[2]>>
            BY <1>1 DEF AllMeanings
        <3> QED
            BY <2>1, <3>1, <3>2, <3>3, <3>4
    <2>2. ASSUME \A p, r \in m.places : p[2] = r[2] => p = r,
                 NEW x \in c.nodes, NEW y \in c.nodes, x.key = y.key
          PROVE  x = y
        <3> DEFINE p == <<x.at, x.key>>
                   r == <<y.at, y.key>>
        <3>1. p \in m.places /\ r \in m.places
            BY <1>4 DEF SameNodes
        <3>2. p[1] = x.at /\ p[2] = x.key /\ r[1] = y.at /\ r[2] = y.key
            OBVIOUS
        <3> HIDE DEF p, r
        <3>3. p = r
            BY <2>2, <3>1, <3>2
        <3>4. x.at = y.at
            BY <3>2, <3>3
        <3> QED
            BY <1>4, <2>2, <3>4 DEF SameNodes
    <2> QED
        BY <2>1, <2>2 DEF NoDuplicates
<1>7. KnownDependencies(c.nodes) <=> \A w \in m.waits : w[1] \in K
    <2>1. ASSUME KnownDependencies(c.nodes), NEW w \in m.waits
          PROVE  w[1] \in K
        BY <1>2, <1>4, <2>1 DEF Justified, KnownDependencies
    <2>2. ASSUME \A w \in m.waits : w[1] \in K, NEW x \in c.nodes, NEW d \in x.deps
          PROVE  d \in Keys(c.nodes)
        <3>1. <<d, x.key>> \in m.waits /\ <<d, x.key>>[1] = d
            BY <1>4 DEF Justified
        <3> QED
            BY <1>2, <2>2, <3>1
    <2> QED
        BY <2>1, <2>2 DEF KnownDependencies
<1>8. ASSUME NoDuplicates(c.nodes), KnownDependencies(c.nodes), Len(q) = Cardinality(K),
             NEW C \in SUBSET K, C # {}
      PROVE  \E k \in C : \A l \in C : <<l, k>> \notin m.waits
    <2>1. Graph(deps) /\ DOMAIN deps = K
        BY <1>5, <1>8
    <2>2. q \in Seq(K) /\ \A k \in K : \E i \in 1..Len(q) : q[i] = k
        BY <1>3, <1>8, <2>1, OrderFacts, OrderLength DEF Queued
    <2> DEFINE S == {i \in 1..Len(q) : q[i] \in C}
    <2>3. S # {} /\ S \subseteq Nat
        BY <1>8, <2>2
    <2>4. PICK n \in S : \A i \in S : n <= i
        <3> HIDE DEF S
        <3> QED
            BY <2>3, HasLeast
    <2>5. n \in 1..Len(q) /\ q[n] \in C
        BY <2>4
    <2>6. ASSUME NEW l \in C, <<l, q[n]>> \in m.waits
          PROVE  FALSE
        <3>1. PICK i \in 1..Len(q) : q[i] = l
            BY <1>8, <2>2
        <3>2. i < n
            BY <1>1, <1>8, <2>5, <2>6, <3>1, WaitsInOrder DEF q
        <3> QED
            BY <2>2, <2>4, <2>6, <3>1, <3>2
    <2> QED
        BY <2>5, <2>6
<1>9. ASSUME NoDuplicates(c.nodes), KnownDependencies(c.nodes),
             \A C \in SUBSET K : C # {} => \E k \in C : \A l \in C : <<l, k>> \notin m.waits
      PROVE  Len(q) = Cardinality(K)
    <2>1. /\ Graph(deps)
          /\ DOMAIN deps = K
          /\ \A x \in c.nodes : x.key \in K /\ deps[x.key] = x.deps
          /\ \A k \in K : \E x \in c.nodes : x.key = k
        BY <1>5, <1>9
    <2>2. \A k \in K : \A d \in deps[k] : <<d, k>> \in m.waits
        BY <1>4, <2>1 DEF Justified
    <2>3. Acyclic(deps)
        <3> SUFFICES ASSUME NEW C \in SUBSET K, C # {}
                     PROVE  \E k \in C : deps[k] \cap C = {}
            BY <2>1 DEF Acyclic
        <3>1. PICK k \in C : \A l \in C : <<l, k>> \notin m.waits
            BY <1>9
        <3>2. \A d \in deps[k] : d \notin C
            BY <2>2, <3>1
        <3> QED
            BY <3>2
    <2> QED
        BY <1>3, <2>1, <2>3, OrderComplete
<1>10. Accepted(c.nodes, maxNodes) <=>
          /\ NoDuplicates(c.nodes)
          /\ KnownDependencies(c.nodes)
          /\ Len(q) = Cardinality(K)
          /\ Cardinality(K) <= maxNodes
    BY <1>2 DEF Accepted, q
<1>11. WellFormed(e, maxNodes) <=>
          /\ \A p, r \in m.places : p[2] = r[2] => p = r
          /\ Cardinality(K) <= maxNodes
          /\ \A w \in m.waits : w[1] \in K
          /\ \A C \in SUBSET K : C # {} => \E k \in C : \A l \in C : <<l, k>> \notin m.waits
    BY DEF WellFormed, m
<1>12. Accepted(c.nodes, maxNodes) <=> WellFormed(e, maxNodes)
    <2>1. ASSUME Accepted(c.nodes, maxNodes) PROVE WellFormed(e, maxNodes)
        BY <1>6, <1>7, <1>8, <1>10, <1>11, <2>1
    <2>2. ASSUME WellFormed(e, maxNodes) PROVE Accepted(c.nodes, maxNodes)
        BY <1>6, <1>7, <1>9, <1>10, <1>11, <2>2
    <2> QED
        BY <2>1, <2>2
<1> QED
    BY <1>12 DEF c

\* An accepted plan has every key once, in the order of the topological sort.
LEMMA FrozenFacts ==
    ASSUME NEW c \in Compilations, NEW m \in AllMeanings, Faithful(c, m), NEW maxNodes,
           Accepted(c.nodes, maxNodes), NEW q, q = PlanOrder(c.nodes), NEW f, f = Frozen(c.nodes)
    PROVE  /\ Len(q) \in Nat
           /\ DOMAIN f = 1..Len(q)
           /\ f # <<>>
           /\ Distinct(q)
           /\ \A k \in MeantKeys(m) : \E i \in 1..Len(q) : q[i] = k
           /\ \A i \in 1..Len(q) : q[i] \in MeantKeys(m) /\ f[i] \in c.nodes /\ f[i].key = q[i]
           /\ \A x \in c.nodes : \E i \in 1..Len(q) : f[i] = x
<1> DEFINE K == MeantKeys(m)
           deps == DepsOf(c.nodes)
<1>1. /\ NoDuplicates(c.nodes)
      /\ KnownDependencies(c.nodes)
      /\ Len(q) = Cardinality(Keys(c.nodes))
    BY DEF Accepted
<1>2. Keys(c.nodes) = K /\ K \in SUBSET Nat /\ IsFiniteSet(K) /\ K # {}
    BY KeysMeant
<1>3. /\ Graph(deps)
      /\ DOMAIN deps = K
      /\ \A x \in c.nodes : x.key \in K /\ NodeOf(c.nodes, x.key) = x
      /\ \A k \in K : \E x \in c.nodes : x.key = k
    BY <1>1, <1>2, DepsGraph
<1>4. q = TopologicalOrder(deps)
    BY DEF PlanOrder, DepsOf
<1> HIDE DEF deps
<1>5. q \in Seq(K) /\ Distinct(q)
    BY <1>3, <1>4, OrderFacts
<1>6. \A k \in K : \E i \in 1..Len(q) : q[i] = k
    BY <1>1, <1>2, <1>3, <1>4, OrderLength DEF Queued
<1>7. Len(q) \in Nat /\ DOMAIN q = 1..Len(q) /\ q \in [1..Len(q) -> K]
    BY <1>5
<1>8. f = [i \in 1..Len(q) |-> NodeOf(c.nodes, q[i])]
    BY <1>7 DEF Frozen
<1>9. \A i \in 1..Len(q) : q[i] \in K /\ f[i] \in c.nodes /\ f[i].key = q[i]
    <2> SUFFICES ASSUME NEW i \in 1..Len(q)
                 PROVE  q[i] \in K /\ f[i] \in c.nodes /\ f[i].key = q[i]
        OBVIOUS
    <2>1. q[i] \in K
        BY <1>7
    <2>2. PICK x \in c.nodes : x.key = q[i]
        BY <1>3, <2>1
    <2>3. f[i] = x
        BY <1>3, <1>8, <2>2
    <2> QED
        BY <2>1, <2>2, <2>3
<1>10. ASSUME NEW x \in c.nodes
       PROVE  \E i \in 1..Len(q) : f[i] = x
    <2>1. PICK i \in 1..Len(q) : q[i] = x.key
        BY <1>3, <1>6
    <2>2. f[i] = x
        BY <1>3, <1>8, <2>1
    <2> QED
        BY <2>2
<1>11. f # <<>>
    <2>1. PICK k \in K : TRUE
        BY <1>2
    <2>2. Len(q) # 0
        BY <1>6, <1>7
    <2>3. 1 \in DOMAIN f
        BY <1>7, <1>8, <2>2
    <2> QED
        BY <2>3
<1> QED
    BY <1>5, <1>6, <1>7, <1>8, <1>9, <1>10, <1>11

\* The compiler rejects exactly what cannot be run: an error for a duplicate key,
\* an unknown dependency, a cycle, too many nodes or an empty compound, and for
\* nothing else, whatever the expression.
THEOREM CompilerExact ==
    ASSUME NEW e, IsExpression(e), NEW maxNodes
    PROVE  CompileWorkflow(e, maxNodes) # Rejected <=> WellFormed(e, maxNodes)
<1>1. CASE Raises(e)
    BY <1>1 DEF CompileWorkflow, WellFormed
<1>2. CASE ~Raises(e)
    <2>1. Accepted(CompileExpr(e).nodes, maxNodes) <=> WellFormed(e, maxNodes)
        BY <1>2, AcceptedIsWellFormed
    <2>2. Accepted(CompileExpr(e).nodes, maxNodes) => Frozen(CompileExpr(e).nodes) # <<>>
        BY <1>2, ExpressionFaithful, FrozenFacts
    <2>3. CompileWorkflow(e, maxNodes) =
             IF Accepted(CompileExpr(e).nodes, maxNodes) THEN Frozen(CompileExpr(e).nodes) ELSE <<>>
        BY <1>2 DEF CompileWorkflow, Rejected
    <2> QED
        BY <2>1, <2>2, <2>3 DEF Rejected
<1> QED
    BY <1>1, <1>2

\* A frozen plan means what its expression means: linking only the roots of a step
\* to the leaves of the previous one loses no wait, and none is added.
THEOREM CompilerFaithful ==
    ASSUME NEW e, IsExpression(e), NEW maxNodes, CompileWorkflow(e, maxNodes) # Rejected
    PROVE  Implements(CompileWorkflow(e, maxNodes), e)
<1> DEFINE c == CompileExpr(e)
           m == Meaning(e)
           K == MeantKeys(m)
           f == CompileWorkflow(e, maxNodes)
           q == PlanOrder(c.nodes)
<1>1. ~Raises(e) /\ Accepted(c.nodes, maxNodes) /\ f = Frozen(c.nodes)
    BY DEF CompileWorkflow, Rejected
<1>2. c \in Compilations /\ m \in AllMeanings /\ Faithful(c, m)
    BY <1>1, ExpressionFaithful
<1> HIDE DEF c, m, f
<1>q. q = PlanOrder(c.nodes)
    OBVIOUS
<1> HIDE DEF q
<1>3. /\ Len(q) \in Nat
      /\ DOMAIN f = 1..Len(q)
      /\ Distinct(q)
      /\ \A k \in K : \E i \in 1..Len(q) : q[i] = k
      /\ \A i \in 1..Len(q) : q[i] \in K /\ f[i] \in c.nodes /\ f[i].key = q[i]
      /\ \A x \in c.nodes : \E i \in 1..Len(q) : f[i] = x
    <2>1. Len(q) \in Nat /\ DOMAIN f = 1..Len(q) /\ Distinct(q)
        BY <1>1, <1>2, <1>q, FrozenFacts
    <2>2. \A k \in K : \E i \in 1..Len(q) : q[i] = k
        BY <1>1, <1>2, <1>q, FrozenFacts
    <2>3. \A i \in 1..Len(q) : q[i] \in K /\ f[i] \in c.nodes /\ f[i].key = q[i]
        BY <1>1, <1>2, <1>q, FrozenFacts
    <2>4. \A x \in c.nodes : \E i \in 1..Len(q) : f[i] = x
        BY <1>1, <1>2, <1>q, FrozenFacts
    <2> QED
        BY <2>1, <2>2, <2>3, <2>4
<1>4. \A i, j \in DOMAIN f : f[i].key = f[j].key => i = j
    BY <1>3 DEF Distinct
<1>5. {f[i].key : i \in DOMAIN f} = K
    BY <1>3
<1>6. ASSUME NEW D \in SUBSET K
      PROVE  RunsTo(f, D) <=> Closed(D, m.waits)
    <2>1. RunsTo(f, D) <=> Runs(D, c.nodes)
        BY <1>3 DEF RunsTo, Runs
    <2>2. D \in SUBSET Nat
        BY <1>2, KeysMeant
    <2> QED
        BY <1>2, <2>1, <2>2, RunsIsClosed
<1>7. \A i, j \in DOMAIN f : <<f[i].key, f[j].key>> \in m.waits => i < j
    <2>1. \A i, j \in 1..Len(q) : <<q[i], q[j]>> \in m.waits => i < j
        BY <1>1, <1>2, <1>q, WaitsInOrder DEF Accepted
    <2> QED
        BY <1>3, <2>1
<1> QED
    BY <1>4, <1>5, <1>6, <1>7 DEF Implements, f, m
=============================================================================
