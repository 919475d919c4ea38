-------------------------- MODULE ValueIndexProofs --------------------------
(***************************************************************************)
(* Theorems about the value index of a group: for any valid patterns, any  *)
(* folded values and any number of readers, collect finds exactly the      *)
(* leaves that match, of those that had been added, while the writer goes  *)
(* on adding.  First what the operators of Numbers, Patterns and           *)
(* ValueIndex return, whatever their arguments: the sorted bounds and      *)
(* binary searches of the number index, the byte maps, the two ways to     *)
(* match a wildcard pattern, the simplified leaf of a pattern; then the    *)
(* inductive invariants and the steps.                                     *)
(***************************************************************************)
EXTENDS ValueIndex, FiniteSetTheorems, SequenceTheorems, WellFoundedInduction, TLAPS

-----------------------------------------------------------------------------
(* Natural numbers, and sequences that list a set.                         *)

\* A set of natural numbers has a smallest one: among the sets {m \in S : m < a},
\* a \in S, one is minimal.
LEMMA Smallest ==
    ASSUME NEW S \in SUBSET Nat, S # {}
    PROVE  \E a \in S : \A m \in S : a <= m
<1> DEFINE B(a) == {m \in S : m < a}
           T == {B(a) : a \in S}
           R == StrictSubsetOrdering(S)
<1>0. \A a \in S : a \in Nat
  OBVIOUS
<1>1. \A a \in S : IsFiniteSet(B(a))
  <2> SUFFICES ASSUME NEW a \in S PROVE IsFiniteSet(B(a))
    OBVIOUS
  <2>1. a \in Nat /\ B(a) \in SUBSET Nat
    BY <1>0
  <2>2. \A m \in B(a) : m <= a
    BY <1>0
  <2> HIDE DEF B
  <2> QED BY <2>1, <2>2, FS_BoundedSetOfNaturals
<1>2. T \subseteq FiniteSubsetsOf(S) /\ T # {}
  BY <1>1 DEF FiniteSubsetsOf
<1>3. PICK t \in T : \A u \in T : ~(<<u, t>> \in R)
  <2> HIDE DEF T, R
  <2>1. IsWellFoundedOn(R, FiniteSubsetsOf(S))
    BY FS_StrictSubsetOrderingWellFounded DEF R
  <2> QED BY <1>2, <2>1, WFMin
<1>4. PICK a \in S : t = B(a)
  OBVIOUS
<1>5. ASSUME NEW y \in S, y < a PROVE FALSE
  <2>1. \A m \in S : m < y => m < a
    BY <1>0, <1>5
  <2>2. B(y) \subseteq B(a)
    BY <2>1
  <2>3. y \in B(a) /\ y \notin B(y)
    BY <1>0, <1>5
  <2>4. <<B(y), B(a)>> \in R
    BY <2>2, <2>3 DEF StrictSubsetOrdering
  <2> QED BY <1>3, <1>4, <2>4
<1>6. \A y \in S : a <= y
  BY <1>0, <1>5
<1> QED BY <1>6

\* Induction over m..n, for a set: what holds of m, and of i if of i - 1.
LEMMA Induct ==
    ASSUME NEW m \in Nat, NEW n \in Nat, NEW T, m \in T,
           \A i \in m + 1..n : i - 1 \in T => i \in T
    PROVE  m..n \subseteq T
<1> SUFFICES ASSUME ~(m..n \subseteq T) PROVE FALSE
  OBVIOUS
<1> DEFINE S == {i \in m..n : i \notin T}
<1>1. S \in SUBSET Nat /\ S # {}
  OBVIOUS
<1>2. PICK a \in S : \A i \in S : a <= i
  BY <1>1, Smallest
<1>3. a \in m + 1..n /\ a - 1 \in m..n /\ ~(a <= a - 1)
  OBVIOUS
<1>4. a - 1 \in T
  BY <1>2, <1>3
<1> QED BY <1>3, <1>4

\* q has every element of S once.
Each(q, S) ==
    /\ q \in Seq(S)
    /\ \A e \in S : \E i \in 1..Len(q) : q[i] = e
    /\ \A i, j \in 1..Len(q) : q[i] = q[j] => i = j

\* Another element at the end.
LEMMA EachAppend ==
    ASSUME NEW S, NEW q, Each(q, S), NEW e, e \notin S
    PROVE  Each(Append(q, e), S \cup {e})
<1> DEFINE T == S \cup {e}
           a == Append(q, e)
<1>1. q \in Seq(T) /\ q \in Seq(S) /\ e \in T
  BY SeqMonotonic DEF Each
<1>2. /\ a \in Seq(T) /\ Len(a) = Len(q) + 1 /\ Len(q) \in Nat
      /\ \A i \in 1..Len(q) : a[i] = q[i]
      /\ a[Len(q) + 1] = e
  BY <1>1, AppendProperties, LenProperties
<1>3. \A i \in 1..Len(q) : q[i] \in S
  BY <1>1, ElementOfSeq
<1> HIDE DEF a
<1>4. ASSUME NEW d \in T PROVE \E i \in 1..Len(a) : a[i] = d
  <2>1. CASE d = e
    BY <1>2, <2>1
  <2>2. CASE d \in S
    <3>1. PICK i \in 1..Len(q) : q[i] = d
      BY <2>2 DEF Each
    <3>2. i \in 1..Len(a) /\ a[i] = d
      BY <1>2, <3>1
    <3> QED BY <3>2
  <2> QED BY <2>1, <2>2
<1>5. ASSUME NEW i \in 1..Len(a), NEW j \in 1..Len(a), a[i] = a[j]
      PROVE  i = j
  <2>1. (i \in 1..Len(q) \/ i = Len(q) + 1) /\ (j \in 1..Len(q) \/ j = Len(q) + 1)
    BY <1>2
  <2>2. CASE i \in 1..Len(q) /\ j \in 1..Len(q)
    BY <1>2, <1>5, <2>2 DEF Each
  <2> QED BY <1>2, <1>3, <1>5, <2>1, <2>2
<1> HIDE DEF T
<1>6. Each(a, T)
  BY <1>2, <1>4, <1>5 DEF Each
<1> QED BY <1>6 DEF T, a

\* One list after another.
LEMMA EachConcat ==
    ASSUME NEW S, NEW T, S \cap T = {}, NEW p, NEW q, Each(p, S), Each(q, T)
    PROVE  Each(p \o q, S \cup T)
<1> DEFINE U == S \cup T
           c == p \o q
<1>1. p \in Seq(S) /\ q \in Seq(T) /\ p \in Seq(U) /\ q \in Seq(U)
  BY SeqMonotonic DEF Each
<1>2. /\ c \in Seq(U) /\ Len(c) = Len(p) + Len(q) /\ Len(p) \in Nat /\ Len(q) \in Nat
      /\ \A i \in 1..Len(p) + Len(q) : c[i] = IF i <= Len(p) THEN p[i] ELSE q[i - Len(p)]
  BY <1>1, ConcatProperties, LenProperties
<1>3. (\A i \in 1..Len(p) : p[i] \in S) /\ (\A i \in 1..Len(q) : q[i] \in T)
  BY <1>1, ElementOfSeq
<1> HIDE DEF c
<1>4. ASSUME NEW d \in U PROVE \E i \in 1..Len(c) : c[i] = d
  <2>1. CASE d \in S
    <3>1. PICK i \in 1..Len(p) : p[i] = d
      BY <2>1 DEF Each
    <3> QED BY <1>2, <3>1
  <2>2. CASE d \in T
    <3>1. PICK i \in 1..Len(q) : q[i] = d
      BY <2>2 DEF Each
    <3>2. i + Len(p) \in 1..Len(c) /\ c[i + Len(p)] = q[i]
      BY <1>2
    <3> QED BY <3>1, <3>2
  <2> QED BY <2>1, <2>2
<1>5. ASSUME NEW i \in 1..Len(c), NEW j \in 1..Len(c), c[i] = c[j]
      PROVE  i = j
  <2>1. CASE i <= Len(p) /\ j <= Len(p)
    <3>1. i \in 1..Len(p) /\ j \in 1..Len(p) /\ p[i] = p[j]
      BY <1>2, <1>5, <2>1
    <3> QED BY <3>1 DEF Each
  <2>2. CASE i > Len(p) /\ j > Len(p)
    <3>1. i - Len(p) \in 1..Len(q) /\ j - Len(p) \in 1..Len(q) /\ q[i - Len(p)] = q[j - Len(p)]
      BY <1>2, <1>5, <2>2
    <3>2. i - Len(p) = j - Len(p)
      BY <3>1 DEF Each
    <3> QED BY <1>2, <3>2
  <2>3. CASE i <= Len(p) /\ j > Len(p)
    <3>1. i \in 1..Len(p) /\ j - Len(p) \in 1..Len(q) /\ c[i] = p[i] /\ c[j] = q[j - Len(p)]
      BY <1>2, <2>3
    <3> QED BY <1>3, <1>5, <3>1
  <2>4. CASE i > Len(p) /\ j <= Len(p)
    <3>1. j \in 1..Len(p) /\ i - Len(p) \in 1..Len(q) /\ c[j] = p[j] /\ c[i] = q[i - Len(p)]
      BY <1>2, <2>4
    <3> QED BY <1>3, <1>5, <3>1
  <2> QED BY <1>2, <2>1, <2>2, <2>3, <2>4
<1> HIDE DEF U
<1>6. Each(c, U)
  BY <1>2, <1>4, <1>5 DEF Each
<1> QED BY <1>6 DEF U, c

\* A part of a list.
LEMMA EachSub ==
    ASSUME NEW S, NEW q, Each(q, S), NEW m \in 1..Len(q) + 1, NEW n \in 0..Len(q)
    PROVE  Each(SubSeq(q, m, n), {q[i] : i \in m..n})
<1> DEFINE T == {q[i] : i \in m..n}
           c == SubSeq(q, m, n)
<1>1. Len(q) \in Nat
  BY LenProperties DEF Each
<1>2. /\ c \in Seq(T) /\ Len(c) = IF m <= n THEN n - m + 1 ELSE 0
      /\ \A i \in 1..n - m + 1 : c[i] = q[m + i - 1]
  <2>1. \A i \in m..n : q[i] \in T
    OBVIOUS
  <2>2. m \in Int /\ n \in Int
    BY <1>1
  <2> HIDE DEF T
  <2> QED BY <2>1, <2>2, SubSeqProperties
<1> HIDE DEF c
<1>3. ASSUME NEW d \in T PROVE \E i \in 1..Len(c) : c[i] = d
  <2>1. PICK i \in m..n : d = q[i]
    OBVIOUS
  <2>2. i - m + 1 \in 1..Len(c) /\ c[i - m + 1] = q[m + (i - m + 1) - 1] /\ m + (i - m + 1) - 1 = i
    BY <1>1, <1>2
  <2> QED BY <2>1, <2>2
<1>4. ASSUME NEW i \in 1..Len(c), NEW j \in 1..Len(c), c[i] = c[j]
      PROVE  i = j
  <2>1. m <= n /\ m + i - 1 \in 1..Len(q) /\ m + j - 1 \in 1..Len(q) /\ q[m + i - 1] = q[m + j - 1]
    BY <1>1, <1>2, <1>4, SMTT(30)
  <2>2. m + i - 1 = m + j - 1
    BY <2>1 DEF Each
  <2> QED BY <1>1, <1>2, <2>2
<1> HIDE DEF T
<1>5. Each(c, T)
  BY <1>2, <1>3, <1>4 DEF Each
<1> QED BY <1>5 DEF T, c

\* What a list of S has at its positions.
LEMMA EachIs ==
    ASSUME NEW S, NEW q, Each(q, S)
    PROVE  Len(q) \in Nat /\ q \in [1..Len(q) -> S] /\ S = {q[i] : i \in 1..Len(q)}
<1>1. q \in Seq(S) /\ Len(q) \in Nat /\ q \in [1..Len(q) -> S]
  BY LenProperties DEF Each
<1>2. \A i \in 1..Len(q) : q[i] \in S
  BY <1>1
<1>3. \A e \in S : \E i \in 1..Len(q) : q[i] = e
  BY DEF Each
<1> QED BY <1>1, <1>2, <1>3

\* The empty list.
LEMMA EachNone == Each(<< >>, {})
BY EmptySeq DEF Each

-----------------------------------------------------------------------------
(* Sorting and searching.                                                  *)

\* A step that never decreases never decreases over any distance.
LEMMA StepsAscend ==
    ASSUME NEW m \in Nat, NEW n \in Nat, NEW f \in [m..n -> Int],
           \A i \in m..n : i + 1 \in m..n => f[i] <= f[i + 1],
           NEW i \in m..n, NEW j \in i..n
    PROVE  f[i] <= f[j]
<1> DEFINE T == {k \in i..n : f[i] <= f[k]}
<1>1. i \in T /\ i \in Nat
  OBVIOUS
<1>2. ASSUME NEW k \in i + 1..n, k - 1 \in T PROVE k \in T
  <2>1. k - 1 \in m..n /\ (k - 1) + 1 = k /\ k \in m..n /\ k \in i..n
    BY <1>1
  <2>2. f[k - 1] <= f[k]
    BY <2>1
  <2>3. f[i] \in Int /\ f[k - 1] \in Int /\ f[k] \in Int /\ f[i] <= f[k - 1]
    BY <1>2, <2>1
  <2> QED BY <2>1, <2>2, <2>3
<1> HIDE DEF T
<1>3. i..n \subseteq T
  BY <1>1, <1>2, Induct
<1> QED BY <1>3 DEF T

\* An injection of 1..n into itself reaches every number.
LEMMA Permutation ==
    ASSUME NEW n \in Nat, NEW f \in [1..n -> 1..n],
           \A i, j \in 1..n : f[i] = f[j] => i = j
    PROVE  \A k \in 1..n : \E i \in 1..n : f[i] = k
<1>1. f \in Injection(1..n, 1..n)
  BY DEF Injection, IsInjective
<1>2. IsFiniteSet(1..n)
  BY FS_Interval
<1>3. f \in Surjection(1..n, 1..n)
  BY <1>1, <1>2, FS_Injection
<1> QED BY <1>3 DEF Surjection

\* The numbers up to n.
LEMMA CountUpTo ==
    ASSUME NEW n \in Nat
    PROVE  IsFiniteSet(1..n) /\ Cardinality(1..n) = n
<1>1. 1 \in Int /\ n \in Int
  OBVIOUS
<1>2. IsFiniteSet(1..n) /\ Cardinality(1..n) = IF 1 > n THEN 0 ELSE n - 1 + 1
  BY <1>1, FS_Interval
<1> QED BY <1>2

\* Entries in the order of their bounds.
Ascends(kind, q) == \A i, j \in 1..Len(q) : i < j => Bound(kind, q[i]) <= Bound(kind, q[j])

\* What SortFunc promises of t, made of q.
IsSorting(kind, q, t) ==
    /\ \A i \in 1..Len(q) - 1 : Bound(kind, t[i]) <= Bound(kind, t[i + 1])
    /\ \A e \in {q[i] : i \in 1..Len(q)} :
        Cardinality({i \in 1..Len(q) : t[i] = e}) = Cardinality({i \in 1..Len(q) : q[i] = e})

\* The entries of a list can be sorted: each takes the place that the number of
\* those before it tells.
LEMMA Sortable ==
    ASSUME NEW kind, NEW S, \A e \in S : Bound(kind, e) \in Int, NEW q, Each(q, S)
    PROVE  \E t \in [1..Len(q) -> {q[i] : i \in 1..Len(q)}] : IsSorting(kind, q, t)
<1> DEFINE n == Len(q)
           key == [i \in 1..n |-> Bound(kind, q[i])]
           Before(i, j) == key[i] < key[j] \/ (key[i] = key[j] /\ i <= j)
           B(j) == {i \in 1..n : Before(i, j)}
           rank == [j \in 1..n |-> Cardinality(B(j))]
<1>0. n \in Nat /\ q \in [1..n -> S]
  BY EachIs
<1>1. n \in Nat
  BY <1>0
<1>2. key \in [1..n -> Int]
  BY <1>0
<1>3. \A i \in 1..n : key[i] = Bound(kind, q[i])
  OBVIOUS
<1> HIDE DEF n, key
<1>4. ASSUME NEW j \in 1..n PROVE IsFiniteSet(B(j)) /\ rank[j] \in 1..n
  <2>1. IsFiniteSet(1..n) /\ Cardinality(1..n) = n
    BY <1>1, CountUpTo
  <2>2. B(j) \in SUBSET (1..n)
    OBVIOUS
  <2>3. IsFiniteSet(B(j)) /\ Cardinality(B(j)) <= n
    BY <2>1, <2>2, FS_Subset
  <2>4. j \in B(j)
    BY <1>2
  <2>5. Cardinality(B(j)) \in Nat /\ Cardinality(B(j)) # 0
    <3> HIDE DEF B
    <3> QED BY <2>3, <2>4, FS_CardinalityType, FS_EmptySet
  <2>6. rank[j] = Cardinality(B(j))
    OBVIOUS
  <2> HIDE DEF rank, B
  <2> QED BY <1>1, <2>3, <2>5, <2>6
<1>5. ASSUME NEW i \in 1..n, NEW j \in 1..n, Before(i, j), i # j
      PROVE  rank[i] < rank[j]
  <2>1. \A k \in B(i) : k \in B(j)
    <3> SUFFICES ASSUME NEW k \in 1..n, Before(k, i) PROVE Before(k, j)
      OBVIOUS
    <3>1. key[i] \in Int /\ key[j] \in Int /\ key[k] \in Int /\ i \in Int /\ j \in Int /\ k \in Int
      BY <1>1, <1>2
    <3> QED BY <1>5, <3>1
  <2>2. j \notin B(i) /\ j \in B(j)
    <3>1. key[i] \in Int /\ key[j] \in Int /\ i \in Int /\ j \in Int
      BY <1>1, <1>2
    <3>2. ~Before(j, i) /\ Before(j, j)
      BY <1>5, <3>1
    <3> HIDE DEF Before
    <3> QED BY <3>2
  <2>3. rank[i] = Cardinality(B(i)) /\ rank[j] = Cardinality(B(j))
    OBVIOUS
  <2>4. IsFiniteSet(B(i)) /\ IsFiniteSet(B(j)) /\ rank[i] \in Nat /\ rank[j] \in Nat
    <3> HIDE DEF B, rank
    <3> QED BY <1>1, <1>4
  <2> HIDE DEF B, rank
  <2>5. Cardinality(B(i)) <= Cardinality(B(j)) /\ Cardinality(B(i)) # Cardinality(B(j))
    BY <2>1, <2>2, <2>4, FS_Subset
  <2> QED BY <2>3, <2>4, <2>5
<1>6. ASSUME NEW i \in 1..n, NEW j \in 1..n PROVE Before(i, j) \/ Before(j, i)
  <2>1. key[i] \in Int /\ key[j] \in Int /\ i \in Int /\ j \in Int
    BY <1>1, <1>2
  <2> QED BY <2>1
<1>7. \A i, j \in 1..n : rank[i] = rank[j] => i = j
  <2> SUFFICES ASSUME NEW i \in 1..n, NEW j \in 1..n, rank[i] = rank[j], i # j PROVE FALSE
    OBVIOUS
  <2> HIDE DEF Before, rank
  <2>1. rank[i] \in Int /\ rank[j] \in Int
    <3>1. rank[i] \in 1..n /\ rank[j] \in 1..n
      BY <1>4
    <3> QED BY <1>1, <3>1
  <2> QED BY <1>5, <1>6, <2>1
<1>8. rank \in [1..n -> 1..n]
  BY <1>4
<1> HIDE DEF B, rank
<1>9. \A k \in 1..n : \E i \in 1..n : rank[i] = k
  BY <1>1, <1>7, <1>8, Permutation
<1> DEFINE at == [k \in 1..n |-> CHOOSE i \in 1..n : rank[i] = k]
           t == [k \in 1..n |-> q[at[k]]]
<1>10. \A k \in 1..n : at[k] \in 1..n /\ rank[at[k]] = k
  BY <1>9
<1> HIDE DEF at
<1>11. t \in [1..n -> {q[i] : i \in 1..n}]
  BY <1>0, <1>10
<1>12. ASSUME NEW k \in 1..n - 1 PROVE Bound(kind, t[k]) <= Bound(kind, t[k + 1])
  <2>1. k \in 1..n /\ k + 1 \in 1..n /\ ~(k + 1 <= k) /\ ~(k + 1 < k)
    BY <1>1
  <2>2. at[k] \in 1..n /\ at[k + 1] \in 1..n /\ rank[at[k]] = k /\ rank[at[k + 1]] = k + 1
    BY <1>10, <2>1
  <2>3. at[k] # at[k + 1]
    <3>1. k # k + 1
      BY <2>1
    <3> QED BY <2>2, <3>1
  <2>4. ~Before(at[k + 1], at[k])
    <3> HIDE DEF Before
    <3> QED BY <1>5, <2>1, <2>2, <2>3
  <2>5. key[at[k]] <= key[at[k + 1]]
    BY <1>2, <2>2, <2>4
  <2> QED BY <1>3, <2>1, <2>2, <2>5
<1>13. ASSUME NEW e \in {q[i] : i \in 1..n}
       PROVE  Cardinality({i \in 1..n : t[i] = e}) = Cardinality({i \in 1..n : q[i] = e})
  <2>1. PICK i \in 1..n : e = q[i]
    OBVIOUS
  <2>2. \A j \in 1..n : q[j] = e <=> j = i
    BY <2>1 DEF Each, n
  <2>3. {j \in 1..n : q[j] = e} = {i}
    BY <2>2
  <2>4. \A k \in 1..n : t[k] = e <=> k = rank[i]
    <3> SUFFICES ASSUME NEW k \in 1..n PROVE q[at[k]] = e <=> k = rank[i]
      OBVIOUS
    <3>1. at[k] \in 1..n /\ rank[at[k]] = k
      BY <1>10
    <3>2. q[at[k]] = e <=> at[k] = i
      BY <2>2, <3>1
    <3> QED BY <1>7, <3>1, <3>2
  <2>5. rank[i] \in 1..n
    BY <1>8
  <2>6. {k \in 1..n : t[k] = e} = {rank[i]}
    <3> HIDE DEF t
    <3> QED BY <2>4, <2>5
  <2>7. Cardinality({i}) = 1 /\ Cardinality({rank[i]}) = 1
    BY FS_Singleton
  <2> QED BY <2>3, <2>6, <2>7
<1> HIDE DEF t
<1>14. IsSorting(kind, q, t)
  BY <1>12, <1>13 DEF n, IsSorting
<1> QED BY <1>11, <1>14 DEF n

\* SortFunc sorts, and loses and doubles nothing.
LEMMA SortedByFits ==
    ASSUME NEW kind, NEW S, \A e \in S : Bound(kind, e) \in Int, NEW q, Each(q, S)
    PROVE  Each(SortedBy(kind, q), S) /\ Ascends(kind, SortedBy(kind, q))
<1> DEFINE n == Len(q)
           E == {q[i] : i \in 1..n}
           P(t) == IsSorting(kind, q, t)
           u == CHOOSE t \in [1..n -> E] : P(t)
<1>1. n \in Nat /\ q \in [1..n -> S] /\ S = E
  BY EachIs
<1>0. n \in Nat
  BY <1>1
<1>2. u \in [1..n -> E] /\ P(u)
  <2>1. \E t \in [1..n -> E] : P(t)
    BY Sortable
  <2> HIDE DEF P, E
  <2> QED BY <2>1
<1>3. SortedBy(kind, q) = u
  BY DEF SortedBy, IsSorting
<1>4. \A i, j \in 1..n : q[i] = q[j] => i = j
  BY DEF Each
<1> HIDE DEF u
<1>u. /\ \A i \in 1..n - 1 : Bound(kind, u[i]) <= Bound(kind, u[i + 1])
      /\ \A e \in E : Cardinality({i \in 1..n : u[i] = e}) = Cardinality({i \in 1..n : q[i] = e})
  BY <1>2 DEF IsSorting
<1> HIDE DEF n
<1>5. ASSUME NEW e \in S PROVE \E k \in 1..n : {i \in 1..n : u[i] = e} = {k}
  <2>1. PICK i \in 1..n : e = q[i]
    BY <1>1
  <2>2. {j \in 1..n : q[j] = e} = {i}
    BY <1>4, <2>1
  <2>3. Cardinality({j \in 1..n : u[j] = e}) = 1
    <3>1. Cardinality({i}) = 1
      BY FS_Singleton
    <3>2. Cardinality({j \in 1..n : u[j] = e}) = Cardinality({j \in 1..n : q[j] = e})
      BY <1>1, <1>u
    <3> QED BY <2>2, <3>1, <3>2
  <2>4. IsFiniteSet({j \in 1..n : u[j] = e})
    <3>1. IsFiniteSet(1..n)
      BY <1>0, CountUpTo
    <3>2. {j \in 1..n : u[j] = e} \in SUBSET (1..n)
      OBVIOUS
    <3> QED BY <3>1, <3>2, FS_Subset
  <2>5. PICK k : {j \in 1..n : u[j] = e} = {k}
    BY <2>3, <2>4, FS_Singleton
  <2>6. k \in 1..n
    BY <2>5
  <2> QED BY <2>5, <2>6
<1>6. u \in Seq(S) /\ Len(u) = n
  <2>1. u \in [1..n -> S]
    BY <1>1, <1>2
  <2> QED BY <1>0, <2>1, SeqDef
<1>7. \A e \in S : \E i \in 1..Len(u) : u[i] = e
  <2> SUFFICES ASSUME NEW e \in S PROVE \E i \in 1..n : u[i] = e
    BY <1>6
  <2>1. PICK k \in 1..n : {i \in 1..n : u[i] = e} = {k}
    BY <1>5
  <2> QED BY <2>1
<1>8. \A i, j \in 1..Len(u) : u[i] = u[j] => i = j
  <2> SUFFICES ASSUME NEW i \in 1..n, NEW j \in 1..n, u[i] = u[j] PROVE i = j
    BY <1>6
  <2>1. u[i] \in S
    BY <1>1, <1>2
  <2>2. PICK k \in 1..n : {m \in 1..n : u[m] = u[i]} = {k}
    BY <1>5, <2>1
  <2>3. i \in {m \in 1..n : u[m] = u[i]} /\ j \in {m \in 1..n : u[m] = u[i]}
    OBVIOUS
  <2> QED BY <2>2, <2>3
<1>9. Ascends(kind, u)
  <2> DEFINE f == [i \in 1..n |-> Bound(kind, u[i])]
  <2>1. f \in [1..n -> Int]
    BY <1>1, <1>2
  <2>2. \A i \in 1..n : i + 1 \in 1..n => f[i] <= f[i + 1]
    <3> SUFFICES ASSUME NEW i \in 1..n, i + 1 \in 1..n PROVE f[i] <= f[i + 1]
      OBVIOUS
    <3>1. i \in 1..n - 1
      BY <1>1
    <3> QED BY <1>u, <3>1
  <2> SUFFICES ASSUME NEW i \in 1..n, NEW j \in 1..n, i < j
               PROVE  Bound(kind, u[i]) <= Bound(kind, u[j])
    BY <1>6 DEF Ascends
  <2>3. f[i] = Bound(kind, u[i]) /\ f[j] = Bound(kind, u[j])
    OBVIOUS
  <2> HIDE DEF f
  <2>4. j \in i..n
    BY <1>1
  <2>5. f[i] <= f[j]
    BY <1>1, <2>1, <2>2, <2>4, StepsAscend
  <2> QED BY <2>3, <2>5
<1> QED BY <1>3, <1>6, <1>7, <1>8, <1>9 DEF Each

\* The merge takes all of s and of t, each in its order.
LEMMA MergedFits ==
    ASSUME NEW kind, NEW S, NEW T0, S \cap T0 = {}, \A e \in S \cup T0 : Bound(kind, e) \in Int,
           NEW s, NEW t, Each(s, S), Each(t, T0), Ascends(kind, s), Ascends(kind, t)
    PROVE  Each(Merged(kind, s, t), S \cup T0) /\ Ascends(kind, Merged(kind, s, t))
<1> DEFINE n == Len(s) + Len(t)
           First(i, j) == \/ j > Len(t)
                          \/ i <= Len(s) /\ Bound(kind, s[i]) <= Bound(kind, t[j])
           Turn(v, k) == IF First(v + 1, k - v) THEN v + 1 ELSE v
           start == 0
<1>r0. n \in Nat
  BY EachIs
<1>a. /\ Len(s) \in Nat /\ s \in [1..Len(s) -> S] /\ S = {s[i] : i \in 1..Len(s)}
      /\ Len(t) \in Nat /\ t \in [1..Len(t) -> T0] /\ T0 = {t[i] : i \in 1..Len(t)}
  BY EachIs
<1> HIDE DEF Turn, start
<1> DEFINE Is(f, m) == f = [k \in 0..m |-> IF k = 0 THEN start ELSE Turn(f[k - 1], k)]
           T == {m \in 0..n : \E f : Is(f, m)}
           taken == CHOOSE f : Is(f, n)
<1>r1. 0 \in T
  <2> DEFINE f == [k \in 0..0 |-> start]
  <2>1. Is(f, 0)
    OBVIOUS
  <2> HIDE DEF Is
  <2> QED BY <1>r0, <2>1
<1>r2. ASSUME NEW i \in 0 + 1..n, i - 1 \in T
      PROVE  i \in T
  <2>1. PICK g : Is(g, i - 1)
    BY <1>r2
  <2> DEFINE f == [k \in 0..i |-> IF k = i THEN Turn(g[i - 1], i) ELSE g[k]]
  <2>2. ASSUME NEW k \in 0..i
        PROVE  f[k] = IF k = 0 THEN start ELSE Turn(f[k - 1], k)
    BY <1>r0, <2>1
  <2>3. Is(f, i)
    BY <2>2
  <2> HIDE DEF Is
  <2> QED BY <1>r0, <2>3
<1>r3. Is(taken, n)
  <2>1. n \in T
    <3> HIDE DEF T
    <3>1. 0..n \subseteq T
      BY <1>r0, <1>r1, <1>r2, Induct
    <3> QED BY <1>r0, <3>1
  <2>2. \E f : Is(f, n)
    BY <2>1
  <2> HIDE DEF Is
  <2> QED BY <2>2
<1> HIDE DEF taken
<1>r4. /\ taken[0] = start
      /\ \A i \in 0 + 1..n : taken[i] = Turn(taken[i - 1], i)
  BY <1>r0, <1>r3
<1> HIDE DEF Is, T
<1> DEFINE m == [k \in 1..n |-> IF taken[k] > taken[k - 1] THEN s[taken[k]] ELSE t[k - taken[k]]]
<1>1. Merged(kind, s, t) = m
  BY DEF Merged, taken, Is, Turn, start, n
<1> DEFINE U == {k \in 0..n : taken[k] \in 0..Len(s) /\ k - taken[k] \in 0..Len(t)}
<1>2. 0 \in U
  BY <1>r0, <1>r4, <1>a DEF start
<1>3. ASSUME NEW k \in 0 + 1..n, k - 1 \in U PROVE k \in U
  <2> DEFINE v == taken[k - 1]
  <2>1. v \in 0..Len(s) /\ (k - 1) - v \in 0..Len(t) /\ taken[k] = Turn(v, k)
    BY <1>3, <1>r4
  <2> HIDE DEF v
  <2>2. CASE First(v + 1, k - v)
    <3>1. taken[k] = v + 1
      <4> HIDE DEF First
      <4> QED BY <2>1, <2>2 DEF Turn
    <3>2. v + 1 <= Len(s)
      BY <1>a, <2>1, <2>2 DEF n
    <3> QED BY <1>a, <2>1, <3>1, <3>2
  <2>3. CASE ~First(v + 1, k - v)
    <3>1. taken[k] = v
      <4> HIDE DEF First
      <4> QED BY <2>1, <2>3 DEF Turn
    <3>2. k - v <= Len(t)
      BY <1>a, <2>1, <2>3 DEF n
    <3> QED BY <1>a, <2>1, <3>1, <3>2
  <2> QED BY <2>2, <2>3
<1>4. 0..n \subseteq U
  <2> HIDE DEF U, n
  <2> QED BY <1>2, <1>3, <1>r0, Induct
<1>5. \A k \in 0..n : taken[k] \in 0..Len(s) /\ k - taken[k] \in 0..Len(t)
  BY <1>4
<1> HIDE DEF U
\* Position k comes from s or from t.
<1> DEFINE OfS(k) == taken[k] = taken[k - 1] + 1 /\ First(taken[k], k - taken[k - 1])
           OfT(k) == taken[k] = taken[k - 1] /\ ~First(taken[k - 1] + 1, k - taken[k - 1])
<1>6. ASSUME NEW k \in 1..n
      PROVE  /\ OfS(k) \/ OfT(k)
             /\ OfS(k) => m[k] = s[taken[k]] /\ taken[k] \in 1..Len(s)
             /\ OfT(k) => m[k] = t[k - taken[k]] /\ k - taken[k] \in 1..Len(t)
  <2>1. taken[k] = Turn(taken[k - 1], k)
    BY <1>r4
  <2>2. /\ taken[k - 1] \in 0..Len(s) /\ (k - 1) - taken[k - 1] \in 0..Len(t)
        /\ taken[k] \in 0..Len(s) /\ k - taken[k] \in 0..Len(t)
    <3>1. k \in 0..n /\ k - 1 \in 0..n
      BY <1>r0
    <3> QED BY <1>5, <3>1
  <2>3. OfS(k) \/ OfT(k)
    <3>1. CASE First(taken[k - 1] + 1, k - taken[k - 1])
      <4>1. taken[k] = taken[k - 1] + 1
        <5> HIDE DEF First
        <5> QED BY <2>1, <3>1 DEF Turn
      <4> HIDE DEF First
      <4> QED BY <3>1, <4>1
    <3>2. CASE ~First(taken[k - 1] + 1, k - taken[k - 1])
      <4>1. taken[k] = taken[k - 1]
        <5> HIDE DEF First
        <5> QED BY <2>1, <3>2 DEF Turn
      <4> HIDE DEF First
      <4> QED BY <3>2, <4>1
    <3> QED BY <3>1, <3>2
  <2>4. m[k] = IF taken[k] > taken[k - 1] THEN s[taken[k]] ELSE t[k - taken[k]]
    OBVIOUS
  <2> HIDE DEF First, m
  <2>5. OfS(k) => m[k] = s[taken[k]] /\ taken[k] \in 1..Len(s)
    BY <1>a, <2>2, <2>4
  <2>6. OfT(k) => m[k] = t[k - taken[k]] /\ k - taken[k] \in 1..Len(t)
    BY <1>a, <2>2, <2>4
  <2> HIDE DEF OfS, OfT
  <2> QED BY <2>3, <2>5, <2>6
<1>7. ASSUME NEW i \in 0..n, NEW j \in i..n
      PROVE  taken[i] <= taken[j] /\ i - taken[i] <= j - taken[j]
  <2> DEFINE f == [k \in 0..n |-> taken[k]]
             g == [k \in 0..n |-> k - taken[k]]
  <2>1. f \in [0..n -> Int] /\ g \in [0..n -> Int]
    BY <1>5, <1>a
  <2>2. ASSUME NEW k \in 0..n, k + 1 \in 0..n PROVE f[k] <= f[k + 1] /\ g[k] <= g[k + 1]
    <3>1. k + 1 \in 1..n /\ (k + 1) - 1 = k
      BY <1>r0, <2>2
    <3>2. taken[k + 1] = taken[k] + 1 \/ taken[k + 1] = taken[k]
      <4> HIDE DEF First
      <4> QED BY <1>6, <3>1
    <3>3. taken[k] \in Int /\ taken[k + 1] \in Int
      BY <1>5, <1>a, <2>2
    <3> QED BY <2>2, <3>2, <3>3
  <2>3. f[i] = taken[i] /\ f[j] = taken[j] /\ g[i] = i - taken[i] /\ g[j] = j - taken[j]
    BY <1>r0
  <2> HIDE DEF f, g
  <2>4. f[i] <= f[j]
    BY <2>1, <2>2, <1>r0, StepsAscend
  <2>5. g[i] <= g[j]
    BY <2>1, <2>2, <1>r0, StepsAscend
  <2> QED BY <2>3, <2>4, <2>5
<1>8. m \in Seq(S \cup T0) /\ Len(m) = n
  <2>1. \A k \in 1..n : m[k] \in S \cup T0
    <3> SUFFICES ASSUME NEW k \in 1..n PROVE m[k] \in S \cup T0
      OBVIOUS
    <3> HIDE DEF OfS, OfT, m
    <3> QED BY <1>6, <1>a
  <2>2. m = [k \in 1..n |-> m[k]]
    OBVIOUS
  <2> HIDE DEF m
  <2>3. m \in [1..n -> S \cup T0]
    BY <2>1, <2>2
  <2> QED BY <1>r0, <2>3, SeqDef
<1>9. taken[n] = Len(s)
  <2>1. taken[n] \in 0..Len(s) /\ n - taken[n] \in 0..Len(t)
    BY <1>5, <1>r0
  <2> QED BY <1>a, <2>1 DEF n
\* Every place of s is taken at some position, and every place of t.
<1>10. ASSUME NEW i \in 1..Len(s) PROVE \E k \in 1..n : OfS(k) /\ taken[k] = i
  <2> DEFINE V == {k \in 0..n : taken[k] >= i}
  <2>1. V \in SUBSET Nat /\ n \in V
    BY <1>a, <1>9, <1>r0
  <2>2. PICK k \in V : \A l \in V : k <= l
    <3> HIDE DEF V
    <3> QED BY <2>1, Smallest
  <2>3. k # 0
    BY <1>a, <1>r4 DEF start
  <2>4. k \in 1..n /\ k - 1 \in 0..n /\ ~(k <= k - 1)
    BY <1>r0, <2>3
  <2>5. ~(taken[k - 1] >= i)
    BY <2>2, <2>4
  <2>6. taken[k - 1] \in Int /\ taken[k] \in Int /\ taken[k] >= i
    <3>1. k \in 0..n /\ taken[k - 1] \in 0..Len(s) /\ taken[k] \in 0..Len(s)
      BY <1>5, <2>4
    <3> QED BY <1>a, <3>1
  <2>7. OfS(k) \/ OfT(k)
    BY <1>6, <2>4
  <2>8. taken[k] # taken[k - 1]
    BY <2>5, <2>6
  <2>9. OfS(k) /\ taken[k] = taken[k - 1] + 1
    <3> HIDE DEF First
    <3> QED BY <2>7, <2>8
  <2>10. taken[k] = i
    BY <1>a, <2>5, <2>6, <2>9
  <2> HIDE DEF OfS, OfT
  <2> QED BY <2>4, <2>9, <2>10
<1>11. ASSUME NEW i \in 1..Len(t) PROVE \E k \in 1..n : OfT(k) /\ k - taken[k] = i
  <2> DEFINE V == {k \in 0..n : k - taken[k] >= i}
  <2>1. V \in SUBSET Nat /\ n \in V
    BY <1>a, <1>9, <1>r0 DEF n
  <2>2. PICK k \in V : \A l \in V : k <= l
    <3> HIDE DEF V
    <3> QED BY <2>1, Smallest
  <2>3. k # 0
    BY <1>a, <1>r4 DEF start
  <2>4. k \in 1..n /\ k - 1 \in 0..n /\ ~(k <= k - 1)
    BY <1>r0, <2>3
  <2>5. ~((k - 1) - taken[k - 1] >= i)
    BY <2>2, <2>4
  <2>6. taken[k - 1] \in Int /\ taken[k] \in Int /\ k - taken[k] >= i
    <3>1. k \in 0..n /\ taken[k - 1] \in 0..Len(s) /\ taken[k] \in 0..Len(s)
      BY <1>5, <2>4
    <3> QED BY <1>a, <3>1
  <2>7. OfS(k) \/ OfT(k)
    BY <1>6, <2>4
  <2>8. taken[k] # taken[k - 1] + 1
    BY <1>r0, <2>4, <2>5, <2>6
  <2>9. OfT(k) /\ taken[k] = taken[k - 1]
    <3> HIDE DEF First
    <3> QED BY <2>7, <2>8
  <2>10. k - taken[k] = i
    BY <1>r0, <2>4, <2>5, <2>6, <2>9
  <2> HIDE DEF OfS, OfT
  <2> QED BY <2>4, <2>9, <2>10
<1>12. ASSUME NEW e \in S \cup T0 PROVE \E k \in 1..n : m[k] = e
  <2>1. CASE e \in S
    <3>1. PICK i \in 1..Len(s) : e = s[i]
      BY <1>a, <2>1
    <3>2. PICK k \in 1..n : OfS(k) /\ taken[k] = i
      BY <1>10
    <3> HIDE DEF OfS, OfT, m
    <3> QED BY <1>6, <3>1, <3>2
  <2>2. CASE e \in T0
    <3>1. PICK i \in 1..Len(t) : e = t[i]
      BY <1>a, <2>2
    <3>2. PICK k \in 1..n : OfT(k) /\ k - taken[k] = i
      BY <1>11
    <3> HIDE DEF OfS, OfT, m
    <3> QED BY <1>6, <3>1, <3>2
  <2> QED BY <2>1, <2>2
<1>13. ASSUME NEW k \in 1..n, NEW l \in 1..n, m[k] = m[l], k < l
       PROVE  FALSE
  <2>1. k \in 0..n /\ k \in Int /\ l \in Int /\ l - 1 \in 0..n /\ l - 1 \in k..n
    BY <1>r0, <1>13
  <2>2. taken[k] <= taken[l - 1] /\ k - taken[k] <= (l - 1) - taken[l - 1]
    BY <1>7, <2>1
  <2>3. taken[k] \in Int /\ taken[l - 1] \in Int /\ taken[l] \in Int
    BY <1>5, <1>a, <1>r0, <2>1, SMTT(30)
  <2>4. CASE OfS(k) /\ OfS(l)
    <3>1. taken[k] \in 1..Len(s) /\ taken[l] \in 1..Len(s) /\ s[taken[k]] = s[taken[l]]
      <4> HIDE DEF OfS, OfT, m
      <4> QED BY <1>6, <1>13, <2>4
    <3> DEFINE a == taken[k]
               c == taken[l]
    <3> HIDE DEF a, c
    <3>2. a = c
      <4>1. a \in 1..Len(s) /\ c \in 1..Len(s) /\ s[a] = s[c]
        BY <3>1 DEF a, c
      <4> QED BY <4>1 DEF Each
    <3>3. taken[l] = taken[l - 1] + 1
      BY <2>4
    <3> QED BY <2>2, <2>3, <3>2, <3>3 DEF a, c
  <2>5. CASE OfT(k) /\ OfT(l)
    <3>1. k - taken[k] \in 1..Len(t) /\ l - taken[l] \in 1..Len(t) /\ t[k - taken[k]] = t[l - taken[l]]
      <4> HIDE DEF OfS, OfT, m
      <4> QED BY <1>6, <1>13, <2>5
    <3>2. k - taken[k] = l - taken[l]
      BY <3>1 DEF Each
    <3>3. taken[l] = taken[l - 1]
      BY <2>5
    <3> QED BY <2>1, <2>2, <2>3, <3>2, <3>3
  <2>6. CASE OfS(k) /\ OfT(l)
    <3>1. m[k] \in S /\ m[l] \in T0
      <4> HIDE DEF OfS, OfT, m
      <4> QED BY <1>6, <1>a, <2>6
    <3> QED BY <1>13, <3>1
  <2>7. CASE OfT(k) /\ OfS(l)
    <3>1. m[k] \in T0 /\ m[l] \in S
      <4> HIDE DEF OfS, OfT, m
      <4> QED BY <1>6, <1>a, <2>7
    <3> QED BY <1>13, <3>1
  <2> HIDE DEF OfS, OfT, m
  <2> QED BY <1>6, <2>4, <2>5, <2>6, <2>7
<1>14. ASSUME NEW k \in 1..n, k + 1 \in 1..n
       PROVE  Bound(kind, m[k]) <= Bound(kind, m[k + 1])
  <2>1. k \in 0..n /\ k - 1 \in 0..n /\ k + 1 \in 0..n /\ (k + 1) - 1 = k
    BY <1>r0, <1>14
  <2>2. /\ taken[k - 1] \in 0..Len(s) /\ taken[k] \in 0..Len(s) /\ taken[k + 1] \in 0..Len(s)
        /\ (k - 1) - taken[k - 1] \in 0..Len(t) /\ k - taken[k] \in 0..Len(t)
        /\ (k + 1) - taken[k + 1] \in 0..Len(t)
    BY <1>5, <2>1
  <2>3. CASE OfS(k) /\ OfS(k + 1)
    <3>1. /\ m[k] = s[taken[k]] /\ m[k + 1] = s[taken[k + 1]]
          /\ taken[k] \in 1..Len(s) /\ taken[k + 1] \in 1..Len(s)
      <4> HIDE DEF OfS, OfT, m
      <4> QED BY <1>6, <1>14, <2>3
    <3>2. taken[k + 1] = taken[k] + 1
      BY <2>1, <2>3
    <3>3. taken[k] < taken[k + 1]
      BY <3>1, <3>2, <1>a
    <3> QED BY <3>1, <3>3 DEF Ascends
  <2>4. CASE OfT(k) /\ OfT(k + 1)
    <3>1. /\ m[k] = t[k - taken[k]] /\ m[k + 1] = t[(k + 1) - taken[k + 1]]
          /\ k - taken[k] \in 1..Len(t) /\ (k + 1) - taken[k + 1] \in 1..Len(t)
      <4> HIDE DEF OfS, OfT, m
      <4> QED BY <1>6, <1>14, <2>4
    <3>2. taken[k + 1] = taken[k]
      BY <2>1, <2>4
    <3>3. k - taken[k] < (k + 1) - taken[k + 1]
      BY <2>1, <2>2, <3>2, <1>a, <1>r0
    <3> QED BY <3>1, <3>3 DEF Ascends
  <2>5. CASE OfS(k) /\ OfT(k + 1)
    <3>1. /\ m[k] = s[taken[k]] /\ m[k + 1] = t[(k + 1) - taken[k + 1]]
          /\ taken[k] \in 1..Len(s) /\ (k + 1) - taken[k + 1] \in 1..Len(t)
      <4> HIDE DEF OfS, OfT, m
      <4> QED BY <1>6, <1>14, <2>5
    <3>2. taken[k] = taken[k - 1] + 1 /\ taken[k + 1] = taken[k]
      BY <2>1, <2>5
    <3>3. First(taken[k], k - taken[k - 1])
      BY <2>5
    <3>4. k - taken[k - 1] = (k + 1) - taken[k + 1]
      <4>1. taken[k - 1] \in Int /\ k \in Int
        BY <2>2, <1>a, <1>r0
      <4> QED BY <3>2, <4>1
    <3>5. First(taken[k], (k + 1) - taken[k + 1])
      BY <3>3, <3>4
    <3>6. ~((k + 1) - taken[k + 1] > Len(t))
      BY <1>a, <3>1
    <3> QED BY <3>1, <3>5, <3>6
  <2>6. CASE OfT(k) /\ OfS(k + 1)
    <3>1. /\ m[k] = t[k - taken[k]] /\ m[k + 1] = s[taken[k + 1]]
          /\ k - taken[k] \in 1..Len(t) /\ taken[k + 1] \in 1..Len(s)
      <4> HIDE DEF OfS, OfT, m
      <4> QED BY <1>6, <1>14, <2>6
    <3>2. taken[k] = taken[k - 1] /\ taken[k + 1] = taken[k] + 1
      BY <2>1, <2>6
    <3>3. ~First(taken[k - 1] + 1, k - taken[k - 1])
      BY <2>6
    <3>4. ~First(taken[k + 1], k - taken[k])
      BY <3>2, <3>3
    <3>5. taken[k + 1] <= Len(s)
      BY <1>a, <3>1
    <3>6. ~(Bound(kind, s[taken[k + 1]]) <= Bound(kind, t[k - taken[k]]))
      BY <3>4, <3>5
    <3>7. Bound(kind, s[taken[k + 1]]) \in Int /\ Bound(kind, t[k - taken[k]]) \in Int
      BY <1>a, <3>1
    <3> QED BY <3>1, <3>6, <3>7
  <2> HIDE DEF OfS, OfT, m
  <2> QED BY <1>6, <1>14, <2>3, <2>4, <2>5, <2>6
<1>15. Ascends(kind, m)
  <2> DEFINE f == [k \in 1..n |-> Bound(kind, m[k])]
  <2>1. f \in [1..n -> Int]
    <3> HIDE DEF m
    <3> QED BY <1>8, ElementOfSeq
  <2>2. \A k \in 1..n : k + 1 \in 1..n => f[k] <= f[k + 1]
    <3> HIDE DEF m
    <3> QED BY <1>14
  <2> SUFFICES ASSUME NEW i \in 1..n, NEW j \in 1..n, i < j
               PROVE  Bound(kind, m[i]) <= Bound(kind, m[j])
    <3> HIDE DEF m
    <3> QED BY <1>8 DEF Ascends
  <2>3. f[i] = Bound(kind, m[i]) /\ f[j] = Bound(kind, m[j])
    <3> HIDE DEF m
    <3> QED OBVIOUS
  <2> HIDE DEF f, m
  <2>4. j \in i..n
    BY <1>r0
  <2>5. f[i] <= f[j]
    BY <1>r0, <2>1, <2>2, <2>4, StepsAscend
  <2> QED BY <2>3, <2>5
<1>16. Each(m, S \cup T0)
  <2> HIDE DEF m
  <2>1. \A k, l \in 1..n : m[k] = m[l] => k = l
    <3> SUFFICES ASSUME NEW k \in 1..n, NEW l \in 1..n, m[k] = m[l], k # l PROVE FALSE
      OBVIOUS
    <3>1. k < l \/ l < k
      BY <1>r0
    <3> QED BY <1>13, <3>1
  <2> QED BY <1>8, <1>12, <2>1 DEF Each
<1> HIDE DEF m
<1> QED BY <1>1, <1>15, <1>16

\* maxHi is an upper bound of all entries so far.
LEMMA MaxHiFits ==
    ASSUME NEW s, Len(s) \in Nat, \A i \in 1..Len(s) : Hi(s[i]) \in Int
    PROVE  \A i \in 1..Len(s) :
              /\ MaxHi(s)[i] \in Int
              /\ \A j \in 1..i : Hi(s[j]) <= MaxHi(s)[i]
<1> DEFINE n == Len(s)
           Turn(v, i) == IF Hi(s[i]) > v THEN Hi(s[i]) ELSE v
           start == -Inf
<1>r0. n \in Nat
  OBVIOUS
<1> HIDE DEF Turn, start
<1> DEFINE Is(f, m) == f = [k \in 0..m |-> IF k = 0 THEN start ELSE Turn(f[k - 1], k)]
           T == {m \in 0..n : \E f : Is(f, m)}
           max == CHOOSE f : Is(f, n)
<1>r1. 0 \in T
  <2> DEFINE f == [k \in 0..0 |-> start]
  <2>1. Is(f, 0)
    OBVIOUS
  <2> HIDE DEF Is
  <2> QED BY <1>r0, <2>1
<1>r2. ASSUME NEW i \in 0 + 1..n, i - 1 \in T
      PROVE  i \in T
  <2>1. PICK g : Is(g, i - 1)
    BY <1>r2
  <2> DEFINE f == [k \in 0..i |-> IF k = i THEN Turn(g[i - 1], i) ELSE g[k]]
  <2>2. ASSUME NEW k \in 0..i
        PROVE  f[k] = IF k = 0 THEN start ELSE Turn(f[k - 1], k)
    BY <1>r0, <2>1
  <2>3. Is(f, i)
    BY <2>2
  <2> HIDE DEF Is
  <2> QED BY <1>r0, <2>3
<1>r3. Is(max, n)
  <2>1. n \in T
    <3> HIDE DEF T
    <3>1. 0..n \subseteq T
      BY <1>r0, <1>r1, <1>r2, Induct
    <3> QED BY <1>r0, <3>1
  <2>2. \E f : Is(f, n)
    BY <2>1
  <2> HIDE DEF Is
  <2> QED BY <2>2
<1> HIDE DEF max
<1>r4. /\ max[0] = start
      /\ \A i \in 0 + 1..n : max[i] = Turn(max[i - 1], i)
  BY <1>r0, <1>r3
<1> HIDE DEF Is, T
<1>1. MaxHi(s) = [i \in 1..n |-> max[i]]
  BY DEF MaxHi, max, Is, Turn, start, n
<1> DEFINE U == {k \in 0..n : max[k] \in Int /\ \A j \in 1..k : Hi(s[j]) <= max[k]}
<1>2. 0 \in U
  BY <1>r0, <1>r4, NumbersAssumption DEF start
<1>3. ASSUME NEW k \in 0 + 1..n, k - 1 \in U PROVE k \in U
  <2> DEFINE v == max[k - 1]
             h == Hi(s[k])
  <2>1. v \in Int /\ (\A j \in 1..k - 1 : Hi(s[j]) <= v) /\ h \in Int
    BY <1>3 DEF n
  <2>2. max[k] = IF h > v THEN h ELSE v
    BY <1>r4 DEF Turn
  <2>3. \A j \in 1..k : Hi(s[j]) \in Int
    BY <1>r0 DEF n
  <2> HIDE DEF v, h
  <2>4. max[k] \in Int /\ v <= max[k] /\ h <= max[k]
    BY <2>1, <2>2
  <2>5. ASSUME NEW j \in 1..k PROVE Hi(s[j]) <= max[k]
    <3>1. CASE j = k
      BY <2>4, <3>1 DEF h
    <3>2. CASE j # k
      <4>1. j \in 1..k - 1
        BY <1>r0, <3>2
      <4>2. Hi(s[j]) <= v /\ Hi(s[j]) \in Int
        BY <2>1, <2>3, <4>1
      <4> QED BY <2>1, <2>4, <4>2
    <3> QED BY <3>1, <3>2
  <2>6. k \in 0..n
    BY <1>r0
  <2> QED BY <2>4, <2>5, <2>6
<1>4. 0..n \subseteq U
  <2> HIDE DEF U, n
  <2> QED BY <1>2, <1>3, <1>r0, Induct
<1> SUFFICES ASSUME NEW i \in 1..n
             PROVE  max[i] \in Int /\ \A j \in 1..i : Hi(s[j]) <= max[i]
  BY <1>1
<1>5. i \in 0..n
  BY <1>r0
<1> QED BY <1>4, <1>5

\* The binary search of searchLo ends where the entries below x end.
LEMMA SearchLoFits ==
    ASSUME NEW s, Len(s) \in Nat, \A i \in 1..Len(s) : Lo(s[i]) \in Int,
           Ascends("ranges", s), NEW v \in Int, NEW orEqual \in BOOLEAN
    PROVE  /\ SearchLo(s, v, orEqual) \in 0..Len(s)
           /\ \A k \in 1..SearchLo(s, v, orEqual) : Lo(s[k]) < v \/ (orEqual /\ Lo(s[k]) = v)
           /\ \A k \in SearchLo(s, v, orEqual) + 1..Len(s) : ~(Lo(s[k]) < v \/ (orEqual /\ Lo(s[k]) = v))
<1> DEFINE n == Len(s)
           Below(k) == Lo(s[k]) < v \/ (orEqual /\ Lo(s[k]) = v)
           Half(b) ==
              LET m == (b.i + b.j) \div 2
                  lo == Lo(s[m + 1])
              IN  IF lo < v \/ (orEqual /\ lo = v) THEN [b EXCEPT !.i = m + 1] ELSE [b EXCEPT !.j = m]
           Turn(b, k) == IF b.i < b.j THEN Half(b) ELSE b
           start == [i |-> 0, j |-> Len(s)]
<1>r0. n \in Nat
  OBVIOUS
<1>a. ASSUME NEW k \in 1..n, NEW l \in 1..n, k <= l, Below(l) PROVE Below(k)
  <2>1. Lo(s[k]) \in Int /\ Lo(s[l]) \in Int
    OBVIOUS
  <2>2. Lo(s[k]) <= Lo(s[l])
    <3>1. CASE k = l
      BY <2>1, <3>1
    <3>2. CASE k # l
      <4>1. k < l
        BY <1>a, <3>2
      <4> QED BY <4>1 DEF Ascends, Bound
    <3> QED BY <3>1, <3>2
  <2> QED BY <1>a, <2>1, <2>2
\* Between i and j the search has not looked yet; each round halves it.
<1> DEFINE Fits(b, k) == /\ b \in [i : 0..n, j : 0..n]
                         /\ b.i <= b.j
                         /\ (b.j - b.i <= n - k \/ b.i = b.j)
                         /\ \A l \in 1..b.i : Below(l)
                         /\ \A l \in b.j + 1..n : ~Below(l)
<1>b. Fits(start, 0)
  BY <1>r0
<1>c. ASSUME NEW k \in 1..n, NEW b, Fits(b, k - 1) PROVE Fits(Turn(b, k), k)
  <2> DEFINE m == (b.i + b.j) \div 2
  <2>1. b.i \in 0..n /\ b.j \in 0..n /\ b.i <= b.j /\ b \in [i : 0..n, j : 0..n]
    BY <1>c
  <2>2. CASE ~(b.i < b.j)
    <3>1. Turn(b, k) = b /\ b.i = b.j
      BY <1>r0, <2>1, <2>2
    <3> HIDE DEF Turn, Below
    <3> QED BY <1>c, <3>1
  <2>3. CASE b.i < b.j
    <3>1. b.i <= m /\ m < b.j /\ m \in Nat
      BY <1>r0, <2>1, <2>3
    <3>2. Turn(b, k) = IF Below(m + 1) THEN [b EXCEPT !.i = m + 1] ELSE [b EXCEPT !.j = m]
      BY <2>3
    <3> HIDE DEF m, Turn
    <3>3. m + 1 \in 1..n
      BY <1>r0, <2>1, <3>1
    <3>4. \A l \in 1..b.i : Below(l)
      BY <1>c
    <3>5. \A l \in b.j + 1..n : ~Below(l)
      BY <1>c
    <3>6. b.j - b.i <= n - (k - 1)
      BY <1>c, <1>r0, <2>1, <2>3
    <3>7. CASE Below(m + 1)
      <4> DEFINE c == [b EXCEPT !.i = m + 1]
      <4>1. Turn(b, k) = c
        <5> HIDE DEF Below
        <5> QED BY <3>2, <3>7
      <4>2. c \in [i : 0..n, j : 0..n] /\ c.i = m + 1 /\ c.j = b.j
        BY <1>r0, <2>1, <3>3
      <4> HIDE DEF c
      <4>3. c.i <= c.j /\ c.j - c.i <= n - k
        BY <1>r0, <2>1, <3>1, <3>6, <4>2
      <4>4. \A l \in 1..c.i : Below(l)
        <5> SUFFICES ASSUME NEW l \in 1..m + 1 PROVE Below(l)
          BY <4>2
        <5>1. l \in 1..n /\ l <= m + 1
          BY <3>1, <3>3, <1>r0
        <5> HIDE DEF Below
        <5> QED BY <1>a, <3>3, <3>7, <5>1
      <4> HIDE DEF Below
      <4> QED BY <3>5, <4>1, <4>2, <4>3, <4>4
    <3>8. CASE ~Below(m + 1)
      <4> DEFINE c == [b EXCEPT !.j = m]
      <4>1. Turn(b, k) = c
        <5> HIDE DEF Below
        <5> QED BY <3>2, <3>8
      <4>2. c \in [i : 0..n, j : 0..n] /\ c.i = b.i /\ c.j = m
        BY <1>r0, <2>1, <3>1, <3>3
      <4> HIDE DEF c
      <4>3. c.i <= c.j /\ c.j - c.i <= n - k
        BY <1>r0, <2>1, <3>1, <3>6, <4>2
      <4>4. \A l \in c.j + 1..n : ~Below(l)
        <5> SUFFICES ASSUME NEW l \in m + 1..n, Below(l) PROVE FALSE
          BY <4>2
        <5>1. l \in 1..n /\ m + 1 <= l
          BY <3>1, <3>3, <1>r0
        <5> HIDE DEF Below
        <5> QED BY <1>a, <3>3, <3>8, <5>1
      <4> HIDE DEF Below
      <4> QED BY <3>4, <4>1, <4>2, <4>3, <4>4
    <3> QED BY <3>7, <3>8
  <2> QED BY <2>2, <2>3
<1> HIDE DEF Below, Fits
<1> HIDE DEF Turn, start
<1> DEFINE Is(f, m) == f = [k \in 0..m |-> IF k = 0 THEN start ELSE Turn(f[k - 1], k)]
           T == {m \in 0..n : \E f : Is(f, m)}
           round == CHOOSE f : Is(f, n)
<1>r1. 0 \in T
  <2> DEFINE f == [k \in 0..0 |-> start]
  <2>1. Is(f, 0)
    OBVIOUS
  <2> HIDE DEF Is
  <2> QED BY <1>r0, <2>1
<1>r2. ASSUME NEW i \in 0 + 1..n, i - 1 \in T
      PROVE  i \in T
  <2>1. PICK g : Is(g, i - 1)
    BY <1>r2
  <2> DEFINE f == [k \in 0..i |-> IF k = i THEN Turn(g[i - 1], i) ELSE g[k]]
  <2>2. ASSUME NEW k \in 0..i
        PROVE  f[k] = IF k = 0 THEN start ELSE Turn(f[k - 1], k)
    BY <1>r0, <2>1
  <2>3. Is(f, i)
    BY <2>2
  <2> HIDE DEF Is
  <2> QED BY <1>r0, <2>3
<1>r3. Is(round, n)
  <2>1. n \in T
    <3> HIDE DEF T
    <3>1. 0..n \subseteq T
      BY <1>r0, <1>r1, <1>r2, Induct
    <3> QED BY <1>r0, <3>1
  <2>2. \E f : Is(f, n)
    BY <2>1
  <2> HIDE DEF Is
  <2> QED BY <2>2
<1> HIDE DEF round
<1>r4. /\ round[0] = start
      /\ \A i \in 0 + 1..n : round[i] = Turn(round[i - 1], i)
  BY <1>r0, <1>r3
<1> HIDE DEF Is, T
<1>1. SearchLo(s, v, orEqual) = round[n].i
  BY DEF SearchLo, round, Is, Turn, start, n
<1> DEFINE U == {k \in 0..n : Fits(round[k], k)}
<1>2. 0 \in U
  BY <1>r0, <1>r4, <1>b
<1>3. ASSUME NEW k \in 0 + 1..n, k - 1 \in U PROVE k \in U
  <2>1. Fits(round[k - 1], k - 1) /\ round[k] = Turn(round[k - 1], k) /\ k \in 1..n /\ k \in 0..n
    BY <1>r0, <1>r4, <1>3
  <2> QED BY <1>c, <2>1
<1> HIDE DEF U
<1>4. 0..n \subseteq U
  <2> HIDE DEF n
  <2> QED BY <1>2, <1>3, <1>r0, Induct
<1>5. Fits(round[n], n)
  BY <1>4, <1>r0 DEF U
<1> DEFINE b == round[n]
<1> HIDE DEF b
<1>6. b.i \in 0..n /\ b.j \in 0..n /\ b.i <= b.j /\ (b.j - b.i <= n - n \/ b.i = b.j)
  BY <1>5 DEF Fits, b
<1>7. b.i = b.j
  BY <1>r0, <1>6
<1>8. (\A l \in 1..b.i : Below(l)) /\ (\A l \in b.i + 1..n : ~Below(l))
  BY <1>5, <1>7 DEF Fits, b
<1> QED BY <1>1, <1>6, <1>8 DEF b, Below

\* The selected entries, once each, of a part that is not empty.
LEMMA SelectedSome ==
    ASSUME NEW S, NEW s, Each(s, S), NEW from \in 1..Len(s) + 1, NEW to \in 0..Len(s), NEW v,
           from <= to
    PROVE  Each(Selected(s, from, to, v), {s[i] : i \in {j \in from..to : Contains(s[j].iv, v)}})
<1>a. Len(s) \in Nat /\ s \in [1..Len(s) -> S]
  BY EachIs
<1>b. \A i, j \in 1..Len(s) : s[i] = s[j] => i = j
  BY DEF Each
<1> DEFINE Turn(q, i) == IF Contains(s[i].iv, v) THEN Append(q, s[i]) ELSE q
           start == << >>
<1>r0. to \in Nat /\ from \in Nat /\ from - 1 \in Nat /\ from - 1 <= to /\ from - 1 + 1 = from
  BY <1>a
<1> HIDE DEF Turn, start
<1> DEFINE Is(f, m) == f = [k \in from - 1..m |-> IF k < from THEN start ELSE Turn(f[k - 1], k)]
           T == {m \in from - 1..to : \E f : Is(f, m)}
           selected == CHOOSE f : Is(f, to)
<1>r1. from - 1 \in T
  <2> DEFINE f == [k \in from - 1..from - 1 |-> start]
  <2>1. Is(f, from - 1)
    OBVIOUS
  <2> HIDE DEF Is
  <2> QED BY <1>r0, <2>1
<1>r2. ASSUME NEW i \in from - 1 + 1..to, i - 1 \in T
      PROVE  i \in T
  <2>1. PICK g : Is(g, i - 1)
    BY <1>r2
  <2> DEFINE f == [k \in from - 1..i |-> IF k = i THEN Turn(g[i - 1], i) ELSE g[k]]
  <2>2. ASSUME NEW k \in from - 1..i
        PROVE  f[k] = IF k < from THEN start ELSE Turn(f[k - 1], k)
    <3>1. i \in Nat /\ k \in Nat
      BY <1>r0
    <3>2. CASE k < from
      <4>1. k \in from - 1..i - 1 /\ k # i
        BY <1>r0, <1>r2, <3>1, <3>2
      <4> QED BY <2>1, <3>2, <4>1
    <3>3. CASE ~(k < from) /\ k # i
      <4>1. k \in from - 1..i - 1 /\ k - 1 \in from - 1..i /\ k - 1 # i
        BY <1>r0, <1>r2, <3>1, <3>3
      <4> QED BY <2>1, <3>3, <4>1
    <3>4. CASE k = i
      <4>1. ~(k < from) /\ k - 1 \in from - 1..i /\ k - 1 # i
        BY <1>r0, <1>r2, <3>1, <3>4
      <4> QED BY <3>4, <4>1
    <3> QED BY <3>2, <3>3, <3>4
  <2>3. Is(f, i)
    BY <2>2
  <2> HIDE DEF Is
  <2> QED BY <1>r0, <2>3
<1>r3. Is(selected, to)
  <2>1. to \in T
    <3> HIDE DEF T
    <3>1. from - 1..to \subseteq T
      BY <1>r0, <1>r1, <1>r2, Induct
    <3> QED BY <1>r0, <3>1
  <2>2. \E f : Is(f, to)
    BY <2>1
  <2> HIDE DEF Is
  <2> QED BY <2>2
<1> HIDE DEF selected
<1>r4. /\ selected[from - 1] = start
      /\ \A i \in from - 1 + 1..to : selected[i] = Turn(selected[i - 1], i)
  BY <1>r0, <1>r3
<1> HIDE DEF Is, T
<1>1. Selected(s, from, to, v) = selected[to]
  <2>1. ~(to < from)
    BY <1>r0
  <2> QED BY <2>1 DEF Selected, selected, Is, Turn, start
<1> DEFINE Sel(i) == {s[j] : j \in {j \in from..i : Contains(s[j].iv, v)}}
           U == {i \in from - 1..to : Each(selected[i], Sel(i))}
<1>2. from - 1 \in U
  <2>1. from..from - 1 = {}
    BY <1>r0
  <2>2. Sel(from - 1) = {}
    BY <2>1
  <2>3. selected[from - 1] = << >>
    BY <1>r4 DEF start
  <2>4. from - 1 \in from - 1..to
    BY <1>r0
  <2> HIDE DEF Sel
  <2> QED BY <2>2, <2>3, <2>4, EachNone
<1>3. ASSUME NEW i \in from - 1 + 1..to, i - 1 \in U PROVE i \in U
  <2>1. /\ i \in from - 1..to /\ i \in 1..Len(s) /\ from..i - 1 \subseteq 1..Len(s)
        /\ from..i = (from..i - 1) \cup {i} /\ i \notin from..i - 1
    BY <1>r0, <1>a
  <2>2. Each(selected[i - 1], Sel(i - 1)) /\ selected[i] = Turn(selected[i - 1], i)
    BY <1>r4, <1>3
  <2>3. CASE Contains(s[i].iv, v)
    <3>1. Sel(i) = Sel(i - 1) \cup {s[i]}
      BY <2>1, <2>3
    <3>2. s[i] \notin Sel(i - 1)
      BY <2>1, <1>b
    <3>3. selected[i] = Append(selected[i - 1], s[i])
      BY <2>2, <2>3 DEF Turn
    <3> HIDE DEF Sel
    <3>4. Each(selected[i], Sel(i))
      BY <2>2, <3>1, <3>2, <3>3, EachAppend
    <3> QED BY <2>1, <3>4
  <2>4. CASE ~Contains(s[i].iv, v)
    <3>1. Sel(i) = Sel(i - 1)
      BY <2>1, <2>4
    <3>3. selected[i] = selected[i - 1]
      BY <2>2, <2>4 DEF Turn
    <3> HIDE DEF Sel
    <3> QED BY <2>1, <2>2, <3>1, <3>3
  <2> QED BY <2>3, <2>4
<1> HIDE DEF U
<1>4. from - 1..to \subseteq U
  BY <1>2, <1>3, <1>r0, Induct
<1>5. to \in U
  BY <1>4, <1>r0
<1> HIDE DEF Sel
<1>6. Each(selected[to], Sel(to))
  BY <1>5 DEF U
<1> QED BY <1>1, <1>6 DEF Sel

\* The selected entries of any part.
LEMMA SelectedFits ==
    ASSUME NEW S, NEW s, Each(s, S), NEW from \in 1..Len(s) + 1, NEW to \in 0..Len(s), NEW v
    PROVE  Each(Selected(s, from, to, v), {s[i] : i \in {j \in from..to : Contains(s[j].iv, v)}})
<1>a. Len(s) \in Nat
  BY EachIs
<1>1. CASE to < from
  <2>1. Selected(s, from, to, v) = << >>
    BY <1>1 DEF Selected
  <2>2. from..to = {}
    BY <1>1, <1>a
  <2>3. {s[i] : i \in {j \in from..to : Contains(s[j].iv, v)}} = {}
    BY <2>2
  <2> QED BY <2>1, <2>3, EachNone
<1>2. CASE ~(to < from)
  <2>1. from <= to
    BY <1>2, <1>a
  <2> QED BY <2>1, SelectedSome
<1> QED BY <1>1, <1>2

\* Where a scan from the start ends: at a stop, and before all others.
LEMMA UntilFits ==
    ASSUME NEW m \in Nat, NEW n \in Nat, m <= n, NEW stops \in SUBSET (m + 1..n)
    PROVE  /\ Until(n, stops) \in m..n
           /\ \A i \in m + 1..Until(n, stops) : i \notin stops
           /\ Until(n, stops) < n => Until(n, stops) + 1 \in stops
<1>1. CASE stops = {}
  BY <1>1 DEF Until
<1>2. CASE stops # {}
  <2>1. stops \in SUBSET Nat
    OBVIOUS
  <2>2. \E a \in stops : \A i \in stops : a <= i
    BY <1>2, <2>1, Smallest
  <2> DEFINE a == CHOOSE a \in stops : \A i \in stops : a <= i
  <2>3. a \in stops /\ \A i \in stops : a <= i
    BY <2>2
  <2>4. Until(n, stops) = a - 1
    BY <1>2 DEF Until
  <2> HIDE DEF a
  <2>5. a \in Nat /\ m + 1 <= a /\ a <= n
    BY <2>3
  <2>6. \A i \in m + 1..a - 1 : i \notin stops
    BY <2>3, <2>5
  <2>7. a - 1 \in m..n /\ (a - 1) + 1 = a
    BY <2>5
  <2> QED BY <2>3, <2>4, <2>6, <2>7
<1> QED BY <1>1, <1>2

\* Where a scan from the end began: behind a stop, and behind all others.
LEMMA FromFits ==
    ASSUME NEW n \in Nat, NEW stops \in SUBSET (1..n)
    PROVE  /\ From(stops) \in 1..n + 1
           /\ \A i \in From(stops)..n : i \notin stops
           /\ From(stops) > 1 => From(stops) - 1 \in stops
<1>1. CASE stops = {}
  BY <1>1 DEF From
<1>2. CASE stops # {}
  <2> DEFINE flip == {n - i : i \in stops}
  <2>1. flip \in SUBSET Nat /\ flip # {}
    <3>1. \A i \in stops : n - i \in Nat
      OBVIOUS
    <3>2. PICK i \in stops : TRUE
      BY <1>2
    <3>3. n - i \in flip
      BY <3>2
    <3> QED BY <3>1, <3>3
  <2>2. PICK m \in flip : \A i \in flip : m <= i
    <3> HIDE DEF flip
    <3> QED BY <2>1, Smallest
  <2>3. PICK k \in stops : m = n - k
    OBVIOUS
  <2>4. \A i \in stops : k >= i
    <3> SUFFICES ASSUME NEW i \in stops PROVE k >= i
      OBVIOUS
    <3>1. n - k <= n - i
      BY <2>2, <2>3
    <3> QED BY <3>1
  <2> DEFINE a == CHOOSE i \in stops : \A j \in stops : i >= j
  <2>5. a \in stops /\ \A i \in stops : a >= i
    <3> HIDE DEF flip
    <3> QED BY <2>3, <2>4
  <2>6. From(stops) = a + 1
    BY <1>2 DEF From
  <2> HIDE DEF a, flip
  <2>7. a \in 1..n /\ (a + 1) - 1 = a
    BY <2>5
  <2>8. \A i \in a + 1..n : i \notin stops
    BY <2>5, <2>7
  <2> QED BY <2>5, <2>6, <2>7, <2>8
<1> QED BY <1>1, <1>2

-----------------------------------------------------------------------------
(* The number index.                                                       *)

\* An interval as normalizePattern makes it: a single number is included.
IsInterval(iv) ==
    /\ iv.lo \in Int
    /\ iv.hi \in Int
    /\ iv.lo = iv.hi => ~iv.loOpen /\ ~iv.hiOpen

Listed(q) == {q[i] : i \in 1..Len(q)}

\* What a sequence lists.
LEMMA ListedIs ==
    ASSUME NEW S, NEW q, Each(q, S)
    PROVE  Listed(q) = S
BY EachIs DEF Listed

\* l holds the entries S of a kind, each in one of its lists.
ListFits(kind, l, S) ==
    /\ DOMAIN l = {"sorted", "recent", "maxHi"}
    /\ Each(l.sorted, Listed(l.sorted)) /\ Each(l.recent, Listed(l.recent))
    /\ Listed(l.sorted) \cap Listed(l.recent) = {}
    /\ S = Listed(l.sorted) \cup Listed(l.recent)
    /\ Ascends(kind, l.sorted)
    /\ kind = "ranges" =>
        \A i \in 1..Len(l.sorted) :
            /\ l.maxHi[i] \in Int
            /\ \A j \in 1..i : Hi(l.sorted[j]) <= l.maxHi[i]

\* numList.with keeps the lists, whether it merges the recent ones or not.
LEMMA ListWithFits ==
    ASSUME NEW kind, NEW l, NEW S, ListFits(kind, l, S), NEW e, e \notin S,
           \A d \in S \cup {e} : IsInterval(d.iv)
    PROVE  ListFits(kind, ListWith(l, kind, e), S \cup {e})
<1> DEFINE A == Listed(l.sorted)
           B == Listed(l.recent)
           recent == Append(l.recent, e)
           merged == Merged(kind, l.sorted, SortedBy(kind, recent))
<1>1. /\ Each(l.sorted, A) /\ Each(l.recent, B) /\ A \cap B = {} /\ S = A \cup B
      /\ DOMAIN l = {"sorted", "recent", "maxHi"} /\ Ascends(kind, l.sorted)
  BY DEF ListFits
<1>2. \A d \in S \cup {e} : Bound(kind, d) \in Int /\ Hi(d) \in Int
  BY DEF IsInterval, Bound, Lo, Hi
<1> HIDE DEF A, B
<1>3. Each(recent, B \cup {e})
  BY <1>1, EachAppend
<1> HIDE DEF recent
<1>4. A \cap (B \cup {e}) = {} /\ S \cup {e} = A \cup (B \cup {e})
  BY <1>1
<1>5. Listed(recent) = B \cup {e}
  BY <1>3, ListedIs
<1>6. CASE Len(recent) < MaxRecent
  <2> DEFINE m == [l EXCEPT !.recent = recent]
  <2>1. ListWith(l, kind, e) = m
    BY <1>6 DEF ListWith, recent
  <2>2. m.sorted = l.sorted /\ m.maxHi = l.maxHi /\ m.recent = recent /\ DOMAIN m = {"sorted", "recent", "maxHi"}
    BY <1>1
  <2> HIDE DEF m
  <2>3. Listed(m.recent) = B \cup {e} /\ Listed(m.sorted) = A
    BY <2>2, <1>5 DEF A
  <2>4. kind = "ranges" =>
          \A i \in 1..Len(l.sorted) :
            /\ l.maxHi[i] \in Int
            /\ \A j \in 1..i : Hi(l.sorted[j]) <= l.maxHi[i]
    BY DEF ListFits
  <2>5. ListFits(kind, m, S \cup {e})
    BY <1>1, <1>3, <1>4, <2>2, <2>3, <2>4 DEF ListFits
  <2> QED BY <2>1, <2>5
<1>7. CASE ~(Len(recent) < MaxRecent)
  <2> DEFINE hi == IF kind = "ranges" THEN MaxHi(merged) ELSE << >>
             m == [sorted |-> merged, recent |-> << >>, maxHi |-> hi]
  <2>1. ListWith(l, kind, e) = m
    BY <1>7 DEF ListWith, recent
  <2>2. Each(SortedBy(kind, recent), B \cup {e}) /\ Ascends(kind, SortedBy(kind, recent))
    BY <1>1, <1>2, <1>3, SortedByFits
  <2>3. Each(merged, A \cup (B \cup {e})) /\ Ascends(kind, merged)
    BY <1>1, <1>2, <1>4, <2>2, MergedFits
  <2> HIDE DEF merged
  <2>4. Each(merged, S \cup {e})
    BY <2>3, <1>4
  <2>5. Listed(merged) = S \cup {e}
    BY <2>4, EachIs DEF Listed
  <2>6. Listed(<< >>) = {}
    BY EachNone, EachIs DEF Listed
  <2>7. kind = "ranges" =>
          \A i \in 1..Len(merged) :
            /\ hi[i] \in Int
            /\ \A j \in 1..i : Hi(merged[j]) <= hi[i]
    <3>1. Len(merged) \in Nat /\ \A i \in 1..Len(merged) : merged[i] \in S \cup {e}
      BY <2>4, EachIs
    <3>2. \A i \in 1..Len(merged) : Hi(merged[i]) \in Int
      BY <3>1, <1>2
    <3> QED BY <3>1, <3>2, MaxHiFits
  <2> HIDE DEF hi
  <2>8. m.sorted = merged /\ m.recent = << >> /\ m.maxHi = hi /\ DOMAIN m = {"sorted", "recent", "maxHi"}
    OBVIOUS
  <2> HIDE DEF m
  <2>9. ListFits(kind, m, S \cup {e})
    BY <2>3, <2>4, <2>5, <2>6, <2>7, <2>8, EachNone DEF ListFits
  <2> QED BY <2>1, <2>9
<1> QED BY <1>6, <1>7

Kinds == {"lower", "upper", "ranges", "points"}
OfKind(S, kind) == {e \in S : KindOf(e.iv) = kind}

\* The index holds the entries S.
NumbersFit(index, S) ==
    /\ DOMAIN index = Kinds
    /\ \A kind \in Kinds : ListFits(kind, index[kind], OfKind(S, kind))

\* The empty index has no entries.
LEMMA EmptyNumbersFit == NumbersFit(EmptyNumbers, {})
<1>1. Listed(<< >>) = {}
  BY EachNone, EachIs DEF Listed
<1>2. OfKind({}, "lower") = {} /\ \A kind \in Kinds : OfKind({}, kind) = {}
  BY DEF OfKind
<1>3. /\ EmptyList.sorted = << >> /\ EmptyList.recent = << >>
      /\ DOMAIN EmptyList = {"sorted", "recent", "maxHi"} /\ Len(<< >>) = 0
  BY DEF EmptyList
<1>4. 1..0 = {}
  OBVIOUS
<1>5. \A kind : Ascends(kind, << >>)
  BY <1>3, <1>4 DEF Ascends
<1>6. \A kind : ListFits(kind, EmptyList, {})
  BY <1>1, <1>3, <1>4, <1>5, EachNone DEF ListFits
<1>7. DOMAIN EmptyNumbers = Kinds /\ \A kind \in Kinds : EmptyNumbers[kind] = EmptyList
  BY DEF EmptyNumbers, Kinds
<1> QED BY <1>2, <1>6, <1>7 DEF NumbersFit

\* Every interval has a kind (numKindOf).
LEMMA KindIs == ASSUME NEW iv PROVE KindOf(iv) \in Kinds
BY DEF KindOf, Kinds

\* numIndex.with: the index holds the new interval as well.
LEMMA WithFits ==
    ASSUME NEW index, NEW S, NumbersFit(index, S), NEW iv, NEW leaf,
           [iv |-> iv, leaf |-> leaf] \notin S, IsInterval(iv), \A d \in S : IsInterval(d.iv)
    PROVE  NumbersFit(With(index, iv, leaf), S \cup {[iv |-> iv, leaf |-> leaf]})
<1> DEFINE e == [iv |-> iv, leaf |-> leaf]
           T == S \cup {e}
           k == KindOf(iv)
           new == ListWith(index[k], k, e)
           result == [index EXCEPT ![k] = new]
<1>1. k \in Kinds /\ e.iv = iv
  BY KindIs
<1>2. DOMAIN index = Kinds /\ \A kind \in Kinds : ListFits(kind, index[kind], OfKind(S, kind))
  BY DEF NumbersFit
<1>3. With(index, iv, leaf) = result
  BY DEF With
<1>4. OfKind(T, k) = OfKind(S, k) \cup {e} /\ e \notin OfKind(S, k) /\ \A d \in OfKind(S, k) \cup {e} : IsInterval(d.iv)
  BY <1>1 DEF OfKind
<1>5. \A kind \in Kinds \ {k} : OfKind(T, kind) = OfKind(S, kind)
  BY <1>1 DEF OfKind
<1> HIDE DEF e, k, T
<1>6. ListFits(k, new, OfKind(S, k) \cup {e})
  BY <1>1, <1>2, <1>4, ListWithFits
<1> HIDE DEF new
<1>7. DOMAIN result = Kinds /\ result[k] = new /\ \A kind \in Kinds \ {k} : result[kind] = index[kind]
  BY <1>1, <1>2
<1> HIDE DEF result
<1>8. ASSUME NEW kind \in Kinds PROVE ListFits(kind, result[kind], OfKind(T, kind))
  <2>1. CASE kind = k
    BY <2>1, <1>4, <1>6, <1>7
  <2>2. CASE kind # k
    BY <2>2, <1>2, <1>5, <1>7
  <2> QED BY <2>1, <2>2
<1>9. NumbersFit(result, T)
  BY <1>7, <1>8 DEF NumbersFit
<1> QED BY <1>3, <1>9 DEF T, e

\* A scan that leaves out no entry that contains v finds all that do.
LEMMA ScanFits ==
    ASSUME NEW S, NEW s, Each(s, S), NEW from \in 1..Len(s) + 1, NEW to \in 0..Len(s), NEW v,
           \A i \in 1..Len(s) : i \notin from..to => ~Contains(s[i].iv, v)
    PROVE  Each(Selected(s, from, to, v), {e \in S : Contains(e.iv, v)})
<1>1. Len(s) \in Nat /\ S = {s[i] : i \in 1..Len(s)}
  BY EachIs
<1> DEFINE P(i) == Contains(s[i].iv, v)
<1>2. Each(Selected(s, from, to, v), {s[i] : i \in {j \in from..to : P(j)}})
  BY SelectedFits
<1>3. {j \in from..to : P(j)} = {j \in 1..Len(s) : P(j)}
  <2>1. from..to \subseteq 1..Len(s)
    BY <1>1
  <2>2. \A i \in 1..Len(s) : i \notin from..to => ~P(i)
    OBVIOUS
  <2> HIDE DEF P
  <2> QED BY <2>1, <2>2
<1>4. {s[i] : i \in {j \in 1..Len(s) : P(j)}} = {e \in S : Contains(e.iv, v)}
  BY <1>1
<1> QED BY <1>2, <1>3, <1>4

\* What collect finds among the intervals without an upper bound.
LEMMA LowerFound ==
    ASSUME NEW S, NEW s, Each(s, S), Ascends("lower", s), \A e \in S : IsInterval(e.iv), NEW v \in Int
    PROVE  Each(Selected(s, 1, Until(Len(s), {i \in 1..Len(s) : Lo(s[i]) > v}), v),
                {e \in S : Contains(e.iv, v)})
<1> DEFINE n == Len(s)
           stops == {i \in 1..n : Lo(s[i]) > v}
           to == Until(n, stops)
<1>1. n \in Nat /\ \A i \in 1..n : s[i] \in S
  BY EachIs
<1>2. to \in 0..n /\ (to < n => to + 1 \in stops)
  <2>1. stops \in SUBSET (0 + 1..n) /\ 0 <= n
    BY <1>1
  <2> HIDE DEF stops, n
  <2> QED BY <1>1, <2>1, UntilFits
<1>3. ASSUME NEW i \in 1..n, i \notin 1..to PROVE ~Contains(s[i].iv, v)
  <2>1. to < n /\ to + 1 \in 1..n /\ to + 1 <= i
    <3> HIDE DEF to
    <3> QED BY <1>1, <1>2, <1>3
  <2>2. Lo(s[to + 1]) > v
    BY <1>2, <2>1
  <2>3. Lo(s[i]) \in Int /\ Lo(s[to + 1]) \in Int
    BY <1>1, <2>1 DEF IsInterval, Lo
  <2>4. Lo(s[to + 1]) <= Lo(s[i])
    <3>1. CASE to + 1 = i
      BY <3>1, <2>3
    <3>2. CASE to + 1 # i
      <4>1. to + 1 < i
        <5> HIDE DEF to
        <5> QED BY <1>1, <1>2, <2>1, <3>2
      <4> QED BY <4>1, <2>1 DEF Ascends, Bound
    <3> QED BY <3>1, <3>2
  <2> HIDE DEF to
  <2>5. Lo(s[i]) > v
    BY <2>2, <2>3, <2>4
  <2> QED BY <2>3, <2>5 DEF Contains, Lo
<1> HIDE DEF to
<1>4. 1 \in 1..n + 1
  BY <1>1
<1>5. Each(Selected(s, 1, to, v), {e \in S : Contains(e.iv, v)})
  BY <1>2, <1>3, <1>4, ScanFits
<1> QED BY <1>5 DEF to

\* Among those without a lower bound.
LEMMA UpperFound ==
    ASSUME NEW S, NEW s, Each(s, S), Ascends("upper", s), \A e \in S : IsInterval(e.iv), NEW v \in Int
    PROVE  Each(Selected(s, From({i \in 1..Len(s) : Hi(s[i]) < v}), Len(s), v),
                {e \in S : Contains(e.iv, v)})
<1> DEFINE n == Len(s)
           stops == {i \in 1..n : Hi(s[i]) < v}
           from == From(stops)
<1>1. n \in Nat /\ \A i \in 1..n : s[i] \in S
  BY EachIs
<1>2. from \in 1..n + 1 /\ (from > 1 => from - 1 \in stops)
  <2>1. stops \in SUBSET (1..n)
    OBVIOUS
  <2> HIDE DEF stops, n
  <2> QED BY <1>1, <2>1, FromFits
<1>3. ASSUME NEW i \in 1..n, i \notin from..n PROVE ~Contains(s[i].iv, v)
  <2>1. from > 1 /\ from - 1 \in 1..n /\ i <= from - 1
    <3> HIDE DEF from
    <3> QED BY <1>1, <1>2, <1>3
  <2>2. Hi(s[from - 1]) < v
    BY <1>2, <2>1
  <2>3. Hi(s[i]) \in Int /\ Hi(s[from - 1]) \in Int
    BY <1>1, <2>1 DEF IsInterval, Hi
  <2>4. Hi(s[i]) <= Hi(s[from - 1])
    <3>1. CASE from - 1 = i
      BY <3>1, <2>3
    <3>2. CASE from - 1 # i
      <4>1. i < from - 1
        <5> HIDE DEF from
        <5> QED BY <1>1, <1>2, <2>1, <3>2
      <4> QED BY <4>1, <2>1 DEF Ascends, Bound
    <3> QED BY <3>1, <3>2
  <2> HIDE DEF from
  <2>5. Hi(s[i]) < v
    BY <2>2, <2>3, <2>4
  <2> QED BY <2>3, <2>5 DEF Contains, Hi
<1> HIDE DEF from
<1>4. n \in 0..n
  BY <1>1
<1>5. Each(Selected(s, from, n, v), {e \in S : Contains(e.iv, v)})
  BY <1>2, <1>3, <1>4, ScanFits
<1> QED BY <1>5 DEF from

\* Among the ranges: sorted by the lower bound, and backwards until maxHi is
\* below v.
LEMMA RangesFound ==
    ASSUME NEW S, NEW s, Each(s, S), Ascends("ranges", s), \A e \in S : IsInterval(e.iv), NEW v \in Int,
           NEW max, \A i \in 1..Len(s) : /\ max[i] \in Int
                                         /\ \A j \in 1..i : Hi(s[j]) <= max[i]
    PROVE  Each(Selected(s, From({i \in 1..SearchLo(s, v, TRUE) : max[i] < v}), SearchLo(s, v, TRUE), v),
                {e \in S : Contains(e.iv, v)})
<1> DEFINE n == Len(s)
           above == SearchLo(s, v, TRUE)
           stops == {i \in 1..above : max[i] < v}
           from == From(stops)
<1>1. n \in Nat /\ \A i \in 1..n : s[i] \in S
  BY EachIs
<1>2. \A i \in 1..n : Lo(s[i]) \in Int /\ Hi(s[i]) \in Int
  BY <1>1 DEF IsInterval, Lo, Hi
<1>3. above \in 0..n /\ \A k \in above + 1..n : ~(Lo(s[k]) < v \/ (TRUE /\ Lo(s[k]) = v))
  BY <1>1, <1>2, SearchLoFits
<1> HIDE DEF above
<1>4. from \in 1..above + 1 /\ (from > 1 => from - 1 \in stops)
  <2>1. stops \in SUBSET (1..above) /\ above \in Nat
    BY <1>1, <1>3
  <2> HIDE DEF stops
  <2> QED BY <2>1, FromFits
<1>5. ASSUME NEW i \in 1..n, i \notin from..above PROVE ~Contains(s[i].iv, v)
  <2>1. CASE i > above
    <3>1. i \in above + 1..n
      BY <1>1, <1>3, <2>1
    <3>2. ~(Lo(s[i]) < v) /\ Lo(s[i]) # v
      BY <1>3, <3>1
    <3> QED BY <3>2 DEF Contains, Lo
  <2>2. CASE ~(i > above)
    <3>1. from > 1 /\ from - 1 \in 1..above /\ from - 1 \in 1..n /\ i \in 1..from - 1
      <4> HIDE DEF from
      <4> QED BY <1>1, <1>3, <1>4, <1>5, <2>2
    <3>2. max[from - 1] < v /\ max[from - 1] \in Int /\ Hi(s[i]) <= max[from - 1]
      BY <1>4, <3>1
    <3> HIDE DEF from
    <3>3. Hi(s[i]) < v /\ Hi(s[i]) \in Int
      BY <1>2, <3>2
    <3> QED BY <3>3 DEF Contains, Hi
  <2> QED BY <2>1, <2>2
<1> HIDE DEF from
<1>6. from \in 1..n + 1
  BY <1>1, <1>3, <1>4
<1>7. Each(Selected(s, from, above, v), {e \in S : Contains(e.iv, v)})
  BY <1>3, <1>5, <1>6, ScanFits
<1> QED BY <1>7 DEF from, above

\* Among the single numbers: those from the first at v to the last, unchecked.
LEMMA PointsFound ==
    ASSUME NEW S, NEW s, Each(s, S), Ascends("points", s), NEW v \in Int,
           \A e \in S : IsInterval(e.iv) /\ KindOf(e.iv) = "points"
    PROVE  LET at == SearchLo(s, v, FALSE)
           IN  Each(SubSeq(s, at + 1, Until(Len(s), {i \in at + 1..Len(s) : Lo(s[i]) # v})),
                    {e \in S : Contains(e.iv, v)})
<1> DEFINE n == Len(s)
           at == SearchLo(s, v, FALSE)
           stops == {i \in at + 1..n : Lo(s[i]) # v}
           to == Until(n, stops)
<1>1. n \in Nat /\ S = {s[i] : i \in 1..n} /\ \A i \in 1..n : s[i] \in S
  BY EachIs
<1>2. \A i \in 1..n : Lo(s[i]) \in Int
  BY <1>1 DEF IsInterval, Lo
<1>3. Ascends("ranges", s)
  BY DEF Ascends, Bound
<1>4. /\ at \in 0..n
      /\ \A k \in 1..at : Lo(s[k]) < v \/ (FALSE /\ Lo(s[k]) = v)
      /\ \A k \in at + 1..n : ~(Lo(s[k]) < v \/ (FALSE /\ Lo(s[k]) = v))
  BY <1>1, <1>2, <1>3, SearchLoFits
<1> HIDE DEF at
<1>5. to \in at..n /\ (\A i \in at + 1..to : i \notin stops) /\ (to < n => to + 1 \in stops)
  <2>1. stops \in SUBSET (at + 1..n) /\ at \in Nat /\ at <= n
    BY <1>1, <1>4
  <2> HIDE DEF stops
  <2> QED BY <1>1, <2>1, UntilFits
<1>6. ASSUME NEW i \in 1..n PROVE Contains(s[i].iv, v) <=> Lo(s[i]) = v
  <2>1. s[i].iv.lo = s[i].iv.hi /\ IsInterval(s[i].iv)
    <3>1. KindOf(s[i].iv) = "points"
      BY <1>1
    <3> QED BY <1>1, <3>1 DEF KindOf
  <2> QED BY <2>1 DEF Contains, IsInterval, Lo
<1>7. ASSUME NEW i \in 1..n PROVE i \in at + 1..to <=> Lo(s[i]) = v
  <2>1. CASE i \in at + 1..to
    <3>1. i \notin stops
      BY <1>5, <2>1
    <3>2. i \in at + 1..n
      <4> HIDE DEF to
      <4> QED BY <1>1, <1>4, <1>5, <2>1
    <3> QED BY <2>1, <3>1, <3>2
  <2>2. CASE i <= at
    <3>1. i \in 1..at
      BY <1>4, <2>2
    <3>2. Lo(s[i]) < v /\ Lo(s[i]) \in Int
      BY <1>2, <1>4, <3>1
    <3>3. i \notin at + 1..to
      <4> HIDE DEF to
      <4> QED BY <1>1, <1>4, <1>5, <2>2
    <3> QED BY <3>2, <3>3
  <2>3. CASE ~(i <= at) /\ i \notin at + 1..to
    <3>1. to < n /\ to + 1 \in at + 1..n /\ to + 1 <= i
      <4> HIDE DEF to
      <4> QED BY <1>1, <1>4, <1>5, <2>3
    <3>2. Lo(s[to + 1]) # v
      BY <1>5, <3>1
    <3>3. ~(Lo(s[to + 1]) < v)
      BY <1>4, <3>1
    <3>4. to + 1 \in 1..n
      <4> HIDE DEF to
      <4> QED BY <1>1, <1>4, <3>1
    <3> HIDE DEF to
    <3>5. Lo(s[to + 1]) \in Int /\ Lo(s[i]) \in Int
      BY <1>2, <3>4
    <3>6. Lo(s[to + 1]) <= Lo(s[i])
      <4>1. CASE to + 1 = i
        BY <4>1, <3>5
      <4>2. CASE to + 1 # i
        <5>1. to + 1 < i
          BY <1>1, <1>5, <3>1, <4>2
        <5> QED BY <3>4, <5>1 DEF Ascends, Bound
      <4> QED BY <4>1, <4>2
    <3> QED BY <2>3, <3>2, <3>3, <3>5, <3>6
  <2> QED BY <1>1, <1>4, <2>1, <2>2, <2>3
<1> HIDE DEF to
<1>8. at + 1 \in 1..n + 1 /\ to \in 0..n
  BY <1>1, <1>4, <1>5
<1>9. Each(SubSeq(s, at + 1, to), {s[i] : i \in at + 1..to})
  BY <1>8, EachSub
<1>10. at + 1..to \subseteq 1..n
  BY <1>1, <1>4, <1>5
<1>11. {s[i] : i \in at + 1..to} = {e \in S : Contains(e.iv, v)}
  BY <1>1, <1>6, <1>7, <1>10
<1> QED BY <1>9, <1>11 DEF to, at

\* Of the intervals S in an index, those that contain v.
Around(S, v) == {e \in S : Contains(e.iv, v)}

\* numIndex.collect finds every interval that contains the number, once.
THEOREM CollectFits ==
    ASSUME NEW index, NEW S, NumbersFit(index, S), \A e \in S : IsInterval(e.iv), NEW v \in Int
    PROVE  Each(CollectNumbers(index, v), Around(S, v))
<1> DEFINE A(k) == Listed(index[k].sorted)
           B(k) == Listed(index[k].recent)
<1>1. ASSUME NEW k \in Kinds
      PROVE  /\ Each(index[k].sorted, A(k)) /\ Each(index[k].recent, B(k)) /\ A(k) \cap B(k) = {}
             /\ OfKind(S, k) = A(k) \cup B(k) /\ Ascends(k, index[k].sorted)
             /\ \A e \in A(k) \cup B(k) : IsInterval(e.iv) /\ KindOf(e.iv) = k
  <2>1. ListFits(k, index[k], OfKind(S, k))
    BY DEF NumbersFit
  <2>2. \A e \in OfKind(S, k) : IsInterval(e.iv) /\ KindOf(e.iv) = k
    BY DEF OfKind
  <2> QED BY <2>1, <2>2 DEF ListFits
<1>2. S = OfKind(S, "lower") \cup OfKind(S, "upper") \cup OfKind(S, "ranges") \cup OfKind(S, "points")
  BY KindIs DEF OfKind, Kinds
<1>3. "lower" \in Kinds /\ "upper" \in Kinds /\ "ranges" \in Kinds /\ "points" \in Kinds
  BY DEF Kinds
<1> DEFINE lower == index.lower.sorted
           upper == index.upper.sorted
           ranges == index.ranges.sorted
           points == index.points.sorted
           r1 == index.lower.recent
           r2 == index.upper.recent
           r3 == index.ranges.recent
           r4 == index.points.recent
<1>4. \A i \in 1..Len(ranges) : /\ index.ranges.maxHi[i] \in Int
                                /\ \A j \in 1..i : Hi(ranges[j]) <= index.ranges.maxHi[i]
  BY <1>3 DEF NumbersFit, ListFits
<1> HIDE DEF A, B
<1> DEFINE above == SearchLo(ranges, v, TRUE)
           at == SearchLo(points, v, FALSE)
           recent == r1 \o r2 \o r3 \o r4
           c1 == Selected(lower, 1, Until(Len(lower), {i \in 1..Len(lower) : Lo(lower[i]) > v}), v)
           c2 == Selected(upper, From({i \in 1..Len(upper) : Hi(upper[i]) < v}), Len(upper), v)
           c3 == Selected(ranges, From({i \in 1..above : index.ranges.maxHi[i] < v}), above, v)
           c4 == SubSeq(points, at + 1, Until(Len(points), {i \in at + 1..Len(points) : Lo(points[i]) # v}))
           c5 == Selected(recent, 1, Len(recent), v)
<1>5. CollectNumbers(index, v) = c1 \o c2 \o c3 \o c4 \o c5
  BY DEF CollectNumbers
<1>6. Each(c1, Around(A("lower"), v))
  BY <1>1, <1>3, LowerFound DEF Around
<1>7. Each(c2, Around(A("upper"), v))
  BY <1>1, <1>3, UpperFound DEF Around
<1>8. Each(c3, Around(A("ranges"), v))
  <2> DEFINE max == index.ranges.maxHi
  <2>1. Each(ranges, A("ranges")) /\ Ascends("ranges", ranges)
    BY <1>1, <1>3
  <2>2. \A e \in A("ranges") : IsInterval(e.iv)
    BY <1>1, <1>3
  <2>3. \A i \in 1..Len(ranges) : max[i] \in Int /\ \A j \in 1..i : Hi(ranges[j]) <= max[i]
    BY <1>4
  <2> HIDE DEF max, ranges
  <2>4. Each(Selected(ranges, From({i \in 1..SearchLo(ranges, v, TRUE) : max[i] < v}), SearchLo(ranges, v, TRUE), v),
                {e \in A("ranges") : Contains(e.iv, v)})
    BY <2>1, <2>2, <2>3, RangesFound
  <2> QED BY <2>4 DEF Around, max
<1>9. Each(c4, Around(A("points"), v))
  <2>1. Each(points, A("points")) /\ Ascends("points", points)
    BY <1>1, <1>3
  <2>2. \A e \in A("points") : IsInterval(e.iv) /\ KindOf(e.iv) = "points"
    BY <1>1, <1>3
  <2> QED BY <2>1, <2>2, PointsFound DEF Around
<1> HIDE DEF c1, c2, c3, c4
<1> DEFINE R == B("lower") \cup B("upper") \cup B("ranges") \cup B("points")
<1>10. \A k, l \in Kinds : k # l => (A(k) \cup B(k)) \cap (A(l) \cup B(l)) = {}
  BY <1>1
<1>11. Each(recent, R)
  <2>1. Each(r1, B("lower")) /\ Each(r2, B("upper")) /\ Each(r3, B("ranges")) /\ Each(r4, B("points"))
    BY <1>1, <1>3
  <2> HIDE DEF r1, r2, r3, r4
  <2>2. B("lower") \cap B("upper") = {} /\ (B("lower") \cup B("upper")) \cap B("ranges") = {}
        /\ (B("lower") \cup B("upper") \cup B("ranges")) \cap B("points") = {}
    BY <1>3, <1>10
  <2>3. Each(r1 \o r2, B("lower") \cup B("upper"))
    BY <2>1, <2>2, EachConcat
  <2>4. Each(r1 \o r2 \o r3, B("lower") \cup B("upper") \cup B("ranges"))
    BY <2>1, <2>2, <2>3, EachConcat
  <2> QED BY <2>1, <2>2, <2>4, EachConcat
<1>12. Each(c5, Around(R, v))
  <2> HIDE DEF recent, R
  <2>1. Len(recent) \in Nat
    BY <1>11, EachIs
  <2>2. 1 \in 1..Len(recent) + 1 /\ Len(recent) \in 0..Len(recent)
    BY <2>1
  <2> QED BY <1>11, <2>2, ScanFits DEF Around
<1> HIDE DEF c5, recent
<1> DEFINE P(k) == Around(A(k), v)
<1>13. /\ P("lower") \cap P("upper") = {} /\ (P("lower") \cup P("upper")) \cap P("ranges") = {}
       /\ (P("lower") \cup P("upper") \cup P("ranges")) \cap P("points") = {}
       /\ (P("lower") \cup P("upper") \cup P("ranges") \cup P("points")) \cap Around(R, v) = {}
  <2>1. \A k, l \in Kinds : k # l => P(k) \cap P(l) = {}
    BY <1>10 DEF Around
  <2>2. \A k \in Kinds : P(k) \cap Around(R, v) = {}
    <3> SUFFICES ASSUME NEW k \in Kinds PROVE A(k) \cap R = {}
      BY DEF Around
    <3> QED BY <1>1, <1>3, <1>10
  <2> HIDE DEF P, R
  <2> QED BY <1>3, <2>1, <2>2
<1>14. Around(S, v) = P("lower") \cup P("upper") \cup P("ranges") \cup P("points") \cup Around(R, v)
  BY <1>1, <1>2, <1>3 DEF Around
<1> HIDE DEF P, R
<1>15. Each(c1, P("lower")) /\ Each(c2, P("upper")) /\ Each(c3, P("ranges")) /\ Each(c4, P("points"))
  BY <1>6, <1>7, <1>8, <1>9 DEF P
<1>16. Each(c1 \o c2, P("lower") \cup P("upper"))
  BY <1>13, <1>15, EachConcat
<1>17. Each(c1 \o c2 \o c3, P("lower") \cup P("upper") \cup P("ranges"))
  BY <1>13, <1>15, <1>16, EachConcat
<1>18. Each(c1 \o c2 \o c3 \o c4, P("lower") \cup P("upper") \cup P("ranges") \cup P("points"))
  BY <1>13, <1>15, <1>17, EachConcat
<1> QED BY <1>5, <1>12, <1>13, <1>14, <1>18, EachConcat

-----------------------------------------------------------------------------
(* Lengths and byte maps.                                                  *)

\* What slices.Insert returns.
Inserted(S, q, k, v) ==
    /\ InsertAt(q, k, v) \in Seq(S)
    /\ Len(InsertAt(q, k, v)) = Len(q) + 1
    /\ \A i \in 1..Len(q) + 1 :
            InsertAt(q, k, v)[i] = IF i <= k THEN q[i] ELSE IF i = k + 1 THEN v ELSE q[i - 1]

\* InsertAt returns that.
LEMMA InsertAtIs ==
    ASSUME NEW S, NEW q \in Seq(S), NEW k \in 0..Len(q), NEW v \in S
    PROVE  Inserted(S, q, k, v)
<1> DEFINE n == Len(q)
           p1 == SubSeq(q, 1, k)
           p2 == <<v>>
           p3 == SubSeq(q, k + 1, n)
<1>1. n \in Nat /\ k \in Nat /\ k <= n /\ \A i \in 1..n : q[i] \in S
  BY LenProperties, ElementOfSeq
<1>2. p1 \in Seq(S) /\ Len(p1) = k /\ \A i \in 1..k : p1[i] = q[i]
  <2>1. \A i \in 1..k : q[i] \in S
    BY <1>1
  <2>2. 1 \in Int /\ k \in Int
    BY <1>1
  <2>3. /\ SubSeq(q, 1, k) \in Seq(S)
        /\ Len(SubSeq(q, 1, k)) = IF 1 <= k THEN k - 1 + 1 ELSE 0
        /\ \A i \in 1..k - 1 + 1 : SubSeq(q, 1, k)[i] = q[1 + i - 1]
    <3> HIDE DEF n
    <3> QED BY <2>1, <2>2, SubSeqProperties
  <2> QED BY <1>1, <2>3
<1>3. p2 \in Seq(S) /\ Len(p2) = 1 /\ p2[1] = v
  OBVIOUS
<1>4. p3 \in Seq(S) /\ Len(p3) = n - k /\ \A i \in 1..n - k : p3[i] = q[k + i]
  <2>1. \A i \in k + 1..n : q[i] \in S
    BY <1>1
  <2>2. k + 1 \in Int /\ n \in Int
    BY <1>1
  <2>3. /\ SubSeq(q, k + 1, n) \in Seq(S)
        /\ Len(SubSeq(q, k + 1, n)) = IF k + 1 <= n THEN n - (k + 1) + 1 ELSE 0
        /\ \A i \in 1..n - (k + 1) + 1 : SubSeq(q, k + 1, n)[i] = q[k + 1 + i - 1]
    <3> HIDE DEF n
    <3> QED BY <2>1, <2>2, SubSeqProperties
  <2> QED BY <1>1, <2>3
<1> HIDE DEF p1, p2, p3, n
<1>5. /\ p1 \o p2 \in Seq(S) /\ Len(p1 \o p2) = k + 1
      /\ \A i \in 1..k + 1 : (p1 \o p2)[i] = IF i <= k THEN p1[i] ELSE p2[i - k]
  <2>1. /\ p1 \o p2 \in Seq(S) /\ Len(p1 \o p2) = Len(p1) + Len(p2)
        /\ \A i \in 1..Len(p1) + Len(p2) : (p1 \o p2)[i] = IF i <= Len(p1) THEN p1[i] ELSE p2[i - Len(p1)]
    BY <1>2, <1>3, ConcatProperties
  <2> QED BY <1>2, <1>3, <2>1
<1> DEFINE p12 == p1 \o p2
<1> HIDE DEF p12
<1>6. /\ p12 \in Seq(S) /\ Len(p12) = k + 1
      /\ \A i \in 1..k + 1 : p12[i] = IF i <= k THEN p1[i] ELSE p2[i - k]
  BY <1>5 DEF p12
<1>7. /\ p12 \o p3 \in Seq(S) /\ Len(p12 \o p3) = k + 1 + (n - k)
      /\ \A i \in 1..k + 1 + (n - k) : (p12 \o p3)[i] = IF i <= k + 1 THEN p12[i] ELSE p3[i - (k + 1)]
  <2>1. /\ p12 \o p3 \in Seq(S) /\ Len(p12 \o p3) = Len(p12) + Len(p3)
        /\ \A i \in 1..Len(p12) + Len(p3) : (p12 \o p3)[i] = IF i <= Len(p12) THEN p12[i] ELSE p3[i - Len(p12)]
    BY <1>4, <1>6, ConcatProperties
  <2> QED BY <1>4, <1>6, <2>1
<1>8. InsertAt(q, k, v) = p12 \o p3
  BY DEF InsertAt, p12, p1, p2, p3, n
<1> DEFINE r == p12 \o p3
<1>9. r \in Seq(S) /\ Len(r) = n + 1
  BY <1>1, <1>7
<1>10. ASSUME NEW i \in 1..n + 1
       PROVE  r[i] = IF i <= k THEN q[i] ELSE IF i = k + 1 THEN v ELSE q[i - 1]
  <2>1. r[i] = IF i <= k + 1 THEN p12[i] ELSE p3[i - (k + 1)]
    BY <1>1, <1>7
  <2> HIDE DEF r
  <2>2. CASE i <= k
    BY <1>1, <1>2, <1>6, <2>1, <2>2
  <2>3. CASE i = k + 1
    BY <1>1, <1>3, <1>6, <2>1, <2>3
  <2>4. CASE ~(i <= k) /\ i # k + 1
    <3>1. i - (k + 1) \in 1..n - k /\ k + (i - (k + 1)) = i - 1
      BY <1>1, <2>4
    <3> QED BY <1>1, <1>4, <2>1, <2>4, <3>1
  <2> QED BY <2>2, <2>3, <2>4
<1> HIDE DEF r
<1>11. /\ InsertAt(q, k, v) \in Seq(S) /\ Len(InsertAt(q, k, v)) = Len(q) + 1
       /\ \A i \in 1..Len(q) + 1 :
            InsertAt(q, k, v)[i] = IF i <= k THEN q[i] ELSE IF i = k + 1 THEN v ELSE q[i - 1]
  BY <1>8, <1>9, <1>10 DEF n, r
<1> QED BY <1>11 DEF Inserted

\* A strictly ascending sequence of lengths.
Lengths(q) == q \in Seq(Nat) /\ \A i, j \in 1..Len(q) : i < j => q[i] < q[j]

\* addLength adds the length if it is not there, and keeps the order.
LEMMA WithLengthFits ==
    ASSUME NEW q, Lengths(q), NEW n \in Nat
    PROVE  Lengths(WithLength(q, n)) /\ Listed(WithLength(q, n)) = Listed(q) \cup {n}
<1> DEFINE stops == {i \in 1..Len(q) : q[i] >= n}
           below == Until(Len(q), stops)
<1>1. q \in Seq(Nat) /\ Len(q) \in Nat /\ \A i \in 1..Len(q) : q[i] \in Nat
  BY LenProperties, ElementOfSeq DEF Lengths
<1>2. below \in 0..Len(q) /\ (\A i \in 1..below : i \notin stops) /\ (below < Len(q) => below + 1 \in stops)
  <2>1. stops \in SUBSET (0 + 1..Len(q)) /\ 0 <= Len(q) /\ 0 + 1 = 1
    BY <1>1
  <2> HIDE DEF stops
  <2> QED BY <1>1, <2>1, UntilFits
<1>3. WithLength(q, n) = IF below < Len(q) /\ q[below + 1] = n THEN q ELSE InsertAt(q, below, n)
  BY DEF WithLength
<1>4. \A i \in 1..below : q[i] < n
  <2> SUFFICES ASSUME NEW i \in 1..below PROVE q[i] < n
    OBVIOUS
  <2>1. i \in 1..Len(q) /\ i \notin stops
    <3> HIDE DEF below, stops
    <3> QED BY <1>1, <1>2
  <2> HIDE DEF below
  <2> QED BY <1>1, <2>1
<1>5. below < Len(q) => q[below + 1] >= n
  BY <1>2
<1> HIDE DEF below, stops
<1>6. CASE below < Len(q) /\ q[below + 1] = n
  <2>1. below + 1 \in 1..Len(q)
    BY <1>1, <1>2, <1>6
  <2>2. n \in Listed(q)
    BY <1>6, <2>1 DEF Listed
  <2> QED BY <1>3, <1>6, <2>2
<1>7. CASE ~(below < Len(q) /\ q[below + 1] = n)
  <2> DEFINE r == InsertAt(q, below, n)
             l == Len(q)
  <2>1. /\ r \in Seq(Nat) /\ Len(r) = l + 1
        /\ \A i \in 1..l + 1 : r[i] = IF i <= below THEN q[i] ELSE IF i = below + 1 THEN n ELSE q[i - 1]
    <3>1. /\ InsertAt(q, below, n) \in Seq(Nat)
          /\ Len(InsertAt(q, below, n)) = Len(q) + 1
          /\ \A i \in 1..Len(q) + 1 :
                InsertAt(q, below, n)[i]
                    = IF i <= below THEN q[i] ELSE IF i = below + 1 THEN n ELSE q[i - 1]
      <4> DEFINE N == Nat
      <4>1. q \in Seq(N) /\ below \in 0..Len(q) /\ n \in N
        BY <1>1, <1>2
      <4> HIDE DEF N
      <4>2. /\ InsertAt(q, below, n) \in Seq(N)
            /\ Len(InsertAt(q, below, n)) = Len(q) + 1
            /\ \A i \in 1..Len(q) + 1 :
                InsertAt(q, below, n)[i]
                    = IF i <= below THEN q[i] ELSE IF i = below + 1 THEN n ELSE q[i - 1]
        <5>1. Inserted(N, q, below, n)
          BY <4>1, InsertAtIs
        <5> QED BY <5>1 DEF Inserted
      <4> QED BY <4>2 DEF N
    <3> QED BY <3>1
  <2>2. WithLength(q, n) = r
    BY <1>3, <1>7
  <2> HIDE DEF r
  <2>3. ASSUME NEW i \in 1..l, i > below PROVE q[i] > n
    <3>1. below + 1 \in 1..l /\ below < l /\ below + 1 <= i
      BY <1>1, <1>2, <2>3
    <3>2. q[below + 1] > n /\ q[below + 1] \in Nat
      BY <1>1, <1>5, <1>7, <3>1
    <3>3. CASE i = below + 1
      BY <3>2, <3>3
    <3>4. CASE i # below + 1
      <4>1. below + 1 < i
        BY <1>1, <1>2, <3>1, <3>4
      <4>2. q[below + 1] < q[i] /\ q[i] \in Nat
        BY <1>1, <3>1, <4>1 DEF Lengths
      <4> QED BY <3>2, <4>2
    <3> QED BY <3>3, <3>4
  <2>4. ASSUME NEW i \in 1..l + 1, NEW j \in 1..l + 1, i < j PROVE r[i] < r[j]
    <3>1. CASE i <= below /\ j <= below
      <4>1. i \in 1..l /\ j \in 1..l /\ r[i] = q[i] /\ r[j] = q[j]
        BY <1>1, <1>2, <2>1, <3>1, SMTT(30)
      <4> QED BY <2>4, <4>1 DEF Lengths
    <3>2. CASE i <= below /\ j = below + 1
      <4>1. i \in 1..below /\ r[i] = q[i] /\ r[j] = n
        BY <1>1, <1>2, <2>1, <3>2
      <4> QED BY <1>4, <4>1
    <3>3. CASE i <= below /\ j > below + 1
      <4>1. i \in 1..l /\ j - 1 \in 1..l /\ i < j - 1 /\ r[i] = q[i] /\ r[j] = q[j - 1]
        BY <1>1, <1>2, <2>1, <3>3
      <4> QED BY <4>1 DEF Lengths
    <3>4. CASE i = below + 1
      <4>1. j - 1 \in 1..l /\ j - 1 > below /\ r[i] = n /\ r[j] = q[j - 1]
        BY <1>1, <1>2, <2>1, <2>4, <3>4
      <4>2. q[j - 1] > n /\ q[j - 1] \in Nat
        BY <1>1, <2>3, <4>1
      <4> QED BY <4>1, <4>2
    <3>5. CASE i > below + 1
      <4>1. i - 1 \in 1..l /\ j - 1 \in 1..l /\ i - 1 < j - 1 /\ r[i] = q[i - 1] /\ r[j] = q[j - 1]
        BY <1>1, <1>2, <2>1, <2>4, <3>5
      <4> QED BY <4>1 DEF Lengths
    <3> QED BY <1>1, <1>2, <2>4, <3>1, <3>2, <3>3, <3>4, <3>5
  <2>5. Lengths(r)
    BY <2>1, <2>4 DEF Lengths
  <2>6. ASSUME NEW m PROVE m \in Listed(r) <=> m \in Listed(q) \cup {n}
    <3>1. ASSUME NEW i \in 1..l + 1, r[i] = m PROVE m \in Listed(q) \cup {n}
      <4>1. i \in 1..l \/ i = below + 1 \/ i - 1 \in 1..l
        BY <1>1, <1>2
      <4>2. (i <= below => i \in 1..l) /\ (i > below + 1 => i - 1 \in 1..l)
        BY <1>1, <1>2
      <4>3. i <= below \/ i = below + 1 \/ i > below + 1
        BY <1>1, <1>2
      <4> QED BY <1>1, <1>2, <2>1, <3>1, <4>2, <4>3 DEF Listed
    <3>2. ASSUME NEW i \in 1..l, q[i] = m PROVE m \in Listed(r)
      <4>1. CASE i <= below
        <5>1. i \in 1..l + 1 /\ r[i] = m
          BY <1>1, <1>2, <2>1, <3>2, <4>1, SMTT(30)
        <5> QED BY <2>1, <5>1 DEF Listed
      <4>2. CASE ~(i <= below)
        <5>1. i + 1 \in 1..l + 1 /\ r[i + 1] = m
          BY <1>1, <1>2, <2>1, <3>2, <4>2
        <5> QED BY <2>1, <5>1 DEF Listed
      <4> QED BY <4>1, <4>2
    <3>3. n \in Listed(r)
      <4>1. below + 1 \in 1..l + 1 /\ r[below + 1] = n
        BY <1>1, <1>2, <2>1
      <4> QED BY <2>1, <4>1 DEF Listed
    <3>4. (m \in Listed(r) => \E i \in 1..l + 1 : r[i] = m) /\ (m \in Listed(q) => \E i \in 1..l : q[i] = m)
      BY <2>1 DEF Listed
    <3> QED BY <3>1, <3>2, <3>3, <3>4
  <2> QED BY <2>2, <2>5, <2>6
<1> QED BY <1>6, <1>7

\* The lengths up to n are those before the first that is larger.
LEMMA ShortIs ==
    ASSUME NEW q, Lengths(q), NEW n \in Nat
    PROVE  /\ Short(q, n) \in Seq(Nat)
           /\ Listed(Short(q, n)) = {m \in Listed(q) : m <= n}
<1> DEFINE l == Len(q)
           stops == {i \in 1..l : q[i] > n}
           to == Until(l, stops)
<1>1. q \in Seq(Nat) /\ l \in Nat /\ \A i \in 1..l : q[i] \in Nat
  BY LenProperties, ElementOfSeq DEF Lengths
<1>2. to \in 0..l /\ (\A i \in 1..to : i \notin stops) /\ (to < l => to + 1 \in stops)
  <2>1. stops \in SUBSET (0 + 1..l) /\ 0 <= l /\ 0 + 1 = 1
    BY <1>1
  <2> HIDE DEF stops, l
  <2> QED BY <1>1, <2>1, UntilFits
<1>3. \A i \in 1..l : q[i] <= n <=> i \in 1..to
  <2> SUFFICES ASSUME NEW i \in 1..l PROVE q[i] <= n <=> i \in 1..to
    OBVIOUS
  <2>1. CASE i \in 1..to
    <3>1. i \notin stops
      BY <1>2, <2>1
    <3> QED BY <1>1, <2>1, <3>1
  <2>2. CASE i \notin 1..to
    <3>1. to < l /\ to + 1 <= i /\ to + 1 \in 1..l
      <4> HIDE DEF to
      <4> QED BY <1>1, <1>2, <2>2
    <3>2. q[to + 1] > n
      BY <1>2, <3>1
    <3> HIDE DEF to
    <3>3. CASE i = to + 1
      BY <1>1, <2>2, <3>2, <3>3
    <3>4. CASE i # to + 1
      <4>1. to + 1 < i
        BY <1>1, <1>2, <3>1, <3>4
      <4>2. q[to + 1] < q[i]
        BY <3>1, <4>1 DEF Lengths
      <4> QED BY <1>1, <2>2, <3>1, <3>2, <4>2
    <3> QED BY <3>3, <3>4
  <2> QED BY <2>1, <2>2
<1>4. Short(q, n) = SubSeq(q, 1, to)
  BY DEF Short
<1> HIDE DEF to
<1>5. /\ SubSeq(q, 1, to) \in Seq(Nat)
      /\ Len(SubSeq(q, 1, to)) = to
      /\ \A i \in 1..to : SubSeq(q, 1, to)[i] = q[i]
  <2>1. \A i \in 1..to : q[i] \in Nat
    BY <1>1, <1>2
  <2>2. 1 \in Int /\ to \in Int
    BY <1>2
  <2>3. /\ SubSeq(q, 1, to) \in Seq(Nat)
        /\ Len(SubSeq(q, 1, to)) = IF 1 <= to THEN to - 1 + 1 ELSE 0
        /\ \A i \in 1..to - 1 + 1 : SubSeq(q, 1, to)[i] = q[1 + i - 1]
    BY <2>1, <2>2, SubSeqProperties
  <2> QED BY <1>2, <2>3
<1>6. ASSUME NEW m PROVE m \in Listed(SubSeq(q, 1, to)) <=> m \in {k \in Listed(q) : k <= n}
  <2>1. m \in Listed(SubSeq(q, 1, to)) <=> \E i \in 1..to : m = q[i]
    BY <1>5 DEF Listed
  <2>2. m \in {k \in Listed(q) : k <= n} <=> \E i \in 1..l : m = q[i] /\ q[i] <= n
    BY DEF Listed
  <2>3. \A i \in 1..to : i \in 1..l
    BY <1>1, <1>2
  <2> QED BY <1>3, <2>1, <2>2, <2>3
<1> QED BY <1>4, <1>5, <1>6

Bytes == 0..255

\* How many of a set of bytes are smaller than c.
Below(S, c) == Cardinality({b \in S : b < c})

\* The keys of a byte map are finitely many.
LEMMA BytesAreFinite ==
    ASSUME NEW S \in SUBSET Bytes
    PROVE  IsFiniteSet(S) /\ Cardinality(S) \in Nat
<1>1. IsFiniteSet(Bytes)
  <2>1. 0 \in Int /\ 255 \in Int
    OBVIOUS
  <2> QED BY <2>1, FS_Interval DEF Bytes
<1>2. IsFiniteSet(S)
  BY <1>1, FS_Subset
<1> QED BY <1>2, FS_CardinalityType

\* Another byte raises the rank of the larger ones.
LEMMA BelowMore ==
    ASSUME NEW S \in SUBSET Bytes, NEW c \in Bytes, c \notin S, NEW b \in Bytes
    PROVE  Below(S \cup {c}, b) = IF c < b THEN Below(S, b) + 1 ELSE Below(S, b)
<1> DEFINE B == {d \in S : d < b}
<1>1. IsFiniteSet(B) /\ Cardinality(B) \in Nat
  <2>1. B \in SUBSET Bytes
    OBVIOUS
  <2> HIDE DEF B
  <2> QED BY <2>1, BytesAreFinite
<1>2. CASE c < b
  <2>1. {d \in S \cup {c} : d < b} = B \cup {c} /\ c \notin B
    BY <1>2
  <2> HIDE DEF B
  <2>2. Cardinality(B \cup {c}) = Cardinality(B) + 1
    BY <1>1, <2>1, FS_AddElement
  <2> QED BY <1>2, <2>1, <2>2 DEF Below, B
<1>3. CASE ~(c < b)
  <2>1. {d \in S \cup {c} : d < b} = B
    BY <1>3
  <2> QED BY <1>3, <2>1 DEF Below
<1> QED BY <1>2, <1>3

\* The rank of a byte is smaller than that of a larger byte of the set.
LEMMA BelowLess ==
    ASSUME NEW S \in SUBSET Bytes, NEW c \in S, NEW b \in Bytes, c < b
    PROVE  Below(S, c) < Below(S, b) /\ Below(S, c) \in Nat /\ Below(S, b) \in Nat
<1> DEFINE B == {d \in S : d < b}
           C == {d \in S : d < c}
<1>1. S \subseteq Int /\ c \in Int /\ b \in Int
  BY DEF Bytes
<1>2. C \subseteq B /\ c \in B /\ c \notin C
  <2>1. \A d \in S : d < c => d < b
    BY <1>1
  <2>2. ~(c < c)
    BY <1>1
  <2> QED BY <2>1, <2>2
<1>3. B \in SUBSET Bytes /\ C \in SUBSET Bytes
  OBVIOUS
<1> HIDE DEF B, C
<1>4. IsFiniteSet(B) /\ Cardinality(B) \in Nat /\ Cardinality(C) \in Nat
  BY <1>3, BytesAreFinite
<1>5. Cardinality(C) <= Cardinality(B)
  BY <1>2, <1>4, FS_Subset
<1>6. Cardinality(C) # Cardinality(B)
  BY <1>2, <1>4, FS_Subset
<1>7. Cardinality(C) < Cardinality(B)
  BY <1>4, <1>5, <1>6
<1> QED BY <1>4, <1>7 DEF Below, B, C

\* And never above the number of bytes.
LEMMA BelowAll ==
    ASSUME NEW S \in SUBSET Bytes, NEW c \in Bytes
    PROVE  /\ Below(S, c) \in 0..Cardinality(S)
           /\ c \in S => Below(S, c) + 1 \in 1..Cardinality(S)
<1> DEFINE B == {d \in S : d < c}
<1>1. B \subseteq S /\ B \in SUBSET Bytes /\ (c \in S => B # S)
  <2>1. ~(c < c)
    BY DEF Bytes
  <2>2. c \notin B
    BY <2>1
  <2> QED BY <2>2
<1> HIDE DEF B
<1>2. IsFiniteSet(S) /\ Cardinality(S) \in Nat /\ Cardinality(B) \in Nat
  BY <1>1, BytesAreFinite
<1>3. Cardinality(B) <= Cardinality(S) /\ (Cardinality(B) = Cardinality(S) => B = S)
  BY <1>1, <1>2, FS_Subset
<1> QED BY <1>1, <1>2, <1>3 DEF Below, B

\* t holds the bytes S of a node, each with the node it leads to.
ByteMapFits(t, S, node) ==
    /\ DOMAIN t = {"set", "base", "vals"}
    /\ t.set = S
    /\ \A k \in 0..3 : t.base[k] = Cardinality({b \in S : b \div 64 < k})
    /\ t.vals \in Seq({Append(node, b) : b \in Bytes})
    /\ Len(t.vals) = Cardinality(S)
    /\ \A b \in S : t.vals[Below(S, b) + 1] = Append(node, b)

\* The words before c's own and those before c in it are those below c.
LEMMA RankIs ==
    ASSUME NEW t, NEW S \in SUBSET Bytes, t.set = S,
           \A k \in 0..3 : t.base[k] = Cardinality({b \in S : b \div 64 < k}), NEW c \in Bytes
    PROVE  Rank(t, c) = Below(S, c)
<1> DEFINE k == c \div 64
           P == {b \in S : b \div 64 < k}
           Q == {b \in S : b \div 64 = k /\ b < c}
<1>1. k \in 0..3
  BY DEF Bytes
<1>2. Rank(t, c) = Cardinality(P) + Cardinality(Q)
  BY <1>1 DEF Rank
<1>3. P \cup Q = {b \in S : b < c} /\ P \cap Q = {} /\ P \in SUBSET Bytes /\ Q \in SUBSET Bytes
  <2>1. \A b \in S : b \in Int /\ (b \div 64) \in Int /\ 64 * (b \div 64) <= b /\ b < 64 * (b \div 64) + 64
    BY DEF Bytes
  <2>2. c \in Int /\ k \in Int /\ 64 * k <= c /\ c < 64 * k + 64
    BY DEF Bytes
  <2> HIDE DEF k
  <2>3. \A b \in S : (b \div 64 < k => b < c) /\ (b < c => b \div 64 <= k)
    BY <2>1, <2>2
  <2>4. \A b \in S : b < c => (b \div 64 < k \/ b \div 64 = k)
    BY <2>1, <2>2, <2>3
  <2>5. \A b \in S : ~(b \div 64 < k /\ b \div 64 = k)
    BY <2>1, <2>2
  <2> QED BY <2>3, <2>4, <2>5
<1> HIDE DEF P, Q
<1>4. Cardinality(P \cup Q) = Cardinality(P) + Cardinality(Q)
  <2>1. IsFiniteSet(P) /\ IsFiniteSet(Q) /\ Cardinality(P) \in Nat /\ Cardinality(Q) \in Nat
    BY <1>3, BytesAreFinite
  <2>2. Cardinality(P \cap Q) = 0
    BY <1>3, FS_EmptySet
  <2>3. Cardinality(P \cup Q) = Cardinality(P) + Cardinality(Q) - Cardinality(P \cap Q)
    BY <2>1, FS_Union
  <2> QED BY <2>1, <2>2, <2>3
<1> QED BY <1>2, <1>3, <1>4 DEF Below

\* A larger byte has no fewer bytes before it.
LEMMA BelowGrows ==
    ASSUME NEW S \in SUBSET Bytes, NEW c \in Bytes, NEW b \in Bytes, c < b
    PROVE  Below(S, c) <= Below(S, b) /\ Below(S, c) \in Nat /\ Below(S, b) \in Nat
<1> DEFINE B == {d \in S : d < b}
           C == {d \in S : d < c}
<1>1. S \subseteq Int /\ c \in Int /\ b \in Int
  BY DEF Bytes
<1>2. C \subseteq B
  <2>1. \A d \in S : d < c => d < b
    BY <1>1
  <2> QED BY <2>1
<1>3. B \in SUBSET Bytes /\ C \in SUBSET Bytes
  OBVIOUS
<1> HIDE DEF B, C
<1>4. IsFiniteSet(B) /\ Cardinality(B) \in Nat /\ Cardinality(C) \in Nat
  BY <1>3, BytesAreFinite
<1>5. Cardinality(C) <= Cardinality(B)
  BY <1>2, <1>4, FS_Subset
<1> QED BY <1>4, <1>5 DEF Below, B, C

\* The bytes of the words before word k + 1 are those before word k and in it.
LEMMA WordsBefore ==
    ASSUME NEW S \in SUBSET Bytes, NEW k \in Nat
    PROVE  Cardinality({b \in S : b \div 64 < k + 1})
             = Cardinality({b \in S : b \div 64 < k}) + Cardinality({b \in S : b \div 64 = k})
<1> DEFINE P == {b \in S : b \div 64 < k}
           Q == {b \in S : b \div 64 = k}
<1>1. {b \in S : b \div 64 < k + 1} = P \cup Q /\ P \cap Q = {} /\ P \in SUBSET Bytes /\ Q \in SUBSET Bytes
  <2>1. \A b \in S : (b \div 64) \in Int
    BY DEF Bytes
  <2>2. \A b \in S : /\ b \div 64 < k + 1 <=> (b \div 64 < k \/ b \div 64 = k)
                     /\ ~(b \div 64 < k /\ b \div 64 = k)
    BY <2>1
  <2> QED BY <2>2
<1> HIDE DEF P, Q
<1>2. IsFiniteSet(P) /\ IsFiniteSet(Q) /\ Cardinality(P) \in Nat /\ Cardinality(Q) \in Nat
  BY <1>1, BytesAreFinite
<1>3. Cardinality(P \cap Q) = 0
  BY <1>1, FS_EmptySet
<1>4. Cardinality(P \cup Q) = Cardinality(P) + Cardinality(Q) - Cardinality(P \cap Q)
  BY <1>2, FS_Union
<1>5. Cardinality(P \cup Q) = Cardinality(P) + Cardinality(Q)
  BY <1>2, <1>3, <1>4
<1> QED BY <1>1, <1>5 DEF P, Q

\* put counts the new byte in the words after its own, and moves the values
\* behind it.
LEMMA WithByteFits ==
    ASSUME NEW t, NEW S \in SUBSET Bytes, NEW node, ByteMapFits(t, S, node), NEW c \in Bytes, c \notin S
    PROVE  ByteMapFits(WithByte(t, c, Append(node, c)), S \cup {c}, node)
<1> DEFINE set == S \cup {c}
           v == Append(node, c)
           N == {Append(node, b) : b \in Bytes}
           Turn(u, k) == u + Cardinality({b \in set : b \div 64 = k - 1})
           start == 0
           vals == InsertAt(t.vals, Rank(t, c), v)
<1>r0. 3 \in Nat
  OBVIOUS
<1>a. t.set = S /\ t.vals \in Seq(N) /\ Len(t.vals) = Cardinality(S) /\ v \in N /\ set \in SUBSET Bytes
  BY DEF ByteMapFits
<1>b. \A b \in S : t.vals[Below(S, b) + 1] = Append(node, b)
  BY DEF ByteMapFits
<1>c. Rank(t, c) = Below(S, c)
  BY RankIs DEF ByteMapFits
<1> HIDE DEF Turn, start
<1> DEFINE Is(f, m) == f = [k \in 0..m |-> IF k = 0 THEN start ELSE Turn(f[k - 1], k)]
           T == {m \in 0..3 : \E f : Is(f, m)}
           base == CHOOSE f : Is(f, 3)
<1>r1. 0 \in T
  <2> DEFINE f == [k \in 0..0 |-> start]
  <2>1. Is(f, 0)
    OBVIOUS
  <2> HIDE DEF Is
  <2> QED BY <1>r0, <2>1
<1>r2. ASSUME NEW i \in 0 + 1..3, i - 1 \in T
      PROVE  i \in T
  <2>1. PICK g : Is(g, i - 1)
    BY <1>r2
  <2> DEFINE f == [k \in 0..i |-> IF k = i THEN Turn(g[i - 1], i) ELSE g[k]]
  <2>2. ASSUME NEW k \in 0..i
        PROVE  f[k] = IF k = 0 THEN start ELSE Turn(f[k - 1], k)
    BY <1>r0, <2>1
  <2>3. Is(f, i)
    BY <2>2
  <2> HIDE DEF Is
  <2> QED BY <1>r0, <2>3
<1>r3. Is(base, 3)
  <2>1. 3 \in T
    <3> HIDE DEF T
    <3>1. 0..3 \subseteq T
      BY <1>r0, <1>r1, <1>r2, Induct
    <3> QED BY <1>r0, <3>1
  <2>2. \E f : Is(f, 3)
    BY <2>1
  <2> HIDE DEF Is
  <2> QED BY <2>2
<1> HIDE DEF base
<1>r4. /\ base[0] = start
      /\ \A i \in 0 + 1..3 : base[i] = Turn(base[i - 1], i)
  BY <1>r0, <1>r3
<1> HIDE DEF Is, T
<1> DEFINE new == [set |-> set, base |-> base, vals |-> vals]
<1>1. WithByte(t, c, v) = new
  BY <1>a DEF WithByte, base, Is, Turn, start
<1> DEFINE Words(k) == Cardinality({b \in set : b \div 64 < k})
<1>2. \A k \in 0..3 : base[k] = Words(k)
  <2>1. base[0] = Words(0)
    <3>0. \A b \in Bytes : ~(b \div 64 < 0)
      BY DEF Bytes
    <3>1. {b \in set : b \div 64 < 0} = {}
      BY <1>a, <3>0
    <3>2. Words(0) = 0
      BY <3>1, FS_EmptySet
    <3> QED BY <1>r4, <3>2 DEF start
  <2>2. \A k \in Nat : Words(k + 1) = Words(k) + Cardinality({b \in set : b \div 64 = k})
    <3> HIDE DEF set
    <3> QED BY <1>a, WordsBefore
  <2> HIDE DEF Words
  <2>3. \A k \in 1..3 : base[k] = base[k - 1] + Cardinality({b \in set : b \div 64 = k - 1})
    <3>1. \A k \in 1..3 : k \in 0 + 1..3
      OBVIOUS
    <3> HIDE DEF set
    <3> QED BY <1>r4, <3>1 DEF Turn
  <2>4. base[1] = Words(1)
    <3>1. base[1] = base[0] + Cardinality({b \in set : b \div 64 = 0})
      BY <2>3
    <3>2. Words(1) = Words(0) + Cardinality({b \in set : b \div 64 = 0})
      BY <2>2
    <3> QED BY <2>1, <3>1, <3>2
  <2>5. base[2] = Words(2)
    <3>1. base[2] = base[1] + Cardinality({b \in set : b \div 64 = 1})
      BY <2>3
    <3>2. Words(2) = Words(1) + Cardinality({b \in set : b \div 64 = 1})
      BY <2>2
    <3> QED BY <2>4, <3>1, <3>2
  <2>6. base[3] = Words(3)
    <3>1. base[3] = base[2] + Cardinality({b \in set : b \div 64 = 2})
      BY <2>3
    <3>2. Words(3) = Words(2) + Cardinality({b \in set : b \div 64 = 2})
      BY <2>2
    <3> QED BY <2>5, <3>1, <3>2
  <2>7. \A k \in 0..3 : k = 0 \/ k = 1 \/ k = 2 \/ k = 3
    OBVIOUS
  <2> QED BY <2>1, <2>4, <2>5, <2>6, <2>7
<1> DEFINE at == Below(S, c)
<1>3. at \in 0..Len(t.vals) /\ Len(t.vals) \in Nat
  <2>1. at \in 0..Cardinality(S)
    BY BelowAll
  <2> QED BY <1>a, <2>1, BytesAreFinite
<1> HIDE DEF N, v
<1>4. /\ vals \in Seq(N) /\ Len(vals) = Len(t.vals) + 1
      /\ \A i \in 1..Len(t.vals) + 1 :
            vals[i] = IF i <= at THEN t.vals[i] ELSE IF i = at + 1 THEN v ELSE t.vals[i - 1]
  <2> HIDE DEF at
  <2>1. /\ InsertAt(t.vals, at, v) \in Seq(N) /\ Len(InsertAt(t.vals, at, v)) = Len(t.vals) + 1
        /\ \A i \in 1..Len(t.vals) + 1 : InsertAt(t.vals, at, v)[i]
              = IF i <= at THEN t.vals[i] ELSE IF i = at + 1 THEN v ELSE t.vals[i - 1]
    <3> DEFINE u == t.vals
    <3>1. u \in Seq(N) /\ at \in 0..Len(u) /\ v \in N
      BY <1>3, <1>a
    <3> HIDE DEF u, vals, new, set, Words
    <3>2. /\ InsertAt(u, at, v) \in Seq(N)
          /\ Len(InsertAt(u, at, v)) = Len(u) + 1
          /\ \A i \in 1..Len(u) + 1 : InsertAt(u, at, v)[i]
                = IF i <= at THEN u[i] ELSE IF i = at + 1 THEN v ELSE u[i - 1]
      <4>1. Inserted(N, u, at, v)
        BY <3>1, InsertAtIs
      <4> QED BY <4>1 DEF Inserted
    <3> QED BY <3>2 DEF u
  <2> QED BY <1>c, <2>1 DEF at
<1> HIDE DEF vals
<1>5. Len(vals) = Cardinality(set)
  <2>1. IsFiniteSet(S)
    BY BytesAreFinite
  <2>2. Cardinality(S \cup {c}) = Cardinality(S) + 1
    BY <2>1, FS_AddElement
  <2> QED BY <1>4, <1>a, <2>2
<1>6. ASSUME NEW b \in set PROVE vals[Below(set, b) + 1] = Append(node, b)
  <2>1. b \in Bytes /\ b \in Int /\ c \in Int
    BY <1>a DEF Bytes
  <2>2. Below(set, b) = IF c < b THEN Below(S, b) + 1 ELSE Below(S, b)
    BY <2>1, BelowMore
  <2>3. CASE b = c
    <3>1. Below(set, b) = at
      BY <2>1, <2>2, <2>3
    <3> HIDE DEF at
    <3>2. vals[at + 1] = v
      BY <1>3, <1>4
    <3> QED BY <2>3, <3>1, <3>2 DEF v
  <2>4. CASE b < c
    <3>1. b \in S /\ Below(set, b) = Below(S, b)
      BY <2>1, <2>2, <2>4
    <3>2. Below(S, b) < at /\ Below(S, b) \in Nat
      BY <2>1, <2>4, <3>1, BelowLess
    <3> HIDE DEF at
    <3>3. vals[Below(S, b) + 1] = t.vals[Below(S, b) + 1]
      BY <1>3, <1>4, <3>2
    <3> QED BY <1>b, <3>1, <3>3
  <2>5. CASE c < b
    <3>1. b \in S /\ Below(set, b) = Below(S, b) + 1
      BY <2>1, <2>2, <2>5
    <3>2. at <= Below(S, b) /\ Below(S, b) \in Nat
      BY <2>1, <2>5, BelowGrows
    <3>3. Below(S, b) + 1 \in 1..Cardinality(S)
      BY <2>1, <3>1, BelowAll
    <3> HIDE DEF at
    <3> DEFINE i == Below(S, b) + 2
    <3>4. i \in 1..Len(t.vals) + 1 /\ ~(i <= at) /\ i # at + 1 /\ i - 1 = Below(S, b) + 1
      BY <1>3, <1>a, <3>2, <3>3
    <3>5. vals[i] = t.vals[i - 1]
      <4> HIDE DEF i
      <4> QED BY <1>4, <3>4
    <3>6. Below(set, b) + 1 = i
      BY <3>1, <3>2
    <3> HIDE DEF i
    <3> QED BY <1>b, <3>1, <3>4, <3>5, <3>6
  <2>6. b = c \/ b < c \/ c < b
    BY <2>1
  <2> QED BY <2>3, <2>4, <2>5, <2>6
<1> HIDE DEF at
<1>7. new.set = set /\ new.base = base /\ new.vals = vals /\ DOMAIN new = {"set", "base", "vals"}
  OBVIOUS
<1> HIDE DEF new, set
<1>8. ByteMapFits(new, set, node)
  BY <1>2, <1>4, <1>5, <1>6, <1>7 DEF ByteMapFits, N
<1> QED BY <1>1, <1>8 DEF set, v

\* No bytes.
LEMMA NoBytesFit == ASSUME NEW node PROVE ByteMapFits(NoBytes, {}, node)
<1>1. /\ DOMAIN NoBytes = {"set", "base", "vals"} /\ NoBytes.set = {} /\ NoBytes.vals = << >>
      /\ \A k \in 0..3 : NoBytes.base[k] = 0
  BY DEF NoBytes
<1>2. \A k : {b \in {} : b \div 64 < k} = {}
  OBVIOUS
<1>3. << >> \in Seq({Append(node, b) : b \in Bytes}) /\ Len(<< >>) = 0
  BY EmptySeq
<1> QED BY <1>1, <1>2, <1>3, FS_EmptySet DEF ByteMapFits

\* get of a byte that is there.
LEMMA GetIs ==
    ASSUME NEW t, NEW S \in SUBSET Bytes, NEW node, ByteMapFits(t, S, node), NEW c \in S
    PROVE  Get(t, c) = Append(node, c)
<1>1. c \in Bytes /\ t.set = S
  BY DEF ByteMapFits
<1>2. Rank(t, c) = Below(S, c)
  BY <1>1, RankIs DEF ByteMapFits
<1> QED BY <1>2 DEF Get, ByteMapFits

-----------------------------------------------------------------------------
(* Wildcard patterns as sequences of tokens.                               *)

\* The recursive function of Escaped.
IsEscape(v, n, f) == f = [i \in 1..n |-> IF i = 1 THEN FALSE ELSE v[i - 1] = Backslash /\ ~f[i - 1]]

\* The function exists: Escaped is well defined.
LEMMA EscapeFunction ==
    ASSUME NEW v, NEW n \in Nat, n >= 1
    PROVE  \E f : IsEscape(v, n, f)
<1> DEFINE Turn(u, i) == v[i - 1] = Backslash /\ ~u
           start == FALSE
<1>r0. n \in Nat /\ 1 \in Nat /\ n >= 1 /\ 1 \in 1..n
  OBVIOUS
<1> HIDE DEF Turn, start
<1> DEFINE Is(f, m) == f = [k \in 1..m |-> IF k = 1 THEN start ELSE Turn(f[k - 1], k)]
           T == {m \in 1..n : \E f : Is(f, m)}
           esc == CHOOSE f : Is(f, n)
<1>r1. 1 \in T
  <2> DEFINE f == [k \in 1..1 |-> start]
  <2>1. Is(f, 1)
    OBVIOUS
  <2> HIDE DEF Is
  <2> QED BY <1>r0, <2>1
<1>r2. ASSUME NEW i \in 1 + 1..n, i - 1 \in T
      PROVE  i \in T
  <2>1. PICK g : Is(g, i - 1)
    BY <1>r2
  <2> DEFINE f == [k \in 1..i |-> IF k = i THEN Turn(g[i - 1], i) ELSE g[k]]
  <2>2. ASSUME NEW k \in 1..i
        PROVE  f[k] = IF k = 1 THEN start ELSE Turn(f[k - 1], k)
    BY <1>r0, <2>1
  <2>3. Is(f, i)
    BY <2>2
  <2> HIDE DEF Is
  <2> QED BY <1>r0, <2>3
<1>r3. Is(esc, n)
  <2>1. n \in T
    <3> HIDE DEF T
    <3>1. 1..n \subseteq T
      BY <1>r0, <1>r1, <1>r2, Induct
    <3> QED BY <1>r0, <3>1
  <2>2. \E f : Is(f, n)
    BY <2>1
  <2> HIDE DEF Is
  <2> QED BY <2>2
<1> HIDE DEF esc
<1>r4. /\ esc[1] = start
      /\ \A i \in 1 + 1..n : esc[i] = Turn(esc[i - 1], i)
  BY <1>r0, <1>r3
<1> HIDE DEF Is, T
<1>1. esc = [i \in 1..n |-> IF i = 1 THEN FALSE ELSE v[i - 1] = Backslash /\ ~esc[i - 1]]
  BY <1>r3, Zenon DEF Is, Turn, start
<1> QED BY <1>1 DEF IsEscape

\* A byte is escaped by an unescaped '\' before it.
LEMMA EscapedIs ==
    ASSUME NEW v \in Strings
    PROVE  /\ Escaped(v) \subseteq 1..Len(v)
           /\ \A i \in 1..Len(v) :
                i \in Escaped(v) <=> i > 1 /\ v[i - 1] = Backslash /\ i - 1 \notin Escaped(v)
<1> DEFINE n == Len(v)
           From1(f) == f = [i \in 1..n |-> i > 1 /\ v[i - 1] = Backslash /\ ~f[i - 1]]
           esc == CHOOSE f : From1(f)
<1>a. n \in Nat
  BY LenProperties DEF Strings
<1>b. Escaped(v) = {i \in 1..n : esc[i]}
  BY DEF Escaped
<1>1. \E f : From1(f)
  <2>1. CASE n = 0
    <3> DEFINE f == [i \in 1..n |-> FALSE]
    <3>1. 1..n = {}
      BY <2>1
    <3>2. f = [i \in 1..n |-> i > 1 /\ v[i - 1] = Backslash /\ ~f[i - 1]]
      BY <3>1
    <3> QED BY <3>2
  <2>2. CASE n # 0
    <3> HIDE DEF n
    <3>1. 1 \in Nat /\ n \in Nat /\ n >= 1
      BY <1>a, <2>2
    <3>2. \E f : IsEscape(v, n, f)
      BY <3>1, EscapeFunction
    <3>3. PICK f : f = [i \in 1..n |-> IF i = 1 THEN FALSE ELSE v[i - 1] = Backslash /\ ~f[i - 1]]
      BY <3>2 DEF IsEscape
    <3>4. \A i \in 1..n : (i > 1) <=> (i # 1)
      BY <3>1
    <3>5. \A i \in 1..n : (IF i = 1 THEN FALSE ELSE v[i - 1] = Backslash /\ ~f[i - 1])
                            = (i > 1 /\ v[i - 1] = Backslash /\ ~f[i - 1])
      BY <3>4, Zenon
    <3>6. f = [i \in 1..n |-> i > 1 /\ v[i - 1] = Backslash /\ ~f[i - 1]]
      BY <3>3, <3>5, Zenon
    <3> QED BY <3>6
  <2> QED BY <2>1, <2>2
<1>2. From1(esc)
  <2> HIDE DEF From1
  <2> QED BY <1>1
<1> HIDE DEF esc
<1>3. ASSUME NEW i \in 1..n PROVE esc[i] <=> i > 1 /\ v[i - 1] = Backslash /\ ~esc[i - 1]
  BY <1>2, Zenon
<1>4. \A i \in 1..n : i > 1 => i - 1 \in 1..n
  BY <1>a
<1> HIDE DEF From1, n
<1>5. \A i \in 1..n : i \in Escaped(v) <=> esc[i]
  BY <1>b
<1>6. ASSUME NEW i \in 1..n
      PROVE  i \in Escaped(v) <=> i > 1 /\ v[i - 1] = Backslash /\ i - 1 \notin Escaped(v)
  <2>1. CASE i > 1
    <3>1. i - 1 \in 1..n
      BY <1>4, <2>1
    <3> QED BY <1>3, <1>5, <2>1, <3>1, Zenon
  <2>2. CASE ~(i > 1)
    BY <1>3, <1>5, <2>2, Zenon
  <2> QED BY <2>1, <2>2
<1>7. Escaped(v) \subseteq 1..n
  BY <1>b
<1> QED BY <1>6, <1>7 DEF n

Nodes == Seq(0..256)

\* The tokens of the first i bytes of v, as the writer inserts them.
TokenStep(v, q, i) ==
    IF i \in Wilds(v) THEN Append(q, Spin)
    ELSE IF v[i] = Backslash /\ i \notin Escaped(v) THEN q
    ELSE Append(q, v[i])

Tok(v) ==
    LET tok[i \in 0..Len(v)] == IF i = 0 THEN << >> ELSE TokenStep(v, tok[i - 1], i)
    IN  tok

\* The tokens of a pattern, from left to right.
LEMMA TokIs ==
    ASSUME NEW v \in Strings
    PROVE  /\ Len(v) \in Nat
           /\ Tok(v)[0] = << >>
           /\ \A i \in 1..Len(v) : Tok(v)[i] = TokenStep(v, Tok(v)[i - 1], i)
           /\ \A i \in 0..Len(v) : Tok(v)[i] \in Nodes
<1> DEFINE n == Len(v)
           Turn(q, i) == TokenStep(v, q, i)
           start == << >>
<1>r0. n \in Nat
  BY LenProperties DEF Strings
<1> HIDE DEF Turn, start
<1> DEFINE Is(f, m) == f = [k \in 0..m |-> IF k = 0 THEN start ELSE Turn(f[k - 1], k)]
           T == {m \in 0..n : \E f : Is(f, m)}
           tok == CHOOSE f : Is(f, n)
<1>r1. 0 \in T
  <2> DEFINE f == [k \in 0..0 |-> start]
  <2>1. Is(f, 0)
    OBVIOUS
  <2> HIDE DEF Is
  <2> QED BY <1>r0, <2>1
<1>r2. ASSUME NEW i \in 0 + 1..n, i - 1 \in T
      PROVE  i \in T
  <2>1. PICK g : Is(g, i - 1)
    BY <1>r2
  <2> DEFINE f == [k \in 0..i |-> IF k = i THEN Turn(g[i - 1], i) ELSE g[k]]
  <2>2. ASSUME NEW k \in 0..i
        PROVE  f[k] = IF k = 0 THEN start ELSE Turn(f[k - 1], k)
    BY <1>r0, <2>1
  <2>3. Is(f, i)
    BY <2>2
  <2> HIDE DEF Is
  <2> QED BY <1>r0, <2>3
<1>r3. Is(tok, n)
  <2>1. n \in T
    <3> HIDE DEF T
    <3>1. 0..n \subseteq T
      BY <1>r0, <1>r1, <1>r2, Induct
    <3> QED BY <1>r0, <3>1
  <2>2. \E f : Is(f, n)
    BY <2>1
  <2> HIDE DEF Is
  <2> QED BY <2>2
<1> HIDE DEF tok
<1>r4. /\ tok[0] = start
      /\ \A i \in 0 + 1..n : tok[i] = Turn(tok[i - 1], i)
  BY <1>r0, <1>r3
<1> HIDE DEF Is, T
<1>1. Tok(v) = tok
  BY DEF Tok, tok, Is, Turn, start, n
<1>2. \A i \in 1..n : tok[i] = TokenStep(v, tok[i - 1], i)
  <2>1. \A i \in 1..n : i \in 0 + 1..n
    OBVIOUS
  <2> QED BY <1>r4, <2>1 DEF Turn
<1>3. tok[0] = << >>
  BY <1>r4 DEF start
<1> DEFINE U == {i \in 0..n : tok[i] \in Nodes}
<1>4. 0 \in U
  <2>1. 0 \in 0..n /\ << >> \in Nodes
    BY <1>r0, EmptySeq DEF Nodes
  <2> QED BY <1>3, <2>1
<1>5. ASSUME NEW i \in 0 + 1..n, i - 1 \in U PROVE i \in U
  <2>1. i \in 1..n /\ i \in 0..n
    BY <1>r0
  <2>2. tok[i - 1] \in Nodes /\ tok[i] = TokenStep(v, tok[i - 1], i)
    BY <1>2, <1>5, <2>1
  <2>3. v[i] \in 0..256 /\ Spin \in 0..256
    <3>1. v[i] \in 0..255
      BY <2>1, ElementOfSeq DEF Strings
    <3> QED BY <3>1 DEF Spin
  <2>4. Append(tok[i - 1], Spin) \in Nodes /\ Append(tok[i - 1], v[i]) \in Nodes
    BY <2>2, <2>3, AppendProperties DEF Nodes
  <2> QED BY <2>1, <2>2, <2>4 DEF TokenStep
<1> HIDE DEF U
<1>6. 0..n \subseteq U
  <2> HIDE DEF n
  <2> QED BY <1>4, <1>5, <1>r0, Induct
<1>7. \A i \in 0..n : tok[i] \in Nodes
  BY <1>6 DEF U
<1> QED BY <1>1, <1>2, <1>3, <1>7, <1>r0

\* Folding changes neither the wildcards nor the escapes.
LEMMA FoldIs ==
    ASSUME NEW v \in Strings
    PROVE  /\ Fold(v) \in Strings
           /\ Len(Fold(v)) = Len(v)
           /\ \A i \in 1..Len(v) : /\ Fold(v)[i] = Star <=> v[i] = Star
                                   /\ Fold(v)[i] = Backslash <=> v[i] = Backslash
           /\ Escaped(Fold(v)) = Escaped(v)
           /\ ValidWildcard(v) => ValidWildcard(Fold(v))
<1> DEFINE n == Len(v)
           u == Fold(v)
<1>1. n \in Nat /\ \A i \in 1..n : v[i] \in 0..255
  BY LenProperties, ElementOfSeq DEF Strings
<1>2. \A i \in 1..n : (IF v[i] \in 65..90 THEN v[i] + 32 ELSE v[i]) \in 0..255
  <2>1. \A c \in 0..255 : (IF c \in 65..90 THEN c + 32 ELSE c) \in 0..255
    OBVIOUS
  <2> HIDE DEF n
  <2> QED BY <1>1, <2>1
<1>3. u = [i \in 1..n |-> IF v[i] \in 65..90 THEN v[i] + 32 ELSE v[i]]
  BY DEF Fold
<1>4. u \in Seq(0..255) /\ Len(u) = n
  <2>1. u \in [1..n -> 0..255]
    <3> HIDE DEF u, n
    <3> QED BY <1>2, <1>3, ZenonT(60)
  <2> HIDE DEF u, n
  <2>2. u \in Seq(0..255)
    BY <1>1, <2>1, IsASeq
  <2>3. DOMAIN u = 1..n /\ DOMAIN u = 1..Len(u) /\ Len(u) \in Nat
    BY <2>1, <2>2, LenProperties
  <2>4. Len(u) = n
    BY <1>1, <2>3
  <2> QED BY <2>2, <2>4
<1>5. ASSUME NEW i \in 1..n
      PROVE  /\ u[i] = Star <=> v[i] = Star
             /\ u[i] = Backslash <=> v[i] = Backslash
  <2>1. u[i] = IF v[i] \in 65..90 THEN v[i] + 32 ELSE v[i]
    BY <1>3
  <2>2. v[i] \in 0..255
    BY <1>1
  <2>3. \A c \in 0..255 : /\ (IF c \in 65..90 THEN c + 32 ELSE c) = 42 <=> c = 42
                          /\ (IF c \in 65..90 THEN c + 32 ELSE c) = 92 <=> c = 92
    OBVIOUS
  <2> DEFINE c == v[i]
  <2> HIDE DEF c
  <2>4. /\ (IF c \in 65..90 THEN c + 32 ELSE c) = 42 <=> c = 42
        /\ (IF c \in 65..90 THEN c + 32 ELSE c) = 92 <=> c = 92
    <3>1. c \in 0..255
      BY <2>2 DEF c
    <3> QED BY <2>3, <3>1
  <2> HIDE DEF u
  <2> QED BY <2>1, <2>4 DEF Star, Backslash, c
<1>6. u \in Strings
  BY <1>4 DEF Strings
<1> HIDE DEF u
<1> DEFINE U == {i \in 0..n : i \in Escaped(u) <=> i \in Escaped(v)}
<1>7. /\ Escaped(u) \subseteq 1..n /\ Escaped(v) \subseteq 1..n
      /\ \A i \in 1..n : i \in Escaped(u) <=> i > 1 /\ u[i - 1] = Backslash /\ i - 1 \notin Escaped(u)
      /\ \A i \in 1..n : i \in Escaped(v) <=> i > 1 /\ v[i - 1] = Backslash /\ i - 1 \notin Escaped(v)
  BY <1>4, <1>6, EscapedIs
<1>8. 0 \in U
  BY <1>1, <1>7
<1>9. ASSUME NEW i \in 0 + 1..n, i - 1 \in U PROVE i \in U
  <2>1. i \in 1..n /\ i \in 0..n /\ (i > 1 => i - 1 \in 1..n)
    BY <1>1
  <2>2. i > 1 => (u[i - 1] = Backslash <=> v[i - 1] = Backslash)
    BY <1>5, <2>1
  <2>3. i - 1 \in Escaped(u) <=> i - 1 \in Escaped(v)
    BY <1>9
  <2>4. i \in Escaped(u) <=> i \in Escaped(v)
    BY <1>7, <2>1, <2>2, <2>3
  <2> QED BY <2>1, <2>4
<1> HIDE DEF U
<1>10. 0..n \subseteq U
  <2> HIDE DEF n
  <2> QED BY <1>8, <1>9, <1>1, Induct
<1>11. \A i \in 1..n : i \in 0..n
  BY <1>1
<1>12. Escaped(u) = Escaped(v)
  BY <1>7, <1>10, <1>11 DEF U
<1>13. Wilds(u) = Wilds(v)
  BY <1>4, <1>5, <1>12 DEF Wilds
<1>14. ASSUME ValidWildcard(v) PROVE ValidWildcard(u)
  <2>1. \A i \in 1..n \ Escaped(v) : v[i] = Backslash => i < n /\ v[i + 1] \in {Star, Backslash}
    BY <1>14 DEF ValidWildcard
  <2>2. ASSUME NEW i \in 1..n \ Escaped(v), u[i] = Backslash
        PROVE  i < n /\ u[i + 1] \in {Star, Backslash}
    <3>1. i < n /\ v[i + 1] \in {Star, Backslash}
      BY <1>5, <2>1, <2>2
    <3>2. i + 1 \in 1..n
      BY <1>1, <3>1
    <3> QED BY <1>5, <3>1, <3>2
  <2> QED BY <1>4, <1>12, <1>13, <1>14, <2>2 DEF ValidWildcard
<1> QED BY <1>4, <1>5, <1>6, <1>12, <1>14 DEF u

\* How many of W are at most i.
Count(W, i) == Cardinality({j \in W : j <= i})

\* How many elements of W there are up to each position.
LEMMA CountIs ==
    ASSUME NEW L \in Nat, NEW W \in SUBSET (1..L)
    PROVE  /\ Cardinality(W) \in Nat
           /\ Count(W, 0) = 0 /\ Count(W, L) = Cardinality(W)
           /\ \A i \in 0..L : Count(W, i) \in Nat
           /\ \A i \in 1..L : Count(W, i) = IF i \in W THEN Count(W, i - 1) + 1 ELSE Count(W, i - 1)
           /\ \A i \in 0..L : \A j \in W : i < j => Count(W, i) < Count(W, j)
<1>0. IsFiniteSet(1..L)
  BY CountUpTo
<1>1. ASSUME NEW T \in SUBSET W PROVE IsFiniteSet(T) /\ Cardinality(T) \in Nat
  <2>1. T \in SUBSET (1..L)
    OBVIOUS
  <2>2. IsFiniteSet(T)
    <3> DEFINE B == 1..L
    <3>1. IsFiniteSet(B) /\ T \in SUBSET B
      BY <1>0, <2>1
    <3> HIDE DEF B
    <3> QED BY <3>1, FS_Subset
  <2> QED BY <2>2, FS_CardinalityType
<1>2. Cardinality(W) \in Nat
  BY <1>1
<1>3. Count(W, 0) = 0
  <2>0. \A j \in W : ~(j <= 0)
    OBVIOUS
  <2>1. {j \in W : j <= 0} = {}
    BY <2>0
  <2> QED BY <2>1, FS_EmptySet DEF Count
<1>4. Count(W, L) = Cardinality(W)
  <2>0. \A j \in W : j <= L
    OBVIOUS
  <2>1. {j \in W : j <= L} = W
    BY <2>0
  <2> QED BY <2>1 DEF Count
<1>5. ASSUME NEW i \in 0..L PROVE Count(W, i) \in Nat
  BY <1>1 DEF Count
<1>6. ASSUME NEW i \in 1..L
      PROVE  Count(W, i) = IF i \in W THEN Count(W, i - 1) + 1 ELSE Count(W, i - 1)
  <2> DEFINE B == {j \in W : j <= i - 1}
  <2>0. \A j \in W : j \in Int
    OBVIOUS
  <2>a. \A j \in W : j <= i <=> (j <= i - 1 \/ j = i)
    BY <2>0
  <2>b. ~(i <= i - 1)
    OBVIOUS
  <2>1. CASE i \in W
    <3>1. {j \in W : j <= i} = B \cup {i} /\ i \notin B
      BY <2>1, <2>a, <2>b
    <3>2. IsFiniteSet(B)
      BY <1>1
    <3> HIDE DEF B
    <3>3. Cardinality(B \cup {i}) = Cardinality(B) + 1
      BY <3>1, <3>2, FS_AddElement
    <3> QED BY <2>1, <3>1, <3>3 DEF Count, B
  <2>2. CASE i \notin W
    <3>1. {j \in W : j <= i} = B
      BY <2>2, <2>a
    <3> QED BY <2>2, <3>1 DEF Count
  <2> QED BY <2>1, <2>2
<1>7. ASSUME NEW i \in 0..L, NEW j \in W, i < j PROVE Count(W, i) < Count(W, j)
  <2> DEFINE B == {k \in W : k <= i}
             C == {k \in W : k <= j}
  <2>0. \A k \in W : k \in Int
    OBVIOUS
  <2>1. B \subseteq C
    <3>1. \A k \in W : k <= i => k <= j
      BY <1>7, <2>0
    <3> QED BY <3>1
  <2>2. j \in C /\ j \notin B
    BY <1>7, <2>0
  <2>3. IsFiniteSet(C) /\ Cardinality(C) \in Nat /\ Cardinality(B) \in Nat
    BY <1>1
  <2> HIDE DEF B, C
  <2>4. Cardinality(B) <= Cardinality(C) /\ (Cardinality(C) = Cardinality(B) => C = B)
    BY <2>1, <2>3, FS_Subset
  <2>5. Cardinality(B) < Cardinality(C)
    BY <2>2, <2>3, <2>4
  <2> QED BY <2>5 DEF Count, B, C
<1> QED BY <1>2, <1>3, <1>4, <1>5, <1>6, <1>7

\* There is a k-th one.
LEMMA NthExists ==
    ASSUME NEW L \in Nat, NEW W \in SUBSET (1..L), NEW k \in 1..Cardinality(W)
    PROVE  \E i \in W : Count(W, i) = k
<1>1. /\ Cardinality(W) \in Nat /\ Count(W, 0) = 0 /\ Count(W, L) = Cardinality(W)
      /\ \A i \in 0..L : Count(W, i) \in Nat
      /\ \A i \in 1..L : Count(W, i) = IF i \in W THEN Count(W, i - 1) + 1 ELSE Count(W, i - 1)
  BY CountIs
<1> DEFINE S == {i \in 0..L : Count(W, i) >= k}
<1>2. S \in SUBSET Nat /\ S # {}
  <2>1. L \in S
    BY <1>1
  <2> QED BY <2>1
<1>3. PICK a \in S : \A i \in S : a <= i
  <2> HIDE DEF S
  <2> QED BY <1>2, Smallest
<1>4. a \in 1..L
  BY <1>1
<1>5. a - 1 \in 0..L /\ a - 1 \notin S
  <2>1. a - 1 \in 0..L /\ ~(a <= a - 1)
    BY <1>4
  <2> HIDE DEF S
  <2> QED BY <1>3, <2>1
<1>6. ~(Count(W, a - 1) >= k) /\ Count(W, a) >= k
  BY <1>5
<1>7. Count(W, a) \in Nat /\ Count(W, a - 1) \in Nat
  BY <1>1, <1>5
<1>8. a \in W /\ Count(W, a) = k
  BY <1>1, <1>4, <1>6, <1>7
<1> QED BY <1>8

\* Concatenation and one more element.
LEMMA ConcatAppend ==
    ASSUME NEW S, NEW n \in Seq(S), NEW q \in Seq(S), NEW c \in S
    PROVE  n \o Append(q, c) = Append(n \o q, c) /\ Append(q, c) \in Seq(S) /\ n \o q \in Seq(S)
<1>1. <<c>> \in Seq(S)
  OBVIOUS
<1>2. n \o q \in Seq(S) /\ Append(q, c) \in Seq(S)
  BY ConcatProperties, AppendProperties
<1>3. Append(q, c) = q \o <<c>> /\ Append(n \o q, c) = (n \o q) \o <<c>>
  BY <1>2, AppendIsConcat
<1>4. n \o (q \o <<c>>) = (n \o q) \o <<c>>
  BY <1>1, ConcatAssociative
<1> QED BY <1>2, <1>3, <1>4

\* ConcatAppend for nodes.
LEMMA NodeAppend ==
    ASSUME NEW n \in Nodes, NEW q \in Nodes, NEW c \in 0..256
    PROVE  n \o Append(q, c) = Append(n \o q, c) /\ Append(q, c) \in Nodes /\ n \o q \in Nodes
<1> DEFINE T == 0..256
<1>1. n \in Seq(T) /\ q \in Seq(T) /\ c \in T
  BY DEF Nodes
<1> HIDE DEF T
<1>2. n \o Append(q, c) = Append(n \o q, c) /\ Append(q, c) \in Seq(T) /\ n \o q \in Seq(T)
  BY <1>1, ConcatAppend
<1> QED BY <1>2 DEF Nodes, T

\* Bytes are tokens.
LEMMA StringsAreNodes == Strings \subseteq Nodes
<1>1. 0..255 \subseteq 0..256
  OBVIOUS
<1> DEFINE A == 0..255
           B == 0..256
<1> HIDE DEF A, B
<1>2. A \subseteq B => Seq(A) \subseteq Seq(B)
  BY SeqMonotonic
<1> QED BY <1>1, <1>2 DEF Strings, Nodes, A, B

\* The tokens of a part without wildcards are its bytes, escapes resolved.
LEMMA LiteralSome ==
    ASSUME NEW v \in Strings, NEW from \in 1..Len(v) + 1, NEW to \in 0..Len(v), from <= to,
           \A i \in from..to : i \notin Wilds(v)
    PROVE  /\ Literal(v, from, to) \in Strings
           /\ Tok(v)[to] = Tok(v)[from - 1] \o Literal(v, from, to)
<1> DEFINE esc == Escaped(v)
           Turn(q, i) == IF v[i] = Backslash /\ i \notin esc THEN q ELSE Append(q, v[i])
           start == << >>
           t == Tok(v)
<1>a. /\ Len(v) \in Nat
      /\ \A i \in 1..Len(v) : t[i] = TokenStep(v, t[i - 1], i)
      /\ \A i \in 0..Len(v) : t[i] \in Nodes
      /\ \A i \in 1..Len(v) : v[i] \in 0..255
  <2>1. \A i \in 1..Len(v) : v[i] \in 0..255
    BY ElementOfSeq DEF Strings
  <2> QED BY <2>1, TokIs
<1> HIDE DEF t
<1>r0. to \in Nat /\ from \in Nat /\ from - 1 \in Nat /\ from - 1 <= to /\ from - 1 + 1 = from
  BY <1>a
<1> HIDE DEF Turn, start
<1> DEFINE Is(f, m) == f = [k \in from - 1..m |-> IF k < from THEN start ELSE Turn(f[k - 1], k)]
           T == {m \in from - 1..to : \E f : Is(f, m)}
           lit == CHOOSE f : Is(f, to)
<1>r1. from - 1 \in T
  <2> DEFINE f == [k \in from - 1..from - 1 |-> start]
  <2>1. Is(f, from - 1)
    OBVIOUS
  <2> HIDE DEF Is
  <2> QED BY <1>r0, <2>1
<1>r2. ASSUME NEW i \in from - 1 + 1..to, i - 1 \in T
      PROVE  i \in T
  <2>1. PICK g : Is(g, i - 1)
    BY <1>r2
  <2> DEFINE f == [k \in from - 1..i |-> IF k = i THEN Turn(g[i - 1], i) ELSE g[k]]
  <2>2. ASSUME NEW k \in from - 1..i
        PROVE  f[k] = IF k < from THEN start ELSE Turn(f[k - 1], k)
    <3>1. i \in Nat /\ k \in Nat
      BY <1>r0
    <3>2. CASE k < from
      <4>1. k \in from - 1..i - 1 /\ k # i
        BY <1>r0, <1>r2, <3>1, <3>2
      <4> QED BY <2>1, <3>2, <4>1
    <3>3. CASE ~(k < from) /\ k # i
      <4>1. k \in from - 1..i - 1 /\ k - 1 \in from - 1..i /\ k - 1 # i
        BY <1>r0, <1>r2, <3>1, <3>3
      <4> QED BY <2>1, <3>3, <4>1
    <3>4. CASE k = i
      <4>1. ~(k < from) /\ k - 1 \in from - 1..i /\ k - 1 # i
        BY <1>r0, <1>r2, <3>1, <3>4
      <4> QED BY <3>4, <4>1
    <3> QED BY <3>2, <3>3, <3>4
  <2>3. Is(f, i)
    BY <2>2
  <2> HIDE DEF Is
  <2> QED BY <1>r0, <2>3
<1>r3. Is(lit, to)
  <2>1. to \in T
    <3> HIDE DEF T
    <3>1. from - 1..to \subseteq T
      BY <1>r0, <1>r1, <1>r2, Induct
    <3> QED BY <1>r0, <3>1
  <2>2. \E f : Is(f, to)
    BY <2>1
  <2> HIDE DEF Is
  <2> QED BY <2>2
<1> HIDE DEF lit
<1>r4. /\ lit[from - 1] = start
      /\ \A i \in from - 1 + 1..to : lit[i] = Turn(lit[i - 1], i)
  BY <1>r0, <1>r3
<1> HIDE DEF Is, T
<1>1. Literal(v, from, to) = lit[to]
  <2>1. ~(to < from)
    BY <1>r0
  <2> QED BY <2>1 DEF Literal, lit, Is, Turn, start
<1> DEFINE U == {i \in from - 1..to : lit[i] \in Strings /\ t[i] = t[from - 1] \o lit[i]}
<1>2. from - 1 \in U
  <2>1. lit[from - 1] = << >> /\ from - 1 \in from - 1..to /\ from - 1 \in 0..Len(v)
    BY <1>r0, <1>r4, <1>a DEF start
  <2>2. << >> \in Strings
    BY EmptySeq DEF Strings
  <2>3. t[from - 1] \in Nodes
    BY <1>a, <2>1
  <2>4. t[from - 1] \o << >> = t[from - 1]
    BY <2>3, ConcatEmptySeq DEF Nodes
  <2> QED BY <2>1, <2>2, <2>4
<1>3. ASSUME NEW i \in from - 1 + 1..to, i - 1 \in U PROVE i \in U
  <2>1. i \in 1..Len(v) /\ i \in from..to /\ i \in from - 1..to
    BY <1>r0, <1>a
  <2>2. lit[i - 1] \in Strings /\ t[i - 1] = t[from - 1] \o lit[i - 1] /\ lit[i] = Turn(lit[i - 1], i)
    BY <1>3, <1>r4
  <2>3. t[i] = IF v[i] = Backslash /\ i \notin esc THEN t[i - 1] ELSE Append(t[i - 1], v[i])
    BY <1>a, <2>1 DEF TokenStep
  <2>4. CASE v[i] = Backslash /\ i \notin esc
    <3>1. lit[i] = lit[i - 1] /\ t[i] = t[i - 1]
      BY <2>2, <2>3, <2>4 DEF Turn
    <3> QED BY <2>1, <2>2, <3>1
  <2>5. CASE ~(v[i] = Backslash /\ i \notin esc)
    <3>1. lit[i] = Append(lit[i - 1], v[i]) /\ t[i] = Append(t[i - 1], v[i])
      BY <2>2, <2>3, <2>5 DEF Turn
    <3>2. v[i] \in 0..255 /\ v[i] \in 0..256
      <4>1. v[i] \in 0..255
        BY <1>a, <2>1
      <4> QED BY <4>1
    <3>3. lit[i - 1] \in Nodes /\ t[from - 1] \in Nodes
      <4>1. from - 1 \in 0..Len(v)
        BY <1>r0, <1>a, SMTT(30)
      <4> QED BY <1>a, <2>2, <4>1, StringsAreNodes
    <3>4. t[from - 1] \o Append(lit[i - 1], v[i]) = Append(t[from - 1] \o lit[i - 1], v[i])
      BY <3>2, <3>3, NodeAppend
    <3>5. Append(lit[i - 1], v[i]) \in Strings
      BY <2>2, <3>2, AppendProperties DEF Strings
    <3> QED BY <2>1, <2>2, <3>1, <3>4, <3>5
  <2> QED BY <2>4, <2>5
<1> HIDE DEF U
<1>4. from - 1..to \subseteq U
  BY <1>2, <1>3, <1>r0, Induct
<1>5. to \in U
  BY <1>4, <1>r0
<1> QED BY <1>1, <1>5 DEF U, t

\* The tokens of a piece without '*' are its literal.
LEMMA LiteralFits ==
    ASSUME NEW v \in Strings, NEW from \in 1..Len(v) + 1, NEW to \in from - 1..Len(v),
           \A i \in from..to : i \notin Wilds(v)
    PROVE  /\ Literal(v, from, to) \in Strings
           /\ Tok(v)[to] = Tok(v)[from - 1] \o Literal(v, from, to)
<1>a. Len(v) \in Nat /\ \A i \in 0..Len(v) : Tok(v)[i] \in Nodes
  BY TokIs
<1>1. CASE to < from
  <2>1. Literal(v, from, to) = << >> /\ to = from - 1 /\ from - 1 \in 0..Len(v)
    BY <1>1, <1>a DEF Literal
  <2>2. << >> \in Strings
    BY EmptySeq DEF Strings
  <2>3. Tok(v)[from - 1] \in Nodes
    BY <1>a, <2>1
  <2>4. Tok(v)[from - 1] \o << >> = Tok(v)[from - 1]
    BY <2>3, ConcatEmptySeq DEF Nodes
  <2> QED BY <2>1, <2>2, <2>4
<1>2. CASE ~(to < from)
  <2>1. from <= to /\ to \in 0..Len(v)
    BY <1>2, <1>a
  <2> QED BY <2>1, LiteralSome
<1> QED BY <1>1, <1>2

\* J[k] are the tokens of the first k parts p of v, with a wildcard between two.
Joins(v, p, J) ==
    /\ Len(p) \in Nat \ {0}
    /\ \A k \in 1..Len(p) : p[k] \in Strings /\ J[k] \in Nodes
    /\ J[1] = p[1]
    /\ \A k \in 1..Len(p) - 1 : J[k + 1] = Append(J[k], Spin) \o p[k + 1]
    /\ J[Len(p)] = Tok(v)[Len(v)]

\* The parts of splitWildcard, joined by wildcards, are the tokens.
LEMMA PartsFit ==
    ASSUME NEW v \in Strings
    PROVE  \E J : Joins(v, Parts(v), J)
<1> DEFINE W == Wilds(v)
           L == Len(v)
           m == Cardinality(W)
           t == Tok(v)
           nth == [k \in 0..m + 1 |-> IF k = 0 THEN 0 ELSE IF k > m THEN L + 1
                                      ELSE CHOOSE i \in W : Count(W, i) = k]
           p == [k \in 1..m + 1 |-> Literal(v, nth[k - 1] + 1, nth[k] - 1)]
           J == [k \in 1..m + 1 |-> t[nth[k] - 1]]
<1>1. /\ L \in Nat /\ t[0] = << >>
      /\ \A i \in 1..L : t[i] = TokenStep(v, t[i - 1], i)
      /\ \A i \in 0..L : t[i] \in Nodes
  BY TokIs
<1>2. W \in SUBSET (1..L)
  BY DEF Wilds
<1>3. /\ m \in Nat /\ Count(W, 0) = 0 /\ Count(W, L) = m
      /\ \A i \in 0..L : Count(W, i) \in Nat
      /\ \A i \in 0..L : \A j \in W : i < j => Count(W, i) < Count(W, j)
  <2> HIDE DEF W, L, t
  <2> QED BY <1>1, <1>2, CountIs
<1>4. Parts(v) = p
  BY DEF Parts, Count
<1> HIDE DEF W, L, t, m
<1>5. ASSUME NEW k \in 1..m PROVE nth[k] \in W /\ Count(W, nth[k]) = k
  <2>1. \E i \in W : Count(W, i) = k
    BY <1>1, <1>2, NthExists DEF m
  <2>2. k \in 0..m + 1 /\ k # 0 /\ ~(k > m)
    BY <1>3
  <2>3. nth[k] = CHOOSE i \in W : Count(W, i) = k
    BY <2>2
  <2> QED BY <2>1, <2>3
<1>6. nth[0] = 0 /\ nth[m + 1] = L + 1
  BY <1>3
<1> HIDE DEF nth
\* From one wildcard to the next.
<1>7. ASSUME NEW k \in 1..m + 1
      PROVE  /\ nth[k - 1] \in 0..L /\ nth[k] \in 1..L + 1 /\ nth[k - 1] < nth[k]
             /\ \A i \in W : ~(nth[k - 1] < i /\ i < nth[k])
  <2>1. k - 1 \in 0..m /\ (k \in 1..m \/ k = m + 1) /\ (k - 1 \in 1..m \/ k - 1 = 0)
    BY <1>3
  <2>2. nth[k - 1] \in 0..L /\ Count(W, nth[k - 1]) = k - 1
    <3>1. CASE k - 1 = 0
      BY <1>1, <1>3, <1>6, <3>1
    <3>2. CASE k - 1 \in 1..m
      <4>1. nth[k - 1] \in W /\ Count(W, nth[k - 1]) = k - 1
        BY <1>5, <3>2
      <4> QED BY <1>1, <1>2, <4>1
    <3> QED BY <2>1, <3>1, <3>2
  <2>3. nth[k] \in 1..L + 1
    <3>1. CASE k = m + 1
      BY <1>1, <1>6, <3>1
    <3>2. CASE k \in 1..m
      <4>1. nth[k] \in W
        BY <1>5, <3>2
      <4>2. nth[k] \in 1..L
        BY <1>2, <4>1
      <4> QED BY <1>1, <4>2
    <3> QED BY <2>1, <3>1, <3>2
  <2>4. ASSUME NEW i \in W, nth[k - 1] < i, i < nth[k] PROVE FALSE
    <3>1. i \in 1..L /\ i \in 0..L
      BY <1>1, <1>2
    <3>2. Count(W, i) > k - 1 /\ Count(W, i) \in Nat
      BY <1>3, <2>2, <2>4, <3>1
    <3>3. CASE k = m + 1
      <4>1. Count(W, i) <= m
        <5>1. i = L \/ i < L
          BY <1>1, <3>1
        <5>2. i < L => Count(W, i) <= m
          <6> SUFFICES ASSUME i < L PROVE Count(W, i) <= m
            OBVIOUS
          <6> DEFINE B == {j \in W : j <= i}
          <6>1. IsFiniteSet(W) /\ B \in SUBSET W
            <7> DEFINE T == 1..L
            <7>1. IsFiniteSet(T) /\ W \in SUBSET T
              BY <1>1, <1>2, CountUpTo
            <7> HIDE DEF T
            <7> QED BY <7>1, FS_Subset
          <6> HIDE DEF B
          <6>2. Cardinality(B) <= Cardinality(W)
            BY <6>1, FS_Subset
          <6> QED BY <6>2 DEF Count, B, m
        <5> QED BY <1>3, <5>1, <5>2
      <4> QED BY <1>3, <3>2, <3>3, <4>1
    <3>4. CASE k \in 1..m
      <4>1. nth[k] \in W /\ Count(W, nth[k]) = k
        BY <1>5, <3>4
      <4>2. Count(W, i) < k
        BY <1>3, <2>4, <3>1, <4>1
      <4> QED BY <3>2, <3>4, <4>2, <1>3
    <3> QED BY <2>1, <3>3, <3>4
  <2>5. nth[k - 1] < nth[k]
    <3>1. CASE k = m + 1
      BY <1>1, <1>6, <2>2, <3>1
    <3>2. CASE k \in 1..m
      <4>1. nth[k] \in W /\ Count(W, nth[k]) = k
        BY <1>5, <3>2
      <4>a. nth[k] \in 1..L
        BY <1>2, <4>1
      <4>2. nth[k] \in 0..L
        BY <1>1, <4>a
      <4>3. CASE nth[k] = nth[k - 1]
        BY <2>2, <3>2, <4>1, <4>3, <1>3
      <4>4. CASE nth[k] < nth[k - 1]
        <5>1. k - 1 \in 1..m
          BY <1>6, <2>1, <4>2, <4>4
        <5>2. nth[k - 1] \in W
          BY <1>5, <5>1
        <5>3. Count(W, nth[k]) < Count(W, nth[k - 1])
          BY <1>3, <4>2, <4>4, <5>2
        <5> QED BY <2>2, <3>2, <4>1, <5>3, <1>3
      <4> QED BY <2>2, <4>2, <4>3, <4>4
    <3> QED BY <2>1, <3>1, <3>2
  <2> QED BY <2>2, <2>3, <2>4, <2>5
<1>8. ASSUME NEW k \in 1..m + 1
      PROVE  p[k] \in Strings /\ t[nth[k] - 1] = t[nth[k - 1]] \o p[k]
  <2> DEFINE from == nth[k - 1] + 1
             to == nth[k] - 1
  <2>1. from \in 1..L + 1 /\ to \in from - 1..L /\ from - 1 = nth[k - 1]
    BY <1>1, <1>7
  <2>2. \A i \in from..to : i \notin W
    <3>1. \A i \in from..to : nth[k - 1] < i /\ i < nth[k]
      BY <1>1, <1>7
    <3> QED BY <1>7, <3>1
  <2>3. p[k] = Literal(v, from, to)
    OBVIOUS
  <2> HIDE DEF from, to, p
  <2>4. Literal(v, from, to) \in Strings /\ t[to] = t[from - 1] \o Literal(v, from, to)
    BY <2>1, <2>2, LiteralFits DEF L, W, t
  <2> QED BY <2>1, <2>3, <2>4 DEF to
<1>9. Len(p) = m + 1
  BY <1>3
<1>10. \A k \in 1..m + 1 : J[k] = t[nth[k] - 1]
  OBVIOUS
<1> HIDE DEF p, J
<1>11. J[1] = p[1]
  <2>1. 1 \in 1..m + 1 /\ 1 - 1 = 0
    BY <1>3
  <2>2. J[1] = t[0] \o p[1] /\ p[1] \in Strings
    BY <1>6, <1>8, <1>10, <2>1
  <2>3. << >> \o p[1] = p[1]
    BY <2>2, ConcatEmptySeq DEF Strings
  <2> QED BY <1>1, <2>2, <2>3
<1>12. ASSUME NEW k \in 1..m PROVE J[k + 1] = Append(J[k], Spin) \o p[k + 1]
  <2>1. k + 1 \in 1..m + 1 /\ k \in 1..m + 1 /\ k + 1 - 1 = k
    BY <1>3
  <2>2. J[k + 1] = t[nth[k]] \o p[k + 1]
    <3>1. \A h \in 1..m + 1 : \A g : g = h - 1 => J[h] = t[nth[g]] \o p[h]
      BY <1>8, <1>10
    <3> DEFINE h == k + 1
    <3>2. h \in 1..m + 1 /\ k = h - 1
      BY <2>1
    <3> HIDE DEF h
    <3>3. J[h] = t[nth[k]] \o p[h]
      BY <3>1, <3>2
    <3> QED BY <3>3 DEF h
  <2>3. nth[k] \in W /\ nth[k] \in 1..L
    BY <1>2, <1>5
  <2>4. t[nth[k]] = Append(t[nth[k] - 1], Spin)
    BY <1>1, <2>3 DEF TokenStep, W
  <2> QED BY <1>10, <2>1, <2>2, <2>4
<1>13. J[m + 1] = t[L]
  <2>1. m + 1 \in 1..m + 1 /\ (L + 1) - 1 = L
    BY <1>1, <1>3
  <2> QED BY <1>6, <1>10, <2>1
<1>14. \A k \in 1..m + 1 : J[k] \in Nodes
  <2> SUFFICES ASSUME NEW k \in 1..m + 1 PROVE J[k] \in Nodes
    OBVIOUS
  <2>1. nth[k] - 1 \in 0..L
    BY <1>1, <1>7
  <2> QED BY <1>1, <1>10, <2>1
<1>15. Len(p) \in Nat \ {0} /\ Len(p) - 1 = m
  BY <1>3, <1>9
<1>16. Joins(v, p, J)
  BY <1>8, <1>9, <1>11, <1>12, <1>13, <1>14, <1>15 DEF Joins, L, t
<1> QED BY <1>4, <1>16

-----------------------------------------------------------------------------
(* Which nodes a text leads to.                                            *)

\* From position i of the text to position j by a token.
Moves(t, s, i, j) == IF t = Spin THEN i <= j ELSE j = i + 1 /\ s[j] = t

\* The first i bytes of s lead to node n.
Runs(n, s, i) ==
    \E pos \in [0..Len(n) -> 0..Len(s)] :
        /\ pos[0] = 0
        /\ pos[Len(n)] = i
        /\ \A k \in 1..Len(n) : Moves(n[k], s, pos[k - 1], pos[k])

\* The root is where the text begins.
LEMMA RunsRoot ==
    ASSUME NEW s \in Strings, NEW i
    PROVE  Runs(Root, s, i) <=> i = 0
<1>1. Len(Root) = 0 /\ 1..0 = {}
  BY DEF Root
<1>2. Len(s) \in Nat
  BY LenProperties DEF Strings
<1>3. ASSUME i = 0 PROVE Runs(Root, s, i)
  <2> DEFINE pos == [k \in 0..0 |-> 0]
  <2>1. pos \in [0..0 -> 0..Len(s)] /\ pos[0] = 0
    BY <1>2
  <2> HIDE DEF pos
  <2> QED BY <1>1, <1>3, <2>1 DEF Runs
<1>4. ASSUME Runs(Root, s, i) PROVE i = 0
  BY <1>1, <1>4 DEF Runs
<1> QED BY <1>3, <1>4

\* A token more.
LEMMA RunsAppend ==
    ASSUME NEW s \in Strings, NEW n \in Nodes, NEW t \in 0..256, NEW j
    PROVE  Runs(Append(n, t), s, j)
             <=> j \in 0..Len(s) /\ \E i \in 0..Len(s) : Runs(n, s, i) /\ Moves(t, s, i, j)
<1> DEFINE m == Append(n, t)
           l == Len(n)
           P == 0..Len(s)
<1>1. Len(s) \in Nat
  BY LenProperties DEF Strings
<1>2. l \in Nat /\ Len(m) = l + 1 /\ (\A k \in 1..l : m[k] = n[k]) /\ m[l + 1] = t
  BY AppendProperties, LenProperties DEF Nodes
<1> HIDE DEF m, P
<1>3. ASSUME Runs(m, s, j) PROVE j \in P /\ \E i \in P : Runs(n, s, i) /\ Moves(t, s, i, j)
  <2>1. PICK pos \in [0..l + 1 -> P] :
            /\ pos[0] = 0 /\ pos[l + 1] = j
            /\ \A k \in 1..l + 1 : Moves(m[k], s, pos[k - 1], pos[k])
    BY <1>2, <1>3 DEF Runs, P
  <2> DEFINE q == [k \in 0..l |-> pos[k]]
  <2>2. q \in [0..l -> P] /\ q[0] = 0 /\ \A k \in 0..l : q[k] = pos[k]
    BY <1>2, <2>1
  <2> HIDE DEF q
  <2>3. \A k \in 1..l : Moves(n[k], s, q[k - 1], q[k])
    <3> SUFFICES ASSUME NEW k \in 1..l PROVE Moves(n[k], s, q[k - 1], q[k])
      OBVIOUS
    <3>1. k \in 1..l + 1 /\ k \in 0..l /\ k - 1 \in 0..l
      BY <1>2
    <3> QED BY <1>2, <2>1, <2>2, <3>1
  <2>4. l \in 0..l /\ l + 1 \in 1..l + 1 /\ l + 1 - 1 = l /\ l + 1 \in 0..l + 1
    BY <1>2
  <2>5. Runs(n, s, q[l])
    BY <2>2, <2>3 DEF Runs, P
  <2>6. Moves(t, s, q[l], j) /\ q[l] \in P /\ j \in P
    BY <1>2, <2>1, <2>2, <2>4
  <2> QED BY <2>5, <2>6
<1>4. ASSUME j \in P, NEW i \in P, Runs(n, s, i), Moves(t, s, i, j) PROVE Runs(m, s, j)
  <2>1. PICK pos \in [0..l -> P] :
            /\ pos[0] = 0 /\ pos[l] = i
            /\ \A k \in 1..l : Moves(n[k], s, pos[k - 1], pos[k])
    BY <1>4 DEF Runs, P
  <2> DEFINE q == [k \in 0..l + 1 |-> IF k = l + 1 THEN j ELSE pos[k]]
  <2>2. /\ q \in [0..l + 1 -> P] /\ q[l + 1] = j
        /\ \A k \in 0..l : q[k] = pos[k]
    BY <1>2, <1>4, <2>1
  <2> HIDE DEF q
  <2>3. ASSUME NEW k \in 1..l + 1 PROVE Moves(m[k], s, q[k - 1], q[k])
    <3>1. CASE k = l + 1
      <4>1. k - 1 = l /\ l \in 0..l
        BY <1>2, <3>1
      <4> QED BY <1>2, <1>4, <2>1, <2>2, <3>1, <4>1
    <3>2. CASE k # l + 1
      <4>1. k \in 1..l /\ k \in 0..l /\ k - 1 \in 0..l
        BY <1>2, <3>2
      <4> QED BY <1>2, <2>1, <2>2, <4>1
    <3> QED BY <3>1, <3>2
  <2>4. q[0] = 0
    BY <1>2, <2>1, <2>2
  <2> QED BY <1>2, <2>2, <2>3, <2>4 DEF Runs, P
<1> QED BY <1>3, <1>4 DEF m, P

\* Positions are within the text.
LEMMA RunsWithin ==
    ASSUME NEW s \in Strings, NEW n \in Nodes, NEW i, Runs(n, s, i)
    PROVE  i \in 0..Len(s)
<1>1. Len(n) \in Nat
  BY LenProperties DEF Nodes
<1>2. Len(n) \in 0..Len(n)
  BY <1>1
<1> QED BY <1>2 DEF Runs

\* s goes on with q after position i.
Follows(s, i, q) == i + Len(q) <= Len(s) /\ \A k \in 1..Len(q) : s[i + k] = q[k]

\* A literal more.
LEMMA RunsLiteral ==
    ASSUME NEW s \in Strings, NEW n \in Nodes, NEW q \in Strings, NEW j
    PROVE  Runs(n \o q, s, j)
             <=> \E i \in 0..Len(s) : Runs(n, s, i) /\ Follows(s, i, q) /\ j = i + Len(q)
<1> DEFINE l == Len(q)
           Pre(m) == SubSeq(q, 1, m)
           To(m, k) == \E i \in 0..Len(s) : Runs(n, s, i) /\ Follows(s, i, Pre(m)) /\ k = i + m
           U == {m \in 0..l : \A k \in 0..Len(s) : Runs(n \o Pre(m), s, k) <=> To(m, k)}
<1>1. Len(s) \in Nat /\ l \in Nat /\ (\A k \in 1..l : q[k] \in 0..255)
  BY LenProperties, ElementOfSeq DEF Strings
<1>2. ASSUME NEW m \in 0..l
      PROVE  Pre(m) \in Strings /\ Len(Pre(m)) = m /\ \A k \in 1..m : Pre(m)[k] = q[k]
  <2>1. \A k \in 1..m : q[k] \in 0..255
    BY <1>1
  <2>2. 1 \in Int /\ m \in Int
    BY <1>1
  <2> DEFINE B == 0..255
  <2>3. \A k \in 1..m : q[k] \in B
    BY <2>1
  <2> HIDE DEF B
  <2>4. /\ SubSeq(q, 1, m) \in Seq(B)
        /\ Len(SubSeq(q, 1, m)) = IF 1 <= m THEN m - 1 + 1 ELSE 0
        /\ \A k \in 1..m - 1 + 1 : SubSeq(q, 1, m)[k] = q[1 + k - 1]
    BY <2>2, <2>3, SubSeqProperties
  <2>5. Len(Pre(m)) = m
    BY <1>1, <2>4
  <2>6. \A k \in 1..m : Pre(m)[k] = q[k]
    BY <1>1, <2>4
  <2> QED BY <2>4, <2>5, <2>6 DEF Strings, B
<1>3. Pre(l) = q
  <2>1. l \in 0..l
    BY <1>1
  <2>2. Pre(l) \in Strings /\ Len(Pre(l)) = l /\ \A k \in 1..l : Pre(l)[k] = q[k]
    BY <1>2, <2>1
  <2> HIDE DEF Pre
  <2> QED BY <2>2, SeqEqual DEF Strings
<1>4. 0 \in U
  <2>1. Pre(0) \in Strings /\ Len(Pre(0)) = 0 /\ 0 \in 0..l
    BY <1>1, <1>2
  <2> HIDE DEF Pre
  <2>2. Pre(0) = << >>
    BY <2>1, EmptySeq DEF Strings
  <2>3. n \o << >> = n
    BY ConcatEmptySeq DEF Nodes
  <2>4. \A i \in 0..Len(s) : Follows(s, i, Pre(0)) /\ i + 0 = i
    BY <1>1, <2>1 DEF Follows
  <2>5. \A k \in 0..Len(s) : Runs(n, s, k) <=> To(0, k)
    BY <1>1, <2>4
  <2> HIDE DEF To
  <2> QED BY <2>1, <2>2, <2>3, <2>5
<1>5. ASSUME NEW m \in 0 + 1..l, m - 1 \in U PROVE m \in U
  <2>1. m \in 0..l /\ m - 1 \in 0..l /\ m \in 1..l /\ m - 1 + 1 = m /\ m \in 1..m
    BY <1>1
  <2>2. /\ Pre(m) \in Strings /\ Len(Pre(m)) = m /\ (\A k \in 1..m : Pre(m)[k] = q[k])
        /\ Pre(m - 1) \in Strings /\ Len(Pre(m - 1)) = m - 1 /\ (\A k \in 1..m - 1 : Pre(m - 1)[k] = q[k])
    BY <1>2, <2>1
  <2>3. q[m] \in 0..255 /\ q[m] \in 0..256 /\ q[m] # Spin
    <3>1. q[m] \in 0..255
      BY <1>1, <2>1
    <3> DEFINE c == q[m]
    <3>2. c \in 0..255
      BY <3>1
    <3> HIDE DEF c
    <3>3. c \in 0..255 /\ c \in 0..256 /\ c # Spin
      BY <3>2 DEF Spin
    <3> QED BY <3>3 DEF c
  <2> HIDE DEF Pre
  <2>4. Append(Pre(m - 1), q[m]) \in Strings
    BY <2>2, <2>3, AppendProperties DEF Strings
  <2>5. /\ Len(Append(Pre(m - 1), q[m])) = m
        /\ \A k \in 1..m - 1 : Append(Pre(m - 1), q[m])[k] = q[k]
        /\ Append(Pre(m - 1), q[m])[m] = q[m]
    <3>1. /\ Len(Append(Pre(m - 1), q[m])) = Len(Pre(m - 1)) + 1
          /\ \A k \in 1..Len(Pre(m - 1)) : Append(Pre(m - 1), q[m])[k] = Pre(m - 1)[k]
          /\ Append(Pre(m - 1), q[m])[Len(Pre(m - 1)) + 1] = q[m]
      BY <2>2, <2>3, AppendProperties DEF Strings
    <3> QED BY <2>1, <2>2, <3>1
  <2>6. Pre(m) = Append(Pre(m - 1), q[m])
    <3>1. \A k \in 1..m : k \in 1..m - 1 \/ k = m
      BY <2>1
    <3>2. \A k \in 1..m : Pre(m)[k] = Append(Pre(m - 1), q[m])[k]
      BY <2>2, <2>5, <3>1
    <3> QED BY <2>2, <2>4, <2>5, <3>2, SeqEqual DEF Strings
  <2>7. Pre(m - 1) \in Nodes
    BY <2>2, StringsAreNodes
  <2> DEFINE c == n \o Pre(m - 1)
  <2>8. n \o Pre(m) = Append(c, q[m]) /\ c \in Nodes
    <3>1. n \o Append(Pre(m - 1), q[m]) = Append(n \o Pre(m - 1), q[m]) /\ n \o Pre(m - 1) \in Nodes
      BY <2>3, <2>7, NodeAppend
    <3> QED BY <2>6, <3>1
  <2>9. ASSUME NEW k \in 0..Len(s) PROVE Runs(n \o Pre(m), s, k) <=> To(m, k)
    <3>1. Runs(n \o Pre(m), s, k) <=> k - 1 \in 0..Len(s) /\ Runs(c, s, k - 1) /\ s[k] = q[m]
      <4> HIDE DEF c, To
      <4>1. Runs(Append(c, q[m]), s, k) <=> \E i \in 0..Len(s) : Runs(c, s, i) /\ Moves(q[m], s, i, k)
        BY <2>3, <2>8, RunsAppend
      <4>2. \A i \in 0..Len(s) : Moves(q[m], s, i, k) <=> i = k - 1 /\ s[k] = q[m]
        <5>1. \A i \in 0..Len(s) : k = i + 1 <=> i = k - 1
          BY <1>1
        <5> QED BY <2>3, <5>1 DEF Moves
      <4> QED BY <2>8, <4>1, <4>2
    <3>2. k - 1 \in 0..Len(s) => (Runs(c, s, k - 1) <=> To(m - 1, k - 1))
      <4> HIDE DEF To
      <4> QED BY <1>5
    <3>3. To(m, k) <=> k - 1 \in 0..Len(s) /\ To(m - 1, k - 1) /\ s[k] = q[m]
      <4>1. ASSUME NEW i \in 0..Len(s), k = i + m
            PROVE  Follows(s, i, Pre(m)) <=> Follows(s, i, Pre(m - 1)) /\ s[k] = q[m]
        <5>1. i + m <= Len(s) /\ i + (m - 1) <= Len(s)
          BY <1>1, <2>1, <4>1
        <5>2. Follows(s, i, Pre(m)) <=> \A h \in 1..m : s[i + h] = q[h]
          BY <2>2, <5>1 DEF Follows
        <5>3. Follows(s, i, Pre(m - 1)) <=> \A h \in 1..m - 1 : s[i + h] = q[h]
          BY <2>2, <5>1 DEF Follows
        <5>4. \A h \in 1..m : h \in 1..m - 1 \/ h = m
          BY <2>1
        <5>5. \A h \in 1..m - 1 : h \in 1..m
          BY <2>1
        <5> QED BY <2>1, <4>1, <5>2, <5>3, <5>4, <5>5
      <4>2. \A i \in 0..Len(s) : k = i + m <=> k - 1 = i + (m - 1)
        BY <1>1, <2>1
      <4>3. \A i \in 0..Len(s) : k = i + m => k - 1 \in 0..Len(s)
        BY <1>1, <2>1
      <4> QED BY <4>1, <4>2, <4>3
    <3> HIDE DEF c, To
    <3> QED BY <3>1, <3>2, <3>3
  <2> HIDE DEF To
  <2> QED BY <2>1, <2>9
<1> HIDE DEF U
<1>6. 0..l \subseteq U
  <2> HIDE DEF l
  <2> QED BY <1>1, <1>4, <1>5, Induct
<1>7. l \in U
  BY <1>1, <1>6
<1>8. \A k \in 0..Len(s) : Runs(n \o q, s, k) <=> To(l, k)
  BY <1>3, <1>7 DEF U
<1>9. To(l, j) => j \in 0..Len(s)
  BY <1>1, <1>3 DEF Follows
<1>10. n \o q \in Nodes
  BY StringsAreNodes, ConcatProperties DEF Nodes
<1>11. Runs(n \o q, s, j) => j \in 0..Len(s)
  BY <1>10, RunsWithin
<1>12. Runs(n \o q, s, j) <=> To(l, j)
  <2> HIDE DEF To
  <2> QED BY <1>8, <1>9, <1>11
<1> HIDE DEF Pre
<1> QED BY <1>3, <1>12

\* A part of a string.
LEMMA SubIs ==
    ASSUME NEW s \in Strings, NEW i \in 0..Len(s), NEW j \in i..Len(s)
    PROVE  /\ SubSeq(s, i + 1, j) \in Strings
           /\ Len(SubSeq(s, i + 1, j)) = j - i
           /\ \A k \in 1..j - i : SubSeq(s, i + 1, j)[k] = s[i + k]
<1> DEFINE B == 0..255
<1>1. s \in Seq(B)
  BY DEF Strings
<1> HIDE DEF B
<1>2. Len(s) \in Nat /\ \A k \in 1..Len(s) : s[k] \in B
  BY <1>1, LenProperties, ElementOfSeq
<1>3. i + 1 \in Int /\ j \in Int /\ i \in Int /\ \A k \in i + 1..j : s[k] \in B
  BY <1>2
<1>4. /\ SubSeq(s, i + 1, j) \in Seq(B)
      /\ Len(SubSeq(s, i + 1, j)) = IF i + 1 <= j THEN j - (i + 1) + 1 ELSE 0
      /\ \A k \in 1..j - (i + 1) + 1 : SubSeq(s, i + 1, j)[k] = s[i + 1 + k - 1]
  BY <1>3, SubSeqProperties
<1>5. Len(SubSeq(s, i + 1, j)) = j - i
  BY <1>2, <1>4
<1>6. \A k \in 1..j - i : k \in 1..j - (i + 1) + 1 /\ i + 1 + k - 1 = i + k
  BY <1>2
<1>7. \A k \in 1..j - i : SubSeq(s, i + 1, j)[k] = s[i + k]
  BY <1>4, <1>6
<1> QED BY <1>4, <1>5, <1>7 DEF Strings, B

\* A part is q if the string goes on with q there.
LEMMA SubFollows ==
    ASSUME NEW s \in Strings, NEW q \in Strings, NEW i \in 0..Len(s), i + Len(q) <= Len(s)
    PROVE  SubSeq(s, i + 1, i + Len(q)) = q <=> Follows(s, i, q)
<1>1. Len(s) \in Nat /\ Len(q) \in Nat
  BY LenProperties DEF Strings
<1> DEFINE j == i + Len(q)
           u == SubSeq(s, i + 1, j)
<1>2. j \in i..Len(s) /\ j - i = Len(q)
  BY <1>1
<1> HIDE DEF j
<1>3. u \in Strings /\ Len(u) = Len(q) /\ \A k \in 1..Len(q) : u[k] = s[i + k]
  BY <1>2, SubIs
<1> HIDE DEF u
<1>4. (\A k \in 1..Len(q) : u[k] = q[k]) => u = q
  BY <1>3, SeqEqual DEF Strings
<1>5. u = q <=> \A k \in 1..Len(q) : s[i + k] = q[k]
  BY <1>3, <1>4
<1> QED BY <1>5 DEF Follows, u, j

\* A prefix, as a literal at the beginning.
LEMMA PrefixFollows ==
    ASSUME NEW s \in Strings, NEW q \in Strings
    PROVE  HasPrefix(s, q) <=> Follows(s, 0, q)
<1>1. Len(s) \in Nat /\ Len(q) \in Nat
  BY LenProperties DEF Strings
<1>2. CASE Len(q) <= Len(s)
  <2>1. 0 \in 0..Len(s) /\ 0 + Len(q) <= Len(s) /\ 0 + Len(q) = Len(q) /\ 0 + 1 = 1
    BY <1>1, <1>2
  <2>2. SubSeq(s, 1, Len(q)) = q <=> Follows(s, 0, q)
    BY <2>1, SubFollows
  <2> QED BY <1>2, <2>2 DEF HasPrefix
<1>3. CASE ~(Len(q) <= Len(s))
  <2>1. ~(0 + Len(q) <= Len(s))
    BY <1>1, <1>3
  <2> QED BY <1>3, <2>1 DEF HasPrefix, Follows
<1> QED BY <1>2, <1>3

\* A suffix, as a literal at the end.
LEMMA SuffixFollows ==
    ASSUME NEW s \in Strings, NEW q \in Strings, Len(q) <= Len(s)
    PROVE  HasSuffix(s, q) <=> Follows(s, Len(s) - Len(q), q)
<1>1. Len(s) \in Nat /\ Len(q) \in Nat
  BY LenProperties DEF Strings
<1> DEFINE i == Len(s) - Len(q)
<1>2. i \in 0..Len(s) /\ i + Len(q) <= Len(s) /\ i + Len(q) = Len(s)
  BY <1>1
<1>3. SubSeq(s, i + 1, Len(s)) = q <=> Follows(s, i, q)
  <2> HIDE DEF i
  <2> QED BY <1>2, SubFollows
<1> QED BY <1>3 DEF HasSuffix

\* A string follows the root as a whole if it is the text.
LEMMA RunsAlone ==
    ASSUME NEW s \in Strings, NEW q \in Strings, NEW j
    PROVE  Runs(q, s, j) <=> Follows(s, 0, q) /\ j = Len(q)
<1>1. Root \in Nodes /\ Root \o q = q
  BY EmptySeq, ConcatEmptySeq DEF Root, Nodes, Strings
<1>2. Len(s) \in Nat /\ Len(q) \in Nat
  BY LenProperties DEF Strings
<1>3. Runs(q, s, j) <=> \E i \in 0..Len(s) : Runs(Root, s, i) /\ Follows(s, i, q) /\ j = i + Len(q)
  <2> DEFINE n == Root
  <2>1. n \in Nodes
    BY <1>1
  <2>3. n \o q = q
    BY <1>1
  <2> HIDE DEF n
  <2>2. Runs(n \o q, s, j) <=> \E i \in 0..Len(s) : Runs(n, s, i) /\ Follows(s, i, q) /\ j = i + Len(q)
    BY <2>1, RunsLiteral
  <2> QED BY <2>3, <2>2 DEF n
<1>4. \A i : Runs(Root, s, i) <=> i = 0
  BY RunsRoot
<1>5. 0 \in 0..Len(s) /\ 0 + Len(q) = Len(q)
  BY <1>2
<1> QED BY <1>3, <1>4, <1>5

\* A text that is equal, as a literal at both ends.
LEMMA FollowsAll ==
    ASSUME NEW s \in Strings, NEW q \in Strings
    PROVE  s = q <=> Follows(s, 0, q) /\ Len(s) = Len(q)
<1>1. Len(s) \in Nat /\ Len(q) \in Nat
  BY LenProperties DEF Strings
<1>2. ASSUME s = q PROVE Follows(s, 0, q) /\ Len(s) = Len(q)
  BY <1>1, <1>2 DEF Follows
<1>3. ASSUME Follows(s, 0, q), Len(s) = Len(q) PROVE s = q
  <2>1. \A k \in 1..Len(s) : s[k] = q[k]
    BY <1>1, <1>3 DEF Follows
  <2> QED BY <1>3, <2>1, SeqEqual DEF Strings
<1> QED BY <1>2, <1>3

\* A wildcard and a literal more.
LEMMA RunsJoin ==
    ASSUME NEW s \in Strings, NEW n \in Nodes, NEW q \in Strings, NEW j
    PROVE  Runs(Append(n, Spin) \o q, s, j)
             <=> \E i, h \in 0..Len(s) : Runs(n, s, i) /\ i <= h /\ Follows(s, h, q) /\ j = h + Len(q)
<1>1. Spin \in 0..256 /\ Append(n, Spin) \in Nodes
  <2>1. Spin \in 0..256
    BY DEF Spin
  <2> QED BY <2>1, AppendProperties DEF Nodes
<1>2. Runs(Append(n, Spin) \o q, s, j)
        <=> \E h \in 0..Len(s) : Runs(Append(n, Spin), s, h) /\ Follows(s, h, q) /\ j = h + Len(q)
  BY <1>1, RunsLiteral
<1>3. \A h \in 0..Len(s) : Runs(Append(n, Spin), s, h) <=> \E i \in 0..Len(s) : Runs(n, s, i) /\ i <= h
  <2> SUFFICES ASSUME NEW h \in 0..Len(s)
               PROVE  Runs(Append(n, Spin), s, h) <=> \E i \in 0..Len(s) : Runs(n, s, i) /\ i <= h
    OBVIOUS
  <2>1. Runs(Append(n, Spin), s, h) <=> \E i \in 0..Len(s) : Runs(n, s, i) /\ Moves(Spin, s, i, h)
    BY <1>1, RunsAppend
  <2> QED BY <2>1 DEF Moves
<1> QED BY <1>2, <1>3

\* The ends of a part behind a position of the middle.
PartEnds(mid, part, from) ==
    {i \in from + Len(part)..Len(mid) : SubSeq(mid, i - Len(part) + 1, i) = part}

\* One round of the loop of globMatch, which takes a part as early as possible.
NextEnd(mid, part, from) ==
    LET at == IF from < 0 THEN {} ELSE PartEnds(mid, part, from)
    IN  IF at = {} THEN -1 ELSE CHOOSE i \in at : \A j \in at : i <= j

\* end is the earliest position behind the first parts, and leaves room for the last.
Earliest(n, s, b, max, end) ==
    /\ end \in Int
    /\ end >= 0 => b + end <= max /\ Runs(n, s, b + end)
    /\ \A j \in 0..max : Runs(n, s, j) => end >= 0 /\ b + end <= j

\* The next piece ends as early as it can, if the one before did (globMatch).
LEMMA NextEndFits ==
    ASSUME NEW s \in Strings, NEW n \in Nodes, NEW q \in Strings, NEW b \in 0..Len(s), NEW max \in b..Len(s),
           NEW end, Earliest(n, s, b, max, end)
    PROVE  Earliest(Append(n, Spin) \o q, s, b, max, NextEnd(SubSeq(s, b + 1, max), q, end))
<1> DEFINE mid == SubSeq(s, b + 1, max)
           m == Append(n, Spin) \o q
           at == IF end < 0 THEN {} ELSE PartEnds(mid, q, end)
           new == NextEnd(mid, q, end)
<1>1. Len(s) \in Nat /\ Len(q) \in Nat /\ b \in Nat /\ max \in Nat /\ max <= Len(s) /\ b <= max /\ end \in Int
  BY LenProperties DEF Strings, Earliest
<1>2. mid \in Strings /\ Len(mid) = max - b /\ \A k \in 1..max - b : mid[k] = s[b + k]
  BY SubIs
<1> HIDE DEF mid
<1>3. ASSUME end >= 0, NEW i \in Nat
      PROVE  i \in at <=> i >= end + Len(q) /\ b + i <= max /\ Follows(s, b + i - Len(q), q)
  <2>1. i \in at <=> i >= end + Len(q) /\ i <= Len(mid) /\ SubSeq(mid, i - Len(q) + 1, i) = q
    BY <1>1, <1>2, <1>3 DEF PartEnds
  <2>2. CASE i >= end + Len(q) /\ i <= Len(mid)
    <3> DEFINE h == i - Len(q)
    <3>1. h \in 0..Len(mid) /\ h + Len(q) <= Len(mid) /\ h + Len(q) = i /\ b + i <= max
      BY <1>1, <1>2, <1>3, <2>2
    <3>2. SubSeq(mid, h + 1, i) = q <=> Follows(mid, h, q)
      <4> HIDE DEF h
      <4> QED BY <1>2, <3>1, SubFollows
    <3>3. b + i - Len(q) = b + h /\ b + h + Len(q) <= Len(s)
      BY <1>1, <1>2, <3>1
    <3>4. \A k \in 1..Len(q) : mid[h + k] = s[b + h + k]
      <4>1. \A k \in 1..Len(q) : h + k \in 1..max - b /\ b + (h + k) = b + h + k
        BY <1>1, <1>2, <3>1
      <4> HIDE DEF h
      <4> QED BY <1>2, <4>1
    <3>5. Follows(mid, h, q) <=> Follows(s, b + h, q)
      <4> HIDE DEF h
      <4> QED BY <3>1, <3>3, <3>4 DEF Follows
    <3>6. i - Len(q) + 1 = h + 1
      OBVIOUS
    <3> HIDE DEF h, at
    <3> QED BY <2>1, <2>2, <3>1, <3>2, <3>3, <3>5, <3>6
  <2>3. CASE ~(i >= end + Len(q) /\ i <= Len(mid))
    <3>1. i \notin at
      BY <2>1, <2>3
    <3>2. ~(i >= end + Len(q) /\ b + i <= max)
      BY <1>1, <1>2, <2>3
    <3> QED BY <3>1, <3>2
  <2> QED BY <2>2, <2>3
<1>4. at \in SUBSET Nat
  <2>1. CASE end < 0
    BY <2>1
  <2>2. CASE ~(end < 0)
    <3>1. at \subseteq end + Len(q)..Len(mid)
      BY <2>2 DEF PartEnds
    <3>2. end + Len(q)..Len(mid) \subseteq Nat
      BY <1>1, <2>2
    <3> QED BY <3>1, <3>2
  <2> QED BY <2>1, <2>2
<1>5. end < 0 => at = {}
  OBVIOUS
<1>6. new = IF at = {} THEN -1 ELSE CHOOSE i \in at : \A j \in at : i <= j
  BY DEF NextEnd
<1>7. \A j : Runs(m, s, j)
        <=> \E i, h \in 0..Len(s) : Runs(n, s, i) /\ i <= h /\ Follows(s, h, q) /\ j = h + Len(q)
  BY RunsJoin
<1> HIDE DEF m, at, new
\* Wherever the part may end, it may end in at.
<1>8. ASSUME NEW j \in 0..max, Runs(m, s, j)
      PROVE  end >= 0 /\ j - b \in at
  <2>1. PICK i \in 0..Len(s), h \in 0..Len(s) : Runs(n, s, i) /\ i <= h /\ Follows(s, h, q) /\ j = h + Len(q)
    BY <1>7, <1>8
  <2>2. i \in 0..max /\ h \in Nat
    BY <1>1, <2>1
  <2>3. end >= 0 /\ b + end <= i
    BY <2>1, <2>2 DEF Earliest
  <2>4. j - b \in Nat /\ j - b >= end + Len(q) /\ b + (j - b) <= max /\ b + (j - b) - Len(q) = h
    BY <1>1, <2>1, <2>2, <2>3
  <2>5. j - b \in at <=> j - b >= end + Len(q) /\ b + (j - b) <= max /\ Follows(s, b + (j - b) - Len(q), q)
    BY <1>3, <2>3, <2>4
  <2> QED BY <2>1, <2>3, <2>4, <2>5
<1>9. CASE at = {}
  <2>1. new = -1
    BY <1>6, <1>9
  <2>2. \A j \in 0..max : ~Runs(m, s, j)
    BY <1>8, <1>9
  <2> QED BY <2>1, <2>2 DEF Earliest, new, m, mid
<1>10. CASE at # {}
  <2>1. \E a \in at : \A i \in at : a <= i
    BY <1>4, <1>10, Smallest
  <2>2. new \in at /\ \A j \in at : new <= j
    BY <1>6, <1>10, <2>1
  <2>3. new \in Nat /\ end >= 0
    BY <1>1, <1>4, <1>5, <1>10, <2>2
  <2>4. new >= end + Len(q) /\ b + new <= max /\ Follows(s, b + new - Len(q), q)
    BY <1>3, <2>2, <2>3
  <2> DEFINE i == b + end
             h == b + new - Len(q)
  <2>5. i \in 0..Len(s) /\ h \in 0..Len(s) /\ i <= h /\ b + new = h + Len(q)
    BY <1>1, <2>3, <2>4
  <2>6. Runs(n, s, i)
    BY <2>3 DEF Earliest
  <2>7. Runs(m, s, b + new)
    <3> HIDE DEF i
    <3>1. Follows(s, h, q)
      BY <2>4
    <3> HIDE DEF h
    <3> QED BY <1>7, <2>5, <2>6, <3>1
  <2>8. ASSUME NEW j \in 0..max, Runs(m, s, j) PROVE b + new <= j
    <3>1. j - b \in at
      BY <1>8, <2>8
    <3>2. new <= j - b
      BY <2>2, <3>1
    <3> QED BY <1>1, <2>3, <3>2
  <2>9. new \in Int /\ new >= 0
    BY <2>3
  <2> QED BY <2>4, <2>7, <2>8, <2>9 DEF Earliest, new, m, mid
<1> QED BY <1>9, <1>10

\* Of at least two parts, taking the middle ones as early as possible finds a way
\* if there is one.
LEMMA GlobFitsMany ==
    ASSUME NEW v \in Strings, NEW s \in Strings, NEW J, Joins(v, Parts(v), J), Len(Parts(v)) # 1
    PROVE  GlobMatch(v, s) <=> Runs(J[Len(Parts(v))], s, Len(s))
<1> DEFINE p == Parts(v)
           n == Len(p)
           b == Len(p[1])
           max == Len(s) - Len(p[n])
           mid == SubSeq(s, b + 1, max)
           Ends(part, from) ==
              {i \in from + Len(part)..Len(mid) : SubSeq(mid, i - Len(part) + 1, i) = part}
           Turn(u, k) ==
              LET at == IF u < 0 THEN {} ELSE Ends(p[k], u)
              IN  IF at = {} THEN -1 ELSE CHOOSE i \in at : \A j \in at : i <= j
           start == 0
           m == n - 1
<1>1. /\ n \in Nat \ {0} /\ n # 1
      /\ \A k \in 1..n : p[k] \in Strings /\ J[k] \in Nodes
      /\ J[1] = p[1]
      /\ \A k \in 1..n - 1 : J[k + 1] = Append(J[k], Spin) \o p[k + 1]
  BY DEF Joins
<1>2. /\ Len(s) \in Nat /\ p[1] \in Strings /\ p[n] \in Strings /\ b \in Nat /\ Len(p[n]) \in Nat
  <2>1. 1 \in 1..n /\ n \in 1..n
    BY <1>1
  <2>2. p[1] \in Strings /\ p[n] \in Strings
    BY <1>1, <2>1
  <2> QED BY <2>2, LenProperties DEF Strings
<1>a. \A u, k : Turn(u, k) = NextEnd(mid, p[k], u)
  BY DEF NextEnd, PartEnds
<1>r0. m \in Nat /\ 1 \in Nat /\ 1 \in 1..m
  <2>1. n \in Nat \ {0} /\ n # 1
    BY <1>1
  <2> HIDE DEF n
  <2> QED BY <2>1
<1> HIDE DEF Turn, start
<1> DEFINE Is(f, h) == f = [k \in 1..h |-> IF k = 1 THEN start ELSE Turn(f[k - 1], k)]
           T == {h \in 1..m : \E f : Is(f, h)}
           end == CHOOSE f : Is(f, m)
<1>r1. 1 \in T
  <2> DEFINE f == [k \in 1..1 |-> start]
  <2>1. Is(f, 1)
    OBVIOUS
  <2> HIDE DEF Is
  <2> QED BY <1>r0, <2>1
<1>r2. ASSUME NEW i \in 1 + 1..m, i - 1 \in T
      PROVE  i \in T
  <2>1. PICK g : Is(g, i - 1)
    BY <1>r2
  <2> DEFINE f == [k \in 1..i |-> IF k = i THEN Turn(g[i - 1], i) ELSE g[k]]
  <2>2. ASSUME NEW k \in 1..i
        PROVE  f[k] = IF k = 1 THEN start ELSE Turn(f[k - 1], k)
    BY <1>r0, <2>1
  <2>3. Is(f, i)
    BY <2>2
  <2> HIDE DEF Is
  <2> QED BY <1>r0, <2>3
<1>r3. Is(end, m)
  <2>1. m \in T
    <3> HIDE DEF T
    <3>1. 1..m \subseteq T
      BY <1>r0, <1>r1, <1>r2, Induct, ZenonT(60)
    <3> QED BY <1>r0, <3>1
  <2>2. \E f : Is(f, m)
    BY <2>1
  <2> HIDE DEF Is
  <2> QED BY <2>2
<1> HIDE DEF end
<1>r4. /\ end[1] = start
      /\ \A i \in 1 + 1..m : end[i] = Turn(end[i - 1], i)
  BY <1>r0, <1>r3
<1> HIDE DEF Is, T
<1> HIDE DEF p
<1>3. GlobMatch(v, s) <=> /\ Len(s) >= Len(p[1]) + Len(p[n])
                          /\ HasPrefix(s, p[1]) /\ HasSuffix(s, p[n])
                          /\ end[m] >= 0
  <2>1. n # 1
    BY <1>1
  <2> QED BY <2>1 DEF GlobMatch, end, Is, Turn, start, m, p
<1> HIDE DEF n, mid, max, b, Ends, m
<1>4. m = n - 1
  BY DEF m
\* Behind the first part.
<1>5. \A j : Runs(J[1], s, j) <=> Follows(s, 0, p[1]) /\ j = b
  BY <1>1, <1>2, RunsAlone DEF b
\* With a part more.
<1>6. ASSUME NEW k \in 1..m, NEW j
      PROVE  /\ J[k + 1] = Append(J[k], Spin) \o p[k + 1] /\ J[k] \in Nodes /\ p[k + 1] \in Strings
             /\ Runs(J[k + 1], s, j)
                 <=> \E i, h \in 0..Len(s) :
                        Runs(J[k], s, i) /\ i <= h /\ Follows(s, h, p[k + 1]) /\ j = h + Len(p[k + 1])
  <2>1. k \in 1..n - 1 /\ k \in 1..n /\ k + 1 \in 1..n
    BY <1>1, <1>4
  <2>2. J[k + 1] = Append(J[k], Spin) \o p[k + 1] /\ J[k] \in Nodes /\ p[k + 1] \in Strings
    BY <1>1, <2>1
  <2>3. Runs(Append(J[k], Spin) \o p[k + 1], s, j)
          <=> \E i, h \in 0..Len(s) :
                 Runs(J[k], s, i) /\ i <= h /\ Follows(s, h, p[k + 1]) /\ j = h + Len(p[k + 1])
    <3> DEFINE o == J[k]
               q == p[k + 1]
    <3>1. o \in Nodes /\ q \in Strings
      BY <2>2
    <3> HIDE DEF o, q
    <3>2. Runs(Append(o, Spin) \o q, s, j)
            <=> \E i, h \in 0..Len(s) : Runs(o, s, i) /\ i <= h /\ Follows(s, h, q) /\ j = h + Len(q)
      BY <3>1, RunsJoin
    <3> QED BY <3>2 DEF o, q
  <2> QED BY <2>2, <2>3
\* No way is shorter than the first part, or goes another way.
<1> DEFINE V == {k \in 0..n : k > 0 => \A j \in 0..Len(s) : Runs(J[k], s, j) => Follows(s, 0, p[1]) /\ b <= j}
<1>7. ASSUME NEW k \in 1..n, NEW j \in 0..Len(s), Runs(J[k], s, j) PROVE Follows(s, 0, p[1]) /\ b <= j
  <2>1. 0 \in V
    BY <1>1
  <2>2. ASSUME NEW i \in 0 + 1..n, i - 1 \in V PROVE i \in V
    <3>1. CASE i = 1
      <4>1. \A h \in 0..Len(s) : Runs(J[1], s, h) => Follows(s, 0, p[1]) /\ b <= h
        BY <1>2, <1>5
      <4> QED BY <1>1, <3>1, <4>1
    <3>2. CASE i # 1
      <4>1. i - 1 \in 1..m /\ i - 1 > 0 /\ i \in 0..n /\ (i - 1) + 1 = i
        BY <1>1, <1>4, <3>2
      <4> DEFINE g == i - 1
      <4>2. g \in 1..m /\ g + 1 = i /\ g > 0
        BY <4>1
      <4>3. \A h \in 0..Len(s) : Runs(J[g], s, h) => Follows(s, 0, p[1]) /\ b <= h
        BY <2>2, <4>1
      <4> HIDE DEF g, V
      <4>4. ASSUME NEW h \in 0..Len(s), Runs(J[i], s, h) PROVE Follows(s, 0, p[1]) /\ b <= h
        <5>1. PICK c \in 0..Len(s), d \in 0..Len(s) :
                Runs(J[g], s, c) /\ c <= d /\ Follows(s, d, p[g + 1]) /\ h = d + Len(p[g + 1])
          BY <1>6, <4>2, <4>4
        <5>2. Follows(s, 0, p[1]) /\ b <= c
          BY <4>3, <5>1
        <5>3. Len(p[g + 1]) \in Nat
          BY <1>6, <4>2, LenProperties DEF Strings
        <5> QED BY <1>2, <5>1, <5>2, <5>3
      <4> QED BY <4>1, <4>4 DEF V
    <3> QED BY <3>1, <3>2
  <2>3. 0..n \subseteq V
    <3> HIDE DEF V
    <3> QED BY <2>1, <2>2, <1>1, Induct
  <2>4. k \in V /\ k > 0
    BY <1>1, <2>3
  <2> QED BY <1>7, <2>4
<1> HIDE DEF V
\* The last part ends where the text ends.
<1>8. Runs(J[n], s, Len(s))
        <=> Len(p[n]) <= Len(s) /\ HasSuffix(s, p[n]) /\ \E i \in 0..max : Runs(J[m], s, i)
  <2>1. m \in 1..m /\ m + 1 = n
    BY <1>1, <1>4, <1>r0
  <2>2. Runs(J[n], s, Len(s))
          <=> \E i, h \in 0..Len(s) : Runs(J[m], s, i) /\ i <= h /\ Follows(s, h, p[n]) /\ Len(s) = h + Len(p[n])
    BY <1>6, <2>1
  <2>3. ASSUME Len(p[n]) <= Len(s)
        PROVE  max \in 0..Len(s) /\ (HasSuffix(s, p[n]) <=> Follows(s, max, p[n]))
               /\ \A h \in 0..Len(s) : Len(s) = h + Len(p[n]) <=> h = max
    <3>1. max = Len(s) - Len(p[n])
      BY DEF max
    <3>2. HasSuffix(s, p[n]) <=> Follows(s, max, p[n])
      BY <1>2, <2>3, <3>1, SuffixFollows
    <3> QED BY <1>2, <2>3, <3>1, <3>2
  <2>4. CASE Len(p[n]) <= Len(s)
    <3>1. 0..max \subseteq 0..Len(s) /\ \A i \in 0..Len(s) : i <= max <=> i \in 0..max
      BY <1>2, <2>3, <2>4
    <3> QED BY <2>2, <2>3, <2>4, <3>1
  <2>5. CASE ~(Len(p[n]) <= Len(s))
    <3>1. \A h \in 0..Len(s) : Len(s) # h + Len(p[n])
      BY <1>2, <2>5
    <3> QED BY <2>2, <2>5, <3>1
  <2> QED BY <2>4, <2>5
<1>9. HasPrefix(s, p[1]) <=> Follows(s, 0, p[1])
  BY <1>2, PrefixFollows
<1>10. CASE ~(Len(s) >= Len(p[1]) + Len(p[n])) \/ ~Follows(s, 0, p[1])
  <2>1. ~GlobMatch(v, s)
    BY <1>3, <1>9, <1>10
  <2>2. ASSUME NEW i \in 0..max, Runs(J[m], s, i), Len(p[n]) <= Len(s) PROVE FALSE
    <3>1. max = Len(s) - Len(p[n]) /\ b = Len(p[1])
      BY DEF max, b
    <3>2. i \in 0..Len(s) /\ m \in 1..n
      BY <1>1, <1>2, <1>4, <1>r0, <2>2, <3>1
    <3>3. Follows(s, 0, p[1]) /\ b <= i
      BY <1>7, <2>2, <3>2
    <3>4. Len(p[1]) \in Nat /\ i \in Int /\ i <= Len(s) - Len(p[n]) /\ Len(p[1]) <= i
      BY <1>2, <2>2, <3>1, <3>2, <3>3
    <3>5. Len(s) >= Len(p[1]) + Len(p[n])
      <4> DEFINE e == Len(p[1])
                 g == Len(p[n])
                 l == Len(s)
      <4>1. e \in Int /\ g \in Int /\ l \in Int /\ i \in Int /\ i <= l - g /\ e <= i
        BY <1>2, <3>4
      <4> HIDE DEF e, g, l
      <4>2. l >= e + g
        BY <4>1
      <4> QED BY <4>2 DEF e, g, l
    <3> QED BY <1>10, <3>3, <3>5
  <2> QED BY <1>8, <2>1, <2>2 DEF n, p
<1>11. CASE Len(s) >= Len(p[1]) + Len(p[n]) /\ Follows(s, 0, p[1])
  <2>1. b \in 0..Len(s) /\ max \in b..Len(s) /\ Len(p[n]) <= Len(s)
    <3> DEFINE e == Len(p[1])
               g == Len(p[n])
               l == Len(s)
    <3>1. e \in Nat /\ g \in Nat /\ l \in Nat /\ l >= e + g
      BY <1>2, <1>11 DEF b
    <3>2. b = e /\ max = l - g
      BY DEF b, max
    <3> HIDE DEF e, g, l
    <3>3. b \in 0..l /\ max \in b..l /\ g <= l
      BY <3>1, <3>2
    <3> QED BY <3>3 DEF g, l
  <2> DEFINE U == {k \in 1..m : Earliest(J[k], s, b, max, end[k])}
  <2>2. 1 \in U
    <3>1. end[1] = 0
      BY <1>r4 DEF start
    <3>2. Runs(J[1], s, b + 0) /\ b + 0 <= max /\ 0 >= 0
      BY <1>2, <1>5, <1>11, <2>1
    <3>3. \A j \in 0..max : Runs(J[1], s, j) => 0 >= 0 /\ b + 0 <= j
      BY <1>2, <1>5
    <3>4. Earliest(J[1], s, b, max, 0)
      BY <3>2, <3>3 DEF Earliest
    <3> QED BY <1>r0, <3>1, <3>4
  <2>3. ASSUME NEW k \in 1 + 1..m, k - 1 \in U PROVE k \in U
    <3> DEFINE g == k - 1
    <3>1. g \in 1..m /\ g + 1 = k /\ k \in 1..m
      BY <1>r0, <2>3
    <3>2. Earliest(J[g], s, b, max, end[g])
      BY <2>3
    <3>3. end[k] = NextEnd(mid, p[k], end[g])
      <4>1. end[k] = Turn(end[g], k)
        BY <1>r4, <2>3
      <4> QED BY <1>a, <4>1
    <3> HIDE DEF g
    <3>4. J[k] = Append(J[g], Spin) \o p[k] /\ J[g] \in Nodes /\ p[k] \in Strings
      BY <1>6, <3>1
    <3>5. Earliest(Append(J[g], Spin) \o p[k], s, b, max, NextEnd(SubSeq(s, b + 1, max), p[k], end[g]))
      BY <2>1, <3>2, <3>4, NextEndFits
    <3> QED BY <3>1, <3>3, <3>4, <3>5 DEF mid
  <2> HIDE DEF U
  <2>4. 1..m \subseteq U
    BY <1>r0, <2>2, <2>3, Induct
  <2>5. Earliest(J[m], s, b, max, end[m])
    <3>1. m \in 1..m
      BY <1>r0
    <3> QED BY <2>4, <3>1 DEF U
  <2>6. end[m] >= 0 <=> \E i \in 0..max : Runs(J[m], s, i)
    <3>1. end[m] >= 0 => b + end[m] \in 0..max
      BY <1>2, <2>1, <2>5 DEF Earliest
    <3> QED BY <2>5, <3>1 DEF Earliest
  <2>7. GlobMatch(v, s) <=> HasSuffix(s, p[n]) /\ end[m] >= 0
    BY <1>3, <1>9, <1>11
  <2> QED BY <1>8, <2>1, <2>6, <2>7 DEF n, p
<1> QED BY <1>10, <1>11

\* globMatch of explain.go and the automaton of index.go mean the same.
THEOREM GlobFits ==
    ASSUME NEW v \in Strings, NEW s \in Strings
    PROVE  GlobMatch(v, s) <=> Runs(Tok(v)[Len(v)], s, Len(s))
<1> DEFINE p == Parts(v)
<1>1. PICK J : Joins(v, p, J)
  BY PartsFit
<1>2. J[Len(p)] = Tok(v)[Len(v)]
  BY <1>1 DEF Joins
<1>3. CASE Len(p) # 1
  <2>1. GlobMatch(v, s) <=> Runs(J[Len(p)], s, Len(s))
    BY <1>1, <1>3, GlobFitsMany
  <2> HIDE DEF p
  <2> QED BY <1>2, <2>1
<1>4. CASE Len(p) = 1
  <2>1. GlobMatch(v, s) <=> s = p[1]
    BY <1>4 DEF GlobMatch
  <2>2. 1 \in 1..1 /\ p[1] \in Strings /\ J[1] = p[1]
    <3>1. 1 \in 1..1
      OBVIOUS
    <3> HIDE DEF p
    <3> QED BY <1>1, <1>4, <3>1 DEF Joins
  <2> HIDE DEF p
  <2>3. Runs(p[1], s, Len(s)) <=> Follows(s, 0, p[1]) /\ Len(s) = Len(p[1])
    BY <2>2, RunsAlone
  <2>4. s = p[1] <=> Follows(s, 0, p[1]) /\ Len(s) = Len(p[1])
    BY <2>2, FollowsAll
  <2>5. Tok(v)[Len(v)] = p[1]
    BY <1>2, <1>4, <2>2
  <2> QED BY <2>1, <2>3, <2>4, <2>5
<1> QED BY <1>3, <1>4

\* A leaf as normalizePattern makes it, and what it means for a value.
IsCidr(q) ==
    /\ q = [addr |-> q.addr, n |-> q.n]
    /\ IsAddr(q.addr)
    /\ q.n \in 0..Len(q.addr.bits)
    /\ Masked(q.addr, q.n) = q.addr

Affixes == {"prefix", "suffix"}
LeafKinds == {"equals", "prefix", "suffix", "glob", "number", "cidr", "exists"}

IsLeaf(l) ==
    /\ l = Leaf(l.kind, l.arg)
    /\ l.kind \in LeafKinds
    /\ l.kind \in {"equals", "prefix", "suffix", "glob"} => l.arg \in Strings
    /\ l.kind = "glob" => ValidWildcard(l.arg)
    /\ l.kind = "number" => IsInterval(l.arg)
    /\ l.kind = "cidr" => IsCidr(l.arg)
    /\ l.kind = "exists" => l.arg = << >>

\* The node where a wildcard pattern ends.
End(v) == Tok(v)[Len(v)]

LeafMatches(l, v) ==
    /\ l.kind = "equals" => v.text = l.arg
    /\ l.kind = "prefix" => HasPrefix(v.text, l.arg)
    /\ l.kind = "suffix" => HasSuffix(v.text, l.arg)
    /\ l.kind = "glob" => Runs(End(l.arg), v.text, Len(v.text))
    /\ l.kind = "number" => v.num # NoNum /\ Contains(l.arg, v.num)
    /\ l.kind = "cidr" =>
        LET addr == ParseIP(v)
        IN  addr # NoAddr /\ addr.v4 = l.arg.addr.v4 /\ Masked(addr, l.arg.n) = l.arg.addr

-----------------------------------------------------------------------------
(* What a leaf matches, and what its patterns mean.                        *)

\* An address that is masked, or unmapped, is one.
LEMMA MaskedIs ==
    ASSUME NEW addr, IsAddr(addr), NEW n \in Nat
    PROVE  /\ IsAddr(Masked(addr, n))
           /\ Masked(addr, n).v4 = addr.v4
           /\ Len(Masked(addr, n).bits) = Len(addr.bits)
           /\ Masked(Masked(addr, n), n) = Masked(addr, n)
<1> DEFINE z == Masked(addr, n)
           b == [i \in 1..Len(addr.bits) |-> IF i <= n THEN addr.bits[i] ELSE 0]
           l == Len(addr.bits)
<1>1. addr \in [v4 : BOOLEAN, bits : Seq({0, 1})]
  BY DEF IsAddr
<1>2. l \in Nat /\ \A i \in 1..l : addr.bits[i] \in {0, 1}
  BY <1>1, ElementOfSeq
<1>3. z = [v4 |-> addr.v4, bits |-> b]
  <2>1. z = [addr EXCEPT !.bits = b]
    BY DEF Masked
  <2> HIDE DEF z, b
  <2> QED BY <1>1, <2>1
<1>4. b \in [1..l -> {0, 1}]
  BY <1>2
<1>5. b \in Seq({0, 1}) /\ Len(b) = l
  <2> DEFINE B == {0, 1}
  <2> HIDE DEF B, b, l
  <2>1. b \in [1..l -> B]
    BY <1>4 DEF B
  <2> QED BY <1>2, <2>1, IsASeq, LenProperties DEF B
<1>6. IsAddr(z)
  BY <1>1, <1>3, <1>5 DEF IsAddr
<1>7. [i \in 1..Len(b) |-> IF i <= n THEN b[i] ELSE 0] = b
  BY <1>5
<1>8. Masked(z, n) = z
  BY <1>3, <1>7 DEF Masked
<1> QED BY <1>3, <1>5, <1>6, <1>8

\* An address of IPv4 that is mapped to IPv6 has the length of one.
LEMMA UnmapIs ==
    ASSUME NEW addr, IsAddr(addr)
    PROVE  /\ IsAddr(Unmap(addr))
           /\ Unmap(addr) # addr => Len(Unmap(addr).bits) = Width4 /\ Len(addr.bits) = Len(Mapped) + Width4
<1>1. Width4 \in Nat /\ Mapped \in Seq({0, 1})
  BY ValueIndexAssumption
<1>2. CASE ~addr.v4 /\ HasPrefix(addr.bits, Mapped)
  <2> DEFINE u == SubSeq(addr.bits, Len(Mapped) + 1, Len(addr.bits))
             B == {0, 1}
  <2>1. addr \in [v4 : BOOLEAN, bits : Seq(B)] /\ Len(addr.bits) = Len(Mapped) + Width4
    BY <1>2 DEF IsAddr
  <2>2. addr.bits \in Seq(B) /\ Mapped \in Seq(B)
    BY <1>1, <2>1
  <2> HIDE DEF B
  <2>3. Len(Mapped) \in Nat
    BY <2>2
  <2>4. Len(Mapped) + 1 \in Int /\ Len(addr.bits) \in Int
        /\ \A i \in Len(Mapped) + 1..Len(addr.bits) : addr.bits[i] \in B
    BY <1>1, <2>1, <2>2, <2>3, ElementOfSeq
  <2>5. u \in Seq(B) /\ Len(u) = IF Len(Mapped) + 1 <= Len(addr.bits)
                                 THEN Len(addr.bits) - (Len(Mapped) + 1) + 1 ELSE 0
    BY <2>4, SubSeqProperties
  <2>6. Len(u) = Width4
    BY <1>1, <2>1, <2>3, <2>5
  <2>7. Unmap(addr) = [v4 |-> TRUE, bits |-> u]
    BY <1>2 DEF Unmap
  <2> HIDE DEF u
  <2> QED BY <2>1, <2>5, <2>6, <2>7 DEF IsAddr, B
<1>3. CASE ~(~addr.v4 /\ HasPrefix(addr.bits, Mapped))
  BY <1>3 DEF Unmap
<1> QED BY <1>2, <1>3

\* The prefix of a pattern is masked and has its length (parsePrefix).
LEMMA ParsePrefixIs ==
    ASSUME NEW addr, IsAddr(addr), NEW n \in 0..Len(addr.bits)
    PROVE  IsCidr(ParsePrefix(addr, n))
<1>1. Width4 \in Nat /\ Mapped \in Seq({0, 1}) /\ Len(Mapped) \in Nat
  BY ValueIndexAssumption
<1>2. ASSUME NEW z, IsAddr(z), NEW m \in Nat, m <= Len(z.bits)
      PROVE  IsCidr([addr |-> Masked(z, m), n |-> m])
  <2>1. IsAddr(Masked(z, m)) /\ Len(Masked(z, m).bits) = Len(z.bits) /\ Masked(Masked(z, m), m) = Masked(z, m)
    BY <1>2, MaskedIs
  <2>2. Len(z.bits) \in Nat
    BY <1>1, <1>2 DEF IsAddr
  <2>3. m \in 0..Len(z.bits)
    BY <1>2, <2>2
  <2> QED BY <2>1, <2>3 DEF IsCidr
<1>3. Len(addr.bits) \in Nat
  BY <1>1 DEF IsAddr
<1>4. CASE Unmap(addr) # addr /\ n >= Len(Mapped)
  <2>1. /\ IsAddr(Unmap(addr))
        /\ Len(Unmap(addr).bits) = Width4 /\ Len(addr.bits) = Len(Mapped) + Width4
    BY <1>4, UnmapIs
  <2> DEFINE m == n - Len(Mapped)
  <2>2. m \in Nat /\ m <= Len(Unmap(addr).bits)
    BY <1>1, <1>3, <1>4, <2>1
  <2>3. ParsePrefix(addr, n) = [addr |-> Masked(Unmap(addr), m), n |-> m]
    BY <1>4 DEF ParsePrefix
  <2> HIDE DEF m
  <2> QED BY <1>2, <2>1, <2>2, <2>3
<1>5. CASE ~(Unmap(addr) # addr /\ n >= Len(Mapped))
  <2>1. n \in Nat /\ n <= Len(addr.bits)
    BY <1>3
  <2>2. ParsePrefix(addr, n) = [addr |-> Masked(addr, n), n |-> n]
    BY <1>5 DEF ParsePrefix
  <2> QED BY <1>2, <2>1, <2>2
<1> QED BY <1>4, <1>5

\* A stretch of bytes without escapes and wildcards is its own literal.
LEMMA PlainTok ==
    ASSUME NEW v \in Strings, \A i \in 1..Len(v) : v[i] # Backslash,
           NEW from \in 0..Len(v), NEW to \in from..Len(v), \A i \in from + 1..to : v[i] # Star
    PROVE  Tok(v)[to] = Tok(v)[from] \o SubSeq(v, from + 1, to)
<1> DEFINE t == Tok(v)
           U == {i \in from..to : t[i] = t[from] \o SubSeq(v, from + 1, i)}
<1>1. /\ Len(v) \in Nat
      /\ \A i \in 1..Len(v) : t[i] = TokenStep(v, t[i - 1], i)
      /\ \A i \in 0..Len(v) : t[i] \in Nodes
  BY TokIs
<1> HIDE DEF t
<1>2. from \in Nat /\ to \in Nat
  BY <1>1
<1>3. from \in U
  <2>1. SubSeq(v, from + 1, from) = << >>
    <3>1. SubSeq(v, from + 1, from) \in Strings /\ Len(SubSeq(v, from + 1, from)) = from - from
      BY <1>1, <1>2, SubIs
    <3>2. Len(SubSeq(v, from + 1, from)) = 0
      BY <1>2, <3>1
    <3> QED BY <3>1, <3>2, EmptySeq DEF Strings
  <2>2. t[from] \in Nodes
    BY <1>1
  <2>3. t[from] \o << >> = t[from]
    BY <2>2, ConcatEmptySeq DEF Nodes
  <2>4. from \in from..to
    BY <1>1
  <2> QED BY <2>1, <2>3, <2>4
<1>4. ASSUME NEW i \in from + 1..to, i - 1 \in U
      PROVE  i \in U
  <2> DEFINE h == i - 1
             q == SubSeq(v, from + 1, h)
             p == SubSeq(v, from + 1, i)
  <2>1. i \in Nat /\ h \in from..Len(v) /\ i \in from..Len(v) /\ i \in 1..Len(v) /\ i - from = h - from + 1
        /\ h - from \in Nat /\ from + (h - from + 1) = i /\ i \in from..to
    BY <1>1, <1>2
  <2>2. t[h] = t[from] \o q
    BY <1>4
  <2>3. /\ q \in Strings /\ Len(q) = h - from /\ \A k \in 1..h - from : q[k] = v[from + k]
    BY <2>1, SubIs
  <2>4. /\ p \in Strings /\ Len(p) = i - from /\ \A k \in 1..i - from : p[k] = v[from + k]
    BY <2>1, SubIs
  <2>5. v[i] \in 0..255 /\ v[i] # Star /\ v[i] # Backslash
    <3>1. v[i] \in 0..255
      BY <2>1, ElementOfSeq DEF Strings
    <3> QED BY <2>1, <3>1
  <2> DEFINE c == v[i]
             a == Append(q, c)
             B == 0..255
  <2>a. c \in 0..255
    BY <2>5
  <2> HIDE DEF h, q, p, c
  <2>6. a \in Strings /\ Len(a) = Len(q) + 1 /\ (\A k \in 1..Len(q) : a[k] = q[k]) /\ a[Len(q) + 1] = c
    <3>1. q \in Seq(B) /\ c \in B
      BY <2>3, <2>a DEF Strings
    <3> HIDE DEF B
    <3>2. a \in Seq(B) /\ Len(a) = Len(q) + 1 /\ (\A k \in 1..Len(q) : a[k] = q[k]) /\ a[Len(q) + 1] = c
      BY <3>1, AppendProperties
    <3> QED BY <3>2 DEF Strings, B
  <2>7. p = a
    <3>1. Len(p) = Len(a)
      BY <2>1, <2>3, <2>4, <2>6
    <3>2. ASSUME NEW k \in 1..Len(p) PROVE p[k] = a[k]
      <4>1. p[k] = v[from + k]
        BY <2>4
      <4>2. CASE k \in 1..Len(q)
        BY <2>3, <2>6, <4>1, <4>2
      <4>3. CASE k \notin 1..Len(q)
        <5>1. k = Len(q) + 1 /\ from + k = i
          BY <2>1, <2>3, <2>4, <4>3
        <5> QED BY <2>6, <4>1, <5>1 DEF c
      <4> QED BY <4>2, <4>3
    <3> HIDE DEF a
    <3> QED BY <2>4, <2>6, <3>1, <3>2, SeqEqual DEF Strings
  <2>8. t[i] = Append(t[h], c)
    <3>1. t[i] = TokenStep(v, t[h], i)
      BY <1>1, <2>1 DEF h
    <3>2. i \notin Wilds(v)
      BY <2>5 DEF Wilds
    <3> QED BY <2>5, <3>1, <3>2 DEF TokenStep, c
  <2>9. Append(t[from] \o q, c) = t[from] \o a
    <3> DEFINE n == t[from]
    <3>1. n \in Nodes /\ q \in Nodes
      BY <1>1, <2>3, StringsAreNodes
    <3>2. c \in 0..256
      BY <2>a, SMTT(30)
    <3> HIDE DEF n
    <3>3. n \o Append(q, c) = Append(n \o q, c)
      BY <3>1, <3>2, NodeAppend, ZenonT(60)
    <3> QED BY <3>3 DEF n
  <2>10. t[i] = t[from] \o p
    BY <2>2, <2>7, <2>8, <2>9
  <2> QED BY <2>1, <2>10 DEF p
<1> HIDE DEF U
<1>5. from..to \subseteq U
  BY <1>2, <1>3, <1>4, Induct
<1>6. to \in from..to
  BY <1>1
<1> QED BY <1>5, <1>6 DEF U, t

\* A wildcard adds a spinner.
LEMMA StarTok ==
    ASSUME NEW v \in Strings, \A i \in 1..Len(v) : v[i] # Backslash, NEW i \in 1..Len(v), v[i] = Star
    PROVE  Tok(v)[i] = Append(Tok(v)[i - 1], Spin)
<1>1. Tok(v)[i] = TokenStep(v, Tok(v)[i - 1], i) /\ Len(v) \in Nat
  BY TokIs
<1>2. i \notin Escaped(v)
  <2>1. i \in Escaped(v) => i > 1 /\ v[i - 1] = Backslash
    BY EscapedIs
  <2>2. i > 1 => i - 1 \in 1..Len(v)
    BY <1>1
  <2> QED BY <2>1, <2>2
<1> QED BY <1>1, <1>2 DEF TokenStep, Wilds

\* What a wildcard at the end, or at the start, means.
LEMMA RunsPrefix ==
    ASSUME NEW s \in Strings, NEW q \in Strings
    PROVE  Runs(Append(q, Spin), s, Len(s)) <=> HasPrefix(s, q)
<1>1. q \in Nodes /\ Spin \in 0..256 /\ Len(s) \in Nat /\ Len(q) \in Nat
  BY StringsAreNodes, LenProperties DEF Spin, Strings
<1>2. Runs(Append(q, Spin), s, Len(s))
        <=> Len(s) \in 0..Len(s) /\ \E i \in 0..Len(s) : Runs(q, s, i) /\ Moves(Spin, s, i, Len(s))
  BY <1>1, RunsAppend
<1>3. \A i : Runs(q, s, i) <=> Follows(s, 0, q) /\ i = Len(q)
  BY RunsAlone
<1>4. Follows(s, 0, q) => Len(q) \in 0..Len(s)
  BY <1>1 DEF Follows
<1>5. Len(s) \in 0..Len(s) /\ \A i \in 0..Len(s) : Moves(Spin, s, i, Len(s))
  BY <1>1 DEF Moves
<1>6. HasPrefix(s, q) <=> Follows(s, 0, q)
  BY PrefixFollows
<1> QED BY <1>2, <1>3, <1>4, <1>5, <1>6

\* The tokens of a wildcard pattern that is only a suffix.
LEMMA RunsSuffix ==
    ASSUME NEW s \in Strings, NEW q \in Strings
    PROVE  Runs(Append(<< >>, Spin) \o q, s, Len(s)) <=> HasSuffix(s, q)
<1>1. Root \in Nodes /\ Len(s) \in Nat /\ Len(q) \in Nat
  BY EmptySeq, LenProperties DEF Root, Nodes, Strings
<1>2. Runs(Append(Root, Spin) \o q, s, Len(s))
        <=> \E i, h \in 0..Len(s) : Runs(Root, s, i) /\ i <= h /\ Follows(s, h, q) /\ Len(s) = h + Len(q)
  <2> DEFINE n == Root
  <2>1. n \in Nodes
    BY <1>1
  <2> HIDE DEF n
  <2>2. Runs(Append(n, Spin) \o q, s, Len(s))
        <=> \E i, h \in 0..Len(s) : Runs(n, s, i) /\ i <= h /\ Follows(s, h, q) /\ Len(s) = h + Len(q)
    BY <2>1, RunsJoin
  <2> QED BY <2>2 DEF n
<1>3. \A i : Runs(Root, s, i) <=> i = 0
  BY RunsRoot
<1>4. CASE Len(q) <= Len(s)
  <2>1. HasSuffix(s, q) <=> Follows(s, Len(s) - Len(q), q)
    BY <1>4, SuffixFollows
  <2>2. /\ 0 \in 0..Len(s) /\ Len(s) - Len(q) \in 0..Len(s)
        /\ \A h \in 0..Len(s) : 0 <= h /\ (Len(s) = h + Len(q) <=> h = Len(s) - Len(q))
    BY <1>1, <1>4
  <2> DEFINE d == Len(s) - Len(q)
  <2>3. 0 \in 0..Len(s) /\ d \in 0..Len(s) /\ \A h \in 0..Len(s) : 0 <= h /\ (Len(s) = h + Len(q) <=> h = d)
    BY <2>2
  <2>4. HasSuffix(s, q) <=> Follows(s, d, q)
    BY <2>1
  <2> HIDE DEF d
  <2>5. Runs(Append(Root, Spin) \o q, s, Len(s)) <=> HasSuffix(s, q)
    BY <1>2, <1>3, <2>3, <2>4
  <2> QED BY <2>5 DEF Root
<1>5. CASE ~(Len(q) <= Len(s))
  <2>1. \A h \in 0..Len(s) : Len(s) # h + Len(q)
    BY <1>1, <1>5
  <2>2. ~Runs(Append(Root, Spin) \o q, s, Len(s))
    BY <1>2, <2>1
  <2> QED BY <1>5, <2>2 DEF HasSuffix, Root
<1> QED BY <1>4, <1>5

\* The tokens of a wildcard pattern without '*'.
LEMMA RunsEquals ==
    ASSUME NEW s \in Strings, NEW q \in Strings
    PROVE  Runs(q, s, Len(s)) <=> s = q
BY RunsAlone, FollowsAll

\* The cheaper leaves of plain wildcard patterns mean the same.
LEMMA PlainMeans ==
    ASSUME NEW v \in Strings, v # << >>, ValidWildcard(v), \A i \in 1..Len(v) : v[i] # Backslash
    PROVE  LET l == PlainWildcardLeaf(v)
           IN  /\ IsLeaf(l)
               /\ l.kind # "cidr" /\ l.kind # "number"
               /\ \A s : s.text \in Strings =>
                    (LeafMatches(l, s) <=> Runs(End(v), s.text, Len(s.text)))
<1> DEFINE l == PlainWildcardLeaf(v)
           L == Len(v)
           lead == v[1] = Star
           trail == v[L] = Star
           lo == IF lead THEN 1 ELSE 0
           up == IF trail THEN L - 1 ELSE L
           core == SubSeq(v, IF lead THEN 2 ELSE 1, IF trail THEN Len(v) - 1 ELSE Len(v))
           t == Tok(v)
<1>1. L \in Nat /\ L >= 1 /\ (\A i \in 1..L : v[i] \in 0..255) /\ t[0] = << >> /\ \A i \in 0..L : t[i] \in Nodes
  <2>1. L \in Nat /\ (\A i \in 1..L : v[i] \in 0..255)
    BY LenProperties, ElementOfSeq DEF Strings
  <2>2. L # 0
    BY EmptySeq DEF Strings
  <2>3. t[0] = << >> /\ \A i \in 0..L : t[i] \in Nodes
    BY TokIs
  <2> QED BY <2>1, <2>2, <2>3
<1>2. CASE v = <<Star>>
  <2>1. l = Leaf("exists", <<>>)
    BY <1>2 DEF PlainWildcardLeaf
  <2>2. L = 1 /\ v[1] = Star
    BY <1>2
  <2>3. t[L] = Append(Root, Spin)
    <3>1. 1 \in 1..Len(v) /\ 1 - 1 = 0
      BY <2>2
    <3>2. t[1] = Append(t[1 - 1], Spin)
      BY <2>2, <3>1, StarTok
    <3> QED BY <1>1, <2>2, <3>1, <3>2 DEF Root
  <2>4. ASSUME NEW s, s.text \in Strings PROVE Runs(t[L], s.text, Len(s.text))
    <3> DEFINE u == s.text
    <3>1. u \in Strings /\ Root \in Nodes /\ Spin \in 0..256 /\ Len(u) \in Nat
      BY <2>4, EmptySeq, LenProperties DEF Root, Nodes, Spin, Strings
    <3> HIDE DEF u
    <3>2. Runs(Root, u, 0)
      BY <3>1, RunsRoot
    <3>3. Moves(Spin, u, 0, Len(u)) /\ 0 \in 0..Len(u) /\ Len(u) \in 0..Len(u)
      BY <3>1 DEF Moves
    <3>4. Runs(Append(Root, Spin), u, Len(u))
            <=> Len(u) \in 0..Len(u) /\ \E i \in 0..Len(u) : Runs(Root, u, i) /\ Moves(Spin, u, i, Len(u))
      <4> DEFINE n == Root
                 j == Len(u)
      <4>1. n \in Nodes
        BY <3>1
      <4> HIDE DEF n, j
      <4>2. Runs(Append(n, Spin), u, j)
            <=> j \in 0..Len(u) /\ \E i \in 0..Len(u) : Runs(n, u, i) /\ Moves(Spin, u, i, j)
        BY <3>1, <4>1, RunsAppend
      <4> QED BY <4>2 DEF n, j
    <3>5. Runs(Append(Root, Spin), u, Len(u))
      BY <3>2, <3>3, <3>4
    <3> QED BY <2>3, <3>5 DEF u
  <2> HIDE DEF t, L
  <2>5. IsLeaf(l)
    BY <2>1 DEF IsLeaf, Leaf, LeafKinds
  <2>6. l.kind = "exists"
    BY <2>1 DEF Leaf
  <2> HIDE DEF l
  <2>7. \A s : LeafMatches(l, s)
    BY <2>6 DEF LeafMatches
  <2> QED BY <2>4, <2>5, <2>6, <2>7 DEF End, l, t, L
<1>3. CASE v # <<Star>> /\ (Wilds(core) # {} \/ (lead /\ trail))
  <2>1. l = Leaf("glob", v)
    BY <1>3 DEF PlainWildcardLeaf
  <2> HIDE DEF l
  <2>2. IsLeaf(l) /\ l.kind = "glob" /\ l.arg = v
    BY <2>1 DEF IsLeaf, Leaf, LeafKinds
  <2> QED BY <2>2 DEF LeafMatches, l
<1>4. CASE v # <<Star>> /\ Wilds(core) = {} /\ ~(lead /\ trail)
  <2>1. lo \in 0..L /\ up \in lo..L /\ core = SubSeq(v, lo + 1, up)
    <3>1. lead /\ ~trail => L # 1
      OBVIOUS
    <3>2. CASE lead
      BY <1>1, <1>4, <3>1, <3>2
    <3>3. CASE ~lead
      BY <1>1, <3>3
    <3> QED BY <3>2, <3>3
  <2>2. core \in Strings /\ Len(core) = up - lo /\ \A k \in 1..up - lo : core[k] = v[lo + k]
    <3>1. /\ SubSeq(v, lo + 1, up) \in Strings
          /\ Len(SubSeq(v, lo + 1, up)) = up - lo
          /\ \A k \in 1..up - lo : SubSeq(v, lo + 1, up)[k] = v[lo + k]
      <4> HIDE DEF lo, up
      <4> QED BY <2>1, SubIs
    <3> QED BY <2>1, <3>1
  <2>3. \A i \in lo + 1..up : v[i] # Star
    <3> SUFFICES ASSUME NEW i \in lo + 1..up, v[i] = Star PROVE FALSE
      OBVIOUS
    <3> DEFINE k == i - lo
    <3>1. k \in 1..up - lo /\ lo + k = i /\ (k > 1 => k - 1 \in 1..up - lo /\ lo + (k - 1) \in 1..L)
      BY <1>1, <2>1
    <3> HIDE DEF k, lo, up, core
    <3>2. core[k] = Star /\ k \in 1..Len(core)
      BY <2>2, <3>1
    <3>3. k \notin Escaped(core)
      <4>1. k \in Escaped(core) => k > 1 /\ core[k - 1] = Backslash
        BY <2>2, <3>2, EscapedIs
      <4>2. k > 1 => core[k - 1] = v[lo + (k - 1)] /\ lo + (k - 1) \in 1..L
        BY <2>2, <3>1
      <4> QED BY <4>1, <4>2 DEF L
    <3>4. k \in Wilds(core)
      BY <3>2, <3>3 DEF Wilds
    <3> QED BY <1>4, <3>4 DEF core
  <2>4. t[up] = t[lo] \o core
    <3>1. t[up] = t[lo] \o SubSeq(v, lo + 1, up)
      <4> HIDE DEF lo, up
      <4> QED BY <2>1, <2>3, PlainTok DEF L, t
    <3> QED BY <2>1, <3>1
  <2>5. lead => t[1] = Append(<< >>, Spin)
    <3>1. 1 \in 1..Len(v) /\ 1 - 1 = 0
      BY <1>1
    <3>2. lead => t[1] = Append(t[1 - 1], Spin)
      BY <3>1, StarTok
    <3> QED BY <1>1, <3>1, <3>2
  <2>6. trail => t[L] = Append(t[L - 1], Spin)
    <3>1. L \in 1..Len(v)
      BY <1>1
    <3> QED BY <3>1, StarTok
  <2>7. << >> \o core = core
    BY <2>2, ConcatEmptySeq DEF Strings
  <2> HIDE DEF core, t, l
  <2>8. CASE ~lead /\ ~trail
    <3>1. l = Leaf("equals", core)
      BY <1>4, <2>8 DEF PlainWildcardLeaf, core, l
    <3>2. End(v) = core
      BY <1>1, <2>4, <2>7, <2>8 DEF t, End
    <3>3. IsLeaf(l) /\ l.kind = "equals" /\ l.arg = core
      BY <2>2, <3>1 DEF IsLeaf, Leaf, LeafKinds
    <3>4. \A s : LeafMatches(l, s) <=> s.text = core
      BY <3>3 DEF LeafMatches
    <3> QED BY <2>2, <3>2, <3>3, <3>4, RunsEquals DEF l
  <2>9. CASE ~lead /\ trail
    <3>1. l = Leaf("prefix", core)
      BY <1>4, <2>9 DEF PlainWildcardLeaf, core, l
    <3>2. End(v) = Append(core, Spin)
      BY <1>1, <2>4, <2>6, <2>7, <2>9 DEF t, End
    <3>3. IsLeaf(l) /\ l.kind = "prefix" /\ l.arg = core
      BY <2>2, <3>1 DEF IsLeaf, Leaf, LeafKinds
    <3>4. \A s : LeafMatches(l, s) <=> HasPrefix(s.text, core)
      BY <3>3 DEF LeafMatches
    <3> QED BY <2>2, <3>2, <3>3, <3>4, RunsPrefix DEF l
  <2>10. CASE lead /\ ~trail
    <3>1. l = Leaf("suffix", core)
      BY <1>4, <2>10 DEF PlainWildcardLeaf, core, l
    <3>2. End(v) = Append(<< >>, Spin) \o core
      BY <1>1, <2>4, <2>5, <2>10 DEF t, End
    <3>3. IsLeaf(l) /\ l.kind = "suffix" /\ l.arg = core
      BY <2>2, <3>1 DEF IsLeaf, Leaf, LeafKinds
    <3>4. \A s : LeafMatches(l, s) <=> HasSuffix(s.text, core)
      BY <3>3 DEF LeafMatches
    <3> QED BY <2>2, <3>2, <3>3, <3>4, RunsSuffix DEF l
  <2> QED BY <1>4, <2>8, <2>9, <2>10
<1> QED BY <1>2, <1>3, <1>4

\* So do those of wildcard patterns with escapes.
LEMMA EscapedMeans ==
    ASSUME NEW v \in Strings, ValidWildcard(v)
    PROVE  LET l == WildcardLeaf(v)
           IN  /\ IsLeaf(l)
               /\ l.kind # "cidr" /\ l.kind # "number"
               /\ \A s : s.text \in Strings =>
                    (LeafMatches(l, s) <=> Runs(End(v), s.text, Len(s.text)))
<1> DEFINE l == WildcardLeaf(v)
           p == Parts(v)
<1>1. PICK J : Joins(v, p, J)
  BY PartsFit
<1> HIDE DEF p
<1>2. /\ Len(p) \in Nat \ {0}
      /\ \A k \in 1..Len(p) : p[k] \in Strings
      /\ J[1] = p[1]
      /\ \A k \in 1..Len(p) - 1 : J[k + 1] = Append(J[k], Spin) \o p[k + 1]
      /\ J[Len(p)] = End(v)
  BY <1>1 DEF Joins, End
<1>3. CASE Len(p) = 1
  <2>1. l = Leaf("equals", p[1])
    BY <1>3 DEF WildcardLeaf, p
  <2>2. p[1] \in Strings /\ End(v) = p[1]
    BY <1>2, <1>3
  <2> HIDE DEF l
  <2>3. IsLeaf(l) /\ l.kind = "equals" /\ l.arg = p[1]
    BY <2>1, <2>2 DEF IsLeaf, Leaf, LeafKinds
  <2>4. \A s : LeafMatches(l, s) <=> s.text = p[1]
    BY <2>3 DEF LeafMatches
  <2> QED BY <2>2, <2>3, <2>4, RunsEquals DEF l
<1>4. CASE Len(p) = 2 /\ (p[1] = << >> \/ p[2] = << >>)
  <2>1. p[1] \in Strings /\ p[2] \in Strings /\ End(v) = Append(p[1], Spin) \o p[2]
    <3>1. 1 \in 1..Len(p) /\ 2 \in 1..Len(p) /\ 1 \in 1..Len(p) - 1 /\ 1 + 1 = 2
      BY <1>4
    <3>2. J[1 + 1] = Append(J[1], Spin) \o p[1 + 1]
      BY <1>2, <3>1
    <3> QED BY <1>2, <1>4, <3>1, <3>2
  <2>2. CASE p[1] = << >>
    <3>1. l = Leaf("suffix", p[2])
      BY <1>4, <2>2 DEF WildcardLeaf, p
    <3> HIDE DEF l
    <3>2. IsLeaf(l) /\ l.kind = "suffix" /\ l.arg = p[2]
      BY <2>1, <3>1 DEF IsLeaf, Leaf, LeafKinds
    <3>3. \A s : LeafMatches(l, s) <=> HasSuffix(s.text, p[2])
      BY <3>2 DEF LeafMatches
    <3> QED BY <2>1, <2>2, <3>2, <3>3, RunsSuffix DEF l
  <2>3. CASE p[1] # << >>
    <3>1. l = Leaf("prefix", p[1])
      BY <1>4, <2>3 DEF WildcardLeaf, p
    <3>2. End(v) = Append(p[1], Spin)
      <4> DEFINE n == Append(p[1], Spin)
      <4>1. p[1] \in Nodes /\ Spin \in 0..256
        BY <2>1, StringsAreNodes DEF Spin
      <4>2. n \in Nodes
        <5> DEFINE B == 0..256
        <5>1. p[1] \in Seq(B) /\ Spin \in B
          BY <4>1 DEF Nodes
        <5> HIDE DEF B
        <5>2. n \in Seq(B)
          BY <5>1, AppendProperties
        <5> QED BY <5>2 DEF Nodes, B
      <4> HIDE DEF n
      <4>3. n \o << >> = n
        BY <4>2, ConcatEmptySeq DEF Nodes
      <4> QED BY <1>4, <2>1, <2>3, <4>3 DEF n
    <3> HIDE DEF l
    <3>3. IsLeaf(l) /\ l.kind = "prefix" /\ l.arg = p[1]
      BY <2>1, <3>1 DEF IsLeaf, Leaf, LeafKinds
    <3>4. \A s : LeafMatches(l, s) <=> HasPrefix(s.text, p[1])
      BY <3>3 DEF LeafMatches
    <3> QED BY <2>1, <3>2, <3>3, <3>4, RunsPrefix DEF l
  <2> QED BY <2>2, <2>3
<1>5. CASE Len(p) # 1 /\ ~(Len(p) = 2 /\ (p[1] = << >> \/ p[2] = << >>))
  <2>1. l = Leaf("glob", v)
    BY <1>5 DEF WildcardLeaf, p
  <2> HIDE DEF l
  <2>2. IsLeaf(l) /\ l.kind = "glob" /\ l.arg = v
    BY <2>1 DEF IsLeaf, Leaf, LeafKinds
  <2> QED BY <2>2 DEF LeafMatches, l
<1> QED BY <1>3, <1>4, <1>5

\* Bounds make intervals that are not empty.
LEMMA BoundsAreIntervals ==
    ASSUME NEW t \in Comparisons \cup {"eq"}, NEW v \in Int, Finite(v)
    PROVE  IsInterval(BoundInterval(t, v))
<1>1. Inf \in Nat /\ -Inf \in Int /\ -Inf < v /\ v < Inf /\ v # Inf /\ -Inf # v
  BY NumbersAssumption DEF Finite
<1>2. t \in {"gt", "gte", "lt", "lte", "eq"}
  BY DEF Comparisons, Greater
<1> QED BY <1>1, <1>2 DEF BoundInterval, Interval, IsInterval

\* The bounds of a between are in order, so it is an interval.
LEMMA BetweenIsInterval ==
    ASSUME NEW u, ValidBetween(u), u[1][2] \in Int, u[2][2] \in Int
    PROVE  IsInterval(BetweenInterval(u))
<1> DEFINE k == CHOOSE i \in 1..2 : u[i][1] \in Greater
           a == BoundInterval(u[k][1], u[k][2])
           b == BoundInterval(u[3 - k][1], u[3 - k][2])
           iv == BetweenInterval(u)
<1>1. PICK i \in 1..2 : u[i][1] \in Greater /\ u[3 - i][1] \in Comparisons \ Greater
  BY DEF ValidBetween
<1>2. k \in 1..2 /\ u[k][1] \in Greater
  BY <1>1
<1>3. k = i
  <2>1. k # i => k = 3 - i
    BY <1>2
  <2> HIDE DEF k
  <2> QED BY <1>1, <1>2, <2>1
<1>4. iv = Interval(a.lo, b.hi, a.loOpen, b.hiOpen)
  BY DEF BetweenInterval
<1>5. iv.lo < iv.hi \/ (iv.lo = iv.hi /\ ~iv.loOpen /\ ~iv.hiOpen)
  BY DEF ValidBetween
<1> HIDE DEF k, iv
<1>6. u[k][2] \in Int /\ u[3 - k][2] \in Int
  <2>1. k = 1 \/ k = 2
    BY <1>2
  <2>2. CASE k = 1
    BY <2>2
  <2>3. CASE k = 2
    BY <2>3
  <2> QED BY <2>1, <2>2, <2>3
<1>7. u[k][1] \in {"gt", "gte"} /\ u[3 - k][1] \in {"lt", "lte"}
  BY <1>1, <1>3 DEF Comparisons, Greater
<1>8. a.lo = u[k][2] /\ b.hi = u[3 - k][2]
  <2>1. a.lo = u[k][2]
    BY <1>7 DEF BoundInterval, Interval
  <2>2. b.hi = u[3 - k][2]
    BY <1>7 DEF BoundInterval, Interval
  <2> QED BY <2>1, <2>2
<1>9. iv.lo \in Int /\ iv.hi \in Int
  BY <1>4, <1>6, <1>8 DEF Interval
<1>10. iv.lo = iv.hi => ~iv.loOpen /\ ~iv.hiOpen
  <2>1. iv.lo = iv.hi => ~(iv.lo < iv.hi)
    BY <1>9
  <2> QED BY <1>5, <2>1
<1> QED BY <1>9, <1>10 DEF IsInterval, iv

\* A leaf means the same as the pattern that it was made of, whatever cheaper
\* lookup normalizePattern chose.
THEOREM Meaning ==
    ASSUME NEW p, IsPattern(p)
    PROVE  /\ IsLeaf(NewLeaf(p))
           /\ \A v : IsValue(v) => (ValueMatches(p, v) <=> LeafMatches(NewLeaf(p), v))
<1> DEFINE l == NewLeaf(p)
           y == p.type
<1>1. ValidPattern(p)
  BY DEF IsPattern
<1>2. CASE y \in {"equals", "prefix", "suffix"}
  <2>1. p.value \in Strings
    BY <1>2 DEF IsPattern, Comparisons, Greater
  <2>2. Fold(p.value) \in Strings
    BY <2>1, FoldIs
  <2>3. l = Leaf(y, Fold(p.value))
    BY <1>2 DEF NewLeaf, Comparisons, Greater
  <2> HIDE DEF l
  <2>4. IsLeaf(l) /\ l.kind = y /\ l.arg = Fold(p.value)
    BY <1>2, <2>2, <2>3 DEF IsLeaf, Leaf, LeafKinds
  <2>5. ASSUME NEW v PROVE ValueMatches(p, v) <=> LeafMatches(l, v)
    <3>1. CASE y = "equals"
      BY <3>1, <2>4 DEF ValueMatches, LeafMatches, Comparisons, Greater
    <3>2. CASE y = "prefix"
      BY <3>2, <2>4 DEF ValueMatches, LeafMatches, Comparisons, Greater
    <3>3. CASE y = "suffix"
      BY <3>3, <2>4 DEF ValueMatches, LeafMatches, Comparisons, Greater
    <3> QED BY <1>2, <3>1, <3>2, <3>3
  <2> QED BY <2>4, <2>5 DEF l
<1>3. CASE y = "wildcard"
  <2> DEFINE v == Fold(p.value)
  <2>1. p.value \in Strings
    BY <1>3 DEF IsPattern, Comparisons, Greater
  <2>2. p.value # << >> /\ ValidWildcard(p.value)
    BY <1>1, <1>3 DEF ValidPattern, Comparisons, Greater
  <2>3. v \in Strings /\ ValidWildcard(v) /\ Len(v) = Len(p.value)
    BY <2>1, <2>2, FoldIs
  <2>4. v # << >>
    <3>1. Len(p.value) # 0
      BY <2>1, <2>2, EmptySeq DEF Strings
    <3> HIDE DEF v
    <3> QED BY <2>3, <3>1
  <2>5. l = IF \A i \in 1..Len(v) : v[i] # Backslash THEN PlainWildcardLeaf(v) ELSE WildcardLeaf(v)
    BY <1>3 DEF NewLeaf, Comparisons, Greater
  <2> HIDE DEF l, v
  <2>6. /\ IsLeaf(l)
        /\ \A s : s.text \in Strings => (LeafMatches(l, s) <=> Runs(End(v), s.text, Len(s.text)))
    <3>1. CASE \A i \in 1..Len(v) : v[i] # Backslash
      BY <2>3, <2>4, <2>5, <3>1, PlainMeans
    <3>2. CASE ~(\A i \in 1..Len(v) : v[i] # Backslash)
      BY <2>3, <2>5, <3>2, EscapedMeans
    <3> QED BY <3>1, <3>2
  <2>7. ASSUME NEW s, IsValue(s) PROVE ValueMatches(p, s) <=> LeafMatches(l, s)
    <3>1. s.text \in Strings
      BY <2>7 DEF IsValue
    <3>2. ValueMatches(p, s) <=> GlobMatch(v, s.text)
      BY <1>3 DEF ValueMatches, Comparisons, Greater, v
    <3>3. GlobMatch(v, s.text) <=> Runs(End(v), s.text, Len(s.text))
      BY <2>3, <3>1, GlobFits DEF End
    <3> QED BY <2>6, <3>1, <3>2, <3>3
  <2> QED BY <2>6, <2>7 DEF l
<1>4. CASE y \in Comparisons \cup {"eq"} \/ y = "between"
  <2> DEFINE iv == IF y = "between" THEN BetweenInterval(p.value) ELSE BoundInterval(y, p.value)
  <2>1. y \in {"gt", "gte", "lt", "lte", "eq", "between"}
    BY <1>4 DEF Comparisons, Greater
  <2>2. l = Leaf("number", iv)
    BY <2>1 DEF NewLeaf, Comparisons, Greater
  <2>3. IsInterval(iv)
    <3>1. CASE y = "between"
      <4>1. p.value[1][2] \in Int /\ p.value[2][2] \in Int
        BY <3>1 DEF IsPattern, Comparisons, Greater
      <4>2. ValidBetween(p.value)
        BY <1>1, <3>1 DEF ValidPattern, Comparisons, Greater
      <4> QED BY <3>1, <4>1, <4>2, BetweenIsInterval
    <3>2. CASE y # "between"
      <4>1. p.value \in Int
        BY <2>1, <3>2 DEF IsPattern, Comparisons, Greater
      <4>2. Finite(p.value)
        BY <1>1, <2>1, <3>2 DEF ValidPattern, Comparisons, Greater
      <4>3. y \in Comparisons \cup {"eq"}
        BY <1>4, <3>2
      <4> QED BY <3>2, <4>1, <4>2, <4>3, BoundsAreIntervals
    <3> QED BY <3>1, <3>2
  <2>4. ASSUME NEW v PROVE ValueMatches(p, v) <=> v.num # NoNum /\ Contains(iv, v.num)
    BY <2>1 DEF ValueMatches, Comparisons, Greater
  <2> HIDE DEF l, iv
  <2>5. IsLeaf(l) /\ l.kind = "number" /\ l.arg = iv
    BY <2>2, <2>3 DEF IsLeaf, Leaf, LeafKinds
  <2>6. \A v : LeafMatches(l, v) <=> v.num # NoNum /\ Contains(iv, v.num)
    BY <2>5 DEF LeafMatches
  <2> QED BY <2>4, <2>5, <2>6 DEF l
<1>5. CASE y = "cidr"
  <2> DEFINE q == ParsePrefix(p.value.addr, p.value.n)
  <2>1. l = Leaf("cidr", q)
    BY <1>5 DEF NewLeaf, Comparisons, Greater
  <2>2. IsAddr(p.value.addr) /\ p.value.n \in 0..Len(p.value.addr.bits)
    BY <1>5 DEF IsPattern, Comparisons, Greater
  <2>3. IsCidr(q)
    BY <2>2, ParsePrefixIs
  <2>4. ASSUME NEW v
        PROVE  ValueMatches(p, v) <=> LET addr == ParseIP(v)
                                      IN  addr # NoAddr /\ addr.v4 = q.addr.v4 /\ Masked(addr, q.n) = q.addr
    BY <1>5 DEF ValueMatches, Comparisons, Greater
  <2> HIDE DEF l, q
  <2>5. IsLeaf(l) /\ l.kind = "cidr" /\ l.arg = q
    BY <2>1, <2>3 DEF IsLeaf, Leaf, LeafKinds
  <2>6. ASSUME NEW v
        PROVE  LeafMatches(l, v) <=> LET addr == ParseIP(v)
                                     IN  addr # NoAddr /\ addr.v4 = q.addr.v4 /\ Masked(addr, q.n) = q.addr
    BY <2>5 DEF LeafMatches
  <2> QED BY <2>4, <2>5, <2>6 DEF l
<1>6. CASE y = "exists"
  <2>1. l = Leaf("exists", << >>)
    BY <1>6 DEF NewLeaf, Comparisons, Greater
  <2>2. \A v : ValueMatches(p, v)
    BY <1>6 DEF ValueMatches, Comparisons, Greater
  <2> HIDE DEF l
  <2>3. IsLeaf(l) /\ l.kind = "exists"
    BY <2>1 DEF IsLeaf, Leaf, LeafKinds
  <2>4. \A v : LeafMatches(l, v)
    BY <2>3 DEF LeafMatches
  <2> QED BY <2>2, <2>3, <2>4 DEF l
<1>7. y \in {"equals", "prefix", "suffix", "wildcard", "between", "cidr", "exists"} \/ y \in Comparisons \cup {"eq"}
  BY DEF IsPattern
<1> QED BY <1>2, <1>3, <1>4, <1>5, <1>6, <1>7

-----------------------------------------------------------------------------
(* The inductive invariant.                                                *)

\* The patterns' leaves, and those whose structures are complete.
Leaves == LeavesOf[patterns]
Done == added \cup {l \in {w.leaf} : w.pc = "kind"}

Entry(l) == [iv |-> l.arg, leaf |-> l]
Entries == {Entry(l) : l \in {d \in Done : d.kind = "number"}}

\* The last token of a wildcard pattern that has a node, and whether a '*' follows.
Trails(v) == Len(v) \in Wilds(v)
Last(v) == IF Trails(v) THEN Len(v) - 1 ELSE Len(v)

\* The table and the key of a leaf that is looked up by hash.
Tables == {"equals", "prefix", "suffix", "cidr"}
KeyOf(l) == IF l.kind = "cidr" THEN PrefixKey(l.arg.addr, l.arg.n) ELSE l.arg

CidrLengths(v4) == IF v4 THEN x.cidrLens.v4 ELSE x.cidrLens.v6

\* A leaf that readers find.
Published(l) ==
    /\ l.kind \in Tables => KeyOf(l) \in x[l.kind]
    /\ l.kind \in Affixes => x.lens # Nil /\ Len(l.arg) \in Listed(x.lens[l.kind])
    /\ l.kind = "cidr" => x.cidrLens # Nil /\ l.arg.n \in Listed(CidrLengths(l.arg.addr.v4))
    /\ l.kind = "exists" => x.exists
    /\ l.kind = "glob" =>
        /\ \A i \in 0..Last(l.arg) : Tok(l.arg)[i] \in DOMAIN x.glob
        /\ IF Trails(l.arg) THEN l \in x.glob[Tok(l.arg)[Last(l.arg)]].reach
           ELSE l \in x.glob[Tok(l.arg)[Last(l.arg)]].final

\* The writer is adding a leaf that has not been added.
WriterFits ==
    /\ patterns \in PatternSets
    /\ added \subseteq Leaves
    /\ DOMAIN w = {"pc", "leaf", "node", "i"}
    /\ w.pc = "idle" \/ /\ w.leaf \in Leaves \ added
                        /\ w.pc \in {w.leaf.kind, "length", "cidrLength", "kind"}
    /\ w.pc = "length" => w.leaf.kind \in Affixes
    /\ w.pc = "cidrLength" => w.leaf.kind = "cidr"
    /\ w.pc \in {"length", "cidrLength"} => KeyOf(w.leaf) \in x[w.leaf.kind]
    /\ w.pc = "glob" =>
        /\ w.i \in 1..Len(Arg) + 1
        /\ w.i \notin Escaped(Arg)
        /\ w.i = Len(Arg) + 1 => ~Trails(Arg)
        /\ w.node = Tok(Arg)[w.i - 1]
        /\ \A i \in 0..w.i - 1 : Tok(Arg)[i] \in DOMAIN x.glob

\* A node of the automaton: its links lead to the nodes there are, and the leaves
\* that it accepts are those whose tokens end there.
NodeFits(n) ==
    /\ n \in Nodes
    /\ DOMAIN x.glob[n] = {"kids", "spin", "final", "reach"}
    /\ ByteMapFits(x.glob[n].kids, {c \in Bytes : Append(n, c) \in DOMAIN x.glob}, n)
    /\ x.glob[n].spin \in BOOLEAN
    /\ x.glob[n].spin <=> Append(n, Spin) \in DOMAIN x.glob
    /\ \A l \in x.glob[n].final : l \in Leaves /\ l.kind = "glob" /\ End(l.arg) = n
    /\ \A l \in x.glob[n].reach : l \in Leaves /\ l.kind = "glob" /\ End(l.arg) = Append(n, Spin)

GlobIs ==
    /\ Root \in DOMAIN x.glob
    /\ \A n \in DOMAIN x.glob : n # Root => \E m \in DOMAIN x.glob, t \in 0..256 : n = Append(m, t)
    /\ \A n \in DOMAIN x.glob : NodeFits(n)

TablesFit ==
    /\ DOMAIN x = {"equals", "prefix", "suffix", "lens", "glob", "exists", "number", "cidr", "cidrLens", "kinds"}
    /\ \A table \in Tables : \A key \in x[table] : LeafOfKey(table, key) \in Leaves
    /\ x.exists => Leaf("exists", << >>) \in Leaves
    /\ x.lens # Nil => DOMAIN x.lens = Affixes /\ Lengths(x.lens.prefix) /\ Lengths(x.lens.suffix)
    /\ x.cidrLens # Nil =>
        DOMAIN x.cidrLens = {"v4", "v6"} /\ Lengths(x.cidrLens.v4) /\ Lengths(x.cidrLens.v6)
    /\ x.kinds = {l.kind : l \in added}
    /\ NumbersFit(x.number, Entries)

IndexFits == WriterFits /\ TablesFit /\ GlobIs /\ \A l \in Done : Published(l)

-----------------------------------------------------------------------------
(* Readers that fit: what they hold is right.                              *)

InGlob == {"enter", "spin", "step"}

StageNo(stage) == IF stage = "-" THEN 0 ELSE CHOOSE k \in 1..6 : Stages[k] = stage
StageOf(l) == IF l.kind \in Affixes THEN "lens" ELSE l.kind

\* A lookup that would only find a leaf that matches.
KeyFits(key, v) ==
    /\ key = <<key[1], key[2]>>
    /\ key[1] \in Tables
    /\ LeafMatches(LeafOfKey(key[1], key[2]), v)

\* Where the simulation stands: cur after i - 1 bytes, next after i.
Spins(n) == n # Root /\ n[Len(n)] = Spin

GlobState(me) ==
    /\ me.cur \in Seq(DOMAIN x.glob) /\ me.next \in Seq(DOMAIN x.glob)
    /\ me.i \in 0..Len(me.value.text) + 1 /\ me.s \in Nat \ {0}
    /\ me.i = 0 => me.cur = << >>
    /\ \A k \in 1..Len(me.cur) : Runs(me.cur[k], me.value.text, me.i - 1)
    /\ \A j, k \in 1..Len(me.cur) : me.cur[j] = me.cur[k] => j = k
    /\ \A j, k \in 1..Len(me.next) : me.next[j] = me.next[k] => j = k
    /\ me.pc \in InGlob =>
        /\ me.i <= Len(me.value.text)
        /\ \A k \in 1..Len(me.next) :
            /\ Runs(me.next[k], me.value.text, me.i)
            /\ \/ Spins(me.next[k])
               \/ me.i = 0 /\ me.pc # "enter"
               \/ /\ me.i > 0
                  /\ \E j \in 1..Len(me.cur) :
                        /\ IF me.pc = "spin" THEN j <= me.s ELSE j < me.s
                        /\ me.next[k] = Append(me.cur[j], me.value.text[me.i])
    /\ me.pc \in {"enter", "spin"} =>
        /\ me.node \in DOMAIN x.glob
        /\ Runs(me.node, me.value.text, me.i)
        /\ ~Spins(me.node)
        /\ me.i > 0 => me.s <= Len(me.cur) /\ me.node = Append(me.cur[me.s], me.value.text[me.i])
    /\ me.pc = "final" => me.next = << >> /\ (me.cur # << >> => me.i - 1 = Len(me.value.text))

\* Lookups that would only find leaves that match.
Sound(keys, v) == keys \in Seq(Listed(keys)) /\ \A k \in 1..Len(keys) : KeyFits(keys[k], v)

Fields == {"pc", "stage", "value", "kinds", "ready", "hits", "todo", "cur", "next", "node", "i", "s"}

ReaderFits(me) ==
    /\ DOMAIN me = Fields
    /\ me.pc \in {"idle", "load", "lookup", "final", "done"} \cup InGlob
    /\ me.pc # "idle" => me.value \in ValuesOf[patterns]
    /\ me.ready \subseteq added
    /\ me.kinds = {l.kind : l \in me.ready}
    /\ me.pc = "load" => me.stage \in {Stages[k] : k \in 1..6} /\ Wanted(me.kinds, me.stage)
    /\ me.pc = "lookup" => /\ me.stage \in {"equals", "lens", "cidr"}
                           /\ me.todo # << >> /\ Sound(me.todo, me.value)
    /\ me.pc \in InGlob \cup {"final"} => me.stage = "glob" /\ GlobState(me)
    /\ me.pc \notin InGlob => me.next = << >>
    /\ me.pc = "idle" => me.hits = {} /\ me.ready = {}
    /\ \A l \in me.hits : l \in Leaves /\ LeafMatches(l, me.value)

-----------------------------------------------------------------------------
(* Readers that cover: what is not found yet is ahead.                     *)

\* The nodes that lead to wildcard leaves which had been added when the call began.
Old(me) ==
    UNION {{Tok(l.arg)[i] : i \in 0..Last(l.arg)} : l \in {d \in me.ready : d.kind = "glob"}}

Within(n, q) == \E k \in 1..Len(q) : q[k] = n

\* The first position of cur whose successors have not been entered.
Rest1(me) == IF me.pc = "step" THEN me.s ELSE me.s + 1

\* Nodes that this byte will still enter, by a byte or by a spinner.
Coming(me, n) ==
    \/ me.pc = "enter" /\ n = me.node
    \/ me.i > 0 /\ \E j \in Rest1(me)..Len(me.cur) : n = Append(me.cur[j], me.value.text[me.i])
Pending(me, n) ==
    \/ Coming(me, n)
    \/ Spins(n) /\ \E j \in Rest1(me)..Len(me.cur) : n = me.cur[j]
    \/ \E m \in Old(me) : n = Append(m, Spin) /\ (Coming(me, m) \/ (me.pc = "spin" /\ m = me.node))

GlobCovers(me) ==
    /\ me.i > 0 => \A n \in Old(me) : Runs(n, me.value.text, me.i - 1) => Within(n, me.cur)
    /\ \A n \in Old(me) : Runs(n, me.value.text, me.i) => Within(n, me.next) \/ Pending(me, n)
    /\ \A l \in me.ready : l.kind = "glob" /\ Trails(l.arg) =>
        \A j \in 0..me.i : Runs(Tok(l.arg)[Last(l.arg)], me.value.text, j) =>
            l \in me.hits \/ (j = me.i /\ Coming(me, Tok(l.arg)[Last(l.arg)]))

\* What is left to do to find l.
Ahead(me, l) ==
    \/ me.pc # "done" /\ StageNo(me.stage) < StageNo(StageOf(l))
    \/ me.pc = "load" /\ me.stage = StageOf(l)
    \/ me.pc = "lookup" /\ l.kind \in Tables /\ Within(<<l.kind, KeyOf(l)>>, me.todo)
    \/ me.pc \in InGlob /\ l.kind = "glob"
    \/ me.pc = "final" /\ l.kind = "glob" /\ ~Trails(l.arg) /\ \E j \in me.s..Len(me.cur) : me.cur[j] = End(l.arg)

Covers(me) ==
    /\ \A l \in me.ready : LeafMatches(l, me.value) => l \in me.hits \/ Ahead(me, l)
    /\ me.pc \in InGlob => GlobCovers(me)

ReadersFit == DOMAIN rd = Readers /\ \A r \in Readers : ReaderFits(rd[r])
ReadersCover == \A r \in Readers : Covers(rd[r])

-----------------------------------------------------------------------------
(* The writer's steps.                                                     *)

\* The leaves of the chosen patterns have their shapes and meanings.
LEMMA LeavesAre ==
    ASSUME patterns \in PatternSets
    PROVE  /\ \A l \in Leaves : IsLeaf(l)
           /\ \A v \in ValuesOf[patterns] : IsValue(v)
           /\ \A l \in Leaves, v \in ValuesOf[patterns] :
                \A p \in PatternsOf(l) : ValueMatches(p, v) <=> LeafMatches(l, v)
<1>1. Leaves = {NewLeaf(p) : p \in patterns}
  BY DEF Leaves, LeavesOf
<1>2. \A p \in patterns : IsPattern(p)
  BY ValueIndexAssumption
<1>3. \A v \in ValuesOf[patterns] : IsValue(v)
  BY ValueIndexAssumption
<1>4. ASSUME NEW l \in Leaves PROVE IsLeaf(l)
  BY <1>1, <1>2, Meaning
<1>5. ASSUME NEW l \in Leaves, NEW v \in ValuesOf[patterns], NEW p \in PatternsOf(l)
      PROVE  ValueMatches(p, v) <=> LeafMatches(l, v)
  <2>1. p \in patterns /\ NewLeaf(p) = l
    BY DEF PatternsOf
  <2> QED BY <1>2, <1>3, <2>1, Meaning
<1> QED BY <1>3, <1>4, <1>5

\* The number of its bits tells an address of IPv4 from one of IPv6.
LEMMA AddrIs ==
    ASSUME NEW d, IsAddr(d)
    PROVE  d = [v4 |-> Len(d.bits) = Width4, bits |-> d.bits]
<1>3. d = [v4 |-> d.v4, bits |-> d.bits] /\ d.v4 \in BOOLEAN /\ d.bits \in Seq({0, 1})
      /\ Len(d.bits) = IF d.v4 THEN Width4 ELSE Len(Mapped) + Width4
  BY DEF IsAddr
<1>4. Width4 \in Nat /\ Len(Mapped) \in Nat \ {0}
  <2> DEFINE B == {0, 1}
  <2>1. Width4 \in Nat /\ Mapped \in Seq(B) /\ Mapped # << >>
    BY ValueIndexAssumption
  <2> HIDE DEF B
  <2> QED BY <2>1, EmptySeq, LenProperties
<1>5. d.v4 = (Len(d.bits) = Width4)
  <2>1. CASE d.v4
    BY <1>3, <2>1
  <2>2. CASE ~d.v4
    <3>1. Len(d.bits) # Width4
      BY <1>3, <1>4, <2>2
    <3> QED BY <1>3, <2>2, <3>1
  <2> QED BY <2>1, <2>2
<1> QED BY <1>3, <1>5

\* A leaf can be told from its table and its key.
LEMMA LeafIsKey ==
    ASSUME NEW l, IsLeaf(l), l.kind \in Tables
    PROVE  /\ LeafOfKey(l.kind, KeyOf(l)) = l
           /\ l.kind # "cidr" => KeyOf(l) = l.arg
<1>1. CASE l.kind # "cidr"
  BY <1>1 DEF LeafOfKey, KeyOf, IsLeaf
<1>2. CASE l.kind = "cidr"
  <2> DEFINE q == l.arg
             d == q.addr
  <2>1. IsCidr(q) /\ l = Leaf("cidr", q)
    BY <1>2 DEF IsLeaf
  <2>2. q = [addr |-> d, n |-> q.n] /\ IsAddr(d) /\ Masked(d, q.n) = d
    BY <2>1 DEF IsCidr
  <2> HIDE DEF d
  <2>5. d = [v4 |-> Len(d.bits) = Width4, bits |-> d.bits]
    BY <2>2, AddrIs
  <2>6. KeyOf(l) = <<q.n, d.bits>>
    BY <1>2, <2>2 DEF KeyOf, PrefixKey, d
  <2> HIDE DEF q
  <2>7. LeafOfKey("cidr", KeyOf(l)) = Leaf("cidr", [addr |-> [v4 |-> Len(d.bits) = Width4, bits |-> d.bits], n |-> q.n])
    BY <2>6 DEF LeafOfKey
  <2> QED BY <1>2, <2>1, <2>2, <2>5, <2>7
<1> QED BY <1>1, <1>2

\* A step that leaves the fields of the index but those of F alone.
Same(F) ==
    /\ DOMAIN x' = DOMAIN x
    /\ \A f \in {"equals", "prefix", "suffix", "lens", "glob", "exists", "number", "cidr", "cidrLens", "kinds"} \ F :
        x'[f] = x[f]

\* What has been published stays.
Grows ==
    /\ \A table \in Tables : x[table] \subseteq x'[table]
    /\ x.lens # Nil => x'.lens # Nil /\ \A k \in Affixes : Listed(x.lens[k]) \subseteq Listed(x'.lens[k])
    /\ x.cidrLens # Nil => x'.cidrLens # Nil /\ \A b \in BOOLEAN : Listed(CidrLengths(b)) \subseteq Listed(CidrLengths(b)')
    /\ x.exists => x'.exists
    /\ DOMAIN x.glob \subseteq DOMAIN x'.glob
    /\ \A n \in DOMAIN x.glob : x.glob[n].final \subseteq x'.glob[n].final /\ x.glob[n].reach \subseteq x'.glob[n].reach

\* A published leaf stays so.
LEMMA PublishedStays ==
    ASSUME Grows, NEW l, Published(l), IsLeaf(l)
    PROVE  Published(l)'
<1>1. l.kind \in Tables => KeyOf(l) \in x'[l.kind]
  BY DEF Grows, Published
<1>2. l.kind \in Affixes => x'.lens # Nil /\ Len(l.arg) \in Listed(x'.lens[l.kind])
  BY DEF Grows, Published
<1>3. l.kind = "cidr" => x'.cidrLens # Nil /\ l.arg.n \in Listed(CidrLengths(l.arg.addr.v4)')
  <2> SUFFICES ASSUME l.kind = "cidr"
               PROVE  x'.cidrLens # Nil /\ l.arg.n \in Listed(CidrLengths(l.arg.addr.v4)')
    OBVIOUS
  <2>1. l.arg.addr.v4 \in BOOLEAN
    BY DEF IsLeaf, IsCidr, IsAddr
  <2>2. x.cidrLens # Nil /\ l.arg.n \in Listed(CidrLengths(l.arg.addr.v4))
    BY DEF Published
  <2> QED BY <2>1, <2>2 DEF Grows
<1>4. l.kind = "exists" => x'.exists
  BY DEF Grows, Published
<1>5. l.kind = "glob" =>
        /\ \A i \in 0..Last(l.arg) : Tok(l.arg)[i] \in DOMAIN x'.glob
        /\ IF Trails(l.arg) THEN l \in x'.glob[Tok(l.arg)[Last(l.arg)]].reach
           ELSE l \in x'.glob[Tok(l.arg)[Last(l.arg)]].final
  <2> SUFFICES ASSUME l.kind = "glob"
               PROVE  /\ \A i \in 0..Last(l.arg) : Tok(l.arg)[i] \in DOMAIN x'.glob
                      /\ IF Trails(l.arg) THEN l \in x'.glob[Tok(l.arg)[Last(l.arg)]].reach
                         ELSE l \in x'.glob[Tok(l.arg)[Last(l.arg)]].final
    OBVIOUS
  <2>1. Last(l.arg) \in 0..Last(l.arg)
    <3>1. Len(l.arg) \in Nat /\ (Trails(l.arg) => Len(l.arg) \in 1..Len(l.arg))
      BY LenProperties DEF IsLeaf, Strings, Trails, Wilds
    <3> QED BY <3>1 DEF Last
  <2> QED BY <2>1 DEF Grows, Published
<1> QED BY <1>1, <1>2, <1>3, <1>4, <1>5 DEF Published

\* An index that does not change has lost nothing.
LEMMA GrowsIfSame == ASSUME Same({}) PROVE Grows
BY DEF Same, Grows, Tables, CidrLengths, Affixes

\* The readers' steps leave the index alone.
LEMMA IndexStutters ==
    ASSUME IndexFits, UNCHANGED <<patterns, x, w, added>>
    PROVE  IndexFits'
<1>1. WriterFits'
  BY DEF IndexFits, WriterFits, Leaves, Arg
<1>2. Done' = Done /\ Leaves' = Leaves /\ Entries' = Entries
  BY DEF Done, Leaves, Entries
<1>3. TablesFit'
  BY <1>2 DEF IndexFits, TablesFit
<1>4. GlobIs'
  <2>1. ASSUME NEW n \in DOMAIN x'.glob PROVE NodeFits(n)'
    <3>1. NodeFits(n)
      BY DEF IndexFits, GlobIs
    <3> QED BY <1>2, <3>1 DEF NodeFits
  <2> QED BY <2>1 DEF IndexFits, GlobIs
<1>5. \A l \in Done' : Published(l)'
  BY <1>2 DEF IndexFits, Published, CidrLengths
<1> QED BY <1>1, <1>3, <1>4, <1>5 DEF IndexFits

Stays == patterns' = patterns /\ added' = added

\* A step keeps the invariant if it keeps the parts and publishes what it adds.
LEMMA IndexOfParts ==
    ASSUME IndexFits, Grows, patterns' = patterns, WriterFits', TablesFit', GlobIs',
           \A l \in Done' \ Done : Published(l)'
    PROVE  IndexFits'
<1>1. \A l \in Done : IsLeaf(l)
  <2>1. Done \subseteq Leaves
    BY DEF IndexFits, WriterFits, Done
  <2> QED BY <2>1, LeavesAre DEF IndexFits, WriterFits
<1>2. \A l \in Done : Published(l)'
  BY <1>1, PublishedStays DEF IndexFits
<1>3. \A l \in Done' : Published(l)'
  BY <1>2
<1> QED BY <1>3 DEF IndexFits

\* A step that leaves the automaton alone keeps it.
LEMMA GlobSame ==
    ASSUME GlobIs, x'.glob = x.glob, patterns' = patterns
    PROVE  GlobIs'
<1>1. Leaves' = Leaves
  BY DEF Leaves
<1>2. ASSUME NEW n \in DOMAIN x'.glob PROVE NodeFits(n)'
  <2>1. NodeFits(n)
    BY DEF GlobIs
  <2> QED BY <1>1, <2>1 DEF NodeFits
<1> QED BY <1>2 DEF GlobIs

\* The last store of a leaf but the bit of its kind.
LEMMA ToKind ==
    ASSUME WriterFits, w.pc \notin {"idle", "kind"}, w' = [w EXCEPT !.pc = "kind"], Stays
    PROVE  /\ WriterFits' /\ Leaves' = Leaves
           /\ w.leaf \in Leaves \ added /\ IsLeaf(w.leaf) /\ w.pc \in {w.leaf.kind, "length", "cidrLength"}
           /\ Done = added /\ Done' = added \cup {w.leaf}
<1>1. Leaves' = Leaves
  BY DEF Stays, Leaves
<1>2. w.leaf \in Leaves \ added /\ w.pc \in {w.leaf.kind, "length", "cidrLength"}
  BY DEF WriterFits
<1>3. DOMAIN w' = DOMAIN w /\ w'.pc = "kind" /\ w'.leaf = w.leaf
  BY DEF WriterFits
<1>4. WriterFits'
  BY <1>1, <1>2, <1>3 DEF WriterFits, Stays
<1>5. Done = added /\ Done' = added \cup {w.leaf}
  BY <1>3 DEF Done, Stays
<1>6. IsLeaf(w.leaf)
  BY <1>2, LeavesAre DEF WriterFits
<1> QED BY <1>1, <1>2, <1>4, <1>5, <1>6

\* A step that leaves the tables alone keeps them.
LEMMA EntriesSame ==
    ASSUME Done' = added \cup {w.leaf}, Done = added, w.leaf.kind # "number"
    PROVE  Entries' = Entries
BY DEF Entries, Entry

\* add begins with a leaf that has not been added.
LEMMA AddKeeps ==
    ASSUME IndexFits, NEW l \in Leaves, Add(l)
    PROVE  IndexFits'
<1>1. w.pc = "idle" /\ l \notin added /\ x' = x /\ patterns' = patterns /\ added' = added
      /\ w' = [pc |-> l.kind, leaf |-> l, node |-> Root, i |-> 1]
  BY DEF Add, IdleWriter
<1>2. Leaves' = Leaves /\ IsLeaf(l)
  BY <1>1, LeavesAre DEF Leaves, IndexFits, WriterFits
<1>3. l.kind \in LeafKinds
  BY <1>2 DEF IsLeaf
<1>4. Done' = added /\ Done = added /\ Entries' = Entries
  <2>1. Done' = added /\ Done = added
    BY <1>1, <1>3 DEF Done, LeafKinds
  <2> QED BY <2>1 DEF Entries
<1>5. WriterFits'
  <2>1. ASSUME l.kind = "glob"
        PROVE  /\ 1 \in 1..Len(l.arg) + 1 /\ 1 \notin Escaped(l.arg)
               /\ 1 = Len(l.arg) + 1 => ~Trails(l.arg)
               /\ Root = Tok(l.arg)[1 - 1]
               /\ \A i \in 0..1 - 1 : Tok(l.arg)[i] \in DOMAIN x.glob
    <3>1. l.arg \in Strings
      BY <1>2, <2>1 DEF IsLeaf
    <3>2. Len(l.arg) \in Nat /\ Tok(l.arg)[0] = << >> /\ 1 - 1 = 0 /\ 0..0 = {0}
      BY <3>1, TokIs
    <3>3. 1 \notin Escaped(l.arg)
      <4>1. 1 \in Escaped(l.arg) => 1 \in 1..Len(l.arg) /\ 1 > 1
        BY <3>1, EscapedIs
      <4> QED BY <4>1
    <3>4. Root \in DOMAIN x.glob
      BY DEF IndexFits, GlobIs
    <3>5. 1 \in 1..Len(l.arg) + 1
      BY <3>2
    <3>6. 1 = Len(l.arg) + 1 => ~Trails(l.arg)
      BY <3>2 DEF Trails, Wilds
    <3> QED BY <3>2, <3>3, <3>4, <3>5, <3>6 DEF Root
  <2> QED BY <1>1, <1>2, <1>3, <2>1 DEF WriterFits, IndexFits, LeafKinds, Arg
<1>6. TablesFit'
  BY <1>1, <1>2, <1>4 DEF TablesFit, IndexFits
<1>7. GlobIs'
  BY <1>1, GlobSame DEF IndexFits
<1>8. Grows
  <2>1. Same({})
    BY <1>1 DEF Same
  <2> QED BY <2>1, GrowsIfSame
<1> QED BY <1>1, <1>4, <1>5, <1>6, <1>7, <1>8, IndexOfParts

\* Storing the text of an equals leaf keeps the index.
LEMMA PutEqualsKeeps ==
    ASSUME IndexFits, PutEquals
    PROVE  IndexFits'
<1>1. w.pc = "equals" /\ w' = [w EXCEPT !.pc = "kind"] /\ Stays
  BY DEF PutEquals, Stays
<1>2. /\ WriterFits' /\ Leaves' = Leaves
      /\ w.leaf \in Leaves \ added /\ IsLeaf(w.leaf) /\ w.leaf.kind = "equals"
      /\ Done = added /\ Done' = added \cup {w.leaf}
  BY <1>1, ToKind DEF IndexFits
<1>3. Same({"equals"}) /\ x'.equals = x.equals \cup {KeyOf(w.leaf)}
  <2>1. KeyOf(w.leaf) = Arg
    BY <1>2 DEF KeyOf, Arg
  <2> QED BY <2>1 DEF PutEquals, Same, IndexFits, TablesFit
<1>4. Grows
  BY <1>3 DEF Same, Grows, Tables, Affixes, CidrLengths
<1>5. TablesFit'
  <2>1. LeafOfKey("equals", KeyOf(w.leaf)) = w.leaf
    BY <1>2, LeafIsKey DEF Tables
  <2>2. \A table \in Tables : \A key \in x'[table] : LeafOfKey(table, key) \in Leaves
    BY <1>2, <1>3, <2>1 DEF Same, IndexFits, TablesFit, Tables
  <2>3. Entries' = Entries
    BY <1>2, EntriesSame
  <2> QED BY <1>1, <1>2, <1>3, <2>2, <2>3 DEF Same, Stays, IndexFits, TablesFit
<1>6. GlobIs'
  BY <1>1, <1>3, GlobSame DEF Same, Stays, IndexFits
<1>7. ASSUME NEW l \in Done' \ Done PROVE Published(l)'
  <2>1. l = w.leaf
    BY <1>2
  <2> QED BY <2>1, <1>2, <1>3 DEF Published, Affixes, Tables
<1> QED BY <1>1, <1>2, <1>4, <1>5, <1>6, <1>7, IndexOfParts DEF Stays

\* Storing the exists leaf keeps the index.
LEMMA PutExistsKeeps ==
    ASSUME IndexFits, PutExists
    PROVE  IndexFits'
<1>1. w.pc = "exists" /\ w' = [w EXCEPT !.pc = "kind"] /\ Stays
  BY DEF PutExists, Stays
<1>2. /\ WriterFits' /\ Leaves' = Leaves
      /\ w.leaf \in Leaves \ added /\ IsLeaf(w.leaf) /\ w.leaf.kind = "exists"
      /\ Done = added /\ Done' = added \cup {w.leaf}
  BY <1>1, ToKind DEF IndexFits
<1>3. Same({"exists"}) /\ x'.exists = TRUE
  BY DEF PutExists, Same, IndexFits, TablesFit
<1>4. Grows
  BY <1>3 DEF Same, Grows, Tables, Affixes, CidrLengths
<1>5. TablesFit'
  <2>1. Leaf("exists", << >>) = w.leaf
    BY <1>2 DEF IsLeaf
  <2>2. \A table \in Tables : \A key \in x'[table] : LeafOfKey(table, key) \in Leaves
    BY <1>2, <1>3 DEF Same, IndexFits, TablesFit, Tables
  <2>3. Entries' = Entries
    BY <1>2, EntriesSame
  <2> QED BY <1>1, <1>2, <1>3, <2>1, <2>2, <2>3 DEF Same, Stays, IndexFits, TablesFit
<1>6. GlobIs'
  BY <1>1, <1>3, GlobSame DEF Same, Stays, IndexFits
<1>7. ASSUME NEW l \in Done' \ Done PROVE Published(l)'
  <2>1. l = w.leaf
    BY <1>2
  <2> QED BY <2>1, <1>2, <1>3 DEF Published, Affixes, Tables
<1> QED BY <1>1, <1>2, <1>4, <1>5, <1>6, <1>7, IndexOfParts DEF Stays

\* Storing a list of numbers keeps the index: its entry is there from then on.
LEMMA PutNumberKeeps ==
    ASSUME IndexFits, PutNumber
    PROVE  IndexFits'
<1>1. w.pc = "number" /\ w' = [w EXCEPT !.pc = "kind"] /\ Stays
  BY DEF PutNumber, Stays
<1>2. /\ WriterFits' /\ Leaves' = Leaves
      /\ w.leaf \in Leaves \ added /\ IsLeaf(w.leaf) /\ w.leaf.kind = "number"
      /\ Done = added /\ Done' = added \cup {w.leaf}
  BY <1>1, ToKind DEF IndexFits
<1>3. Same({"number"}) /\ x'.number = With(x.number, w.leaf.arg, w.leaf)
  BY DEF PutNumber, Same, IndexFits, TablesFit, Arg
<1>4. Grows
  BY <1>3 DEF Same, Grows, Tables, Affixes, CidrLengths
<1>5. TablesFit'
  <2>1. \A table \in Tables : \A key \in x'[table] : LeafOfKey(table, key) \in Leaves
    BY <1>2, <1>3 DEF Same, IndexFits, TablesFit, Tables
  <2> DEFINE e == [iv |-> w.leaf.arg, leaf |-> w.leaf]
  <2>2. Entries' = Entries \cup {e}
    BY <1>2 DEF Entries, Entry
  <2>3. e \notin Entries
    <3>1. \A d \in Entries : d.leaf \in added
      BY <1>2 DEF Entries, Entry
    <3> QED BY <1>2, <3>1
  <2>4. \A d \in Entries : IsInterval(d.iv)
    <3>1. \A l \in added : IsLeaf(l)
      BY LeavesAre DEF IndexFits, WriterFits
    <3> QED BY <1>2, <3>1 DEF Entries, Entry, IsLeaf
  <2>5. NumbersFit(x.number, Entries) /\ IsInterval(w.leaf.arg)
    BY <1>2 DEF IndexFits, TablesFit, IsLeaf
  <2>6. NumbersFit(With(x.number, w.leaf.arg, w.leaf), Entries \cup {e})
    BY <2>3, <2>4, <2>5, WithFits
  <2>7. NumbersFit(x'.number, Entries')
    BY <1>3, <2>2, <2>6
  <2> QED BY <1>1, <1>2, <1>3, <2>1, <2>7 DEF Same, Stays, IndexFits, TablesFit
<1>6. GlobIs'
  BY <1>1, <1>3, GlobSame DEF Same, Stays, IndexFits
<1>7. ASSUME NEW l \in Done' \ Done PROVE Published(l)'
  <2>1. l = w.leaf
    BY <1>2
  <2> QED BY <2>1, <1>2, <1>3 DEF Published, Affixes, Tables
<1> QED BY <1>1, <1>2, <1>4, <1>5, <1>6, <1>7, IndexOfParts DEF Stays

\* Storing the kind keeps the index: add returns, and the leaf is published.
LEMMA OrKindKeeps ==
    ASSUME IndexFits, OrKind
    PROVE  IndexFits'
<1>1. w.pc = "kind" /\ w' = IdleWriter /\ patterns' = patterns /\ added' = added \cup {w.leaf}
  BY DEF OrKind
<1>2. Leaves' = Leaves /\ w.leaf \in Leaves
  BY <1>1 DEF Leaves, IndexFits, WriterFits
<1>3. w'.pc = "idle" /\ DOMAIN w' = {"pc", "leaf", "node", "i"}
  BY <1>1 DEF IdleWriter
<1>4. Done' = Done
  BY <1>1, <1>3 DEF Done
<1>5. Same({"kinds"}) /\ x'.kinds = x.kinds \cup {w.leaf.kind}
  BY DEF OrKind, Same, IndexFits, TablesFit
<1>6. Grows
  BY <1>5 DEF Same, Grows, Tables, Affixes, CidrLengths
<1>7. WriterFits'
  BY <1>1, <1>2, <1>3 DEF IndexFits, WriterFits
<1>8. TablesFit'
  <2>1. \A table \in Tables : \A key \in x'[table] : LeafOfKey(table, key) \in Leaves
    BY <1>2, <1>5 DEF Same, IndexFits, TablesFit, Tables
  <2>2. Entries' = Entries
    BY <1>4 DEF Entries
  <2>3. x'.kinds = {l.kind : l \in added'}
    BY <1>1, <1>5 DEF IndexFits, TablesFit
  <2> QED BY <1>2, <1>5, <2>1, <2>2, <2>3 DEF Same, IndexFits, TablesFit
<1>9. GlobIs'
  BY <1>1, <1>5, GlobSame DEF Same, IndexFits
<1> QED BY <1>1, <1>4, <1>6, <1>7, <1>8, <1>9, IndexOfParts

\* The writer goes on with a length, which completes the key.
LEMMA ToLength ==
    ASSUME IndexFits, NEW pc \in {"length", "cidrLength"}, w.pc = w.leaf.kind,
           w.pc \in IF pc = "length" THEN Affixes ELSE {"cidr"},
           w' = [w EXCEPT !.pc = pc], Stays,
           Same({w.leaf.kind}), x'[w.leaf.kind] = x[w.leaf.kind] \cup {KeyOf(w.leaf)}
    PROVE  IndexFits'
<1>1. Leaves' = Leaves /\ DOMAIN w' = DOMAIN w /\ w'.pc = pc /\ w'.leaf = w.leaf
  BY DEF Stays, Leaves, IndexFits, WriterFits
<1>2. w.leaf \in Leaves \ added /\ w.leaf.kind \in {"prefix", "suffix", "cidr"}
  BY DEF IndexFits, WriterFits, Affixes
<1>3. IsLeaf(w.leaf) /\ w.leaf.kind \in Tables
  BY <1>2, LeavesAre DEF IndexFits, WriterFits, Tables
<1>4. Grows
  BY <1>2 DEF Same, Grows, Tables, Affixes, CidrLengths
<1>5. Done = added /\ Done' = added /\ Entries' = Entries
  <2>1. Done = added /\ Done' = added
    BY <1>1, <1>2 DEF Done, Stays
  <2> QED BY <2>1 DEF Entries
<1>6. KeyOf(w'.leaf) \in x'[w'.leaf.kind]
  BY <1>1
<1>7. WriterFits'
  <2>1. KeyOf(w.leaf)' = KeyOf(w'.leaf)
    BY DEF KeyOf, PrefixKey
  <2> QED BY <1>1, <1>2, <1>6, <2>1 DEF IndexFits, WriterFits, Stays, Affixes
<1>8. TablesFit'
  <2>1. LeafOfKey(w.leaf.kind, KeyOf(w.leaf)) = w.leaf
    BY <1>3, LeafIsKey
  <2>2. \A table \in Tables : \A key \in x'[table] : LeafOfKey(table, key) \in Leaves
    BY <1>2, <2>1 DEF Same, IndexFits, TablesFit, Tables
  <2> QED BY <1>1, <1>2, <1>5, <2>2 DEF Same, Stays, IndexFits, TablesFit
<1>9. GlobIs'
  BY <1>2, GlobSame DEF Same, Stays, IndexFits
<1> QED BY <1>4, <1>5, <1>7, <1>8, <1>9, IndexOfParts DEF Stays

\* Storing a prefix or suffix keeps the index: its length is still to come.
LEMMA PutAffixKeeps ==
    ASSUME IndexFits, PutAffix
    PROVE  IndexFits'
<1>1. w.pc \in {"prefix", "suffix"} /\ w' = [w EXCEPT !.pc = "length"] /\ Stays
  BY DEF PutAffix, Stays
<1>2. w.leaf.kind = w.pc
  BY <1>1 DEF IndexFits, WriterFits
<1>3. KeyOf(w.leaf) = Arg
  BY <1>1, <1>2 DEF KeyOf, Arg
<1>4. Same({w.leaf.kind}) /\ x'[w.leaf.kind] = x[w.leaf.kind] \cup {KeyOf(w.leaf)}
  BY <1>1, <1>2, <1>3 DEF PutAffix, Same, IndexFits, TablesFit
<1> QED BY <1>1, <1>2, <1>4, ToLength DEF Affixes

\* Storing an address prefix keeps the index: its length is still to come.
LEMMA PutPrefixKeeps ==
    ASSUME IndexFits, PutPrefix
    PROVE  IndexFits'
<1>1. w.pc = "cidr" /\ w' = [w EXCEPT !.pc = "cidrLength"] /\ Stays
  BY DEF PutPrefix, Stays
<1>2. w.leaf.kind = w.pc
  BY <1>1 DEF IndexFits, WriterFits
<1>3. KeyOf(w.leaf) = PrefixKey(Arg.addr, Arg.n)
  BY <1>1, <1>2 DEF KeyOf, Arg
<1>4. Same({w.leaf.kind}) /\ x'[w.leaf.kind] = x[w.leaf.kind] \cup {KeyOf(w.leaf)}
  BY <1>1, <1>2, <1>3 DEF PutPrefix, Same, IndexFits, TablesFit
<1> QED BY <1>1, <1>2, <1>4, ToLength

\* No lengths, and one more in one of two lists of them.
LEMMA NoLengthsFit == Lengths(<< >>) /\ Listed(<< >>) = {}
BY EmptySeq DEF Lengths, Listed

\* Storing a length keeps the index: those of the other kind are still there.
LEMMA AddLengthKeeps ==
    ASSUME IndexFits, AddLength
    PROVE  IndexFits'
<1> DEFINE k == w.leaf.kind
           old == IF x.lens = Nil THEN NoLengths ELSE x.lens
           new == WithLength(old[k], Len(w.leaf.arg))
           lens == [old EXCEPT ![k] = new]
<1>1. w.pc = "length" /\ w' = [w EXCEPT !.pc = "kind"] /\ Stays
  BY DEF AddLength, Stays
<1>2. /\ WriterFits' /\ Leaves' = Leaves
      /\ w.leaf \in Leaves \ added /\ IsLeaf(w.leaf)
      /\ Done = added /\ Done' = added \cup {w.leaf}
  BY <1>1, ToKind DEF IndexFits
<1>3. k \in Affixes /\ KeyOf(w.leaf) \in x[k] /\ w.leaf.arg \in Strings
  BY <1>1, <1>2 DEF IndexFits, WriterFits, IsLeaf, Affixes
<1>4. Same({"lens"}) /\ x'.lens = lens
  BY DEF AddLength, Same, IndexFits, TablesFit, Arg
<1>5. DOMAIN old = Affixes /\ Lengths(old.prefix) /\ Lengths(old.suffix)
  <2>1. DOMAIN NoLengths = Affixes /\ NoLengths.prefix = << >> /\ NoLengths.suffix = << >>
    BY DEF NoLengths, Affixes
  <2>2. CASE x.lens = Nil
    BY <2>1, <2>2, NoLengthsFit
  <2>3. CASE x.lens # Nil
    BY <2>3 DEF IndexFits, TablesFit
  <2> QED BY <2>2, <2>3
<1>6. Lengths(new) /\ Listed(new) = Listed(old[k]) \cup {Len(w.leaf.arg)}
  <2>1. Len(w.leaf.arg) \in Nat
    BY <1>3, LenProperties DEF Strings
  <2>2. Lengths(old[k])
    BY <1>3, <1>5 DEF Affixes
  <2> HIDE DEF old
  <2> QED BY <2>1, <2>2, WithLengthFits
<1> HIDE DEF old, new
<1>7. /\ DOMAIN lens = Affixes /\ Lengths(lens.prefix) /\ Lengths(lens.suffix)
      /\ lens[k] = new /\ \A j \in Affixes \ {k} : lens[j] = old[j]
  BY <1>3, <1>5, <1>6 DEF Affixes
<1>8. lens # Nil
  <2>1. Nil \notin [prefix : Seq(Nat), suffix : Seq(Nat)]
    BY ValueIndexAssumption
  <2>2. lens \in [prefix : Seq(Nat), suffix : Seq(Nat)]
    <3>1. lens = [j \in Affixes |-> lens[j]]
      BY <1>7
    <3>2. lens = [prefix |-> lens.prefix, suffix |-> lens.suffix]
      BY <3>1 DEF Affixes
    <3>3. lens.prefix \in Seq(Nat) /\ lens.suffix \in Seq(Nat)
      BY <1>7 DEF Lengths
    <3> HIDE DEF lens
    <3> QED BY <3>2, <3>3
  <2> QED BY <2>1, <2>2
<1>9. x.lens # Nil => \A j \in Affixes : Listed(x.lens[j]) \subseteq Listed(lens[j])
  BY <1>6, <1>7 DEF old
<1> HIDE DEF lens
<1>10. Grows
  BY <1>4, <1>8, <1>9 DEF Same, Grows, Tables, CidrLengths
<1>11. TablesFit'
  <2>1. \A table \in Tables : \A key \in x'[table] : LeafOfKey(table, key) \in Leaves
    BY <1>2, <1>4 DEF Same, IndexFits, TablesFit, Tables
  <2>2. Entries' = Entries
    BY <1>2, <1>3, EntriesSame DEF Affixes
  <2> QED BY <1>1, <1>2, <1>4, <1>7, <2>1, <2>2 DEF Same, Stays, IndexFits, TablesFit
<1>12. GlobIs'
  BY <1>1, <1>4, GlobSame DEF Same, Stays, IndexFits
<1>13. ASSUME NEW l \in Done' \ Done PROVE Published(l)'
  <2>1. l = w.leaf
    BY <1>2
  <2>2. KeyOf(l) \in x'[l.kind]
    BY <2>1, <1>3, <1>4 DEF Same, Affixes
  <2>3. l.kind \in Affixes => x'.lens # Nil /\ Len(l.arg) \in Listed(x'.lens[l.kind])
    BY <2>1, <1>4, <1>6, <1>7, <1>8
  <2> QED BY <2>1, <2>2, <2>3, <1>3 DEF Published, Affixes
<1> QED BY <1>1, <1>2, <1>10, <1>11, <1>12, <1>13, IndexOfParts DEF Stays

\* Storing the length of an address prefix keeps those of the other version.
LEMMA AddPrefixLengthKeeps ==
    ASSUME IndexFits, AddPrefixLength
    PROVE  IndexFits'
<1> DEFINE q == w.leaf.arg
           k == IF q.addr.v4 THEN "v4" ELSE "v6"
           old == IF x.cidrLens = Nil THEN [v4 |-> <<>>, v6 |-> <<>>] ELSE x.cidrLens
           new == WithLength(old[k], q.n)
           lens == [old EXCEPT ![k] = new]
<1>1. w.pc = "cidrLength" /\ w' = [w EXCEPT !.pc = "kind"] /\ Stays
  BY DEF AddPrefixLength, Stays
<1>2. /\ WriterFits' /\ Leaves' = Leaves
      /\ w.leaf \in Leaves \ added /\ IsLeaf(w.leaf)
      /\ Done = added /\ Done' = added \cup {w.leaf}
  BY <1>1, ToKind DEF IndexFits
<1>3. w.leaf.kind = "cidr" /\ KeyOf(w.leaf) \in x.cidr
  BY <1>1 DEF IndexFits, WriterFits
<1>a. IsCidr(q)
  BY <1>2, <1>3 DEF IsLeaf
<1>4. Same({"cidrLens"}) /\ x'.cidrLens = lens
  BY DEF AddPrefixLength, Same, IndexFits, TablesFit, Arg
<1>5. DOMAIN old = {"v4", "v6"} /\ Lengths(old.v4) /\ Lengths(old.v6)
  <2>2. CASE x.cidrLens = Nil
    BY <2>2, NoLengthsFit
  <2>3. CASE x.cidrLens # Nil
    BY <2>3 DEF IndexFits, TablesFit
  <2> QED BY <2>2, <2>3
<1>6. Lengths(new) /\ Listed(new) = Listed(old[k]) \cup {q.n}
  <2>1. q.n \in Nat
    <3>1. Len(q.addr.bits) \in Nat
      BY <1>a DEF IsCidr, IsAddr
    <3> QED BY <1>a, <3>1 DEF IsCidr
  <2>2. Lengths(old[k])
    BY <1>5
  <2> HIDE DEF old, k, q
  <2> QED BY <2>1, <2>2, WithLengthFits
<1>b. k \in {"v4", "v6"}
  OBVIOUS
<1> HIDE DEF old, new
<1>7. /\ DOMAIN lens = {"v4", "v6"} /\ Lengths(lens.v4) /\ Lengths(lens.v6)
      /\ lens[k] = new /\ \A j \in {"v4", "v6"} \ {k} : lens[j] = old[j]
  <2> HIDE DEF k, q
  <2> QED BY <1>b, <1>5, <1>6
<1>8. lens # Nil
  <2>1. Nil \notin [v4 : Seq(Nat), v6 : Seq(Nat)]
    BY ValueIndexAssumption
  <2>2. lens \in [v4 : Seq(Nat), v6 : Seq(Nat)]
    <3>1. lens = [j \in {"v4", "v6"} |-> lens[j]]
      BY <1>7
    <3>2. lens = [v4 |-> lens.v4, v6 |-> lens.v6]
      BY <3>1
    <3>3. lens.v4 \in Seq(Nat) /\ lens.v6 \in Seq(Nat)
      BY <1>7 DEF Lengths
    <3> HIDE DEF lens
    <3> QED BY <3>2, <3>3
  <2> QED BY <2>1, <2>2
<1>9. x.cidrLens # Nil => \A j \in {"v4", "v6"} : Listed(x.cidrLens[j]) \subseteq Listed(lens[j])
  BY <1>6, <1>7 DEF old
<1> HIDE DEF lens
<1>c. x.cidrLens # Nil => \A b \in BOOLEAN : Listed(CidrLengths(b)) \subseteq Listed(CidrLengths(b)')
  BY <1>4, <1>9 DEF CidrLengths
<1>10. Grows
  BY <1>4, <1>8, <1>c DEF Same, Grows, Tables, Affixes
<1>11. TablesFit'
  <2>1. \A table \in Tables : \A key \in x'[table] : LeafOfKey(table, key) \in Leaves
    BY <1>2, <1>4 DEF Same, IndexFits, TablesFit, Tables
  <2>2. Entries' = Entries
    BY <1>2, <1>3, EntriesSame
  <2> QED BY <1>1, <1>2, <1>4, <1>7, <2>1, <2>2 DEF Same, Stays, IndexFits, TablesFit
<1>12. GlobIs'
  BY <1>1, <1>4, GlobSame DEF Same, Stays, IndexFits
<1>13. ASSUME NEW l \in Done' \ Done PROVE Published(l)'
  <2>1. l = w.leaf
    BY <1>2
  <2>2. KeyOf(l) \in x'[l.kind]
    BY <2>1, <1>3, <1>4 DEF Same
  <2>3. q.n \in Listed(lens[k])
    BY <1>6, <1>7
  <2>4. x'.cidrLens # Nil /\ l.arg.n \in Listed(CidrLengths(l.arg.addr.v4)')
    BY <2>1, <2>3, <1>4, <1>8, SMTT(30) DEF CidrLengths
  <2> QED BY <2>1, <2>2, <2>4, <1>3 DEF Published, Affixes
<1> QED BY <1>1, <1>2, <1>10, <1>11, <1>12, <1>13, IndexOfParts DEF Stays

\* A node and a token more.
LEMMA NodeMore ==
    ASSUME NEW n \in Nodes, NEW t \in 0..256
    PROVE  /\ Append(n, t) \in Nodes /\ Append(n, t) # Root /\ Append(n, t) # n
           /\ Len(Append(n, t)) = Len(n) + 1 /\ Append(n, t)[Len(n) + 1] = t
           /\ Spins(Append(n, t)) <=> t = Spin
           /\ \A m \in Nodes, u \in 0..256 : Append(n, t) = Append(m, u) => n = m /\ t = u
<1> DEFINE B == 0..256
<1>1. n \in Seq(B) /\ t \in B
  BY DEF Nodes
<1> HIDE DEF B
<1>2. /\ Append(n, t) \in Seq(B) /\ Append(n, t) # << >> /\ Len(Append(n, t)) = Len(n) + 1
      /\ Append(n, t)[Len(n) + 1] = t /\ Len(n) \in Nat
  BY <1>1, AppendProperties, LenProperties
<1>3. \A m \in Seq(B), u \in B : Append(n, t) = Append(m, u) => n = m /\ t = u
  BY <1>1, AppendInjective
<1>4. Append(n, t) # n
  BY <1>2, SMTT(30)
<1> QED BY <1>2, <1>3, <1>4, Zenon DEF Nodes, B, Root, Spins

\* A node is the root or a token after another node.
LEMMA NodeCases ==
    ASSUME NEW n \in Nodes, n # Root
    PROVE  \E m \in Nodes, t \in 0..256 : n = Append(m, t)
<1> DEFINE B == 0..256
<1>1. n \in Seq(B) /\ n # << >>
  BY DEF Nodes, Root
<1> HIDE DEF B
<1>2. \E m \in Seq(B), t \in B : n = Append(m, t)
  BY <1>1, SequenceEmptyOrAppend
<1> QED BY <1>2, Zenon DEF Nodes, B

\* The position where the token that starts at i ends.
TokenEnd(v, i) == IF v[i] = Backslash THEN i + 1 ELSE i

TokenIs(v, i, j) ==
    /\ j \in i..Len(v) /\ j + 1 \notin Escaped(v)
    /\ v[j] \in 0..255
    /\ v[i] = Star <=> j \in Wilds(v)
    /\ Tok(v)[j] = Append(Tok(v)[i - 1], IF v[i] = Star THEN Spin ELSE v[j])
    /\ \A k \in i..j : Tok(v)[k] \in {Tok(v)[i - 1], Tok(v)[j]}

\* The token at a position that is not escaped, and the position after it.
LEMMA TokenAt ==
    ASSUME NEW v \in Strings, ValidWildcard(v), NEW i \in 1..Len(v), i \notin Escaped(v)
    PROVE  TokenIs(v, i, TokenEnd(v, i))
<1> DEFINE t == Tok(v)
           j == TokenEnd(v, i)
<1>0. j = IF v[i] = Backslash THEN i + 1 ELSE i
  BY DEF TokenEnd
<1> HIDE DEF j
<1>1. Len(v) \in Nat /\ \A k \in 1..Len(v) : t[k] = TokenStep(v, t[k - 1], k) /\ v[k] \in 0..255
  BY TokIs, ElementOfSeq DEF Strings
<1>2. /\ Escaped(v) \subseteq 1..Len(v)
      /\ \A k \in 1..Len(v) : k \in Escaped(v) <=> k > 1 /\ v[k - 1] = Backslash /\ k - 1 \notin Escaped(v)
  BY EscapedIs
<1>3. v[i] = Backslash => i < Len(v) /\ v[i + 1] \in {Star, Backslash}
  BY DEF ValidWildcard
<1> HIDE DEF t
<1>4. CASE v[i] = Backslash
  <2>1. i + 1 \in 1..Len(v) /\ i + 1 > 1 /\ (i + 1) - 1 = i /\ j = i + 1 /\ i \in Nat
    BY <1>0, <1>1, <1>3, <1>4
  <2>2. j \in Escaped(v)
    <3>1. j - 1 = i
      BY <2>1
    <3> QED BY <1>2, <1>4, <2>1, <3>1
  <2>3. j + 1 \notin Escaped(v)
    <3>1. j + 1 \in Escaped(v) => (j + 1) - 1 \notin Escaped(v)
      BY <1>2
    <3>2. (j + 1) - 1 = j
      BY <2>1
    <3> QED BY <2>2, <3>1, <3>2
  <2>4. t[i] = t[i - 1]
    <3>1. i \notin Wilds(v)
      BY <1>4 DEF Wilds, Backslash, Star
    <3> QED BY <1>1, <1>4, <3>1 DEF TokenStep
  <2>5. j \notin Wilds(v)
    BY <2>2 DEF Wilds
  <2>6. t[j] = Append(t[i - 1], v[j])
    <3>1. t[j] = TokenStep(v, t[i], j)
      BY <1>1, <2>1
    <3>2. TokenStep(v, t[i], j) = Append(t[i], v[j])
      BY <2>2, <2>5 DEF TokenStep
    <3> QED BY <2>4, <3>1, <3>2
  <2>7. \A k \in i..j : k = i \/ k = j
    BY <2>1
  <2>8. v[i] # Star
    BY <1>4 DEF Backslash, Star
  <2>9. j \in i..Len(v) /\ v[j] \in 0..255
    BY <1>1, <2>1
  <2> QED BY <2>3, <2>4, <2>5, <2>6, <2>7, <2>8, <2>9 DEF t, j, TokenIs
<1>5. CASE v[i] # Backslash
  <2>1. j = i /\ i \in Nat /\ (i + 1) - 1 = i
    BY <1>0, <1>1, <1>5
  <2>2. i + 1 \notin Escaped(v)
    <3>1. i + 1 \in Escaped(v) => v[(i + 1) - 1] = Backslash
      BY <1>2
    <3> QED BY <1>5, <2>1, <3>1
  <2>3. v[i] = Star <=> i \in Wilds(v)
    BY DEF Wilds
  <2>4. t[i] = Append(t[i - 1], IF v[i] = Star THEN Spin ELSE v[i])
    <3>1. t[i] = TokenStep(v, t[i - 1], i)
      BY <1>1
    <3> QED BY <1>5, <2>3, <3>1 DEF TokenStep
  <2>5. \A k \in i..i : k = i
    BY <2>1
  <2>6. i \in i..Len(v) /\ v[i] \in 0..255
    BY <1>1
  <2> QED BY <2>1, <2>2, <2>3, <2>4, <2>5, <2>6 DEF t, j, TokenIs
<1> QED BY <1>4, <1>5

\* A new node is linked to its parent and to no other.
LEMMA LinkFits ==
    ASSUME GlobIs, NEW n \in DOMAIN x.glob, NEW t \in 0..256, Append(n, t) \notin DOMAIN x.glob,
           x'.glob = Linked(n, Append(n, t), t = Spin), patterns' = patterns
    PROVE  /\ GlobIs' /\ DOMAIN x'.glob = DOMAIN x.glob \cup {Append(n, t)}
           /\ \A m \in DOMAIN x.glob : x.glob[m].final \subseteq x'.glob[m].final
                                       /\ x.glob[m].reach \subseteq x'.glob[m].reach
<1> DEFINE g == x.glob
           h == x'.glob
           D == DOMAIN g
           E == DOMAIN h
           child == Append(n, t)
           Kids(S, m) == {c \in Bytes : Append(m, c) \in S}
           from == g[n]
           at == [from EXCEPT !.spin = @ \/ (t = Spin),
                              !.kids = IF t = Spin THEN @ ELSE WithByte(@, child[Len(child)], child)]
<1>1. Leaves' = Leaves
  BY DEF Leaves
<1>2. /\ D \subseteq Nodes /\ Root \in D
      /\ \A m \in D : m # Root => \E o \in D, u \in 0..256 : m = Append(o, u)
  BY Zenon DEF GlobIs, NodeFits
<1>3. /\ child \in Nodes /\ child # Root /\ child # n /\ child[Len(child)] = t
      /\ \A m \in Nodes, u \in 0..256 : child = Append(m, u) => n = m /\ t = u
  <2>1. n \in Nodes /\ t \in 0..256
    BY <1>2, SMTT(30)
  <2>2. /\ Append(n, t) \in Nodes /\ Append(n, t) # Root /\ Append(n, t) # n
        /\ Len(Append(n, t)) = Len(n) + 1 /\ Append(n, t)[Len(n) + 1] = t
    BY <2>1, NodeMore, ZenonT(60)
  <2>3. \A m \in Nodes, u \in 0..256 : Append(n, t) = Append(m, u) => n = m /\ t = u
    BY <2>1, NodeMore, ZenonT(60)
  <2>4. child[Len(child)] = t
    BY <2>2
  <2> QED BY <2>2, <2>3, <2>4, Zenon
<1>4. h = [m \in D \cup {child} |-> IF m = n THEN at ELSE IF m = child THEN NoNode ELSE g[m]]
  BY DEF Linked
<1>5. E = D \cup {child} /\ h[n] = at /\ h[child] = NoNode /\ \A m \in D \ {n} : h[m] = g[m]
  BY <1>3, <1>4, Zenon
<1>6. \A c \in Bytes : c \in 0..256 /\ c # Spin
  BY DEF Bytes, Spin
<1>7. \A m \in D, u \in 0..256 : Append(m, u) # child => (Append(m, u) \in E <=> Append(m, u) \in D)
  BY <1>5
<1> HIDE DEF h, E
<1>8. ASSUME NEW m \in D \ {n} PROVE NodeFits(m)'
  <2>1. NodeFits(m)
    BY DEF GlobIs
  <2>2. \A u \in 0..256 : Append(m, u) # child
    BY <1>2, <1>3, ZenonT(60)
  <2>3. Spin \in 0..256
    BY DEF Spin
  <2>4. Kids(E, m) = Kids(D, m) /\ (Append(m, Spin) \in E <=> Append(m, Spin) \in D)
    BY <1>6, <1>7, <2>2, <2>3, Zenon
  <2>5. h[m] = g[m]
    BY <1>5
  <2> QED BY <1>1, <2>1, <2>4, <2>5 DEF NodeFits, h, E
<1>9. NodeFits(child)'
  <2>1. \A u \in 0..256 : Append(child, u) \notin E
    <3> SUFFICES ASSUME NEW u \in 0..256, Append(child, u) \in E PROVE FALSE
      OBVIOUS
    <3>1. Append(child, u) \in Nodes /\ Append(child, u) # Root /\ Append(child, u) # child
          /\ \A m \in Nodes, z \in 0..256 : Append(child, u) = Append(m, z) => child = m /\ u = z
      <4>1. child \in Nodes
        BY <1>3, SMTT(30)
      <4> HIDE DEF child, D
      <4>2. Append(child, u) \in Nodes /\ Append(child, u) # Root /\ Append(child, u) # child
        BY <4>1, NodeMore, ZenonT(60)
      <4>3. \A m \in Nodes, z \in 0..256 : Append(child, u) = Append(m, z) => child = m /\ u = z
        BY <4>1, NodeMore, ZenonT(60)
      <4> QED BY <4>2, <4>3, ZenonT(60)
    <3>2. Append(child, u) \in D
      BY <1>5, <3>1, ZenonT(60)
    <3>3. PICK o \in D, z \in 0..256 : Append(child, u) = Append(o, z)
      BY <1>2, <3>1, <3>2, ZenonT(60)
    <3>4. child \in D
      BY <1>2, <3>1, <3>3, ZenonT(60)
    <3> QED BY <3>4
  <2>2. Spin \in 0..256
    BY DEF Spin
  <2>3. Kids(E, child) = {}
    BY <1>6, <2>1
  <2>4. ByteMapFits(NoBytes, Kids(E, child), child)
    BY <2>3, NoBytesFit
  <2>5. h[child] = NoNode /\ DOMAIN NoNode = {"kids", "spin", "final", "reach"}
        /\ NoNode.kids = NoBytes /\ NoNode.spin = FALSE /\ NoNode.final = {} /\ NoNode.reach = {}
    BY <1>5 DEF NoNode
  <2> HIDE DEF child
  <2> QED BY <1>3, <2>1, <2>2, <2>4, <2>5, ZenonT(60) DEF NodeFits, h, E
<1>10. /\ n \in Nodes /\ DOMAIN from = {"kids", "spin", "final", "reach"} /\ from.spin \in BOOLEAN
       /\ ByteMapFits(from.kids, Kids(D, n), n)
       /\ from.spin <=> Append(n, Spin) \in D
       /\ \A l \in from.final : l \in Leaves /\ l.kind = "glob" /\ End(l.arg) = n
       /\ \A l \in from.reach : l \in Leaves /\ l.kind = "glob" /\ End(l.arg) = Append(n, Spin)
  BY DEF GlobIs, NodeFits
<1>11. /\ DOMAIN at = DOMAIN from /\ at.final = from.final /\ at.reach = from.reach
       /\ at.spin = (from.spin \/ t = Spin)
       /\ at.kids = IF t = Spin THEN from.kids ELSE WithByte(from.kids, t, child)
  BY <1>3, <1>10
<1>12. NodeFits(n)'
  <2> HIDE DEF at, from
  <2>1. CASE t = Spin
    <3>1. Kids(E, n) = Kids(D, n)
      <4>1. \A c \in Bytes : Append(n, c) # child
        <5>1. \A c \in Bytes : child = Append(n, c) => t = c
          BY <1>3, <1>6, <1>10
        <5> HIDE DEF child
        <5> QED BY <1>6, <2>1, <5>1
      <4> QED BY <1>6, <1>7, <4>1
    <3>2. Append(n, Spin) \in E
      BY <1>5, <2>1
    <3>3. at.spin = TRUE /\ at.kids = from.kids
      BY <1>11, <2>1
    <3> QED BY <1>1, <1>5, <1>10, <1>11, <3>1, <3>2, <3>3 DEF NodeFits, h, E
  <2>2. CASE t # Spin
    <3>1. t \in Bytes
      BY <2>2 DEF Bytes, Spin
    <3>2. Kids(E, n) = Kids(D, n) \cup {t}
      <4>1. \A c \in Bytes : Append(n, c) = child <=> c = t
        BY <1>3, <1>6, <1>10
      <4>2. \A c \in Bytes : Append(n, c) \in E <=> Append(n, c) \in D \/ c = t
        BY <1>5, <4>1
      <4> QED BY <3>1, <4>2
    <3>3. Kids(D, n) \in SUBSET Bytes /\ t \notin Kids(D, n)
      OBVIOUS
    <3>4. ByteMapFits(WithByte(from.kids, t, Append(n, t)), Kids(D, n) \cup {t}, n)
      <4> DEFINE K == Kids(D, n)
      <4>1. K \in SUBSET Bytes /\ t \notin K /\ ByteMapFits(from.kids, K, n)
        BY <1>10, <3>3
      <4> HIDE DEF K
      <4> QED BY <3>1, <4>1, WithByteFits DEF K
    <3>5. Append(n, Spin) \in E <=> Append(n, Spin) \in D
      <4>1. Spin \in 0..256
        BY DEF Spin
      <4>2. Append(n, Spin) # child
        BY <1>3, <1>10, <2>2, <4>1
      <4> QED BY <1>5, <4>2, SMTT(30)
    <3>6. at.spin = from.spin /\ ByteMapFits(at.kids, Kids(E, n), n)
      BY <1>10, <1>11, <2>2, <3>2, <3>4, Zenon
    <3> QED BY <1>1, <1>5, <1>10, <1>11, <3>5, <3>6 DEF NodeFits, h, E
  <2> QED BY <2>1, <2>2
<1>13. GlobIs'
  <2>1. \A m \in E : NodeFits(m)'
    BY <1>5, <1>8, <1>9, <1>12
  <2>2. \A m \in E : m # Root => \E o \in E, u \in 0..256 : m = Append(o, u)
    <3> SUFFICES ASSUME NEW m \in E, m # Root PROVE \E o \in E, u \in 0..256 : m = Append(o, u)
      OBVIOUS
    <3>1. CASE m = child
      <4>1. n \in E
        BY <1>5
      <4> QED BY <3>1, <4>1, Zenon
    <3>2. CASE m # child
      <4>1. m \in D
        BY <1>5, <3>2
      <4>2. PICK o \in D, u \in 0..256 : m = Append(o, u)
        BY <1>2, <4>1
      <4>3. o \in E
        BY <1>5
      <4> QED BY <4>2, <4>3, Zenon
    <3> QED BY <3>1, <3>2
  <2> QED BY <1>2, <1>5, <2>1, <2>2, Zenon DEF GlobIs, h, E
<1>14. \A m \in D : h[m].final = g[m].final /\ h[m].reach = g[m].reach
  BY <1>5, <1>11
<1> QED BY <1>5, <1>13, <1>14 DEF h, E

\* A token of a wildcard pattern keeps the index, with or without a new node.
LEMMA InsertTokenKeeps ==
    ASSUME IndexFits, InsertToken
    PROVE  IndexFits'
<1> DEFINE v == w.leaf.arg
           i == w.i
           j == IF v[i] = Backslash THEN i + 1 ELSE i
           t == IF v[i] = Star THEN Spin ELSE v[j]
           child == Append(w.node, t)
<1>1. /\ w.pc = "glob" /\ i <= Len(v) /\ ~(v[i] = Star /\ i = Len(v)) /\ Stays
      /\ x' = IF child \in DOMAIN x.glob THEN x ELSE [x EXCEPT !.glob = Linked(w.node, child, v[i] = Star)]
      /\ w' = [w EXCEPT !.node = child, !.i = j + 1]
  BY DEF InsertToken, Arg, Stays
<1>2. /\ w.leaf \in Leaves \ added /\ w.leaf.kind = "glob"
      /\ i \in 1..Len(v) + 1 /\ i \notin Escaped(v) /\ w.node = Tok(v)[i - 1]
      /\ \A k \in 0..i - 1 : Tok(v)[k] \in DOMAIN x.glob
  BY <1>1 DEF IndexFits, WriterFits, Arg
<1>3. v \in Strings /\ ValidWildcard(v)
  <2>1. IsLeaf(w.leaf)
    BY <1>2, LeavesAre DEF IndexFits, WriterFits
  <2> QED BY <1>2, <2>1 DEF IsLeaf
<1>4. Len(v) \in Nat /\ i \in 1..Len(v) /\ i \in Nat
  <2>1. Len(v) \in Nat
    BY <1>3, LenProperties DEF Strings
  <2> QED BY <1>1, <1>2, <2>1
<1>5. /\ DOMAIN w' = DOMAIN w /\ w'.pc = "glob" /\ w'.leaf = w.leaf /\ w'.node = child /\ w'.i = j + 1
      /\ Leaves' = Leaves
  BY <1>1 DEF IndexFits, WriterFits, Stays, Leaves
<1>6. /\ j \in i..Len(v) /\ j + 1 \notin Escaped(v) /\ v[j] \in 0..255
      /\ v[i] = Star <=> j \in Wilds(v)
      /\ Tok(v)[j] = child
      /\ \A k \in i..j : Tok(v)[k] \in {Tok(v)[i - 1], Tok(v)[j]}
  <2>1. v \in Strings /\ ValidWildcard(v) /\ i \in 1..Len(v) /\ i \notin Escaped(v)
    BY <1>2, <1>3, <1>4
  <2>2. j = TokenEnd(v, i)
    BY DEF TokenEnd
  <2>3. w.node = Tok(v)[i - 1]
    BY <1>2
  <2> HIDE DEF j, i, v
  <2>4. TokenIs(v, i, j)
    BY <2>1, <2>2, TokenAt
  <2> QED BY <2>3, <2>4 DEF TokenIs
<1>7. w.node \in DOMAIN x.glob
  <2>1. i - 1 \in 0..i - 1
    BY <1>4
  <2> QED BY <1>2, <2>1
<1>8. t \in 0..256 /\ (t = Spin <=> v[i] = Star)
  <2> DEFINE c == v[j]
  <2>1. c \in 0..255
    BY <1>6, Zenon
  <2> HIDE DEF c
  <2>2. c \in 0..256 /\ c # Spin /\ Spin \in 0..256
    BY <2>1 DEF Spin
  <2> HIDE DEF j, v, i
  <2> QED BY <2>2, SMTT(30) DEF c
<1>9. v[i] = Star => j = i
  BY DEF Star, Backslash
<1> HIDE DEF j, t, child, v, i
\* The automaton.
<1>10. /\ GlobIs' /\ DOMAIN x'.glob = DOMAIN x.glob \cup {child} /\ Same({"glob"})
       /\ \A m \in DOMAIN x.glob : x.glob[m].final \subseteq x'.glob[m].final
                                   /\ x.glob[m].reach \subseteq x'.glob[m].reach
  <2>1. CASE child \in DOMAIN x.glob
    <3>1. x' = x
      BY <1>1, <2>1
    <3>2. GlobIs'
      BY <1>1, <3>1, GlobSame DEF IndexFits, Stays
    <3> QED BY <2>1, <3>1, <3>2 DEF Same
  <2>2. CASE child \notin DOMAIN x.glob
    <3>1. Same({"glob"}) /\ x'.glob = Linked(w.node, child, v[i] = Star)
      BY <1>1, <2>2 DEF Same, IndexFits, TablesFit
    <3>2. (t = Spin) = (v[i] = Star)
      BY <1>8
    <3>3. x'.glob = Linked(w.node, Append(w.node, t), t = Spin)
      BY <3>1, <3>2, SMTT(30) DEF child
    <3>4. /\ GlobIs' /\ DOMAIN x'.glob = DOMAIN x.glob \cup {Append(w.node, t)}
          /\ \A m \in DOMAIN x.glob : x.glob[m].final \subseteq x'.glob[m].final
                                      /\ x.glob[m].reach \subseteq x'.glob[m].reach
      BY <1>1, <1>7, <1>8, <2>2, <3>3, LinkFits, Zenon DEF IndexFits, Stays, child
    <3> QED BY <3>1, <3>4 DEF child
  <2> QED BY <2>1, <2>2
<1>11. Grows
  BY <1>10 DEF Same, Grows, Tables, Affixes, CidrLengths
<1>12. Done = added /\ Done' = added /\ Entries' = Entries
  <2>1. Done = added /\ Done' = added
    BY <1>1, <1>5 DEF Done, Stays
  <2> QED BY <2>1 DEF Entries
<1>13. TablesFit'
  <2>1. \A table \in Tables : \A key \in x'[table] : LeafOfKey(table, key) \in Leaves
    BY <1>5, <1>10 DEF Same, IndexFits, TablesFit, Tables
  <2> QED BY <1>1, <1>5, <1>10, <1>12, <2>1 DEF Same, Stays, IndexFits, TablesFit
<1>14. WriterFits'
  <2> DEFINE k == j + 1
  <2>1. k \in 1..Len(v) + 1 /\ k - 1 = j /\ j \in Nat
    BY <1>4, <1>6
  <2>2. k = Len(v) + 1 => ~Trails(v)
    <3>1. k = Len(v) + 1 => j = Len(v)
      BY <1>4, <2>1
    <3> QED BY <1>1, <1>6, <1>9, <3>1 DEF Trails
  <2>3. ASSUME NEW m \in 0..k - 1 PROVE Tok(v)[m] \in DOMAIN x'.glob
    <3>1. m \in 0..i - 1 \/ m \in i..j
      BY <1>4, <2>1
    <3>2. CASE m \in 0..i - 1
      BY <1>2, <1>10, <3>2
    <3>3. CASE m \in i..j
      BY <1>2, <1>6, <1>7, <1>10, <3>3
    <3> QED BY <3>1, <3>2, <3>3
  <2>4. k \notin Escaped(v) /\ w'.i = k
    BY <1>5, <1>6
  <2>5. w'.node = Tok(v)[k - 1]
    BY <1>5, <1>6, <2>1
  <2> HIDE DEF k
  <2>6. Arg' = v
    BY <1>5 DEF Arg, v
  <2> QED BY <1>1, <1>2, <1>5, <2>1, <2>2, <2>3, <2>4, <2>5, <2>6 DEF IndexFits, WriterFits, Stays
<1> QED BY <1>1, <1>10, <1>11, <1>12, <1>13, <1>14, IndexOfParts DEF Stays

\* The leaf is stored at the node that its tokens lead to.
LEMMA InsertAcceptKeeps ==
    ASSUME IndexFits, InsertAccept
    PROVE  IndexFits'
<1> DEFINE v == w.leaf.arg
           i == w.i
           n == w.node
           l == w.leaf
           from == x.glob[n]
           at == IF i = Len(v) THEN [from EXCEPT !.reach = @ \cup {l}] ELSE [from EXCEPT !.final = @ \cup {l}]
<1>1. /\ w.pc = "glob" /\ i >= Len(v) /\ (i = Len(v) => v[i] = Star) /\ Stays
      /\ w' = [w EXCEPT !.pc = "kind"]
      /\ x' = [x EXCEPT !.glob = [x.glob EXCEPT ![n] = at]]
  BY DEF InsertAccept, Arg, Stays
<1>2. /\ WriterFits' /\ Leaves' = Leaves
      /\ w.leaf \in Leaves \ added /\ IsLeaf(w.leaf) /\ w.leaf.kind = "glob"
      /\ Done = added /\ Done' = added \cup {w.leaf}
  BY <1>1, ToKind DEF IndexFits
<1>3. /\ i \in 1..Len(v) + 1 /\ i \notin Escaped(v) /\ n = Tok(v)[i - 1]
      /\ i = Len(v) + 1 => ~Trails(v)
      /\ \A k \in 0..i - 1 : Tok(v)[k] \in DOMAIN x.glob
  BY <1>1 DEF IndexFits, WriterFits, Arg
<1>4. v \in Strings /\ ValidWildcard(v) /\ Len(v) \in Nat
  BY <1>2, LenProperties DEF IsLeaf, Strings
<1>6. /\ i = Len(v) <=> Trails(v)
      /\ Last(v) = i - 1 /\ n \in DOMAIN x.glob
      /\ End(v) = IF Trails(v) THEN Append(n, Spin) ELSE n
  <2>1. i - 1 \in 0..i - 1
    BY <1>3, <1>4
  <2>2. CASE i = Len(v)
    <3>1. i \in Wilds(v) /\ i \in 1..Len(v)
      <4>1. i \in 1..Len(v)
        BY <1>3, <1>4, <2>2
      <4> QED BY <1>1, <1>3, <2>2, <4>1 DEF Wilds
    <3>2. Tok(v)[i] = Append(Tok(v)[i - 1], Spin)
      <4>1. Tok(v)[i] = TokenStep(v, Tok(v)[i - 1], i)
        <5> HIDE DEF v, i
        <5> QED BY <1>4, <3>1, TokIs
      <4> QED BY <3>1, <4>1 DEF TokenStep
    <3> QED BY <1>3, <2>1, <2>2, <3>1, <3>2 DEF Trails, Last, End
  <2>3. CASE i # Len(v)
    <3>1. i = Len(v) + 1 /\ i - 1 = Len(v)
      BY <1>1, <1>3, <1>4, <2>3
    <3> QED BY <1>3, <2>1, <2>3, <3>1 DEF Last, End
  <2> QED BY <2>2, <2>3
<1>7. Same({"glob"}) /\ x'.glob = [x.glob EXCEPT ![n] = at]
  <2> HIDE DEF at
  <2> QED BY <1>1 DEF Same, IndexFits, TablesFit
<1>8. /\ n \in Nodes /\ DOMAIN from = {"kids", "spin", "final", "reach"} /\ from.spin \in BOOLEAN
      /\ ByteMapFits(from.kids, {c \in Bytes : Append(n, c) \in DOMAIN x.glob}, n)
      /\ from.spin <=> Append(n, Spin) \in DOMAIN x.glob
      /\ \A d \in from.final : d \in Leaves /\ d.kind = "glob" /\ End(d.arg) = n
      /\ \A d \in from.reach : d \in Leaves /\ d.kind = "glob" /\ End(d.arg) = Append(n, Spin)
  BY <1>6 DEF IndexFits, GlobIs, NodeFits
<1>9. /\ DOMAIN at = DOMAIN from /\ at.kids = from.kids /\ at.spin = from.spin
      /\ at.final = IF Trails(v) THEN from.final ELSE from.final \cup {l}
      /\ at.reach = IF Trails(v) THEN from.reach \cup {l} ELSE from.reach
  <2> HIDE DEF from, l
  <2> QED BY <1>6, <1>8
<1> HIDE DEF at
<1>10. DOMAIN x'.glob = DOMAIN x.glob /\ x'.glob[n] = at /\ \A m \in DOMAIN x.glob \ {n} : x'.glob[m] = x.glob[m]
  BY <1>6, <1>7
<1>11. GlobIs'
  <2>1. ASSUME NEW m \in DOMAIN x'.glob PROVE NodeFits(m)'
    <3>1. CASE m # n
      <4>1. NodeFits(m) /\ x'.glob[m] = x.glob[m]
        BY <1>10, <2>1, <3>1 DEF IndexFits, GlobIs
      <4> QED BY <1>2, <1>10, <4>1 DEF NodeFits
    <3>2. CASE m = n
      <4>a. l \in Leaves /\ l.kind = "glob" /\ v = l.arg
        BY <1>2
      <4>1. /\ \A d \in at.final : d \in Leaves /\ d.kind = "glob" /\ End(d.arg) = n
            /\ \A d \in at.reach : d \in Leaves /\ d.kind = "glob" /\ End(d.arg) = Append(n, Spin)
        <5> HIDE DEF v, l, n, from
        <5>1. CASE Trails(v)
          BY <1>6, <1>8, <1>9, <4>a, <5>1
        <5>2. CASE ~Trails(v)
          BY <1>6, <1>8, <1>9, <4>a, <5>2
        <5> QED BY <5>1, <5>2
      <4> HIDE DEF n, from
      <4> QED BY <1>2, <1>8, <1>9, <1>10, <3>2, <4>1 DEF NodeFits
    <3> QED BY <3>1, <3>2
  <2> QED BY <1>10, <2>1 DEF IndexFits, GlobIs
<1>12. Grows
  <2>1. \A m \in DOMAIN x.glob : x.glob[m].final \subseteq x'.glob[m].final /\ x.glob[m].reach \subseteq x'.glob[m].reach
    BY <1>9, <1>10
  <2> QED BY <1>7, <1>10, <2>1 DEF Same, Grows, Tables, Affixes, CidrLengths
<1>13. TablesFit'
  <2>1. \A table \in Tables : \A key \in x'[table] : LeafOfKey(table, key) \in Leaves
    BY <1>2, <1>7 DEF Same, IndexFits, TablesFit, Tables
  <2>2. Entries' = Entries
    BY <1>2, EntriesSame
  <2> QED BY <1>1, <1>2, <1>7, <2>1, <2>2 DEF Same, Stays, IndexFits, TablesFit
<1>14. ASSUME NEW d \in Done' \ Done PROVE Published(d)'
  <2>1. d = w.leaf
    BY <1>2
  <2>2. \A k \in 0..Last(d.arg) : Tok(d.arg)[k] \in DOMAIN x'.glob
    BY <1>3, <1>6, <1>10, <2>1, SMTT(30)
  <2>3. IF Trails(d.arg) THEN d \in x'.glob[Tok(d.arg)[Last(d.arg)]].reach
        ELSE d \in x'.glob[Tok(d.arg)[Last(d.arg)]].final
    BY <1>3, <1>6, <1>9, <1>10, <2>1, Zenon
  <2> QED BY <1>2, <2>1, <2>2, <2>3 DEF Published, Affixes, Tables
<1> QED BY <1>1, <1>2, <1>11, <1>12, <1>13, <1>14, IndexOfParts DEF Stays

\* Init, and every step of the writer or of a reader.
LEMMA IndexInit == Init => IndexFits
<1> SUFFICES ASSUME Init PROVE IndexFits
  OBVIOUS
<1>1. /\ patterns \in PatternSets /\ x = EmptyIndex /\ w = IdleWriter /\ added = {}
  BY DEF Init
<1>2. w.pc = "idle" /\ DOMAIN w = {"pc", "leaf", "node", "i"}
  BY <1>1 DEF IdleWriter
<1>3. Done = {} /\ Entries = {}
  <2>1. Done = {}
    BY <1>1, <1>2 DEF Done
  <2> QED BY <2>1 DEF Entries
<1>4. /\ DOMAIN x = {"equals", "prefix", "suffix", "lens", "glob", "exists", "number", "cidr", "cidrLens", "kinds"}
      /\ \A table \in Tables : x[table] = {}
      /\ x.exists = FALSE /\ x.lens = Nil /\ x.cidrLens = Nil /\ x.kinds = {} /\ x.number = EmptyNumbers
      /\ x.glob = [n \in {Root} |-> NoNode]
  BY <1>1 DEF EmptyIndex, Tables
<1>5. WriterFits
  BY <1>1, <1>2 DEF WriterFits
<1>6. TablesFit
  BY <1>1, <1>3, <1>4, EmptyNumbersFit DEF TablesFit
<1>7. GlobIs
  <2>1. Root \in Nodes
    BY EmptySeq DEF Root, Nodes
  <2>2. DOMAIN x.glob = {Root} /\ x.glob[Root] = NoNode
    BY <1>4, SMTT(30)
  <2>3. ASSUME NEW t \in 0..256 PROVE Append(Root, t) \notin DOMAIN x.glob
    BY <2>1, <2>2, NodeMore, Zenon
  <2>4. Spin \in 0..256 /\ Bytes \subseteq 0..256
    BY DEF Spin, Bytes
  <2>5. {c \in Bytes : Append(Root, c) \in DOMAIN x.glob} = {}
    BY <2>3, <2>4
  <2>6. ByteMapFits(NoBytes, {}, Root)
    BY NoBytesFit
  <2>7. DOMAIN NoNode = {"kids", "spin", "final", "reach"}
        /\ NoNode.kids = NoBytes /\ NoNode.spin = FALSE /\ NoNode.final = {} /\ NoNode.reach = {}
    BY DEF NoNode
  <2>8. NodeFits(Root)
    BY <2>1, <2>2, <2>3, <2>4, <2>5, <2>6, <2>7 DEF NodeFits
  <2> QED BY <2>2, <2>8 DEF GlobIs
<1> QED BY <1>3, <1>5, <1>6, <1>7 DEF IndexFits

\* Every step keeps the invariant.
LEMMA IndexNext == IndexFits /\ [Next]_vars => IndexFits'
<1> SUFFICES ASSUME IndexFits, [Next]_vars PROVE IndexFits'
  OBVIOUS
<1>1. CASE UNCHANGED vars
  BY <1>1, IndexStutters DEF vars
<1>2. CASE \E r \in Readers : Reader(r)
  <2>1. UNCHANGED <<patterns, x, w, added>>
    BY <1>2, ZenonT(60) DEF Reader, Collect, LoadEquals, LoadLens, LoadCidr, Lookup, LoadNumber, LoadExists, LoadGlob,
                Enter, EnterSpin, Step, NextByte, Final, Rest, Set
  <2> QED BY <2>1, IndexStutters, SMTT(30)
<1>3. CASE Writer
  BY <1>3, AddKeeps, PutEqualsKeeps, PutAffixKeeps, AddLengthKeeps, InsertTokenKeeps, InsertAcceptKeeps,
     PutExistsKeeps, PutNumberKeeps, PutPrefixKeeps, AddPrefixLengthKeeps, OrKindKeeps
     DEF Writer, Leaves
<1> QED BY <1>1, <1>2, <1>3 DEF Next

-----------------------------------------------------------------------------
(* The readers' steps outside the automaton.                               *)

StageNames == {Stages[k] : k \in 1..6}

\* The stages have numbers.
LEMMA StagesAre ==
    /\ \A k \in 1..6 : StageNo(Stages[k]) = k
    /\ StageNo("-") = 0
    /\ \A stage \in {"-"} \cup StageNames : StageNo(stage) \in 0..6
    /\ \A stage \in StageNames : StageNo(stage) \in 1..6 /\ Stages[StageNo(stage)] = stage
    /\ "-" \notin StageNames
<1>1. \A k \in 1..6 : /\ k = 1 => Stages[k] = "equals"
                      /\ k = 2 => Stages[k] = "lens"
                      /\ k = 3 => Stages[k] = "glob"
                      /\ k = 4 => Stages[k] = "number"
                      /\ k = 5 => Stages[k] = "cidr"
                      /\ k = 6 => Stages[k] = "exists"
  BY DEF Stages
<1>2. \A k \in 1..6 : k \in {1, 2, 3, 4, 5, 6}
  OBVIOUS
<1>3. ASSUME NEW k \in 1..6 PROVE StageNo(Stages[k]) = k
  <2>1. \A j \in 1..6 : Stages[j] = Stages[k] => j = k
    BY <1>1, <1>2
  <2>2. Stages[k] # "-"
    BY <1>1, <1>2
  <2>3. (CHOOSE j \in 1..6 : Stages[j] = Stages[k]) = k
    BY <2>1
  <2> QED BY <2>2, <2>3 DEF StageNo
<1>4. StageNo("-") = 0
  BY DEF StageNo
<1>5. "-" \notin StageNames
  BY <1>1, <1>2 DEF StageNames
<1> QED BY <1>3, <1>4, <1>5 DEF StageNames

\* A reader that leaves a structure goes to the next one it wants.
LEMMA LeaveIs ==
    ASSUME NEW me, DOMAIN me = Fields, me.stage \in {"-"} \cup StageNames
    PROVE  \/ /\ Leave(me) = [me EXCEPT !.pc = "done"]
              /\ \A j \in StageNo(me.stage) + 1..6 : ~Wanted(me.kinds, Stages[j])
           \/ \E k \in StageNo(me.stage) + 1..6 :
                /\ Leave(me) = [me EXCEPT !.pc = "load", !.stage = Stages[k]]
                /\ Wanted(me.kinds, Stages[k])
                /\ \A j \in StageNo(me.stage) + 1..k - 1 : ~Wanted(me.kinds, Stages[j])
<1> DEFINE no == StageNo(me.stage)
           later == {k \in no + 1..6 : Wanted(me.kinds, Stages[k])}
           k == CHOOSE i \in later : \A j \in later : i <= j
<1>1. no \in 0..6
  BY StagesAre
<1>2. Leave(me) = IF later = {} THEN [me EXCEPT !.pc = "done"]
                  ELSE [me EXCEPT !.pc = "load", !.stage = Stages[k]]
  BY DEF Leave, StageNo
<1> HIDE DEF no
<1>3. CASE later = {}
  BY <1>2, <1>3 DEF no
<1>4. CASE later # {}
  <2>1. k \in later /\ \A j \in later : k <= j
    <3>1. \E i \in later : \A j \in later : i <= j
      <4>1. later \in SUBSET Nat
        BY <1>1
      <4> HIDE DEF later
      <4> QED BY <1>4, <4>1, Smallest
    <3> HIDE DEF later
    <3> QED BY <3>1
  <2> HIDE DEF k
  <2>2. Leave(me) = [me EXCEPT !.pc = "load", !.stage = Stages[k]]
    BY <1>2, <1>4
  <2>3. k \in no + 1..6 /\ Wanted(me.kinds, Stages[k])
    BY <2>1
  <2>4. ASSUME NEW j \in no + 1..k - 1 PROVE ~Wanted(me.kinds, Stages[j])
    <3>1. j \in no + 1..6 /\ ~(k <= j)
      BY <1>1, <2>3
    <3> QED BY <2>1, <3>1
  <2> QED BY <2>2, <2>3, <2>4 DEF no
<1> QED BY <1>3, <1>4

\* A reader between two structures.
Base(me) ==
    /\ DOMAIN me = Fields
    /\ me.stage \in {"-"} \cup StageNames
    /\ me.value \in ValuesOf[patterns]
    /\ me.ready \subseteq added
    /\ me.kinds = {l.kind : l \in me.ready}
    /\ me.next = << >>
    /\ \A l \in me.hits : l \in Leaves /\ LeafMatches(l, me.value)

\* A reader fits when it goes on to the next structure.
LEMMA LeaveFits ==
    ASSUME NEW me, Base(me)
    PROVE  ReaderFits(Leave(me))
<1>1. /\ DOMAIN me = Fields
      /\ me.stage \in {"-"} \cup StageNames
  BY DEF Base
<1>2. CASE Leave(me) = [me EXCEPT !.pc = "done"]
  <2> DEFINE new == [me EXCEPT !.pc = "done"]
  <2>1. DOMAIN new = Fields /\ new.pc = "done" /\ new.value = me.value /\ new.ready = me.ready
        /\ new.kinds = me.kinds /\ new.next = me.next /\ new.hits = me.hits
    BY <1>1 DEF Fields
  <2> HIDE DEF new
  <2>2. ReaderFits(new)
    BY <2>1 DEF ReaderFits, Base, InGlob, Fields
  <2> QED BY <1>2, <2>2 DEF new
<1>3. ASSUME NEW k \in 1..6, Leave(me) = [me EXCEPT !.pc = "load", !.stage = Stages[k]],
             Wanted(me.kinds, Stages[k])
      PROVE  ReaderFits(Leave(me))
  <2> DEFINE new == [me EXCEPT !.pc = "load", !.stage = Stages[k]]
  <2>1. DOMAIN new = Fields /\ new.pc = "load" /\ new.stage = Stages[k] /\ new.value = me.value /\ new.ready = me.ready
        /\ new.kinds = me.kinds /\ new.next = me.next /\ new.hits = me.hits
    BY <1>1 DEF Fields
  <2> HIDE DEF new
  <2>2. ReaderFits(new)
    BY <1>3, <2>1 DEF ReaderFits, Base, InGlob, Fields
  <2> QED BY <1>3, <2>2 DEF new
<1>4. \A k \in StageNo(me.stage) + 1..6 : k \in 1..6
  <2>1. StageNo(me.stage) \in 0..6
    BY <1>1, StagesAre
  <2> QED BY <2>1
<1> QED BY <1>1, <1>2, <1>3, <1>4, LeaveIs

\* A reader fits when it has sound lookups to do.
LEMMA SearchFits ==
    ASSUME NEW me, Base(me), me.stage \in {"equals", "lens", "cidr"}, NEW keys, Sound(keys, me.value)
    PROVE  ReaderFits(Search(me, keys))
<1>1. CASE keys = << >>
  BY <1>1, LeaveFits DEF Search
<1>2. CASE keys # << >>
  <2> DEFINE new == [me EXCEPT !.pc = "lookup", !.todo = keys]
  <2>1. DOMAIN new = Fields /\ new.pc = "lookup" /\ new.stage = me.stage /\ new.value = me.value /\ new.ready = me.ready
        /\ new.kinds = me.kinds /\ new.next = me.next /\ new.hits = me.hits /\ new.todo = keys
    BY DEF Fields, Base
  <2> HIDE DEF new
  <2>2. ReaderFits(new)
    BY <1>2, <2>1 DEF ReaderFits, Base, InGlob, Fields, Sound
  <2> QED BY <1>2, <2>2 DEF new, Search
<1> QED BY <1>1, <1>2

\* What readers rely on stays: other readers and the writer disturb none.
LEMMA ReaderStays ==
    ASSUME NEW me, ReaderFits(me), patterns' = patterns, added \subseteq added',
           DOMAIN x.glob \subseteq DOMAIN x'.glob
    PROVE  ReaderFits(me)'
<1>1. Leaves' = Leaves
  BY DEF Leaves
<1>2. ASSUME GlobState(me) PROVE GlobState(me)'
  <2>1. Seq(DOMAIN x.glob) \subseteq Seq(DOMAIN x'.glob)
    OBVIOUS
  <2> QED BY <1>2, <2>1 DEF GlobState
<1> QED BY <1>1, <1>2 DEF ReaderFits

\* A step of a reader that leaves it in a fit state.
LEMMA SetFits ==
    ASSUME ReadersFit, NEW r \in Readers, NEW me, ReaderFits(me), Set(r, me)
    PROVE  ReadersFit'
<1>1. /\ patterns' = patterns /\ added' = added /\ x' = x
      /\ DOMAIN rd' = Readers /\ rd'[r] = me
      /\ \A q \in Readers \ {r} : rd'[q] = rd[q]
  BY DEF Set, ReadersFit
<1>2. \A q : ReaderFits(q) => ReaderFits(q)'
  <2> TAKE q
  <2> HAVE ReaderFits(q)
  <2> QED BY <1>1, ReaderStays
<1>3. ASSUME NEW q \in Readers PROVE ReaderFits(rd[q])'
  <2>1. ReaderFits(rd'[q])
    BY <1>1 DEF ReadersFit
  <2> QED BY <1>2, <2>1
<1> QED BY <1>1, <1>3 DEF ReadersFit

\* A reader outside the automaton is between two structures or about to be.
LEMMA BaseOf ==
    ASSUME NEW me, ReaderFits(me), me.pc \in {"load", "lookup", "final"}
    PROVE  Base(me)
<1>1. me.stage \in StageNames
  <2>1. \A stage \in {"equals", "lens", "glob", "cidr"} : stage \in StageNames
    <3>1. 1 \in 1..6 /\ 2 \in 1..6 /\ 3 \in 1..6 /\ 5 \in 1..6
      OBVIOUS
    <3> QED BY <3>1 DEF StageNames, Stages
  <2>2. me.pc = "load" => me.stage \in StageNames
    BY DEF ReaderFits, StageNames
  <2>3. me.pc \in {"lookup", "final"} => me.stage \in {"equals", "lens", "glob", "cidr"}
    BY DEF ReaderFits
  <2> QED BY <2>1, <2>2, <2>3
<1> QED BY <1>1 DEF Base, ReaderFits, InGlob

\* Every lookup of a list is sound if those it is made of are.
LEMMA SoundIs ==
    ASSUME NEW S, NEW keys \in Seq(S), NEW v, \A e \in S : KeyFits(e, v)
    PROVE  Sound(keys, v)
<1>1. Len(keys) \in Nat /\ keys \in [1..Len(keys) -> S]
  BY LenProperties
<1>2. keys \in [1..Len(keys) -> Listed(keys)]
  BY <1>1 DEF Listed
<1>3. keys \in Seq(Listed(keys))
  <2> DEFINE T == Listed(keys)
             n == Len(keys)
  <2>1. n \in Nat /\ keys \in [1..n -> T]
    BY <1>1, <1>2
  <2> HIDE DEF T, n
  <2>2. keys \in Seq(T)
    BY <2>1, IsASeq
  <2> QED BY <2>2 DEF T
<1> QED BY <1>1, <1>3 DEF Sound

\* A reader fits when its call begins.
LEMMA CollectKeepsFit ==
    ASSUME IndexFits, NEW r \in Readers, NEW v \in ValuesOf[patterns], Collect(r, v)
    PROVE  \E me : ReaderFits(me) /\ Set(r, me)
<1> DEFINE me == [IdleReader EXCEPT !.value = v, !.kinds = x.kinds, !.ready = added]
<1>1. Set(r, Leave(me))
  BY DEF Collect
<1>2. /\ DOMAIN me = Fields /\ me.stage = "-" /\ me.value = v /\ me.ready = added
      /\ me.kinds = x.kinds /\ me.next = << >> /\ me.hits = {}
  BY DEF IdleReader, Fields
<1>3. x.kinds = {l.kind : l \in added}
  BY DEF IndexFits, TablesFit
<1> HIDE DEF me
<1>4. Base(me)
  BY <1>2, <1>3 DEF Base
<1> QED BY <1>1, <1>4, LeaveFits

\* A reader fits when its call has ended.
LEMMA RestKeepsFit ==
    ASSUME NEW r \in Readers, Rest(r)
    PROVE  \E me : ReaderFits(me) /\ Set(r, me)
<1>1. Set(r, IdleReader)
  BY DEF Rest
<1>2. /\ DOMAIN IdleReader = Fields /\ IdleReader.pc = "idle" /\ IdleReader.ready = {} /\ IdleReader.kinds = {}
      /\ IdleReader.next = << >> /\ IdleReader.hits = {}
  BY DEF IdleReader, Fields
<1>3. ReaderFits(IdleReader)
  BY <1>2 DEF ReaderFits, InGlob
<1> QED BY <1>1, <1>3

\* A leaf whose kind a reader saw has been published.
LEMMA KindSeen ==
    ASSUME IndexFits, NEW me, ReaderFits(me), NEW kind \in me.kinds
    PROVE  \E l \in me.ready : l.kind = kind /\ Published(l) /\ IsLeaf(l) /\ l \in Leaves
<1>1. PICK l \in me.ready : l.kind = kind
  BY DEF ReaderFits
<1>2. l \in added /\ added \subseteq Leaves /\ added \subseteq Done
  BY DEF ReaderFits, IndexFits, WriterFits, Done
<1> QED BY <1>1, <1>2, LeavesAre DEF IndexFits, WriterFits

\* A reader that wants the table of equals finds it.
LEMMA LoadEqualsIs ==
    ASSUME IndexFits, NEW r \in Readers, ReaderFits(rd[r]), LoadEquals(r)
    PROVE  Set(r, Search(rd[r], << <<"equals", rd[r].value.text>> >>))
<1> DEFINE me == rd[r]
<1>1. ~(me.kinds = {"equals"} /\ x.equals = {})
  <2> SUFFICES ASSUME me.kinds = {"equals"} PROVE x.equals # {}
    OBVIOUS
  <2> HIDE DEF me
  <2>1. "equals" \in me.kinds /\ ReaderFits(me)
    BY DEF me
  <2>2. PICK l \in me.ready : l.kind = "equals" /\ Published(l)
    BY <2>1, KindSeen
  <2>3. KeyOf(l) \in x[l.kind]
    BY <2>2 DEF Published, Tables
  <2> QED BY <2>2, <2>3
<1> QED BY <1>1 DEF LoadEquals, Text

\* A reader of the equals table fits, and does not panic.
LEMMA LoadEqualsKeepsFit ==
    ASSUME IndexFits, NEW r \in Readers, ReaderFits(rd[r]), LoadEquals(r)
    PROVE  \E me : ReaderFits(me) /\ Set(r, me)
<1> DEFINE me == rd[r]
           key == <<"equals", me.value.text>>
<1>1. me.pc = "load" /\ me.stage = "equals"
  BY DEF LoadEquals, Loading
<1>3. Set(r, Search(me, <<key>>))
  BY LoadEqualsIs
<1>4. KeyFits(key, me.value)
  BY DEF KeyFits, Tables, LeafOfKey, Leaf, LeafMatches
<1>5. Sound(<<key>>, me.value)
  <2> HIDE DEF key
  <2>1. <<key>> \in Seq({key})
    OBVIOUS
  <2>2. \A e \in {key} : KeyFits(e, me.value)
    BY <1>4
  <2> DEFINE S == {key}
             keys == <<key>>
  <2>3. keys \in Seq(S) /\ \A e \in S : KeyFits(e, me.value)
    BY <2>1, <2>2
  <2> HIDE DEF S, keys, me
  <2>4. Sound(keys, me.value)
    BY <2>3, SoundIs
  <2> QED BY <2>4 DEF keys
<1> HIDE DEF key, me
<1>6. Base(me)
  BY <1>1, BaseOf DEF me
<1> QED BY <1>1, <1>3, <1>5, <1>6, SearchFits

\* A lookup hits only a leaf that matches.
LEMMA LookupKeepsFit ==
    ASSUME IndexFits, NEW r \in Readers, ReaderFits(rd[r]), Lookup(r)
    PROVE  \E me : ReaderFits(me) /\ Set(r, me)
<1> DEFINE todo == rd[r].todo
           v == rd[r].value
           table == Head(todo)[1]
           key == Head(todo)[2]
           hits == IF key \in x[table] THEN rd[r].hits \cup {LeafOfKey(table, key)} ELSE rd[r].hits
           me == [rd[r] EXCEPT !.todo = Tail(todo), !.hits = hits]
<1>1. rd[r].pc = "lookup" /\ DOMAIN rd[r] = Fields /\ me.todo = Tail(todo)
  BY DEF Lookup, ReaderFits, Fields
<1>2. Set(r, Search(me, Tail(todo)))
  BY <1>1 DEF Lookup
<1>3. todo # << >> /\ Sound(todo, v) /\ rd[r].stage \in {"equals", "lens", "cidr"}
  BY <1>1 DEF ReaderFits
<1>4. Base(rd[r])
  BY <1>1, BaseOf
<1>5. KeyFits(Head(todo), v) /\ Sound(Tail(todo), v)
  <2> DEFINE S == Listed(todo)
  <2>1. todo \in Seq(S) /\ \A e \in S : KeyFits(e, v)
    BY <1>3 DEF Sound, Listed
  <2> HIDE DEF todo, S
  <2>2. Head(todo) \in S /\ Tail(todo) \in Seq(S)
    BY <1>3, <2>1, HeadTailProperties
  <2>3. \A e \in S : KeyFits(e, v)
    BY <2>1
  <2> HIDE DEF v
  <2>4. Sound(Tail(todo), v)
    BY <2>2, <2>3, SoundIs
  <2> QED BY <2>2, <2>3, <2>4
<1>6. LeafMatches(LeafOfKey(table, key), v) /\ table \in Tables
  BY <1>5 DEF KeyFits
<1>7. key \in x[table] => LeafOfKey(table, key) \in Leaves
  BY <1>6 DEF IndexFits, TablesFit
<1>8. \A l \in hits : l \in Leaves /\ LeafMatches(l, v)
  BY <1>4, <1>6, <1>7 DEF Base
<1> HIDE DEF hits
<1>9. Base(me) /\ me.stage = rd[r].stage /\ me.value = v
  BY <1>1, <1>4, <1>8 DEF Base, Fields
<1> HIDE DEF me, todo, v
<1> QED BY <1>2, <1>3, <1>5, <1>9, SearchFits

\* A reader finds the exists leaf only if it is one of the patterns'.
LEMMA LoadExistsKeepsFit ==
    ASSUME IndexFits, NEW r \in Readers, ReaderFits(rd[r]), LoadExists(r)
    PROVE  \E me : ReaderFits(me) /\ Set(r, me)
<1> DEFINE exists == Leaf("exists", << >>)
           hits == IF x.exists THEN rd[r].hits \cup {exists} ELSE rd[r].hits
           me == [rd[r] EXCEPT !.hits = hits]
<1>1. rd[r].pc = "load" /\ Set(r, Leave(me))
  BY DEF LoadExists, Loading
<1>2. Base(rd[r])
  BY <1>1, BaseOf
<1>3. x.exists => exists \in Leaves
  BY DEF IndexFits, TablesFit
<1>4. LeafMatches(exists, rd[r].value)
  BY DEF LeafMatches, Leaf
<1>5. \A l \in hits : l \in Leaves /\ LeafMatches(l, rd[r].value)
  BY <1>2, <1>3, <1>4 DEF Base
<1> HIDE DEF hits
<1>6. Base(me)
  BY <1>2, <1>5 DEF Base, Fields
<1> HIDE DEF me
<1> QED BY <1>1, <1>6, LeaveFits

\* The intervals in the index are those of the leaves.
LEMMA EntriesAre ==
    ASSUME IndexFits
    PROVE  /\ \A e \in Entries : IsInterval(e.iv) /\ e.leaf \in Done /\ e.leaf.kind = "number" /\ e.iv = e.leaf.arg
           /\ Done \subseteq Leaves
           /\ \A l \in Done : l.kind = "number" => Entry(l) \in Entries
           /\ NumbersFit(x.number, Entries)
<1>1. Done \subseteq Leaves
  BY DEF IndexFits, WriterFits, Done
<1>2. \A l \in Done : IsLeaf(l)
  BY <1>1, LeavesAre DEF IndexFits, WriterFits
<1>3. ASSUME NEW e \in Entries
      PROVE  IsInterval(e.iv) /\ e.leaf \in Done /\ e.leaf.kind = "number" /\ e.iv = e.leaf.arg
  <2>1. PICK l \in Done : l.kind = "number" /\ e = Entry(l)
    BY DEF Entries
  <2>2. e.iv = l.arg /\ e.leaf = l
    BY <2>1 DEF Entry
  <2> QED BY <1>2, <2>1, <2>2 DEF IsLeaf
<1>4. \A l \in Done : l.kind = "number" => Entry(l) \in Entries
  BY DEF Entries
<1>5. NumbersFit(x.number, Entries)
  BY DEF IndexFits, TablesFit
<1> QED BY <1>1, <1>3, <1>4, <1>5

\* What the number index gives for a value.
FoundFor(v) == IF v.num = NoNum THEN << >> ELSE CollectNumbers(x.number, v.num)

\* The number index gives leaves that match, and all of those that it holds.
LEMMA FoundIs ==
    ASSUME IndexFits, NEW v \in ValuesOf[patterns]
    PROVE  LET leaves == {FoundFor(v)[i].leaf : i \in 1..Len(FoundFor(v))}
           IN  /\ \A l \in leaves : l \in Leaves /\ LeafMatches(l, v)
               /\ \A l \in Done : l.kind = "number" /\ LeafMatches(l, v) => l \in leaves
<1> DEFINE f == FoundFor(v)
<1>1. IsValue(v)
  BY LeavesAre DEF IndexFits, WriterFits
<1>2. CASE v.num = NoNum
  <2>1. Len(f) = 0
    BY <1>2 DEF FoundFor
  <2>2. \A l \in Done : ~(l.kind = "number" /\ LeafMatches(l, v))
    BY <1>2 DEF LeafMatches
  <2> QED BY <2>1, <2>2
<1>3. CASE v.num # NoNum
  <2> DEFINE n == v.num
             A == Around(Entries, n)
  <2>1. n \in Int /\ f = CollectNumbers(x.number, n)
    BY <1>1, <1>3 DEF IsValue, FoundFor
  <2>2. Each(f, A)
    <3> HIDE DEF n
    <3> QED BY <2>1, EntriesAre, CollectFits
  <2> HIDE DEF f
  <2>3. Len(f) \in Nat /\ f \in [1..Len(f) -> A] /\ \A e \in A : \E i \in 1..Len(f) : f[i] = e
    BY <2>2, EachIs DEF Each
  <2>4. ASSUME NEW i \in 1..Len(f) PROVE f[i].leaf \in Leaves /\ LeafMatches(f[i].leaf, v)
    <3>1. f[i] \in Entries /\ Contains(f[i].iv, n)
      BY <2>3 DEF Around
    <3>2. f[i].leaf \in Leaves /\ f[i].leaf.kind = "number" /\ f[i].iv = f[i].leaf.arg
      BY <3>1, EntriesAre
    <3> QED BY <1>3, <3>1, <3>2 DEF LeafMatches
  <2>5. ASSUME NEW l \in Done, l.kind = "number", LeafMatches(l, v)
        PROVE  \E i \in 1..Len(f) : f[i].leaf = l
    <3>1. Entry(l) \in Entries /\ Entry(l).iv = l.arg /\ Entry(l).leaf = l
      BY <2>5, EntriesAre DEF Entry
    <3>2. Contains(l.arg, n)
      BY <2>5 DEF LeafMatches
    <3>3. Entry(l) \in A
      BY <3>1, <3>2 DEF Around
    <3> HIDE DEF A
    <3>4. PICK i \in 1..Len(f) : f[i] = Entry(l)
      BY <2>3, <3>3
    <3> QED BY <3>1, <3>4
  <2> QED BY <2>4, <2>5 DEF f
<1> QED BY <1>2, <1>3

\* A number that is looked up.
LEMMA LoadNumberKeepsFit ==
    ASSUME IndexFits, NEW r \in Readers, ReaderFits(rd[r]), LoadNumber(r)
    PROVE  \E me : ReaderFits(me) /\ Set(r, me)
<1> DEFINE v == rd[r].value
           leaves == {FoundFor(v)[i].leaf : i \in 1..Len(FoundFor(v))}
           me == [rd[r] EXCEPT !.hits = @ \cup leaves]
<1>1. rd[r].pc = "load" /\ Set(r, Leave(me))
  BY DEF LoadNumber, Loading, FoundFor
<1>2. Base(rd[r])
  BY <1>1, BaseOf
<1>3. \A l \in leaves : l \in Leaves /\ LeafMatches(l, v)
  <2> HIDE DEF v
  <2>1. v \in ValuesOf[patterns]
    BY <1>2 DEF Base, v
  <2> QED BY <2>1, FoundIs
<1> HIDE DEF leaves
<1>4. Base(me)
  BY <1>2, <1>3 DEF Base, Fields
<1> HIDE DEF me
<1> QED BY <1>1, <1>4, LeaveFits

PrefixKeys(s, q) == [i \in 1..Len(q) |-> <<"prefix", SubSeq(s, 1, q[i])>>]
SuffixKeys(s, q) == [i \in 1..Len(q) |-> <<"suffix", SubSeq(s, Len(s) - q[i] + 1, Len(s))>>]
CidrKeys(addr, q) == [i \in 1..Len(q) |-> <<"cidr", PrefixKey(addr, q[i])>>]

\* A list of lookups, one per length, that only finds leaves that match.
LEMMA KeysAre ==
    ASSUME NEW keys, NEW q \in Seq(Nat), NEW v, NEW K,
           keys = [i \in 1..Len(q) |-> K[q[i]]],
           \A n \in Listed(q) : KeyFits(K[n], v)
    PROVE  /\ keys \in Seq({e \in Listed(keys) : KeyFits(e, v)})
           /\ \A n \in Listed(q) : Within(K[n], keys)
<1> DEFINE L == Len(q)
           S == {e \in Listed(keys) : KeyFits(e, v)}
<1>1. L \in Nat
  BY LenProperties
<1> HIDE DEF L
<1>2. \A i \in 1..L : keys[i] = K[q[i]]
  BY DEF L
<1>3. Len(keys) = L /\ DOMAIN keys = 1..L
  BY <1>1 DEF L
<1>4. ASSUME NEW i \in 1..L PROVE keys[i] \in S
  <2>1. q[i] \in Listed(q) /\ keys[i] \in Listed(keys)
    BY <1>3 DEF Listed, L
  <2> QED BY <1>2, <2>1
<1> HIDE DEF S
<1>5. keys \in [1..L -> S]
  <2>1. keys = [i \in 1..L |-> keys[i]]
    BY <1>2 DEF L
  <2> QED BY <1>4, <2>1
<1>6. keys \in Seq(S)
  BY <1>1, <1>5, IsASeq
<1>7. ASSUME NEW n \in Listed(q) PROVE Within(K[n], keys)
  <2>1. PICK i \in 1..L : q[i] = n
    BY DEF Listed, L
  <2> QED BY <1>2, <1>3, <2>1 DEF Within
<1> QED BY <1>6, <1>7 DEF S

\* The keys of the prefixes, which fit and are there for every length.
LEMMA PrefixKeysAre ==
    ASSUME NEW v, v.text \in Strings, NEW q \in Seq(Nat), \A n \in Listed(q) : n <= Len(v.text)
    PROVE  /\ PrefixKeys(v.text, q) \in Seq({e \in Listed(PrefixKeys(v.text, q)) : KeyFits(e, v)})
           /\ \A n \in Listed(q) : Within(<<"prefix", SubSeq(v.text, 1, n)>>, PrefixKeys(v.text, q))
<1> DEFINE s == v.text
           keys == PrefixKeys(s, q)
           K == [n \in Listed(q) |-> <<"prefix", SubSeq(s, 1, n)>>]
<1>1. \A i \in 1..Len(q) : q[i] \in Listed(q)
  BY DEF Listed
<1>2. keys = [i \in 1..Len(q) |-> K[q[i]]]
  BY <1>1 DEF PrefixKeys
<1>3. Listed(q) \subseteq Nat /\ Len(s) \in Nat
  BY LenProperties DEF Listed, Strings
<1>4. ASSUME NEW n \in Listed(q) PROVE KeyFits(K[n], v)
  <2> DEFINE sub == SubSeq(s, 1, n)
  <2>1. Len(sub) = n
    <3>1. 0 \in 0..Len(s) /\ n \in 0..Len(s) /\ n - 0 = n /\ 0 + 1 = 1
      BY <1>3
    <3> HIDE DEF s
    <3>2. Len(SubSeq(s, 0 + 1, n)) = n - 0
      <4>1. s \in Strings
        BY DEF s
      <4> QED BY <3>1, <4>1, SubIs
    <3> QED BY <3>1, <3>2
  <2>2. HasPrefix(s, sub)
    BY <1>3, <2>1 DEF HasPrefix
  <2> HIDE DEF sub
  <2>3. K[n] = <<"prefix", sub>>
    BY DEF sub
  <2> QED BY <2>2, <2>3 DEF KeyFits, Tables, LeafOfKey, Leaf, LeafMatches
<1>5. \A n \in Listed(q) : K[n] = <<"prefix", SubSeq(s, 1, n)>>
  OBVIOUS
<1> HIDE DEF K, keys, s
<1>6. /\ keys \in Seq({e \in Listed(keys) : KeyFits(e, v)})
      /\ \A n \in Listed(q) : Within(K[n], keys)
  BY <1>2, <1>4, KeysAre
<1> QED BY <1>5, <1>6 DEF keys, s

\* The same for suffixes.
LEMMA SuffixKeysAre ==
    ASSUME NEW v, v.text \in Strings, NEW q \in Seq(Nat), \A n \in Listed(q) : n <= Len(v.text)
    PROVE  /\ SuffixKeys(v.text, q) \in Seq({e \in Listed(SuffixKeys(v.text, q)) : KeyFits(e, v)})
           /\ \A n \in Listed(q) :
                Within(<<"suffix", SubSeq(v.text, Len(v.text) - n + 1, Len(v.text))>>, SuffixKeys(v.text, q))
<1> DEFINE s == v.text
           keys == SuffixKeys(s, q)
           K == [n \in Listed(q) |-> <<"suffix", SubSeq(s, Len(s) - n + 1, Len(s))>>]
<1>1. \A i \in 1..Len(q) : q[i] \in Listed(q)
  BY DEF Listed
<1>2. keys = [i \in 1..Len(q) |-> K[q[i]]]
  BY <1>1 DEF SuffixKeys
<1>3. Listed(q) \subseteq Nat /\ Len(s) \in Nat
  BY LenProperties DEF Listed, Strings
<1>4. ASSUME NEW n \in Listed(q) PROVE KeyFits(K[n], v)
  <2> DEFINE sub == SubSeq(s, Len(s) - n + 1, Len(s))
  <2>1. Len(sub) = n
    <3> DEFINE i == Len(s) - n
               j == Len(s)
    <3>1. i \in 0..Len(s) /\ j \in i..Len(s) /\ j - i = n
      BY <1>3
    <3> HIDE DEF s, i, j
    <3>2. Len(SubSeq(s, i + 1, j)) = j - i
      <4>1. s \in Strings
        BY DEF s
      <4> QED BY <3>1, <4>1, SubIs
    <3> QED BY <3>1, <3>2 DEF i, j
  <2>2. HasSuffix(s, sub)
    BY <1>3, <2>1 DEF HasSuffix
  <2> HIDE DEF sub
  <2>3. K[n] = <<"suffix", sub>>
    BY DEF sub
  <2> QED BY <2>2, <2>3 DEF KeyFits, Tables, LeafOfKey, Leaf, LeafMatches
<1>5. \A n \in Listed(q) : K[n] = <<"suffix", SubSeq(s, Len(s) - n + 1, Len(s))>>
  OBVIOUS
<1> HIDE DEF K, keys, s
<1>6. /\ keys \in Seq({e \in Listed(keys) : KeyFits(e, v)})
      /\ \A n \in Listed(q) : Within(K[n], keys)
  BY <1>2, <1>4, KeysAre
<1> QED BY <1>5, <1>6 DEF keys, s

\* The same for the prefixes of an address.
LEMMA CidrKeysAre ==
    ASSUME NEW v, NEW addr, addr = ParseIP(v), addr # NoAddr, IsAddr(addr), NEW q \in Seq(Nat)
    PROVE  /\ CidrKeys(addr, q) \in Seq({e \in Listed(CidrKeys(addr, q)) : KeyFits(e, v)})
           /\ \A n \in Listed(q) : Within(<<"cidr", PrefixKey(addr, n)>>, CidrKeys(addr, q))
<1> DEFINE keys == CidrKeys(addr, q)
           K == [n \in Listed(q) |-> <<"cidr", PrefixKey(addr, n)>>]
<1>1. \A i \in 1..Len(q) : q[i] \in Listed(q)
  BY DEF Listed
<1>2. keys = [i \in 1..Len(q) |-> K[q[i]]]
  BY <1>1 DEF CidrKeys
<1>3. Listed(q) \subseteq Nat
  BY LenProperties DEF Listed
<1>4. ASSUME NEW n \in Listed(q) PROVE KeyFits(K[n], v)
  <2> DEFINE d == Masked(addr, n)
  <2>1. IsAddr(d) /\ d.v4 = addr.v4
    BY <1>3, MaskedIs
  <2> HIDE DEF d
  <2>2. d = [v4 |-> Len(d.bits) = Width4, bits |-> d.bits]
    BY <2>1, AddrIs
  <2>3. K[n] = <<"cidr", <<n, d.bits>> >>
    BY DEF PrefixKey, d
  <2>4. LeafOfKey("cidr", <<n, d.bits>>) = Leaf("cidr", [addr |-> d, n |-> n])
    BY <2>2 DEF LeafOfKey
  <2>5. LeafMatches(Leaf("cidr", [addr |-> d, n |-> n]), v)
    <3>1. addr.v4 = d.v4 /\ Masked(addr, n) = d
      BY <2>1 DEF d
    <3> QED BY <3>1 DEF LeafMatches, Leaf
  <2> HIDE DEF K
  <2> QED BY <2>3, <2>4, <2>5 DEF KeyFits, Tables
<1>5. \A n \in Listed(q) : K[n] = <<"cidr", PrefixKey(addr, n)>>
  OBVIOUS
<1> HIDE DEF K, keys
<1>6. /\ keys \in Seq({e \in Listed(keys) : KeyFits(e, v)})
      /\ \A n \in Listed(q) : Within(K[n], keys)
  BY <1>2, <1>4, KeysAre
<1> QED BY <1>5, <1>6 DEF keys

\* What LoadLens looks up.
LensOf(me, kind) ==
    IF kind \in me.kinds THEN Short(x.lens[kind], Len(me.value.text)) ELSE << >>
LensKeys(me) ==
    PrefixKeys(me.value.text, LensOf(me, "prefix")) \o SuffixKeys(me.value.text, LensOf(me, "suffix"))

\* The lengths that are looked up are all that the text has room for.
LEMMA LensAre ==
    ASSUME IndexFits, x.lens # Nil, NEW me, me.value.text \in Strings, NEW kind \in Affixes
    PROVE  /\ LensOf(me, kind) \in Seq(Nat)
           /\ \A n \in Listed(LensOf(me, kind)) : n <= Len(me.value.text)
           /\ kind \in me.kinds => \A n \in Listed(x.lens[kind]) :
                n <= Len(me.value.text) => n \in Listed(LensOf(me, kind))
<1>1. Lengths(x.lens[kind])
  BY DEF IndexFits, TablesFit, Affixes
<1>2. Len(me.value.text) \in Nat
  BY LenProperties DEF Strings
<1>3. CASE kind \in me.kinds
  <2> DEFINE q == x.lens[kind]
             n == Len(me.value.text)
  <2> HIDE DEF q, n
  <2>1. Short(q, n) \in Seq(Nat) /\ Listed(Short(q, n)) = {m \in Listed(q) : m <= n}
    BY <1>1, <1>2, ShortIs DEF q, n
  <2>2. LensOf(me, kind) = Short(q, n)
    BY <1>3 DEF LensOf, q, n
  <2> QED BY <2>1, <2>2 DEF q, n
<1>4. CASE kind \notin me.kinds
  <2>1. LensOf(me, kind) = << >>
    BY <1>4 DEF LensOf
  <2>2. Listed(<< >>) = {}
    BY NoLengthsFit
  <2> QED BY <1>4, <2>1, <2>2
<1> QED BY <1>3, <1>4

\* LoadLens finds the lengths there, and has sound keys to look up.
LEMMA LoadLensIs ==
    ASSUME IndexFits, NEW r \in Readers, ReaderFits(rd[r]), LoadLens(r)
    PROVE  /\ x.lens # Nil
           /\ Sound(LensKeys(rd[r]), rd[r].value)
           /\ Set(r, Search(rd[r], LensKeys(rd[r])))
<1> DEFINE me == rd[r]
           s == me.value.text
           n == Len(s)
           pre == LensOf(me, "prefix")
           suf == LensOf(me, "suffix")
<1>1. me.pc = "load" /\ me.stage = "lens" /\ ReaderFits(me)
  BY DEF LoadLens, Loading
<1>2. s \in Strings
  BY <1>1, LeavesAre DEF IndexFits, WriterFits, ReaderFits, IsValue
<1>3. x.lens # Nil
  <2>1. me.kinds \cap {"prefix", "suffix"} # {}
    BY <1>1 DEF ReaderFits, Wanted
  <2> HIDE DEF me
  <2>2. PICK kind \in me.kinds : kind \in Affixes
    BY <2>1 DEF Affixes
  <2>3. PICK l \in me.ready : l.kind = kind /\ Published(l)
    BY <1>1, KindSeen
  <2> QED BY <2>2, <2>3 DEF Published
<1>4. Set(r, Search(me, LensKeys(me)))
  BY <1>3 DEF LoadLens, LensKeys, LensOf, PrefixKeys, SuffixKeys, Text
<1>5. Sound(LensKeys(me), me.value)
  <2> DEFINE p == PrefixKeys(s, pre)
             q == SuffixKeys(s, suf)
             P == {e \in Listed(p) : KeyFits(e, me.value)}
             Q == {e \in Listed(q) : KeyFits(e, me.value)}
  <2>1. p \in Seq(P)
    <3>1. pre \in Seq(Nat) /\ \A m \in Listed(pre) : m <= Len(me.value.text)
      <4>1. "prefix" \in Affixes
        BY DEF Affixes
      <4> QED BY <1>2, <1>3, <4>1, LensAre
    <3> HIDE DEF pre
    <3> QED BY <1>2, <3>1, PrefixKeysAre
  <2>2. q \in Seq(Q)
    <3>1. suf \in Seq(Nat) /\ \A m \in Listed(suf) : m <= Len(me.value.text)
      <4>1. "suffix" \in Affixes
        BY DEF Affixes
      <4> QED BY <1>2, <1>3, <4>1, LensAre
    <3> HIDE DEF suf
    <3> QED BY <1>2, <3>1, SuffixKeysAre
  <2>3. LensKeys(me) = p \o q
    BY DEF LensKeys
  <2>4. \A e \in P \cup Q : KeyFits(e, me.value)
    OBVIOUS
  <2> HIDE DEF p, q, P, Q, me
  <2>5. p \o q \in Seq(P \cup Q)
    BY <2>1, <2>2
  <2> DEFINE keys == p \o q
             S == P \cup Q
  <2>6. keys \in Seq(S) /\ \A e \in S : KeyFits(e, me.value)
    BY <2>4, <2>5
  <2> HIDE DEF keys, S
  <2>7. Sound(keys, me.value)
    BY <2>6, SoundIs
  <2> QED BY <2>3, <2>7 DEF keys
<1> QED BY <1>3, <1>4, <1>5

\* Prefixes and suffixes that are looked up.
LEMMA LoadLensKeepsFit ==
    ASSUME IndexFits, NEW r \in Readers, ReaderFits(rd[r]), LoadLens(r)
    PROVE  \E me : ReaderFits(me) /\ Set(r, me)
<1>1. rd[r].pc = "load" /\ rd[r].stage = "lens"
  BY DEF LoadLens, Loading
<1>2. Base(rd[r])
  BY <1>1, BaseOf
<1>3. Sound(LensKeys(rd[r]), rd[r].value) /\ Set(r, Search(rd[r], LensKeys(rd[r])))
  BY LoadLensIs
<1>4. ReaderFits(Search(rd[r], LensKeys(rd[r])))
  BY <1>1, <1>2, <1>3, SearchFits
<1> QED BY <1>3, <1>4

\* What LoadCidr looks up.
CidrLensOf(v) ==
    IF x.cidrLens = Nil \/ ParseIP(v) = NoAddr THEN << >> ELSE CidrLengths(ParseIP(v).v4)

\* LoadCidr has sound keys, one for every length.
LEMMA LoadCidrIs ==
    ASSUME IndexFits, NEW r \in Readers, ReaderFits(rd[r]), LoadCidr(r)
    PROVE  LET v == rd[r].value
               keys == CidrKeys(ParseIP(v), CidrLensOf(v))
           IN  /\ Sound(keys, v)
               /\ Set(r, Search(rd[r], keys))
               /\ ParseIP(v) # NoAddr =>
                    /\ IsAddr(ParseIP(v))
                    /\ \A n \in Listed(CidrLensOf(v)) : Within(<<"cidr", PrefixKey(ParseIP(v), n)>>, keys)
<1> DEFINE v == rd[r].value
           addr == ParseIP(v)
           q == CidrLensOf(v)
           keys == CidrKeys(addr, q)
<1>1. rd[r].pc = "load" /\ ReaderFits(rd[r])
  BY DEF LoadCidr, Loading
<1>2. IsValue(v)
  BY <1>1, LeavesAre DEF IndexFits, WriterFits, ReaderFits
<1>3. Set(r, Search(rd[r], keys))
  BY DEF LoadCidr, CidrKeys, CidrLensOf, CidrLengths
<1>4. CASE addr = NoAddr
  <2>1. q = << >>
    BY <1>4 DEF CidrLensOf
  <2> HIDE DEF q, addr
  <2>2. keys = << >>
    BY <2>1 DEF CidrKeys
  <2> HIDE DEF keys, v
  <2>3. << >> \in Seq(Listed(<< >>)) /\ Len(<< >>) = 0
    OBVIOUS
  <2>4. Sound(<< >>, v)
    BY <2>3 DEF Sound
  <2> QED BY <1>3, <1>4, <2>2, <2>4 DEF keys, addr, q, v
<1>5. CASE addr # NoAddr
  <2>1. IsAddr(addr)
    <3>1. v.addr # NoAddr /\ addr = Unmap(v.addr) /\ IsAddr(v.addr)
      BY <1>2, <1>5 DEF ParseIP, IsValue
    <3> QED BY <3>1, UnmapIs
  <2>2. q \in Seq(Nat)
    <3>1. CASE x.cidrLens = Nil
      <4>1. q = << >>
        BY <3>1 DEF CidrLensOf
      <4> HIDE DEF q
      <4> QED BY <4>1
    <3>2. CASE x.cidrLens # Nil
      <4>1. Lengths(x.cidrLens.v4) /\ Lengths(x.cidrLens.v6)
        BY <3>2 DEF IndexFits, TablesFit
      <4>2. q = x.cidrLens.v4 \/ q = x.cidrLens.v6
        BY <1>5, <3>2 DEF CidrLensOf, CidrLengths
      <4> QED BY <4>1, <4>2 DEF Lengths
    <3> QED BY <3>1, <3>2
  <2>3. addr = ParseIP(v)
    OBVIOUS
  <2> HIDE DEF q, addr, v
  <2>4. /\ keys \in Seq({e \in Listed(keys) : KeyFits(e, v)})
        /\ \A n \in Listed(q) : Within(<<"cidr", PrefixKey(addr, n)>>, keys)
    BY <1>5, <2>1, <2>2, <2>3, CidrKeysAre
  <2> DEFINE S == {e \in Listed(keys) : KeyFits(e, v)}
  <2>5. keys \in Seq(S) /\ \A e \in S : KeyFits(e, v)
    BY <2>4
  <2> HIDE DEF keys, S
  <2>6. Sound(keys, v)
    BY <2>5, SoundIs
  <2> QED BY <1>3, <2>1, <2>4, <2>6 DEF keys, addr, q, v
<1> QED BY <1>4, <1>5

\* Address prefixes that are looked up.
LEMMA LoadCidrKeepsFit ==
    ASSUME IndexFits, NEW r \in Readers, ReaderFits(rd[r]), LoadCidr(r)
    PROVE  \E me : ReaderFits(me) /\ Set(r, me)
<1> DEFINE keys == CidrKeys(ParseIP(rd[r].value), CidrLensOf(rd[r].value))
<1>1. rd[r].pc = "load" /\ rd[r].stage = "cidr"
  BY DEF LoadCidr, Loading
<1>2. Base(rd[r])
  BY <1>1, BaseOf
<1>3. Sound(keys, rd[r].value) /\ Set(r, Search(rd[r], keys))
  BY LoadCidrIs
<1> HIDE DEF keys
<1>4. ReaderFits(Search(rd[r], keys))
  BY <1>1, <1>2, <1>3, SearchFits
<1> QED BY <1>3, <1>4

Hits(me, hits) == \A l \in hits : l \in Leaves /\ LeafMatches(l, me.value)

-----------------------------------------------------------------------------
(* The readers' steps in the automaton.                                    *)

\* A reader in the automaton fits if its place in it does.
LEMMA GlobReader ==
    ASSUME NEW me, ReaderFits(me), me.pc \in {"load", "final"} \cup InGlob, me.stage = "glob",
           NEW new, DOMAIN new = Fields, new.pc \in {"final"} \cup InGlob,
           new.stage = me.stage, new.value = me.value, new.kinds = me.kinds, new.ready = me.ready,
           GlobState(new), Hits(me, new.hits)
    PROVE  ReaderFits(new)
BY DEF ReaderFits, InGlob, GlobState, Hits

\* What a reader in the automaton relies on.
LEMMA GlobReaderIs ==
    ASSUME IndexFits, NEW me, ReaderFits(me), me.pc \in {"final"} \cup InGlob
    PROVE  /\ DOMAIN me = Fields /\ me.stage = "glob"
           /\ GlobState(me) /\ Hits(me, me.hits)
           /\ me.value.text \in Strings /\ Len(me.value.text) \in Nat
           /\ \A i \in 1..Len(me.value.text) : me.value.text[i] \in Bytes
           /\ me.i \in Nat /\ me.s \in Nat \ {0} /\ Len(me.cur) \in Nat /\ Len(me.next) \in Nat
           /\ \A k \in 1..Len(me.cur) : me.cur[k] \in DOMAIN x.glob /\ me.cur[k] \in Nodes
           /\ \A k \in 1..Len(me.next) : me.next[k] \in DOMAIN x.glob /\ me.next[k] \in Nodes
           /\ me.next = << >> \/ me.pc \in InGlob
<1>1. /\ DOMAIN me = Fields /\ me.stage = "glob"
      /\ GlobState(me) /\ Hits(me, me.hits) /\ me.value \in ValuesOf[patterns]
      /\ me.next = << >> \/ me.pc \in InGlob
  BY DEF ReaderFits, Hits, InGlob
<1>2. me.value.text \in Strings
  BY <1>1, LeavesAre DEF IndexFits, WriterFits, IsValue
<1>3. Len(me.value.text) \in Nat /\ \A i \in 1..Len(me.value.text) : me.value.text[i] \in Bytes
  <2> DEFINE s == me.value.text
  <2> HIDE DEF s
  <2>1. s \in Seq(Bytes)
    BY <1>2 DEF s, Strings, Bytes
  <2>2. Len(s) \in Nat /\ \A i \in 1..Len(s) : s[i] \in Bytes
    BY <2>1, LenProperties, ElementOfSeq
  <2> QED BY <2>2 DEF s
<1>4. me.i \in Nat /\ me.s \in Nat \ {0}
  <2>1. me.i \in 0..Len(me.value.text) + 1 /\ me.s \in Nat \ {0}
    BY <1>1 DEF GlobState
  <2> QED BY <1>3, <2>1
<1>5. ASSUME NEW n \in DOMAIN x.glob PROVE n \in Nodes
  BY DEF IndexFits, GlobIs, NodeFits
<1>6. ASSUME NEW q \in Seq(DOMAIN x.glob)
      PROVE  Len(q) \in Nat /\ \A k \in 1..Len(q) : q[k] \in DOMAIN x.glob
  BY LenProperties, ElementOfSeq
<1>7. me.cur \in Seq(DOMAIN x.glob) /\ me.next \in Seq(DOMAIN x.glob)
  BY <1>1 DEF GlobState
<1> QED BY <1>1, <1>2, <1>3, <1>4, <1>5, <1>6, <1>7

\* Every node of the automaton fits.
LEMMA NodesAre ==
    ASSUME IndexFits, NEW n \in DOMAIN x.glob
    PROVE  NodeFits(n) /\ n \in Nodes
BY DEF IndexFits, GlobIs, NodeFits

\* A spinner stays where it is on any text.
LEMMA SpinStays ==
    ASSUME NEW s \in Strings, NEW n \in Nodes, Spins(n), NEW i, Runs(n, s, i), NEW j \in i..Len(s)
    PROVE  Runs(n, s, j)
<1>1. PICK m \in Nodes, t \in 0..256 : n = Append(m, t)
  BY NodeCases DEF Spins
<1>2. t = Spin
  BY <1>1, NodeMore, Zenon
<1>3. i \in 0..Len(s) /\ Len(s) \in Nat
  BY RunsWithin, LenProperties DEF Strings
<1>4. PICK h \in 0..Len(s) : Runs(m, s, h) /\ Moves(Spin, s, h, i)
  BY <1>1, <1>2, RunsAppend
<1>5. Moves(Spin, s, h, j) /\ j \in 0..Len(s)
  BY <1>3, <1>4 DEF Moves
<1>6. Runs(Append(m, t), s, j)
  BY <1>2, <1>4, <1>5, RunsAppend
<1> QED BY <1>1, <1>6

\* A node and its spinner stand for the same texts, and more of them.
LEMMA SpinRuns ==
    ASSUME NEW s \in Strings, NEW n \in Nodes, NEW i, Runs(n, s, i), NEW j \in i..Len(s)
    PROVE  Runs(Append(n, Spin), s, j)
<1>1. i \in 0..Len(s) /\ Len(s) \in Nat
  BY RunsWithin, LenProperties DEF Strings
<1>2. Moves(Spin, s, i, j) /\ j \in 0..Len(s) /\ Spin \in 0..256
  BY <1>1 DEF Moves, Spin
<1> QED BY <1>1, <1>2, RunsAppend

\* A byte leads on.
LEMMA ByteRuns ==
    ASSUME NEW s \in Strings, NEW n \in Nodes, NEW i \in 1..Len(s), Runs(n, s, i - 1)
    PROVE  Runs(Append(n, s[i]), s, i)
<1>1. s[i] \in 0..255 /\ Len(s) \in Nat
  BY ElementOfSeq, LenProperties DEF Strings
<1>2. Moves(s[i], s, i - 1, i) /\ i - 1 \in 0..Len(s) /\ i \in 0..Len(s) /\ s[i] \in 0..256
  BY <1>1 DEF Moves, Spin
<1> QED BY <1>2, RunsAppend

\* A reader fits when it starts at the root of the automaton.
LEMMA LoadGlobKeepsFit ==
    ASSUME IndexFits, NEW r \in Readers, ReaderFits(rd[r]), LoadGlob(r)
    PROVE  \E me : ReaderFits(me) /\ Set(r, me)
<1> DEFINE me == rd[r]
           new == [me EXCEPT !.pc = "enter", !.node = Root, !.i = 0, !.cur = << >>, !.next = << >>, !.s = 1]
<1>1. me.pc = "load" /\ me.stage = "glob" /\ Set(r, new) /\ DOMAIN me = Fields
  BY DEF LoadGlob, Loading, ReaderFits
<1>2. /\ DOMAIN new = Fields /\ new.pc = "enter" /\ new.stage = "glob" /\ new.value = me.value
      /\ new.kinds = me.kinds /\ new.ready = me.ready /\ new.hits = me.hits
      /\ new.node = Root /\ new.i = 0 /\ new.cur = << >> /\ new.next = << >> /\ new.s = 1
  BY <1>1 DEF Fields
<1>3. me.value.text \in Strings /\ Len(me.value.text) \in Nat
  <2>1. me.value.text \in Strings
    BY <1>1, LeavesAre DEF ReaderFits, IndexFits, WriterFits, IsValue
  <2> QED BY <2>1, LenProperties DEF Strings
<1>4. Root \in DOMAIN x.glob /\ Runs(Root, me.value.text, 0) /\ ~Spins(Root)
  BY <1>3, RunsRoot DEF IndexFits, GlobIs, Spins
<1> HIDE DEF new
<1>5. GlobState(new)
  <2>1. << >> \in Seq(DOMAIN x.glob) /\ Len(<< >>) = 0
    OBVIOUS
  <2> QED BY <1>2, <1>3, <1>4, <2>1 DEF GlobState, InGlob
<1>6. Hits(me, new.hits)
  BY <1>2 DEF ReaderFits, Hits
<1> HIDE DEF me
<1>7. ReaderFits(me) /\ me.pc \in {"load", "final"} \cup InGlob /\ new.pc \in {"final"} \cup InGlob
  BY <1>1, <1>2 DEF me, InGlob
<1>8. ReaderFits(new)
  BY <1>1, <1>2, <1>5, <1>6, <1>7, GlobReader
<1> QED BY <1>1, <1>8

\* A reader fits when it enters a node: its leaves with a '*' at the end match.
LEMMA EnterKeepsFit ==
    ASSUME IndexFits, NEW me, ReaderFits(me), me.pc = "enter",
           NEW new, new = [me EXCEPT !.pc = "spin", !.next = Append(@, me.node),
                                     !.hits = @ \cup x.glob[me.node].reach]
    PROVE  ReaderFits(new)
<1> DEFINE n == me.node
           s == me.value.text
           q == me.next
<1>1. me.pc \in {"final"} \cup InGlob /\ new.pc = "spin"
  BY DEF InGlob, ReaderFits, Fields
<1>2. /\ DOMAIN me = Fields /\ me.stage = "glob" /\ GlobState(me) /\ Hits(me, me.hits)
      /\ s \in Strings /\ Len(s) \in Nat /\ Len(me.cur) \in Nat /\ Len(q) \in Nat /\ me.s \in Nat /\ me.i \in Nat
      /\ \A i \in 1..Len(s) : s[i] \in Bytes
      /\ \A k \in 1..Len(me.cur) : me.cur[k] \in Nodes
  BY <1>1, GlobReaderIs
<1>3. /\ DOMAIN new = Fields /\ new.stage = me.stage /\ new.value = me.value /\ new.kinds = me.kinds
      /\ new.ready = me.ready /\ new.hits = me.hits \cup x.glob[n].reach /\ new.node = n /\ new.i = me.i
      /\ new.cur = me.cur /\ new.next = Append(q, n) /\ new.s = me.s
  BY <1>2 DEF Fields
<1>4. /\ n \in DOMAIN x.glob /\ Runs(n, s, me.i) /\ ~Spins(n)
      /\ me.i > 0 => me.s <= Len(me.cur) /\ n = Append(me.cur[me.s], s[me.i])
      /\ me.i <= Len(s)
      /\ q \in Seq(DOMAIN x.glob)
  BY <1>1, <1>2 DEF GlobState, InGlob
<1>5. \A k \in 1..Len(q) : q[k] # n
  <2> SUFFICES ASSUME NEW k \in 1..Len(q), q[k] = n PROVE FALSE
    OBVIOUS
  <2>1. /\ me.i > 0
        /\ \E j \in 1..Len(me.cur) : j < me.s /\ q[k] = Append(me.cur[j], s[me.i])
    BY <1>1, <1>2, <1>4, ZenonT(60) DEF GlobState, InGlob
  <2>2. PICK j \in 1..Len(me.cur) : j < me.s /\ n = Append(me.cur[j], s[me.i])
    BY <2>1
  <2>3. me.s \in 1..Len(me.cur) /\ s[me.i] \in 0..256
    <3>1. me.i \in 1..Len(s) /\ me.s \in 1..Len(me.cur)
      BY <1>2, <1>4, <2>1, <2>2, SMTT(30)
    <3>2. s[me.i] \in Bytes
      BY <1>2, <3>1
    <3>3. Bytes \subseteq 0..256
      BY DEF Bytes
    <3> HIDE DEF s
    <3> QED BY <3>1, <3>2, <3>3
  <2>4. me.cur[j] = me.cur[me.s]
    <3> DEFINE a == me.cur[j]
               b == me.cur[me.s]
               c == s[me.i]
    <3>1. a \in Nodes /\ b \in Nodes /\ c \in 0..256 /\ Append(a, c) = Append(b, c)
      BY <1>2, <1>4, <2>1, <2>2, <2>3, ZenonT(60)
    <3> HIDE DEF a, b, c
    <3>2. \A m \in Nodes, u \in 0..256 : Append(a, c) = Append(m, u) => a = m /\ c = u
      <4>1. a \in Nodes /\ c \in 0..256
        BY <3>1
      <4> QED BY <4>1, NodeMore, ZenonT(60)
    <3>3. a = b
      BY <3>1, <3>2
    <3> QED BY <3>3 DEF a, b
  <2>5. j = me.s
    BY <1>2, <2>3, <2>4 DEF GlobState
  <2> QED BY <1>2, <2>2, <2>5
<1>6. /\ Append(q, n) \in Seq(DOMAIN x.glob) /\ Len(Append(q, n)) = Len(q) + 1
      /\ \A k \in 1..Len(q) + 1 : Append(q, n)[k] = IF k <= Len(q) THEN q[k] ELSE n
  <2> HIDE DEF q, n
  <2> QED BY <1>2, <1>4
<1>7. \A l \in x.glob[n].reach : l \in Leaves /\ LeafMatches(l, me.value)
  <2> SUFFICES ASSUME NEW l \in x.glob[n].reach PROVE l \in Leaves /\ LeafMatches(l, me.value)
    OBVIOUS
  <2>1. n \in Nodes /\ l \in Leaves /\ l.kind = "glob" /\ End(l.arg) = Append(n, Spin)
    <3> HIDE DEF n
    <3> QED BY <1>4, NodesAre DEF NodeFits
  <2>2. Len(s) \in me.i..Len(s)
    BY <1>2, <1>4
  <2> HIDE DEF n, s
  <2>3. Runs(Append(n, Spin), s, Len(s))
    BY <1>2, <1>4, <2>1, <2>2, SpinRuns
  <2> QED BY <2>1, <2>3 DEF LeafMatches, s
<1>8. GlobState(new)
  <2>1. \A j, k \in 1..Len(new.next) : new.next[j] = new.next[k] => j = k
    <3> SUFFICES ASSUME NEW j \in 1..Len(q) + 1, NEW k \in 1..Len(q) + 1, Append(q, n)[j] = Append(q, n)[k]
                 PROVE  j = k
      BY <1>3, <1>6
    <3>1. \A i \in 1..Len(q) + 1 : i \in 1..Len(q) \/ i = Len(q) + 1
      BY <1>2
    <3>2. Append(q, n)[Len(q) + 1] = n /\ \A i \in 1..Len(q) : Append(q, n)[i] = q[i]
      BY <1>2, <1>6
    <3>3. \A h, i \in 1..Len(q) : q[h] = q[i] => h = i
      BY <1>2 DEF GlobState
    <3> HIDE DEF q, n
    <3> QED BY <1>5, <3>1, <3>2, <3>3
  <2>2. ASSUME NEW k \in 1..Len(new.next)
        PROVE  /\ Runs(new.next[k], s, me.i)
               /\ \/ Spins(new.next[k])
                  \/ me.i = 0
                  \/ me.i > 0 /\ \E j \in 1..Len(me.cur) : j <= me.s /\ new.next[k] = Append(me.cur[j], s[me.i])
    <3>1. CASE k \in 1..Len(q)
      <4>1. new.next[k] = q[k]
        BY <1>2, <1>3, <1>6, <3>1
      <4>2. /\ Runs(q[k], s, me.i)
            /\ \/ Spins(q[k])
               \/ me.i > 0 /\ \E j \in 1..Len(me.cur) : j < me.s /\ q[k] = Append(me.cur[j], s[me.i])
        BY <1>1, <1>2, <3>1 DEF GlobState, InGlob
      <4>3. \A j \in 1..Len(me.cur) : j < me.s => j <= me.s
        BY <1>2
      <4> QED BY <4>1, <4>2, <4>3
    <3>2. CASE k \notin 1..Len(q)
      <4>1. k = Len(q) + 1 /\ new.next[k] = n
        BY <1>2, <1>3, <1>6, <3>2
      <4>2. me.i > 0 => me.s \in 1..Len(me.cur) /\ me.s <= me.s
        <5>1. me.s # 0
          BY <1>2 DEF GlobState
        <5> QED BY <1>2, <1>4, <5>1
      <4>3. me.i = 0 \/ me.i > 0
        BY <1>2
      <4> QED BY <1>4, <4>1, <4>2, <4>3
    <3> QED BY <3>1, <3>2
  <2>3. new.pc # "enter" /\ new.pc \in InGlob
    BY <1>1 DEF InGlob
  <2>4. \A k \in 1..Len(new.next) :
            /\ Runs(new.next[k], new.value.text, new.i)
            /\ \/ Spins(new.next[k])
               \/ new.i = 0 /\ new.pc # "enter"
               \/ /\ new.i > 0
                  /\ \E j \in 1..Len(new.cur) :
                        /\ IF new.pc = "spin" THEN j <= new.s ELSE j < new.s
                        /\ new.next[k] = Append(new.cur[j], new.value.text[new.i])
    BY <1>1, <1>3, <2>2, <2>3
  <2>5. /\ new.cur \in Seq(DOMAIN x.glob) /\ new.next \in Seq(DOMAIN x.glob)
        /\ new.i \in 0..Len(new.value.text) + 1 /\ new.s \in Nat \ {0}
        /\ new.i = 0 => new.cur = << >>
        /\ \A k \in 1..Len(new.cur) : Runs(new.cur[k], new.value.text, new.i - 1)
        /\ \A j, k \in 1..Len(new.cur) : new.cur[j] = new.cur[k] => j = k
    BY <1>2, <1>3, <1>6 DEF GlobState
  <2>6. /\ new.i <= Len(new.value.text)
        /\ new.node \in DOMAIN x.glob
        /\ Runs(new.node, new.value.text, new.i)
        /\ ~Spins(new.node)
        /\ new.i > 0 => new.s <= Len(new.cur) /\ new.node = Append(new.cur[new.s], new.value.text[new.i])
    BY <1>3, <1>4
  <2> HIDE DEF n, s, q
  <2> QED BY <1>1, <2>1, <2>4, <2>5, <2>6 DEF GlobState
<1>9. Hits(me, new.hits)
  BY <1>2, <1>3, <1>7 DEF Hits
<1>10. new.pc \in {"final"} \cup InGlob
  BY <1>1 DEF InGlob
<1> QED BY <1>1, <1>2, <1>3, <1>8, <1>9, <1>10, GlobReader

Distinct(q) == \A j, k \in 1..Len(q) : q[j] = q[k] => j = k

\* addSpinner adds a node, which is not added again.
LEMMA AddSpinnerIs ==
    ASSUME NEW D, NEW q \in Seq(D), Distinct(q), NEW n \in D
    PROVE  /\ AddSpinner(q, n) \in Seq(D) /\ Distinct(AddSpinner(q, n))
           /\ \A k \in 1..Len(AddSpinner(q, n)) :
                AddSpinner(q, n)[k] = n \/ \E j \in 1..Len(q) : AddSpinner(q, n)[k] = q[j]
           /\ Within(n, AddSpinner(q, n))
           /\ \A e : Within(e, q) => Within(e, AddSpinner(q, n))
<1>1. CASE \E i \in 1..Len(q) : q[i] = n
  <2>1. AddSpinner(q, n) = q
    BY <1>1 DEF AddSpinner
  <2> QED BY <1>1, <2>1 DEF Within
<1>2. CASE ~\E i \in 1..Len(q) : q[i] = n
  <2> DEFINE a == Append(q, n)
  <2>1. AddSpinner(q, n) = a
    BY <1>2 DEF AddSpinner
  <2>2. Len(q) \in Nat /\ a \in Seq(D) /\ Len(a) = Len(q) + 1 /\ a[Len(q) + 1] = n
        /\ \A k \in 1..Len(q) : a[k] = q[k]
    BY LenProperties
  <2> HIDE DEF a
  <2>3. \A k \in 1..Len(a) : k \in 1..Len(q) \/ k = Len(q) + 1
    BY <2>2
  <2>4. Distinct(a)
    <3> SUFFICES ASSUME NEW j \in 1..Len(a), NEW k \in 1..Len(a), a[j] = a[k] PROVE j = k
      BY DEF Distinct
    <3> QED BY <1>2, <2>2, <2>3 DEF Distinct
  <2>5. \A k \in 1..Len(a) : a[k] = n \/ \E j \in 1..Len(q) : a[k] = q[j]
    BY <2>2, <2>3
  <2>6. \A k \in 1..Len(q) + 1 : k \in 1..Len(a)
    BY <2>2
  <2>7. Within(n, a) /\ \A e : Within(e, q) => Within(e, a)
    <3>1. Len(q) + 1 \in 1..Len(q) + 1 /\ \A k \in 1..Len(q) : k \in 1..Len(q) + 1
      BY <2>2
    <3> QED BY <2>2, <2>6, <3>1 DEF Within
  <2> QED BY <2>1, <2>2, <2>4, <2>5, <2>7
<1> QED BY <1>1, <1>2

\* A reader fits when it enters the spinner of a node.
LEMMA EnterSpinKeepsFit ==
    ASSUME IndexFits, NEW me, ReaderFits(me), me.pc = "spin",
           NEW new, new = [me EXCEPT !.pc = "step", !.s = @ + 1,
                                     !.next = IF x.glob[me.node].spin
                                              THEN AddSpinner(@, Append(me.node, Spin)) ELSE @]
    PROVE  ReaderFits(new)
<1> DEFINE n == me.node
           s == me.value.text
           q == me.next
           p == IF x.glob[n].spin THEN AddSpinner(q, Append(n, Spin)) ELSE q
           Held(e) == /\ Runs(e, s, me.i)
                      /\ \/ Spins(e)
                         \/ me.i = 0
                         \/ /\ me.i > 0
                            /\ \E j \in 1..Len(me.cur) : j < me.s + 1 /\ e = Append(me.cur[j], s[me.i])
<1>1. me.pc \in {"final"} \cup InGlob /\ me.pc \in InGlob /\ new.pc = "step"
  BY DEF InGlob, ReaderFits, Fields
<1>2. /\ DOMAIN me = Fields /\ me.stage = "glob" /\ GlobState(me) /\ Hits(me, me.hits)
      /\ s \in Strings /\ Len(s) \in Nat /\ Len(me.cur) \in Nat /\ me.s \in Nat \ {0} /\ me.i \in Nat
  BY <1>1, GlobReaderIs
<1>3. /\ DOMAIN new = Fields /\ new.stage = me.stage /\ new.value = me.value /\ new.kinds = me.kinds
      /\ new.ready = me.ready /\ new.hits = me.hits /\ new.node = n /\ new.i = me.i
      /\ new.cur = me.cur /\ new.next = p /\ new.s = me.s + 1
  BY <1>2 DEF Fields
<1>4. /\ n \in DOMAIN x.glob /\ Runs(n, s, me.i) /\ n \in Nodes /\ me.i \in 0..Len(s)
      /\ q \in Seq(DOMAIN x.glob) /\ Distinct(q)
  <2>1. n \in DOMAIN x.glob /\ Runs(n, s, me.i) /\ me.i <= Len(s) /\ q \in Seq(DOMAIN x.glob) /\ Distinct(q)
    BY <1>1, <1>2 DEF GlobState, Distinct
  <2> QED BY <1>2, <2>1, NodesAre
<1>5. \A k \in 1..Len(q) : Held(q[k])
  <2>1. \A j \in 1..Len(me.cur) : j <= me.s => j < me.s + 1
    BY <1>2
  <2> QED BY <1>1, <1>2, <2>1 DEF GlobState
<1>6. p \in Seq(DOMAIN x.glob) /\ Distinct(p) /\ \A k \in 1..Len(p) : Held(p[k])
  <2>1. CASE x.glob[n].spin
    <3> DEFINE m == Append(n, Spin)
    <3>1. m \in DOMAIN x.glob
      <4> HIDE DEF n
      <4> QED BY <1>4, <2>1, NodesAre DEF NodeFits
    <3>2. Held(m)
      <4>1. me.i \in me.i..Len(s) /\ Spin \in 0..256
        BY <1>4 DEF Spin
      <4> HIDE DEF n, s
      <4>2. Runs(Append(n, Spin), s, me.i)
        BY <1>2, <1>4, <4>1, SpinRuns
      <4>3. Spins(Append(n, Spin))
        BY <1>4, <4>1, NodeMore, Zenon
      <4> QED BY <4>2, <4>3
    <3>3. p = AddSpinner(q, m)
      BY <2>1
    <3> HIDE DEF p, q, m, Held
    <3>4. /\ AddSpinner(q, m) \in Seq(DOMAIN x.glob) /\ Distinct(AddSpinner(q, m))
          /\ \A k \in 1..Len(AddSpinner(q, m)) :
                AddSpinner(q, m)[k] = m \/ \E j \in 1..Len(q) : AddSpinner(q, m)[k] = q[j]
      BY <1>4, <3>1, AddSpinnerIs
    <3> QED BY <1>5, <3>2, <3>3, <3>4
  <2>2. CASE ~x.glob[n].spin
    BY <1>4, <1>5, <2>2
  <2> QED BY <2>1, <2>2
<1> HIDE DEF p, q, n
<1>7. GlobState(new)
  <2>1. /\ new.cur \in Seq(DOMAIN x.glob) /\ new.next \in Seq(DOMAIN x.glob)
        /\ new.i \in 0..Len(new.value.text) + 1 /\ new.s \in Nat \ {0}
        /\ new.i = 0 => new.cur = << >>
        /\ \A k \in 1..Len(new.cur) : Runs(new.cur[k], new.value.text, new.i - 1)
        /\ \A j, k \in 1..Len(new.cur) : new.cur[j] = new.cur[k] => j = k
        /\ \A j, k \in 1..Len(new.next) : new.next[j] = new.next[k] => j = k
        /\ new.i <= Len(new.value.text)
    BY <1>2, <1>3, <1>4, <1>6 DEF GlobState, Distinct
  <2>2. \A k \in 1..Len(new.next) :
            /\ Runs(new.next[k], new.value.text, new.i)
            /\ \/ Spins(new.next[k])
               \/ new.i = 0 /\ new.pc # "enter"
               \/ /\ new.i > 0
                  /\ \E j \in 1..Len(new.cur) :
                        /\ IF new.pc = "spin" THEN j <= new.s ELSE j < new.s
                        /\ new.next[k] = Append(new.cur[j], new.value.text[new.i])
    BY <1>1, <1>3, <1>6, SMTT(30)
  <2> QED BY <1>1, <2>1, <2>2 DEF GlobState, InGlob
<1>8. Hits(me, new.hits) /\ new.pc \in {"final"} \cup InGlob
  BY <1>1, <1>2, <1>3 DEF InGlob
<1> QED BY <1>1, <1>2, <1>3, <1>7, <1>8, GlobReader

\* What one node of cur does to a reader.
Here(me) == me.cur[me.s]
Byte(me) == me.value.text[me.i]
Kept(me) == IF Spins(Here(me)) THEN AddSpinner(me.next, Here(me)) ELSE me.next
Stepped(me) ==
    IF Byte(me) \in x.glob[Here(me)].kids.set
    THEN [me EXCEPT !.pc = "enter", !.node = Get(x.glob[Here(me)].kids, Byte(me)), !.next = Kept(me)]
    ELSE [me EXCEPT !.s = @ + 1, !.next = Kept(me)]

\* A node of cur is stepped: a kid that is there is entered.
LEMMA StepKeepsFit ==
    ASSUME IndexFits, NEW me, ReaderFits(me), me.pc = "step", me.s <= Len(me.cur)
    PROVE  /\ ReaderFits(Stepped(me))
           /\ me.i \in 1..Len(me.value.text) /\ Byte(me) \in 0..255
           /\ me.s \in 1..Len(me.cur) /\ Here(me) \in DOMAIN x.glob
           /\ Stepped(me) = IF Append(Here(me), Byte(me)) \in DOMAIN x.glob
                            THEN [me EXCEPT !.pc = "enter", !.node = Append(Here(me), Byte(me)), !.next = Kept(me)]
                            ELSE [me EXCEPT !.s = @ + 1, !.next = Kept(me)]
<1> DEFINE s == me.value.text
           q == me.next
           i == me.i
           n == Here(me)
           c == Byte(me)
           kids == x.glob[n].kids
           next == Kept(me)
           new == Stepped(me)
           Held(e) == /\ Runs(e, s, i)
                      /\ \/ Spins(e)
                         \/ \E j \in 1..Len(me.cur) : j < me.s /\ e = Append(me.cur[j], s[i])
<1>0. /\ n = me.cur[me.s] /\ c = s[i] /\ next = IF Spins(n) THEN AddSpinner(q, n) ELSE q
      /\ new = IF c \in kids.set THEN [me EXCEPT !.pc = "enter", !.node = Get(kids, c), !.next = next]
               ELSE [me EXCEPT !.s = @ + 1, !.next = next]
  BY DEF Here, Byte, Kept, Stepped
<1> HIDE DEF n, c, next, new
<1>1. me.pc \in {"final"} \cup InGlob /\ me.pc \in InGlob
  BY DEF InGlob
<1>2. /\ DOMAIN me = Fields /\ me.stage = "glob" /\ GlobState(me) /\ Hits(me, me.hits)
      /\ s \in Strings /\ Len(s) \in Nat /\ Len(me.cur) \in Nat /\ me.s \in Nat \ {0} /\ i \in Nat
      /\ \A k \in 1..Len(s) : s[k] \in Bytes
      /\ \A k \in 1..Len(me.cur) : me.cur[k] \in DOMAIN x.glob /\ me.cur[k] \in Nodes
  BY <1>1, GlobReaderIs
<1>3. me.s \in 1..Len(me.cur) /\ i \in 1..Len(s) /\ i - 1 \in 0..Len(s) /\ i \in i - 1..Len(s)
  <2>1. me.s \in 1..Len(me.cur)
    BY <1>2
  <2>2. i <= Len(s) /\ (i = 0 => me.cur = << >>)
    BY <1>1, <1>2 DEF GlobState
  <2>3. i # 0
    <3>1. Len(<< >>) = 0
      OBVIOUS
    <3> QED BY <2>1, <2>2, <3>1
  <2> QED BY <1>2, <2>1, <2>2, <2>3
<1>4. n \in DOMAIN x.glob /\ n \in Nodes /\ Runs(n, s, i - 1) /\ c \in Bytes
  BY <1>0, <1>2, <1>3 DEF GlobState
<1>5. /\ kids.set = {b \in Bytes : Append(n, b) \in DOMAIN x.glob}
      /\ c \in kids.set => Get(kids, c) = Append(n, c)
  <2> DEFINE B == {b \in Bytes : Append(n, b) \in DOMAIN x.glob}
  <2>1. B \in SUBSET Bytes
    OBVIOUS
  <2>2. ByteMapFits(kids, B, n)
    BY <1>4, NodesAre DEF NodeFits
  <2>3. kids.set = B
    BY <2>2 DEF ByteMapFits
  <2> HIDE DEF B
  <2>4. c \in B => Get(kids, c) = Append(n, c)
    BY <2>1, <2>2, GetIs
  <2> QED BY <2>3, <2>4 DEF B
<1>6. c \in kids.set <=> Append(n, c) \in DOMAIN x.glob
  BY <1>4, <1>5
<1>7. q \in Seq(DOMAIN x.glob) /\ Distinct(q) /\ \A k \in 1..Len(q) : Held(q[k])
  <2>1. q \in Seq(DOMAIN x.glob) /\ Distinct(q)
    BY <1>2 DEF GlobState, Distinct
  <2>2. i # 0
    BY <1>3
  <2>3. \A k \in 1..Len(q) : Held(q[k])
    <3> HIDE DEF s
    <3> QED BY <1>1, <1>2, <2>2 DEF GlobState, s
  <2> QED BY <2>1, <2>3
<1> HIDE DEF kids
<1>8. next \in Seq(DOMAIN x.glob) /\ Distinct(next) /\ \A k \in 1..Len(next) : Held(next[k])
  <2>1. CASE Spins(n)
    <3>1. Held(n)
      <4> HIDE DEF s, i
      <4>1. Runs(n, s, i)
        BY <1>2, <1>3, <1>4, <2>1, SpinStays
      <4> QED BY <2>1, <4>1
    <3>2. next = AddSpinner(q, n)
      BY <1>0, <2>1
    <3> HIDE DEF q, Held
    <3>3. /\ AddSpinner(q, n) \in Seq(DOMAIN x.glob) /\ Distinct(AddSpinner(q, n))
          /\ \A k \in 1..Len(AddSpinner(q, n)) :
                AddSpinner(q, n)[k] = n \/ \E j \in 1..Len(q) : AddSpinner(q, n)[k] = q[j]
      BY <1>4, <1>7, AddSpinnerIs
    <3> QED BY <1>7, <3>1, <3>2, <3>3
  <2>2. CASE ~Spins(n)
    <3>1. next = q
      BY <1>0, <2>2
    <3> QED BY <1>7, <3>1
  <2> QED BY <2>1, <2>2
<1>9. CASE c \in kids.set
  <2> DEFINE node == Append(n, c)
  <2>1. new = [me EXCEPT !.pc = "enter", !.node = node, !.next = next]
    BY <1>0, <1>5, <1>9
  <2>2. /\ DOMAIN new = Fields /\ new.stage = me.stage /\ new.value = me.value /\ new.kinds = me.kinds
        /\ new.ready = me.ready /\ new.hits = me.hits /\ new.node = node /\ new.i = i
        /\ new.cur = me.cur /\ new.next = next /\ new.s = me.s /\ new.pc = "enter"
    <3> HIDE DEF node
    <3> QED BY <1>2, <2>1 DEF Fields
  <2>3. node \in DOMAIN x.glob /\ Runs(node, s, i) /\ ~Spins(node)
    <3>1. Runs(Append(n, s[i]), s, i)
      <4> HIDE DEF s, i
      <4> QED BY <1>2, <1>3, <1>4, ByteRuns
    <3>2. c \in 0..256 /\ c # Spin
      <4> HIDE DEF s, node
      <4> QED BY <1>4, SMTT(30) DEF Bytes, Spin
    <3>3. ~Spins(Append(n, c))
      BY <1>4, <3>2, NodeMore, Zenon
    <3> QED BY <1>0, <1>6, <1>9, <3>1, <3>3
  <2>4. GlobState(new)
    <3>1. /\ new.cur \in Seq(DOMAIN x.glob) /\ new.next \in Seq(DOMAIN x.glob)
          /\ new.i \in 0..Len(new.value.text) + 1 /\ new.s \in Nat \ {0}
          /\ new.i = 0 => new.cur = << >>
          /\ \A k \in 1..Len(new.cur) : Runs(new.cur[k], new.value.text, new.i - 1)
          /\ \A j, k \in 1..Len(new.cur) : new.cur[j] = new.cur[k] => j = k
          /\ \A j, k \in 1..Len(new.next) : new.next[j] = new.next[k] => j = k
          /\ new.i <= Len(new.value.text) /\ new.i > 0
      BY <1>2, <1>3, <1>8, <2>2 DEF GlobState, Distinct
    <3>2. \A k \in 1..Len(new.next) :
            /\ Runs(new.next[k], new.value.text, new.i)
            /\ \/ Spins(new.next[k])
               \/ new.i = 0 /\ new.pc # "enter"
               \/ /\ new.i > 0
                  /\ \E j \in 1..Len(new.cur) :
                        /\ IF new.pc = "spin" THEN j <= new.s ELSE j < new.s
                        /\ new.next[k] = Append(new.cur[j], new.value.text[new.i])
      <4>1. /\ new.next = next /\ new.cur = me.cur /\ new.value = me.value /\ new.i = i /\ new.s = me.s
            /\ new.pc # "spin" /\ new.i > 0
        BY <2>2, <3>1
      <4> HIDE DEF node, i
      <4> QED BY <1>8, <4>1, Zenon
    <3>3. /\ new.node \in DOMAIN x.glob
          /\ Runs(new.node, new.value.text, new.i)
          /\ ~Spins(new.node)
          /\ new.s <= Len(new.cur) /\ new.node = Append(new.cur[new.s], new.value.text[new.i])
      BY <1>0, <1>3, <2>2, <2>3, Zenon
    <3> HIDE DEF node
    <3> QED BY <2>2, <3>1, <3>2, <3>3 DEF GlobState, InGlob
  <2>5. Hits(me, new.hits) /\ new.pc \in {"final"} \cup InGlob
    BY <1>2, <2>2 DEF InGlob
  <2>6. ReaderFits(new)
    BY <1>1, <1>2, <2>2, <2>4, <2>5, GlobReader
  <2>7. c \in 0..255 /\ me.s \in 1..Len(me.cur)
    BY <1>3, <1>4 DEF Bytes
  <2> QED BY <1>3, <1>4, <1>6, <1>9, <2>1, <2>6, <2>7 DEF new, n, c, next
<1>10. CASE c \notin kids.set
  <2>1. new = [me EXCEPT !.s = @ + 1, !.next = next]
    BY <1>0, <1>10
  <2>2. /\ DOMAIN new = Fields /\ new.stage = me.stage /\ new.value = me.value /\ new.kinds = me.kinds
        /\ new.ready = me.ready /\ new.hits = me.hits /\ new.i = i
        /\ new.cur = me.cur /\ new.next = next /\ new.s = me.s + 1 /\ new.pc = "step"
    BY <1>2, <2>1 DEF Fields
  <2>3. GlobState(new)
    <3>1. /\ new.cur \in Seq(DOMAIN x.glob) /\ new.next \in Seq(DOMAIN x.glob)
          /\ new.i \in 0..Len(new.value.text) + 1 /\ new.s \in Nat \ {0}
          /\ new.i = 0 => new.cur = << >>
          /\ \A k \in 1..Len(new.cur) : Runs(new.cur[k], new.value.text, new.i - 1)
          /\ \A j, k \in 1..Len(new.cur) : new.cur[j] = new.cur[k] => j = k
          /\ \A j, k \in 1..Len(new.next) : new.next[j] = new.next[k] => j = k
          /\ new.i <= Len(new.value.text) /\ new.i > 0
      BY <1>2, <1>3, <1>8, <2>2 DEF GlobState, Distinct
    <3>2. \A j \in 1..Len(me.cur) : j < me.s => j < me.s + 1
      BY <1>2
    <3>3. \A k \in 1..Len(new.next) :
            /\ Runs(new.next[k], new.value.text, new.i)
            /\ \/ Spins(new.next[k])
               \/ new.i = 0 /\ new.pc # "enter"
               \/ /\ new.i > 0
                  /\ \E j \in 1..Len(new.cur) :
                        /\ IF new.pc = "spin" THEN j <= new.s ELSE j < new.s
                        /\ new.next[k] = Append(new.cur[j], new.value.text[new.i])
      BY <1>8, <2>2, <3>1, <3>2
    <3> QED BY <2>2, <3>1, <3>3 DEF GlobState, InGlob
  <2>4. Hits(me, new.hits) /\ new.pc \in {"final"} \cup InGlob
    BY <1>2, <2>2 DEF InGlob
  <2>5. ReaderFits(new)
    BY <1>1, <1>2, <2>2, <2>3, <2>4, GlobReader
  <2>6. c \in 0..255 /\ me.s \in 1..Len(me.cur)
    BY <1>3, <1>4 DEF Bytes
  <2> QED BY <1>3, <1>4, <1>6, <1>10, <2>1, <2>5, <2>6 DEF new, n, c, next
<1> QED BY <1>9, <1>10

\* The nodes of next are those of the next byte.
LEMMA NextByteKeepsFit ==
    ASSUME IndexFits, NEW me, ReaderFits(me), me.pc = "step",
           NEW new, new = [me EXCEPT !.cur = me.next, !.next = << >>, !.i = @ + 1, !.s = 1,
                                     !.pc = IF me.i < Len(me.value.text) /\ me.next # << >>
                                            THEN "step" ELSE "final"]
    PROVE  ReaderFits(new)
<1> DEFINE s == me.value.text
           q == me.next
           i == me.i
<1>1. me.pc \in {"final"} \cup InGlob /\ me.pc \in InGlob
  BY DEF InGlob
<1>2. /\ DOMAIN me = Fields /\ me.stage = "glob" /\ GlobState(me) /\ Hits(me, me.hits)
      /\ Len(s) \in Nat /\ i \in Nat
  BY <1>1, GlobReaderIs
<1>3. /\ DOMAIN new = Fields /\ new.stage = me.stage /\ new.value = me.value /\ new.kinds = me.kinds
      /\ new.ready = me.ready /\ new.hits = me.hits /\ new.i = i + 1
      /\ new.cur = q /\ new.next = << >> /\ new.s = 1
      /\ new.pc = IF i < Len(s) /\ q # << >> THEN "step" ELSE "final"
  BY <1>2 DEF Fields
<1>4. new.i - 1 = i /\ new.i # 0 /\ i <= Len(s)
  BY <1>1, <1>2, <1>3 DEF GlobState
<1>5. GlobState(new)
  <2>1. << >> \in Seq(DOMAIN x.glob) /\ Len(<< >>) = 0
    OBVIOUS
  <2>2. /\ new.cur \in Seq(DOMAIN x.glob) /\ new.next \in Seq(DOMAIN x.glob)
        /\ new.i \in 0..Len(new.value.text) + 1 /\ new.s \in Nat \ {0}
        /\ new.i = 0 => new.cur = << >>
        /\ \A j, k \in 1..Len(new.cur) : new.cur[j] = new.cur[k] => j = k
        /\ \A j, k \in 1..Len(new.next) : new.next[j] = new.next[k] => j = k
    BY <1>2, <1>3, <1>4, <2>1 DEF GlobState
  <2>3. \A k \in 1..Len(new.cur) : Runs(new.cur[k], new.value.text, new.i - 1)
    <3>1. \A k \in 1..Len(q) : Runs(q[k], s, i)
      BY <1>1, <1>2 DEF GlobState
    <3> QED BY <1>3, <1>4, <3>1
  <2>4. new.pc = "step" => new.i <= Len(new.value.text)
    BY <1>2, <1>3, <1>4
  <2>5. new.pc = "final" /\ new.cur # << >> => new.i - 1 = Len(new.value.text)
    BY <1>2, <1>3, <1>4
  <2>6. \A k \in 1..Len(new.next) : FALSE
    BY <1>3, <2>1
  <2>7. new.pc \in {"step", "final"}
    BY <1>3
  <2> QED BY <1>3, <2>2, <2>3, <2>4, <2>5, <2>6, <2>7 DEF GlobState, InGlob
<1>6. Hits(me, new.hits) /\ new.pc \in {"final"} \cup InGlob
  BY <1>2, <1>3 DEF InGlob
<1> QED BY <1>1, <1>2, <1>3, <1>5, <1>6, GlobReader

\* The nodes that are left after the last byte.
LEMMA FinalKeepsFit ==
    ASSUME IndexFits, NEW me, ReaderFits(me), me.pc = "final", me.s <= Len(me.cur),
           NEW new, new = [me EXCEPT !.s = @ + 1, !.hits = @ \cup x.glob[me.cur[me.s]].final]
    PROVE  ReaderFits(new)
<1> DEFINE s == me.value.text
           n == me.cur[me.s]
<1>1. me.pc \in {"final"} \cup InGlob
  BY DEF InGlob
<1>2. /\ DOMAIN me = Fields /\ me.stage = "glob" /\ GlobState(me) /\ Hits(me, me.hits)
      /\ s \in Strings /\ Len(s) \in Nat /\ Len(me.cur) \in Nat /\ me.s \in Nat \ {0}
      /\ \A k \in 1..Len(me.cur) : me.cur[k] \in DOMAIN x.glob /\ me.cur[k] \in Nodes
  BY <1>1, GlobReaderIs
<1>3. /\ DOMAIN new = Fields /\ new.stage = me.stage /\ new.value = me.value /\ new.kinds = me.kinds
      /\ new.ready = me.ready /\ new.hits = me.hits \cup x.glob[n].final /\ new.i = me.i
      /\ new.cur = me.cur /\ new.next = me.next /\ new.s = me.s + 1 /\ new.pc = "final" /\ new.node = me.node
  BY <1>2 DEF Fields
<1>4. me.s \in 1..Len(me.cur) /\ me.i - 1 = Len(s)
  <2>1. me.s \in 1..Len(me.cur)
    BY <1>2
  <2>2. me.cur # << >>
    <3>1. Len(<< >>) = 0
      OBVIOUS
    <3> QED BY <2>1, <3>1
  <2> QED BY <1>2, <2>1, <2>2 DEF GlobState
<1>5. n \in DOMAIN x.glob /\ Runs(n, s, Len(s))
  BY <1>2, <1>4 DEF GlobState
<1>6. \A l \in x.glob[n].final : l \in Leaves /\ LeafMatches(l, me.value)
  <2> SUFFICES ASSUME NEW l \in x.glob[n].final PROVE l \in Leaves /\ LeafMatches(l, me.value)
    OBVIOUS
  <2>1. l \in Leaves /\ l.kind = "glob" /\ End(l.arg) = n
    <3> HIDE DEF n
    <3> QED BY <1>5, NodesAre DEF NodeFits
  <2> QED BY <1>5, <2>1 DEF LeafMatches
<1>7. GlobState(new)
  <2>1. new.s \in Nat \ {0}
    BY <1>2, <1>3
  <2> QED BY <1>2, <1>3, <2>1 DEF GlobState, InGlob
<1>8. Hits(me, new.hits)
  BY <1>2, <1>3, <1>6 DEF Hits
<1>9. me.pc \in {"load", "final"} \cup InGlob /\ new.pc \in {"final"} \cup InGlob
  BY <1>1, <1>3
<1> QED BY <1>2, <1>3, <1>7, <1>8, <1>9, GlobReader

\* After the automaton a reader is between two structures.
LEMMA LeaveGlobFits ==
    ASSUME NEW me, ReaderFits(me), me.pc = "final",
           NEW new, new = [me EXCEPT !.cur = << >>, !.s = 1]
    PROVE  Base(new)
<1>1. Base(me)
  BY BaseOf
<1> QED BY <1>1 DEF Base, Fields

-----------------------------------------------------------------------------
(* Every step keeps the readers fit.                                       *)

\* Every step of a reader leads to one that fits.
LEMMA ReaderKeepsFit ==
    ASSUME IndexFits, NEW r \in Readers, ReaderFits(rd[r]), Reader(r)
    PROVE  \E me : ReaderFits(me) /\ Set(r, me)
<1> DEFINE me == rd[r]
<1>1. CASE \E v \in ValuesOf[patterns] : Collect(r, v)
  BY <1>1, CollectKeepsFit
<1>2. CASE LoadEquals(r) \/ LoadLens(r) \/ LoadCidr(r) \/ Lookup(r) \/ LoadNumber(r) \/ LoadExists(r)
           \/ LoadGlob(r) \/ Rest(r)
  BY <1>2, LoadEqualsKeepsFit, LoadLensKeepsFit, LoadCidrKeepsFit, LookupKeepsFit, LoadNumberKeepsFit,
     LoadExistsKeepsFit, LoadGlobKeepsFit, RestKeepsFit
<1>3. CASE Enter(r)
  <2> DEFINE new == [me EXCEPT !.pc = "spin", !.next = Append(@, me.node), !.hits = @ \cup x.glob[me.node].reach]
  <2>1. me.pc = "enter" /\ Set(r, new)
    BY <1>3 DEF Enter
  <2>2. ReaderFits(new)
    BY <2>1, EnterKeepsFit
  <2> QED BY <2>1, <2>2
<1>4. CASE EnterSpin(r)
  <2> DEFINE new == [me EXCEPT !.pc = "step", !.s = @ + 1,
                               !.next = IF x.glob[me.node].spin
                                        THEN AddSpinner(@, Append(me.node, Spin)) ELSE @]
  <2>1. me.pc = "spin" /\ Set(r, new)
    BY <1>4 DEF EnterSpin
  <2>2. ReaderFits(new)
    BY <2>1, EnterSpinKeepsFit
  <2> QED BY <2>1, <2>2
<1>5. CASE Step(r)
  <2>1. me.pc = "step" /\ me.s <= Len(me.cur) /\ Set(r, Stepped(me))
    BY <1>5, Zenon DEF Step, Stepped, Kept, Here, Byte, Spins, Text
  <2> HIDE DEF me
  <2>2. ReaderFits(me)
    BY SMTT(30) DEF me
  <2>3. ReaderFits(Stepped(me))
    BY <2>1, <2>2, StepKeepsFit, Zenon
  <2> QED BY <2>1, <2>3, SMTT(30)
<1>6. CASE NextByte(r)
  <2> DEFINE new == [me EXCEPT !.cur = me.next, !.next = << >>, !.i = @ + 1, !.s = 1,
                               !.pc = IF me.i < Len(me.value.text) /\ me.next # << >> THEN "step" ELSE "final"]
  <2>1. me.pc = "step" /\ Set(r, new)
    BY <1>6 DEF NextByte, Text
  <2>2. ReaderFits(new)
    BY <2>1, NextByteKeepsFit
  <2> QED BY <2>1, <2>2
<1>7. CASE Final(r)
  <2>1. CASE me.s > Len(me.cur)
    <3> DEFINE new == [me EXCEPT !.cur = << >>, !.s = 1]
    <3>1. me.pc = "final" /\ Set(r, Leave(new))
      BY <1>7, <2>1 DEF Final
    <3>2. Base(new)
      BY <3>1, LeaveGlobFits
    <3> HIDE DEF new
    <3> QED BY <3>1, <3>2, LeaveFits
  <2>2. CASE ~(me.s > Len(me.cur))
    <3> DEFINE new == [me EXCEPT !.s = @ + 1, !.hits = @ \cup x.glob[me.cur[me.s]].final]
    <3>1. me.pc = "final" /\ Set(r, new)
      BY <1>7, <2>2 DEF Final
    <3>2. me.s <= Len(me.cur)
      <4>1. me.pc \in {"final"} \cup InGlob
        BY <3>1
      <4> HIDE DEF me
      <4>2. ReaderFits(me)
        BY DEF me
      <4>3. me.s \in Nat /\ Len(me.cur) \in Nat
        BY <4>1, <4>2, GlobReaderIs
      <4> QED BY <2>2, <4>3
    <3>3. ReaderFits(new)
      BY <3>1, <3>2, FinalKeepsFit
    <3> QED BY <3>1, <3>3
  <2> QED BY <2>1, <2>2
<1> QED BY <1>1, <1>2, <1>3, <1>4, <1>5, <1>6, <1>7 DEF Reader

\* The writer's steps only add to the index.
LEMMA WriterGrows ==
    ASSUME IndexFits, Writer
    PROVE  /\ patterns' = patterns /\ rd' = rd /\ added \subseteq added'
           /\ DOMAIN x.glob \subseteq DOMAIN x'.glob
<1>1. patterns' = patterns /\ rd' = rd /\ added \subseteq added'
  BY Zenon DEF Writer, Add, PutEquals, PutAffix, AddLength, InsertToken, InsertAccept, PutExists, PutNumber,
         PutPrefix, AddPrefixLength, OrKind
<1> SUFFICES DOMAIN x.glob \subseteq DOMAIN x'.glob
  BY <1>1
<1>2. DOMAIN x = {"equals", "prefix", "suffix", "lens", "glob", "exists", "number", "cidr", "cidrLens", "kinds"}
  BY DEF IndexFits, TablesFit
<1>3. CASE InsertToken
  <2> DEFINE spin == Arg[w.i] = Star
             child == Append(w.node, IF spin THEN Spin ELSE Arg[IF Arg[w.i] = Backslash THEN w.i + 1 ELSE w.i])
  <2>1. x' = IF child \in DOMAIN x.glob THEN x ELSE [x EXCEPT !.glob = Linked(w.node, child, spin)]
    BY <1>3 DEF InsertToken
  <2> HIDE DEF child, spin
  <2>2. DOMAIN x.glob \subseteq DOMAIN Linked(w.node, child, spin)
    BY DEF Linked
  <2>3. x' = x \/ x'.glob = Linked(w.node, child, spin)
    <3> HIDE DEF Linked
    <3> QED BY <1>2, <2>1
  <2> QED BY <2>2, <2>3
<1>4. CASE InsertAccept
  <2> DEFINE at == IF w.i = Len(Arg) THEN [x.glob[w.node] EXCEPT !.reach = @ \cup {w.leaf}]
                   ELSE [x.glob[w.node] EXCEPT !.final = @ \cup {w.leaf}]
  <2>1. x' = [x EXCEPT !.glob = [@ EXCEPT ![w.node] = at]]
    BY <1>4 DEF InsertAccept
  <2> HIDE DEF at
  <2> QED BY <1>2, <2>1
<1>5. CASE AddPrefixLength
  <2>1. \E new : x' = [x EXCEPT !.cidrLens = new]
    BY <1>5 DEF AddPrefixLength
  <2> QED BY <1>2, <2>1
<1>6. CASE AddLength
  <2>1. \E new : x' = [x EXCEPT !.lens = new]
    BY <1>6 DEF AddLength
  <2> QED BY <1>2, <2>1
<1>7. CASE PutAffix
  <2>1. w.leaf.kind \in Affixes
    BY <1>7 DEF PutAffix, IndexFits, WriterFits, Affixes
  <2>2. \E new : x' = [x EXCEPT ![w.leaf.kind] = new]
    BY <1>7 DEF PutAffix
  <2>3. w.leaf.kind # "glob"
    BY <2>1 DEF Affixes
  <2> QED BY <1>2, <2>2, <2>3
<1>8. CASE PutNumber
  <2>1. \E new : x' = [x EXCEPT !.number = new]
    BY <1>8 DEF PutNumber
  <2> QED BY <1>2, <2>1
<1>9. CASE PutPrefix \/ PutEquals \/ PutExists \/ OrKind \/ \E l \in LeavesOf[patterns] : Add(l)
  BY <1>2, <1>9 DEF PutPrefix, PutEquals, PutExists, OrKind, Add
<1> QED BY <1>3, <1>4, <1>5, <1>6, <1>7, <1>8, <1>9, SMTT(30) DEF Writer

\* The readers fit at first.
LEMMA ReadersInit == Init => ReadersFit
<1> SUFFICES ASSUME Init PROVE ReadersFit
  OBVIOUS
<1>1. rd = [r \in Readers |-> IdleReader]
  BY DEF Init
<1>2. /\ DOMAIN IdleReader = Fields /\ IdleReader.pc = "idle" /\ IdleReader.ready = {} /\ IdleReader.kinds = {}
      /\ IdleReader.next = << >> /\ IdleReader.hits = {}
  BY DEF IdleReader, Fields
<1>3. ReaderFits(IdleReader)
  BY <1>2 DEF ReaderFits, InGlob
<1> HIDE DEF IdleReader
<1> QED BY <1>1, <1>3 DEF ReadersFit

\* Every step keeps the readers fit.
LEMMA ReadersNext == IndexFits /\ ReadersFit /\ [Next]_vars => ReadersFit'
<1> SUFFICES ASSUME IndexFits, ReadersFit, [Next]_vars PROVE ReadersFit'
  OBVIOUS
<1>1. ASSUME rd' = rd, patterns' = patterns, added \subseteq added', DOMAIN x.glob \subseteq DOMAIN x'.glob
      PROVE  ReadersFit'
  <2>1. \A me : ReaderFits(me) => ReaderFits(me)'
    <3> TAKE me
    <3> HAVE ReaderFits(me)
    <3> QED BY <1>1, ReaderStays
  <2> QED BY <1>1, <2>1 DEF ReadersFit
<1>2. CASE UNCHANGED vars
  BY <1>1, <1>2 DEF vars
<1>3. CASE Writer
  BY <1>1, <1>3, WriterGrows
<1>4. CASE \E r \in Readers : Reader(r)
  <2>1. PICK r \in Readers : Reader(r)
    BY <1>4
  <2>2. ReaderFits(rd[r])
    BY DEF ReadersFit
  <2>3. PICK me : ReaderFits(me) /\ Set(r, me)
    BY <2>1, <2>2, ReaderKeepsFit
  <2> QED BY <2>3, SetFits
<1> QED BY <1>2, <1>3, <1>4 DEF Next

-----------------------------------------------------------------------------
(* No structure is skipped that holds a missing leaf.                      *)

\* Every leaf has a stage, which is wanted if its kind was seen.
LEMMA StageOfLeaf ==
    ASSUME NEW l, IsLeaf(l), NEW kinds, l.kind \in kinds
    PROVE  /\ StageOf(l) \in StageNames /\ Wanted(kinds, StageOf(l))
           /\ StageOf(l) = "lens" <=> l.kind \in Affixes
           /\ \A kind \in LeafKinds \ Affixes : StageOf(l) = kind <=> l.kind = kind
<1>1. l.kind \in LeafKinds
  BY DEF IsLeaf
<1>2. \A stage \in {"equals", "lens", "glob", "number", "cidr", "exists"} : stage \in StageNames
  <2>1. 1 \in 1..6 /\ 2 \in 1..6 /\ 3 \in 1..6 /\ 4 \in 1..6 /\ 5 \in 1..6 /\ 6 \in 1..6
    OBVIOUS
  <2> QED BY <2>1 DEF StageNames, Stages
<1>3. CASE l.kind \in Affixes
  <2>1. StageOf(l) = "lens"
    BY <1>3 DEF StageOf
  <2>2. Wanted(kinds, "lens")
    BY <1>3 DEF Wanted, Affixes
  <2> QED BY <1>2, <1>3, <2>1, <2>2 DEF Affixes, LeafKinds
<1>4. CASE l.kind \notin Affixes
  <2>1. StageOf(l) = l.kind /\ l.kind # "lens"
    BY <1>1, <1>4 DEF StageOf, LeafKinds
  <2>2. Wanted(kinds, l.kind)
    BY <2>1 DEF Wanted
  <2> QED BY <1>1, <1>2, <1>4, <2>1, <2>2 DEF Affixes, LeafKinds
<1> QED BY <1>3, <1>4

\* A leaf that matches is found already, or in a later structure.
Later(me, l) == StageNo(me.stage) < StageNo(StageOf(l))

\* The leaves that were there when the call began are published.
LEMMA ReadyAre ==
    ASSUME IndexFits, NEW me, me.ready \subseteq added, NEW l \in me.ready
    PROVE  Published(l) /\ IsLeaf(l) /\ l \in Leaves /\ l \in Done
<1>1. l \in added /\ added \subseteq Leaves /\ added \subseteq Done
  BY DEF IndexFits, WriterFits, Done
<1> QED BY <1>1, LeavesAre DEF IndexFits, WriterFits

\* The next structure is the first wanted one, so none that holds a leaf is skipped.
LEMMA LeaveCovers ==
    ASSUME IndexFits, NEW me, Base(me),
           \A l \in me.ready : LeafMatches(l, me.value) => l \in me.hits \/ Later(me, l)
    PROVE  Covers(Leave(me))
<1> DEFINE no == StageNo(me.stage)
           new == Leave(me)
<1>1. DOMAIN me = Fields /\ me.stage \in {"-"} \cup StageNames /\ no \in 0..6
  BY StagesAre DEF Base
<1>2. /\ new.value = me.value /\ new.ready = me.ready /\ new.hits = me.hits
      /\ \/ /\ new.pc = "done"
            /\ \A j \in no + 1..6 : ~Wanted(me.kinds, Stages[j])
         \/ \E k \in no + 1..6 : /\ new.pc = "load" /\ new.stage = Stages[k]
                                 /\ \A j \in no + 1..k - 1 : ~Wanted(me.kinds, Stages[j])
  <2>1. CASE /\ new = [me EXCEPT !.pc = "done"]
             /\ \A j \in no + 1..6 : ~Wanted(me.kinds, Stages[j])
    <3> HIDE DEF new, no
    <3> QED BY <1>1, <2>1 DEF Fields
  <2>2. ASSUME NEW k \in no + 1..6, new = [me EXCEPT !.pc = "load", !.stage = Stages[k]],
               \A j \in no + 1..k - 1 : ~Wanted(me.kinds, Stages[j])
        PROVE  /\ new.value = me.value /\ new.ready = me.ready /\ new.hits = me.hits
               /\ new.pc = "load" /\ new.stage = Stages[k]
    <3> HIDE DEF new, no
    <3> QED BY <1>1, <2>2 DEF Fields
  <2> HIDE DEF new
  <2>3. \/ /\ new = [me EXCEPT !.pc = "done"]
           /\ \A j \in no + 1..6 : ~Wanted(me.kinds, Stages[j])
        \/ \E k \in no + 1..6 :
                /\ new = [me EXCEPT !.pc = "load", !.stage = Stages[k]]
                /\ Wanted(me.kinds, Stages[k])
                /\ \A j \in no + 1..k - 1 : ~Wanted(me.kinds, Stages[j])
    BY <1>1, LeaveIs DEF new
  <2> HIDE DEF no
  <2> QED BY <2>1, <2>2, <2>3
<1> HIDE DEF new
<1>3. ASSUME NEW l \in me.ready, LeafMatches(l, me.value), l \notin me.hits
      PROVE  Ahead(new, l)
  <2> DEFINE k == StageNo(StageOf(l))
  <2>1. IsLeaf(l) /\ l.kind \in me.kinds
    BY ReadyAre DEF Base
  <2>2. k \in 1..6 /\ Stages[k] = StageOf(l) /\ Wanted(me.kinds, Stages[k])
    <3>1. StageOf(l) \in StageNames /\ Wanted(me.kinds, StageOf(l))
      BY <2>1, StageOfLeaf
    <3> QED BY <3>1, StagesAre
  <2>3. k \in no + 1..6
    <3>1. no < k
      BY <1>3 DEF Later
    <3> HIDE DEF no, k
    <3> QED BY <1>1, <2>2, <3>1
  <2> HIDE DEF no
  <2>4. PICK h \in no + 1..6 : /\ new.pc = "load" /\ new.stage = Stages[h]
                               /\ \A j \in no + 1..h - 1 : ~Wanted(me.kinds, Stages[j])
    BY <1>2, <2>2, <2>3
  <2>5. h <= k /\ h \in 1..6
    <3>1. k \notin no + 1..h - 1
      BY <2>2, <2>4
    <3> HIDE DEF k
    <3> QED BY <1>1, <2>3, <2>4, <3>1
  <2>6. StageNo(new.stage) = h
    BY <2>4, <2>5, StagesAre
  <2>7. CASE h = k
    BY <2>2, <2>4, <2>7 DEF Ahead
  <2>8. CASE h < k
    BY <2>4, <2>6, <2>8 DEF Ahead
  <2> QED BY <2>2, <2>5, <2>7, <2>8
<1>4. new.pc \notin InGlob
  BY <1>2 DEF InGlob
<1>5. \A l \in new.ready : LeafMatches(l, new.value) => l \in new.hits \/ Ahead(new, l)
  BY <1>2, <1>3
<1>6. Covers(new)
  BY <1>4, <1>5 DEF Covers
<1> QED BY <1>6 DEF new

\* A leaf that is missing may also be among the lookups.
LEMMA SearchCovers ==
    ASSUME IndexFits, NEW me, Base(me), NEW keys,
           \A l \in me.ready : LeafMatches(l, me.value) =>
                \/ l \in me.hits
                \/ Later(me, l)
                \/ l.kind \in Tables /\ Within(<<l.kind, KeyOf(l)>>, keys)
    PROVE  Covers(Search(me, keys))
<1>1. CASE keys = << >>
  <2>1. \A e : ~Within(e, keys)
    <3>1. Len(keys) = 0
      BY <1>1
    <3> QED BY <3>1 DEF Within
  <2>2. Search(me, keys) = Leave(me)
    BY <1>1 DEF Search
  <2> QED BY <2>1, <2>2, LeaveCovers
<1>2. CASE keys # << >>
  <2> DEFINE new == [me EXCEPT !.pc = "lookup", !.todo = keys]
  <2>1. new.pc = "lookup" /\ new.todo = keys /\ new.stage = me.stage /\ new.value = me.value
        /\ new.ready = me.ready /\ new.hits = me.hits
    BY DEF Base, Fields
  <2>2. Search(me, keys) = new
    BY <1>2 DEF Search
  <2> HIDE DEF new
  <2>3. \A l \in new.ready : LeafMatches(l, new.value) => l \in new.hits \/ Ahead(new, l)
    BY <2>1 DEF Ahead, Later
  <2> QED BY <2>1, <2>2, <2>3 DEF Covers, InGlob
<1> QED BY <1>1, <1>2

\* Which leaves a reader has left when it is about to load a structure.
LEMMA LoadCovers ==
    ASSUME NEW me, Covers(me), me.pc = "load"
    PROVE  \A l \in me.ready : LeafMatches(l, me.value) =>
                l \in me.hits \/ Later(me, l) \/ me.stage = StageOf(l)
BY DEF Covers, Ahead, Later, InGlob

\* When a call begins, every leaf is in a later structure.
LEMMA CollectCovers ==
    ASSUME IndexFits, NEW r \in Readers, NEW v \in ValuesOf[patterns], Collect(r, v)
    PROVE  \E me : Covers(me) /\ Set(r, me)
<1> DEFINE me == [IdleReader EXCEPT !.value = v, !.kinds = x.kinds, !.ready = added]
<1>1. Set(r, Leave(me))
  BY DEF Collect
<1>2. /\ DOMAIN me = Fields /\ me.stage = "-" /\ me.value = v /\ me.ready = added
      /\ me.kinds = x.kinds /\ me.next = << >> /\ me.hits = {}
  BY DEF IdleReader, Fields
<1>3. x.kinds = {l.kind : l \in added}
  BY DEF IndexFits, TablesFit
<1> HIDE DEF me
<1>4. Base(me)
  BY <1>2, <1>3 DEF Base
<1>5. ASSUME NEW l \in me.ready PROVE Later(me, l)
  <2>1. IsLeaf(l) /\ l.kind \in me.kinds
    <3>1. me.ready \subseteq added
      BY <1>2
    <3> QED BY <1>4, <3>1, ReadyAre DEF Base
  <2>2. StageOf(l) \in StageNames
    BY <2>1, StageOfLeaf
  <2>3. StageNo(StageOf(l)) \in 1..6 /\ StageNo(me.stage) = 0
    BY <1>2, <2>2, StagesAre
  <2> QED BY <2>3 DEF Later
<1> QED BY <1>1, <1>4, <1>5, LeaveCovers

\* A reader of the equals table leaves no leaf behind: the text is its key.
LEMMA LoadEqualsCovers ==
    ASSUME IndexFits, NEW r \in Readers, ReaderFits(rd[r]), Covers(rd[r]), LoadEquals(r)
    PROVE  \E me : Covers(me) /\ Set(r, me)
<1> DEFINE me == rd[r]
           key == <<"equals", me.value.text>>
<1>1. me.pc = "load" /\ me.stage = "equals"
  BY DEF LoadEquals, Loading
<1>3. Set(r, Search(me, <<key>>))
  BY LoadEqualsIs
<1>4. Base(me) /\ me.ready \subseteq added
  <2> HIDE DEF me
  <2>1. ReaderFits(me)
    BY DEF me
  <2>2. Base(me)
    BY <1>1, <2>1, BaseOf
  <2> QED BY <2>2 DEF Base
<1>5. \A l \in me.ready : LeafMatches(l, me.value) =>
            l \in me.hits \/ Later(me, l) \/ me.stage = StageOf(l)
  <2> HIDE DEF me
  <2>1. Covers(me)
    BY DEF me
  <2> QED BY <1>1, <2>1, LoadCovers
<1> HIDE DEF me
<1>6. ASSUME NEW l \in me.ready, LeafMatches(l, me.value), me.stage = StageOf(l)
      PROVE  l.kind \in Tables /\ Within(<<l.kind, KeyOf(l)>>, <<key>>)
  <2>1. IsLeaf(l) /\ l.kind \in me.kinds
    BY <1>4, ReadyAre DEF Base
  <2>2. l.kind = "equals"
    BY <1>1, <1>6, <2>1, StageOfLeaf DEF LeafKinds, Affixes
  <2>3. <<l.kind, KeyOf(l)>> = key
    BY <1>6, <2>2 DEF LeafMatches, KeyOf
  <2>4. Within(key, <<key>>)
    <3> HIDE DEF key
    <3>1. Len(<<key>>) = 1 /\ <<key>>[1] = key /\ 1 \in 1..1
      OBVIOUS
    <3> QED BY <3>1 DEF Within
  <2> QED BY <2>2, <2>3, <2>4 DEF Tables
<1> HIDE DEF key
<1>7. Covers(Search(me, <<key>>))
  BY <1>4, <1>5, <1>6, SearchCovers
<1> QED BY <1>3, <1>7

\* What holds of a reader that loads a structure.
LEMMA LoadingIs ==
    ASSUME IndexFits, NEW me, ReaderFits(me), Covers(me), me.pc = "load"
    PROVE  /\ Base(me) /\ me.value.text \in Strings /\ Len(me.value.text) \in Nat
           /\ \A l \in me.ready :
                /\ Published(l) /\ IsLeaf(l) /\ l \in Leaves /\ l \in Done /\ l.kind \in me.kinds
                /\ LeafMatches(l, me.value) =>
                        \/ l \in me.hits
                        \/ Later(me, l)
                        \/ me.stage = StageOf(l)
                /\ me.stage = "lens" => (me.stage = StageOf(l) => l.kind \in Affixes)
                /\ me.stage \in {"equals", "glob", "number", "cidr", "exists"} =>
                        (me.stage = StageOf(l) => l.kind = me.stage)
<1>1. Base(me)
  BY BaseOf
<1>2. me.value.text \in Strings /\ Len(me.value.text) \in Nat
  <2>1. me.value.text \in Strings
    BY <1>1, LeavesAre DEF Base, IndexFits, WriterFits, IsValue
  <2> QED BY <2>1, LenProperties DEF Strings
<1>3. ASSUME NEW l \in me.ready
      PROVE  /\ Published(l) /\ IsLeaf(l) /\ l \in Leaves /\ l \in Done /\ l.kind \in me.kinds
             /\ me.stage = "lens" => (me.stage = StageOf(l) => l.kind \in Affixes)
             /\ me.stage \in {"equals", "glob", "number", "cidr", "exists"} =>
                     (me.stage = StageOf(l) => l.kind = me.stage)
  <2>1. Published(l) /\ IsLeaf(l) /\ l \in Leaves /\ l \in Done /\ l.kind \in me.kinds
    <3>1. me.ready \subseteq added
      BY <1>1 DEF Base
    <3>2. l.kind \in me.kinds
      BY <1>1 DEF Base
    <3> QED BY <3>1, <3>2, ReadyAre
  <2> QED BY <2>1, StageOfLeaf DEF LeafKinds, Affixes
<1> QED BY <1>1, <1>2, <1>3, LoadCovers

\* A reader of the lengths leaves no prefix or suffix behind: they are there with the
\* leaf.
LEMMA LoadLensCovers ==
    ASSUME IndexFits, NEW r \in Readers, ReaderFits(rd[r]), Covers(rd[r]), LoadLens(r)
    PROVE  \E me : Covers(me) /\ Set(r, me)
<1> DEFINE me == rd[r]
           s == me.value.text
           p == PrefixKeys(s, LensOf(me, "prefix"))
           q == SuffixKeys(s, LensOf(me, "suffix"))
<1>1. me.pc = "load" /\ me.stage = "lens" /\ x.lens # Nil /\ ReaderFits(me) /\ Covers(me)
      /\ Set(r, Search(me, LensKeys(me)))
  BY LoadLensIs DEF LoadLens, Loading
<1>2. LensKeys(me) = p \o q
  BY DEF LensKeys
<1> HIDE DEF me
<1>3. /\ Base(me) /\ s \in Strings /\ Len(s) \in Nat
      /\ \A l \in me.ready :
            /\ Published(l) /\ IsLeaf(l) /\ l.kind \in me.kinds
            /\ LeafMatches(l, me.value) => l \in me.hits \/ Later(me, l) \/ me.stage = StageOf(l)
            /\ me.stage = StageOf(l) => l.kind \in Affixes
  BY <1>1, LoadingIs
<1>4. \A kind \in Affixes :
        /\ LensOf(me, kind) \in Seq(Nat)
        /\ \A n \in Listed(LensOf(me, kind)) : n <= Len(s)
        /\ kind \in me.kinds => \A n \in Listed(x.lens[kind]) : n <= Len(s) => n \in Listed(LensOf(me, kind))
  BY <1>1, <1>3, LensAre
<1>5. /\ \A n \in Listed(LensOf(me, "prefix")) : Within(<<"prefix", SubSeq(s, 1, n)>>, p)
      /\ \A n \in Listed(LensOf(me, "suffix")) : Within(<<"suffix", SubSeq(s, Len(s) - n + 1, Len(s))>>, q)
  <2>1. "prefix" \in Affixes /\ "suffix" \in Affixes
    BY DEF Affixes
  <2> DEFINE a == LensOf(me, "prefix")
             b == LensOf(me, "suffix")
  <2>2. a \in Seq(Nat) /\ (\A n \in Listed(a) : n <= Len(me.value.text))
        /\ b \in Seq(Nat) /\ (\A n \in Listed(b) : n <= Len(me.value.text)) /\ me.value.text \in Strings
    BY <1>3, <1>4, <2>1
  <2> HIDE DEF a, b
  <2>3. /\ \A n \in Listed(a) : Within(<<"prefix", SubSeq(me.value.text, 1, n)>>, PrefixKeys(me.value.text, a))
        /\ \A n \in Listed(b) : Within(<<"suffix", SubSeq(me.value.text, Len(me.value.text) - n + 1, Len(me.value.text))>>,
                                       SuffixKeys(me.value.text, b))
    BY <2>2, PrefixKeysAre, SuffixKeysAre
  <2> QED BY <2>3 DEF a, b
<1>6. \A e : Within(e, p) \/ Within(e, q) => Within(e, p \o q)
  <2> DEFINE m == Len(p)
             n == Len(q)
  <2>1. m \in Nat /\ n \in Nat /\ p \in Seq(Listed(p)) /\ q \in Seq(Listed(q))
    <3>1. "prefix" \in Affixes /\ "suffix" \in Affixes
      BY DEF Affixes
    <3>2. Len(LensOf(me, "prefix")) \in Nat /\ Len(LensOf(me, "suffix")) \in Nat
      BY <1>4, <3>1, LenProperties
    <3>3. p \in Seq({p[i] : i \in 1..Len(LensOf(me, "prefix"))}) /\ Len(p) = Len(LensOf(me, "prefix"))
      BY <3>2, IsASeq DEF PrefixKeys
    <3>4. q \in Seq({q[i] : i \in 1..Len(LensOf(me, "suffix"))}) /\ Len(q) = Len(LensOf(me, "suffix"))
      BY <3>2, IsASeq DEF SuffixKeys
    <3> HIDE DEF p, q
    <3> QED BY <3>2, <3>3, <3>4 DEF Listed
  <2> HIDE DEF p, q
  <2>2. Len(p \o q) = m + n /\ (\A i \in 1..m : (p \o q)[i] = p[i]) /\ \A i \in 1..n : (p \o q)[m + i] = q[i]
    <3> DEFINE S == Listed(p) \cup Listed(q)
    <3>1. p \in Seq(S) /\ q \in Seq(S)
      BY <2>1
    <3> HIDE DEF S
    <3> QED BY <3>1, ConcatProperties, LenProperties
  <2> DEFINE pq == p \o q
  <2> HIDE DEF m, n, pq
  <2>3. (\A i \in 1..m : i \in 1..m + n) /\ \A i \in 1..n : m + i \in 1..m + n
    BY <2>1 DEF m, n
  <2>4. /\ Len(pq) = m + n /\ (\A i \in 1..m : pq[i] = p[i]) /\ \A i \in 1..n : pq[m + i] = q[i]
    BY <2>2 DEF m, n, pq
  <2>5. ASSUME NEW e, Within(e, p) PROVE Within(e, pq)
    <3>1. PICK i \in 1..m : p[i] = e
      BY <2>5 DEF Within, m
    <3> QED BY <2>3, <2>4, <3>1 DEF Within
  <2>6. ASSUME NEW e, Within(e, q) PROVE Within(e, pq)
    <3>1. PICK i \in 1..n : q[i] = e
      BY <2>6 DEF Within, n
    <3> QED BY <2>3, <2>4, <3>1 DEF Within
  <2> QED BY <2>5, <2>6 DEF pq
<1>7. ASSUME NEW l \in me.ready, LeafMatches(l, me.value), me.stage = StageOf(l)
      PROVE  l.kind \in Tables /\ Within(<<l.kind, KeyOf(l)>>, LensKeys(me))
  <2> DEFINE arg == l.arg
             n == Len(arg)
  <2>1. l.kind \in Affixes /\ IsLeaf(l) /\ l.kind \in me.kinds /\ Published(l)
    BY <1>3, <1>7
  <2>2. arg \in Strings /\ n \in Nat /\ n \in Listed(x.lens[l.kind]) /\ KeyOf(l) = arg
    <3>1. arg \in Strings /\ n \in Listed(x.lens[l.kind]) /\ KeyOf(l) = arg
      BY <2>1 DEF IsLeaf, Published, Affixes, KeyOf
    <3> QED BY <3>1, LenProperties DEF Strings
  <2>3. CASE l.kind = "prefix"
    <3>1. n <= Len(s) /\ SubSeq(s, 1, n) = arg
      BY <1>7, <2>3 DEF LeafMatches, HasPrefix
    <3>2. n \in Listed(LensOf(me, "prefix"))
      BY <1>4, <2>1, <2>2, <2>3, <3>1
    <3>3. Within(<<"prefix", arg>>, p)
      <4> HIDE DEF p, s, n, arg
      <4> QED BY <1>5, <3>1, <3>2
    <3> HIDE DEF p, q
    <3> QED BY <1>2, <1>6, <2>2, <2>3, <3>3 DEF Tables
  <2>4. CASE l.kind = "suffix"
    <3>1. n <= Len(s) /\ SubSeq(s, Len(s) - n + 1, Len(s)) = arg
      BY <1>7, <2>4 DEF LeafMatches, HasSuffix
    <3>2. n \in Listed(LensOf(me, "suffix"))
      BY <1>4, <2>1, <2>2, <2>4, <3>1
    <3>3. Within(<<"suffix", arg>>, q)
      <4> HIDE DEF q, s, n, arg
      <4> QED BY <1>5, <3>1, <3>2
    <3> HIDE DEF p, q
    <3> QED BY <1>2, <1>6, <2>2, <2>4, <3>3 DEF Tables
  <2> QED BY <2>1, <2>3, <2>4 DEF Affixes
<1> HIDE DEF p, q
<1>8. Covers(Search(me, LensKeys(me)))
  BY <1>3, <1>7, SearchCovers
<1> QED BY <1>1, <1>8

\* A reader of the address prefixes leaves none behind.
LEMMA LoadCidrCovers ==
    ASSUME IndexFits, NEW r \in Readers, ReaderFits(rd[r]), Covers(rd[r]), LoadCidr(r)
    PROVE  \E me : Covers(me) /\ Set(r, me)
<1> DEFINE me == rd[r]
           v == me.value
           addr == ParseIP(v)
           keys == CidrKeys(addr, CidrLensOf(v))
<1>1. me.pc = "load" /\ me.stage = "cidr" /\ ReaderFits(me) /\ Covers(me)
  BY DEF LoadCidr, Loading
<1>2. /\ Set(r, Search(me, keys))
      /\ addr # NoAddr =>
            /\ IsAddr(addr)
            /\ \A n \in Listed(CidrLensOf(v)) : Within(<<"cidr", PrefixKey(addr, n)>>, keys)
  BY LoadCidrIs
<1> HIDE DEF me, keys
<1>3. /\ Base(me)
      /\ \A l \in me.ready :
            /\ Published(l) /\ IsLeaf(l)
            /\ LeafMatches(l, me.value) => l \in me.hits \/ Later(me, l) \/ me.stage = StageOf(l)
            /\ me.stage = StageOf(l) => l.kind = "cidr"
  BY <1>1, LoadingIs
<1>4. ASSUME NEW l \in me.ready, LeafMatches(l, me.value), me.stage = StageOf(l)
      PROVE  l.kind \in Tables /\ Within(<<l.kind, KeyOf(l)>>, keys)
  <2> DEFINE n == l.arg.n
             d == l.arg.addr
  <2>1. l.kind = "cidr" /\ IsCidr(l.arg) /\ Published(l)
    BY <1>3, <1>4 DEF IsLeaf
  <2>2. addr # NoAddr /\ addr.v4 = d.v4 /\ Masked(addr, n) = d
    BY <1>4, <2>1 DEF LeafMatches
  <2>3. x.cidrLens # Nil /\ n \in Listed(CidrLengths(d.v4)) /\ KeyOf(l) = PrefixKey(d, n)
    BY <2>1 DEF Published, KeyOf
  <2>4. n \in Listed(CidrLensOf(v))
    BY <2>2, <2>3 DEF CidrLensOf
  <2>5. PrefixKey(addr, n) = PrefixKey(d, n)
    BY <2>1, <2>2 DEF PrefixKey, IsCidr
  <2> QED BY <1>2, <2>1, <2>2, <2>3, <2>4, <2>5 DEF Tables
<1>5. Covers(Search(me, keys))
  BY <1>3, <1>4, SearchCovers
<1> QED BY <1>2, <1>5

\* A lookup leaves no leaf behind: the key of one that is published is there.
LEMMA LookupCovers ==
    ASSUME IndexFits, NEW r \in Readers, ReaderFits(rd[r]), Covers(rd[r]), Lookup(r)
    PROVE  \E me : Covers(me) /\ Set(r, me)
<1> DEFINE old == rd[r]
           todo == old.todo
           v == old.value
           table == Head(todo)[1]
           key == Head(todo)[2]
           hits == IF key \in x[table] THEN old.hits \cup {LeafOfKey(table, key)} ELSE old.hits
           me == [old EXCEPT !.todo = Tail(todo), !.hits = hits]
<1>1. old.pc = "lookup" /\ DOMAIN old = Fields /\ me.todo = Tail(todo) /\ ReaderFits(old) /\ Covers(old)
  BY DEF Lookup, ReaderFits, Fields
<1>2. Set(r, Search(me, Tail(todo)))
  BY <1>1 DEF Lookup
<1> HIDE DEF old
<1>3. todo # << >> /\ Sound(todo, v) /\ old.ready \subseteq added
  BY <1>1 DEF ReaderFits
<1>4. Base(old)
  BY <1>1, BaseOf
<1>5. \A e : Within(e, todo) => e = Head(todo) \/ Within(e, Tail(todo))
  <2> DEFINE S == Listed(todo)
  <2>1. todo \in Seq(S)
    BY <1>3 DEF Sound
  <2> HIDE DEF S, todo
  <2>2. /\ Head(todo) = todo[1] /\ Len(todo) \in Nat /\ Len(Tail(todo)) = Len(todo) - 1
        /\ \A i \in 1..Len(Tail(todo)) : Tail(todo)[i] = todo[i + 1]
    BY <1>3, <2>1, HeadTailProperties, LenProperties
  <2>3. ASSUME NEW i \in 1..Len(todo) PROVE todo[i] = Head(todo) \/ Within(todo[i], Tail(todo))
    <3>1. CASE i = 1
      BY <2>2, <3>1
    <3>2. CASE i # 1
      <4>1. i - 1 \in 1..Len(Tail(todo)) /\ (i - 1) + 1 = i
        BY <2>2, <3>2
      <4>2. Tail(todo)[i - 1] = todo[i]
        BY <2>2, <4>1
      <4> QED BY <4>1, <4>2 DEF Within
    <3> QED BY <3>1, <3>2
  <2> QED BY <2>3 DEF Within
<1>6. KeyFits(Head(todo), v)
  <2>1. KeyFits(todo[1], v)
    <3>1. 1 \in 1..Len(todo)
      <4> DEFINE S == Listed(todo)
      <4>1. todo \in Seq(S)
        BY <1>3 DEF Sound
      <4> HIDE DEF S, todo
      <4> QED BY <1>3, <4>1, LenProperties, EmptySeq
    <3> QED BY <1>3, <3>1 DEF Sound
  <2> QED BY <2>1
<1>7. LeafMatches(LeafOfKey(table, key), v) /\ table \in Tables /\ Head(todo) = <<table, key>>
  BY <1>6 DEF KeyFits
<1>8. \A l \in hits : l \in Leaves /\ LeafMatches(l, v)
  <2>1. key \in x[table] => LeafOfKey(table, key) \in Leaves
    BY <1>7 DEF IndexFits, TablesFit
  <2> QED BY <1>4, <1>7, <2>1 DEF Base
<1>9. /\ Base(me) /\ me.stage = old.stage /\ me.value = v /\ me.ready = old.ready /\ me.hits = hits
  <2> HIDE DEF hits
  <2> QED BY <1>1, <1>4, <1>8 DEF Base, Fields
<1>10. ASSUME NEW l \in old.ready, LeafMatches(l, v)
       PROVE  \/ l \in hits
              \/ StageNo(old.stage) < StageNo(StageOf(l))
              \/ l.kind \in Tables /\ Within(<<l.kind, KeyOf(l)>>, Tail(todo))
  <2>1. \/ l \in old.hits
        \/ StageNo(old.stage) < StageNo(StageOf(l))
        \/ l.kind \in Tables /\ Within(<<l.kind, KeyOf(l)>>, todo)
    BY <1>1, <1>10 DEF Covers, Ahead, InGlob
  <2>2. CASE l.kind \in Tables /\ <<l.kind, KeyOf(l)>> = Head(todo)
    <3>1. l.kind = table /\ KeyOf(l) = key
      <4> HIDE DEF todo
      <4> QED BY <2>2
    <3>2. IsLeaf(l) /\ Published(l)
      BY <1>3, <1>10, ReadyAre
    <3>3. key \in x[table]
      BY <2>2, <3>1, <3>2 DEF Published
    <3>4. LeafOfKey(table, key) = l
      BY <2>2, <3>1, <3>2, LeafIsKey
    <3> QED BY <3>3, <3>4
  <2> HIDE DEF todo
  <2> QED BY <1>5, <2>1, <2>2
<1> HIDE DEF me, hits, todo, v
<1>11. \A l \in me.ready : LeafMatches(l, me.value) =>
                \/ l \in me.hits
                \/ Later(me, l)
                \/ l.kind \in Tables /\ Within(<<l.kind, KeyOf(l)>>, Tail(todo))
  BY <1>9, <1>10 DEF Later
<1>12. Covers(Search(me, Tail(todo)))
  BY <1>9, <1>11, SearchCovers
<1> QED BY <1>2, <1>12

\* A reader of the number index leaves no interval behind.
LEMMA LoadNumberCovers ==
    ASSUME IndexFits, NEW r \in Readers, ReaderFits(rd[r]), Covers(rd[r]), LoadNumber(r)
    PROVE  \E me : Covers(me) /\ Set(r, me)
<1> DEFINE old == rd[r]
           v == old.value
           leaves == {FoundFor(v)[i].leaf : i \in 1..Len(FoundFor(v))}
           me == [old EXCEPT !.hits = @ \cup leaves]
<1>1. old.pc = "load" /\ old.stage = "number" /\ Set(r, Leave(me)) /\ ReaderFits(old) /\ Covers(old)
  BY DEF LoadNumber, Loading, FoundFor
<1> HIDE DEF old
<1>2. /\ Base(old)
      /\ \A l \in old.ready :
            /\ l \in Done
            /\ LeafMatches(l, old.value) => l \in old.hits \/ Later(old, l) \/ old.stage = StageOf(l)
            /\ old.stage = StageOf(l) => l.kind = "number"
  BY <1>1, LoadingIs
<1>3. /\ \A l \in leaves : l \in Leaves /\ LeafMatches(l, v)
      /\ \A l \in Done : l.kind = "number" /\ LeafMatches(l, v) => l \in leaves
  <2>1. v \in ValuesOf[patterns]
    BY <1>2 DEF Base
  <2> HIDE DEF v
  <2> QED BY <2>1, FoundIs
<1> HIDE DEF leaves
<1>4. Base(me) /\ me.stage = old.stage /\ me.value = v /\ me.ready = old.ready /\ me.hits = old.hits \cup leaves
  BY <1>2, <1>3 DEF Base, Fields
<1> HIDE DEF me
<1>5. \A l \in me.ready : LeafMatches(l, me.value) => l \in me.hits \/ Later(me, l)
  BY <1>2, <1>3, <1>4 DEF Later
<1> QED BY <1>1, <1>4, <1>5, LeaveCovers

\* A reader leaves the exists leaf not behind.
LEMMA LoadExistsCovers ==
    ASSUME IndexFits, NEW r \in Readers, ReaderFits(rd[r]), Covers(rd[r]), LoadExists(r)
    PROVE  \E me : Covers(me) /\ Set(r, me)
<1> DEFINE old == rd[r]
           exists == Leaf("exists", << >>)
           hits == IF x.exists THEN old.hits \cup {exists} ELSE old.hits
           me == [old EXCEPT !.hits = hits]
<1>1. old.pc = "load" /\ old.stage = "exists" /\ Set(r, Leave(me)) /\ ReaderFits(old) /\ Covers(old)
  BY DEF LoadExists, Loading
<1> HIDE DEF old
<1>2. /\ Base(old)
      /\ \A l \in old.ready :
            /\ Published(l) /\ IsLeaf(l)
            /\ LeafMatches(l, old.value) => l \in old.hits \/ Later(old, l) \/ old.stage = StageOf(l)
            /\ old.stage = StageOf(l) => l.kind = "exists"
  BY <1>1, LoadingIs
<1>3. \A l \in hits : l \in Leaves /\ LeafMatches(l, old.value)
  <2>1. x.exists => exists \in Leaves
    BY DEF IndexFits, TablesFit
  <2>2. LeafMatches(exists, old.value)
    BY DEF LeafMatches, Leaf
  <2> QED BY <1>2, <2>1, <2>2 DEF Base
<1>4. ASSUME NEW l \in old.ready, old.stage = StageOf(l) PROVE l \in hits
  BY <1>2, <1>4 DEF Published, IsLeaf
<1> HIDE DEF hits
<1>5. old.hits \subseteq hits
  BY DEF hits
<1>6. Base(me) /\ me.stage = old.stage /\ me.value = old.value /\ me.ready = old.ready /\ me.hits = hits
  BY <1>2, <1>3 DEF Base, Fields
<1> HIDE DEF me
<1>7. \A l \in me.ready : LeafMatches(l, me.value) => l \in me.hits \/ Later(me, l)
  BY <1>2, <1>4, <1>5, <1>6 DEF Later
<1> QED BY <1>1, <1>6, <1>7, LeaveCovers

\* A call that has ended has no leaves to find.
LEMMA RestCovers ==
    ASSUME NEW r \in Readers, Rest(r)
    PROVE  \E me : Covers(me) /\ Set(r, me)
<1>1. Set(r, IdleReader)
  BY DEF Rest
<1>2. IdleReader.pc = "idle" /\ IdleReader.ready = {}
  BY DEF IdleReader
<1>3. Covers(IdleReader)
  BY <1>2 DEF Covers, InGlob
<1> QED BY <1>1, <1>3

-----------------------------------------------------------------------------
(* No node is skipped that leads to a missing leaf.                        *)

\* A byte is a token, and no spinner.
LEMMA BytesAreTokens ==
    ASSUME NEW b \in 0..255
    PROVE  b \in 0..256 /\ b # Spin
BY DEF Spin

\* Two spinners never follow each other: a pattern with "**" is not valid.
LEMMA BeforeWild ==
    ASSUME NEW v \in Strings, ValidWildcard(v), NEW k \in Wilds(v)
    PROVE  /\ k \in 1..Len(v) /\ ~Spins(Tok(v)[k - 1])
           /\ Tok(v)[k] = Append(Tok(v)[k - 1], Spin)
<1>1. k \in 1..Len(v) /\ k \notin Escaped(v) /\ Len(v) \in Nat
  BY TokIs DEF Wilds
<1>2. Tok(v)[k] = Append(Tok(v)[k - 1], Spin)
  BY <1>1, TokIs DEF TokenStep
<1>3. CASE k = 1
  <2>1. Tok(v)[k - 1] = << >>
    BY <1>3, TokIs
  <2> QED BY <1>1, <1>2, <2>1 DEF Spins, Root
<1>4. CASE k # 1
  <2> DEFINE j == k - 1
  <2>1. j \in 1..Len(v) /\ k = j + 1 /\ j - 1 \in 0..Len(v)
    BY <1>1, <1>4
  <2>2. j \notin Wilds(v)
    BY <2>1 DEF ValidWildcard
  <2>3. ~(v[j] = Backslash /\ j \notin Escaped(v))
    BY <1>1, <1>4, <2>1, EscapedIs
  <2> HIDE DEF j
  <2>4. Tok(v)[j] = Append(Tok(v)[j - 1], v[j])
    <3>1. Tok(v)[j] = TokenStep(v, Tok(v)[j - 1], j)
      BY <2>1, TokIs
    <3> QED BY <2>2, <2>3, <3>1 DEF TokenStep
  <2>5. v[j] \in 0..256 /\ v[j] # Spin
    <3>1. v[j] \in 0..255
      BY <2>1, ElementOfSeq, SMTT(30) DEF Strings
    <3> QED BY <3>1 DEF Spin
  <2>6. Tok(v)[j - 1] \in Nodes
    BY <2>1, TokIs
  <2>7. ~Spins(Append(Tok(v)[j - 1], v[j]))
    BY <2>5, <2>6, NodeMore, ZenonT(60)
  <2> QED BY <1>1, <1>2, <2>4, <2>7 DEF j
<1> QED BY <1>3, <1>4

\* Every node on the way to a leaf but the first comes from one before it.
LEMMA TokenBefore ==
    ASSUME NEW v \in Strings, ValidWildcard(v), NEW k \in 0..Len(v), Tok(v)[k] # Root
    PROVE  \E m \in 0..k, t \in 0..256 :
                /\ Tok(v)[k] = Append(Tok(v)[m], t)
                /\ t = Spin => ~Spins(Tok(v)[m])
<1> DEFINE Goes(j) == Tok(v)[j] = Root \/ \E m \in 0..j, t \in 0..256 :
                            /\ Tok(v)[j] = Append(Tok(v)[m], t)
                            /\ t = Spin => ~Spins(Tok(v)[m])
           T == {j \in 0..Len(v) : Goes(j)}
<1>1. Len(v) \in Nat /\ Tok(v)[0] = Root
  BY TokIs DEF Root
<1>2. 0 \in T
  BY <1>1, SMTT(30)
<1>3. ASSUME NEW j \in 0 + 1..Len(v), j - 1 \in T PROVE j \in T
  <2>1. j \in 1..Len(v) /\ j - 1 \in 0..j /\ j \in 0..Len(v) /\ \A m \in 0..j - 1 : m \in 0..j
    BY <1>1, SMTT(30)
  <2>2. Goes(j - 1)
    BY <1>3, Zenon
  <2>3. Tok(v)[j] = TokenStep(v, Tok(v)[j - 1], j)
    BY <2>1, TokIs, SMTT(30)
  <2>4. CASE j \in Wilds(v)
    <3>1. Tok(v)[j] = Append(Tok(v)[j - 1], Spin) /\ ~Spins(Tok(v)[j - 1]) /\ Spin \in 0..256
      BY <2>4, BeforeWild DEF Spin
    <3> QED BY <2>1, <3>1, ZenonT(60)
  <2>5. CASE j \notin Wilds(v) /\ v[j] = Backslash /\ j \notin Escaped(v)
    <3>1. Tok(v)[j] = Tok(v)[j - 1]
      BY <2>3, <2>5 DEF TokenStep
    <3>2. Goes(j)
      BY <2>1, <2>2, <3>1, Zenon
    <3> QED BY <2>1, <3>2, ZenonT(60)
  <2>6. CASE j \notin Wilds(v) /\ ~(v[j] = Backslash /\ j \notin Escaped(v))
    <3>1. Tok(v)[j] = Append(Tok(v)[j - 1], v[j])
      BY <2>3, <2>6 DEF TokenStep
    <3>2. v[j] \in 0..256 /\ v[j] # Spin
      <4>1. v[j] \in 0..255
        BY <2>1, ElementOfSeq DEF Strings
      <4> QED BY <4>1, BytesAreTokens
    <3>3. Goes(j)
      BY <2>1, <3>1, <3>2, Zenon
    <3> QED BY <2>1, <3>3
  <2> QED BY <2>4, <2>5, <2>6, Zenon
<1>4. 0..Len(v) \subseteq T
  <2> HIDE DEF T
  <2> QED BY <1>1, <1>2, <1>3, Induct
<1> QED BY <1>4, ZenonT(60)

\* A text that leads past a position leads to a node before it there.
LEMMA RunsEarly ==
    ASSUME NEW v \in Strings, NEW s \in Strings, NEW k \in 0..Len(v), NEW h, Runs(Tok(v)[k], s, h),
           NEW i \in Nat, i <= h
    PROVE  \E m \in 0..k : Runs(Tok(v)[m], s, i)
<1> DEFINE Early(j) == \A g \in 0..Len(s) : i <= g /\ Runs(Tok(v)[j], s, g) => \E m \in 0..j : Runs(Tok(v)[m], s, i)
           T == {j \in 0..Len(v) : Early(j)}
<1>1. Len(v) \in Nat /\ Len(s) \in Nat /\ Tok(v)[0] = Root
  BY TokIs, LenProperties DEF Root, Strings
<1>2. 0 \in T
  <2>1. \A g : Runs(Root, s, g) => g = 0
    BY RunsRoot
  <2>2. ASSUME NEW g \in 0..Len(s), i <= g, Runs(Tok(v)[0], s, g) PROVE \E m \in 0..0 : Runs(Tok(v)[m], s, i)
    <3>1. g = i
      BY <1>1, <2>1, <2>2
    <3> QED BY <2>2, <3>1
  <2> QED BY <1>1, <2>2
<1>3. ASSUME NEW j \in 0 + 1..Len(v), j - 1 \in T PROVE j \in T
  <2>1. j \in 1..Len(v) /\ j \in 0..j /\ j \in 0..Len(v) /\ \A m \in 0..j - 1 : m \in 0..j
    BY <1>1
  <2>2. Early(j - 1)
    BY <1>3
  <2>3. Tok(v)[j] = TokenStep(v, Tok(v)[j - 1], j) /\ Tok(v)[j - 1] \in Nodes
    <3>1. j - 1 \in 0..Len(v)
      BY <2>1, SMTT(30)
    <3> QED BY <2>1, <3>1, TokIs
  <2>4. Tok(v)[j] = Tok(v)[j - 1] \/ \E t \in 0..256 : Tok(v)[j] = Append(Tok(v)[j - 1], t)
    <3>1. v[j] \in 0..256 /\ Spin \in 0..256
      <4>1. v[j] \in 0..255
        BY <2>1, ElementOfSeq, SMTT(30) DEF Strings
      <4> QED BY <4>1 DEF Spin
    <3> QED BY <2>3, <3>1, Zenon DEF TokenStep
  <2>5. ASSUME NEW g \in 0..Len(s), i <= g, Runs(Tok(v)[j], s, g)
        PROVE  \E m \in 0..j : Runs(Tok(v)[m], s, i)
    <3>1. CASE Tok(v)[j] = Tok(v)[j - 1]
      <4>1. \E m \in 0..j - 1 : Runs(Tok(v)[m], s, i)
        BY <2>2, <2>5, <3>1
      <4> QED BY <2>1, <4>1
    <3>2. ASSUME NEW t \in 0..256, Tok(v)[j] = Append(Tok(v)[j - 1], t) PROVE \E m \in 0..j : Runs(Tok(v)[m], s, i)
      <4> DEFINE n == Tok(v)[j - 1]
      <4>1. Runs(Append(n, t), s, g) /\ n \in Nodes
        BY <2>3, <2>5, <3>2
      <4> HIDE DEF n
      <4>2. PICK f \in 0..Len(s) : Runs(n, s, f) /\ Moves(t, s, f, g)
        BY <4>1, RunsAppend
      <4>3. CASE i <= f
        <5>1. \E m \in 0..j - 1 : Runs(Tok(v)[m], s, i)
          BY <2>2, <4>2, <4>3 DEF n
        <5> QED BY <2>1, <5>1
      <4>4. CASE ~(i <= f)
        <5>1. CASE t = Spin
          <6>1. i \in f..Len(s)
            BY <1>1, <2>5, <4>4
          <6>2. Runs(Append(n, Spin), s, i)
            BY <4>1, <4>2, <6>1, SpinRuns
          <6> QED BY <2>1, <3>2, <5>1, <6>2 DEF n
        <5>2. CASE t # Spin
          <6>1. g = i
            BY <1>1, <2>5, <4>2, <4>4, <5>2 DEF Moves
          <6> QED BY <2>1, <2>5, <6>1
        <5> QED BY <5>1, <5>2
      <4> QED BY <4>3, <4>4
    <3> QED BY <2>4, <3>1, <3>2, Zenon
  <2> QED BY <2>1, <2>5
<1>4. 0..Len(v) \subseteq T
  <2> HIDE DEF T
  <2> QED BY <1>1, <1>2, <1>3, Induct
<1>5. h \in 0..Len(s)
  <2>1. Tok(v)[k] \in Nodes
    BY TokIs
  <2> QED BY <2>1, RunsWithin
<1> QED BY <1>4, <1>5

GlobOf(me) == {l \in me.ready : l.kind = "glob"}

\* The way to a leaf that was there when the call began.
LEMMA ReadyGlob ==
    ASSUME IndexFits, NEW me, me.ready \subseteq added, NEW l \in GlobOf(me)
    PROVE  /\ l.arg \in Strings /\ ValidWildcard(l.arg) /\ Len(l.arg) \in Nat
           /\ Last(l.arg) \in 0..Len(l.arg)
           /\ \A i \in 0..Last(l.arg) : Tok(l.arg)[i] \in Old(me)
           /\ Trails(l.arg) => /\ ~Spins(Tok(l.arg)[Last(l.arg)])
                               /\ End(l.arg) = Append(Tok(l.arg)[Last(l.arg)], Spin)
                               /\ l \in x.glob[Tok(l.arg)[Last(l.arg)]].reach
           /\ ~Trails(l.arg) => /\ End(l.arg) = Tok(l.arg)[Last(l.arg)]
                                /\ l \in x.glob[End(l.arg)].final
<1> DEFINE v == l.arg
<1>1. IsLeaf(l) /\ Published(l) /\ l.kind = "glob" /\ l \in me.ready
  BY ReadyAre DEF GlobOf
<1>2. v \in Strings /\ ValidWildcard(v) /\ Len(v) \in Nat
  BY <1>1, LenProperties DEF IsLeaf, Strings
<1>3. \A i \in 0..Last(v) : Tok(v)[i] \in Old(me)
  BY <1>1 DEF Old
<1>4. IF Trails(v) THEN l \in x.glob[Tok(v)[Last(v)]].reach ELSE l \in x.glob[Tok(v)[Last(v)]].final
  BY <1>1 DEF Published
<1> HIDE DEF v
<1>5. CASE Trails(v)
  <2>1. Len(v) \in Wilds(v) /\ Last(v) = Len(v) - 1
    BY <1>5 DEF Trails, Last
  <2>2. Len(v) \in 1..Len(v) /\ ~Spins(Tok(v)[Len(v) - 1]) /\ Tok(v)[Len(v)] = Append(Tok(v)[Len(v) - 1], Spin)
    BY <1>2, <2>1, BeforeWild
  <2>3. Last(v) \in 0..Len(v)
    BY <1>2, <2>1, <2>2
  <2> QED BY <1>2, <1>3, <1>4, <1>5, <2>1, <2>2, <2>3 DEF End, v
<1>6. CASE ~Trails(v)
  <2>1. Last(v) = Len(v) /\ Len(v) \in 0..Len(v)
    BY <1>2, <1>6 DEF Last
  <2> QED BY <1>2, <1>3, <1>4, <1>6, <2>1 DEF End, v
<1> QED BY <1>5, <1>6

\* Those nodes are there, and but for the root each comes from another of them.
LEMMA OldIs ==
    ASSUME IndexFits, NEW me, me.ready \subseteq added, NEW n \in Old(me)
    PROVE  /\ n \in DOMAIN x.glob /\ n \in Nodes
           /\ n # Root => \E m \in Old(me), t \in 0..256 : n = Append(m, t) /\ (t = Spin => ~Spins(m))
<1>1. PICK l \in GlobOf(me) : \E i \in 0..Last(l.arg) : n = Tok(l.arg)[i]
  BY DEF Old, GlobOf
<1> DEFINE v == l.arg
<1>2. /\ v \in Strings /\ ValidWildcard(v) /\ Len(v) \in Nat /\ Last(v) \in 0..Len(v)
      /\ \A i \in 0..Last(v) : Tok(v)[i] \in Old(me)
  BY ReadyGlob
<1>3. Published(l) /\ l.kind = "glob"
  BY ReadyAre DEF GlobOf
<1>4. n \in DOMAIN x.glob
  BY <1>1, <1>3 DEF Published
<1>5. n \in Nodes
  BY <1>4, NodesAre, SMTT(30)
<1>6. ASSUME n # Root PROVE \E m \in Old(me), t \in 0..256 : n = Append(m, t) /\ (t = Spin => ~Spins(m))
  <2>1. PICK i \in 0..Last(v) : n = Tok(v)[i]
    BY <1>1
  <2> HIDE DEF v
  <2>2. i \in 0..Len(v)
    BY <1>2, <2>1, SMTT(30)
  <2>3. PICK m \in 0..i, t \in 0..256 : Tok(v)[i] = Append(Tok(v)[m], t) /\ (t = Spin => ~Spins(Tok(v)[m]))
    BY <1>2, <1>6, <2>1, <2>2, TokenBefore, ZenonT(60)
  <2>4. m \in 0..Last(v)
    BY <1>2, <2>1, <2>3
  <2> QED BY <1>2, <2>1, <2>3, <2>4, Zenon
<1> QED BY <1>4, <1>5, <1>6

\* How a node of old patterns is reached after i bytes.
LEMMA OldRuns ==
    ASSUME IndexFits, NEW me, me.ready \subseteq added, NEW s \in Strings, NEW n \in Old(me), NEW i \in 0..Len(s),
           Runs(n, s, i)
    PROVE  \/ n = Root /\ i = 0
           \/ i > 0 /\ \E m \in Old(me) : n = Append(m, s[i]) /\ Runs(m, s, i - 1)
           \/ \E m \in Old(me), h \in 0..i : n = Append(m, Spin) /\ ~Spins(m) /\ Runs(m, s, h)
<1>1. CASE n = Root
  BY <1>1, RunsRoot
<1>2. CASE n # Root
  <2>1. PICK m \in Old(me), t \in 0..256 : n = Append(m, t) /\ (t = Spin => ~Spins(m))
    BY <1>2, OldIs
  <2>2. m \in Nodes
    BY OldIs
  <2>3. PICK h \in 0..Len(s) : Runs(m, s, h) /\ Moves(t, s, h, i)
    BY <2>1, <2>2, RunsAppend
  <2>4. Len(s) \in Nat
    BY LenProperties DEF Strings
  <2>5. CASE t = Spin
    <3>1. h \in 0..i
      BY <2>3, <2>4, <2>5 DEF Moves
    <3> QED BY <2>1, <2>3, <2>5, <3>1
  <2>6. CASE t # Spin
    <3>1. i > 0 /\ h = i - 1 /\ s[i] = t
      BY <2>3, <2>4, <2>6 DEF Moves
    <3> QED BY <2>1, <2>3, <3>1
  <2> QED BY <2>5, <2>6
<1> QED BY <1>1, <1>2

\* A reader moves on in the automaton and keeps what it has found.
MovesOn(me, new) ==
    /\ new.stage = me.stage /\ new.value = me.value /\ new.ready = me.ready
    /\ me.hits \subseteq new.hits

\* The leaves of other kinds are not touched by the automaton.
LEMMA GlobCarries ==
    ASSUME IndexFits, NEW me, Covers(me), me.ready \subseteq added,
           me.pc \in {"load", "final"} \cup InGlob, me.stage = "glob",
           NEW new, MovesOn(me, new), new.pc \in {"final"} \cup InGlob
    PROVE  /\ \A l \in new.ready \ GlobOf(me) :
                LeafMatches(l, new.value) => l \in new.hits \/ Ahead(new, l)
           /\ new.pc \in InGlob /\ GlobCovers(new) => Covers(new)
           /\ new.pc = "final" /\ (\A l \in GlobOf(me) : LeafMatches(l, new.value) => l \in new.hits \/ Ahead(new, l))
                => Covers(new)
<1>1. ASSUME NEW l \in new.ready, l \notin GlobOf(me), LeafMatches(l, new.value)
      PROVE  l \in new.hits \/ Ahead(new, l)
  <2>1. l \in me.ready /\ l.kind # "glob" /\ LeafMatches(l, me.value)
    BY <1>1 DEF MovesOn, GlobOf
  <2>2. l \in me.hits \/ Ahead(me, l)
    BY <2>1 DEF Covers
  <2>3. me.stage = StageOf(l) => l.kind = "glob"
    <3>1. IsLeaf(l)
      BY <2>1, ReadyAre
    <3> QED BY <3>1, StageOfLeaf DEF LeafKinds, Affixes
  <2>4. StageNo(me.stage) < StageNo(StageOf(l)) \/ l \in me.hits
    BY <2>1, <2>2, <2>3 DEF Ahead, InGlob
  <2> QED BY <2>4 DEF Ahead, MovesOn, InGlob
<1>2. ASSUME new.pc \in InGlob, GlobCovers(new) PROVE Covers(new)
  <2>1. ASSUME NEW l \in new.ready, l \in GlobOf(me) PROVE Ahead(new, l)
    BY <1>2, <2>1 DEF Ahead, GlobOf
  <2> QED BY <1>1, <1>2, <2>1 DEF Covers
<1>3. ASSUME new.pc = "final", \A l \in GlobOf(me) : LeafMatches(l, new.value) => l \in new.hits \/ Ahead(new, l)
      PROVE  Covers(new)
  <2>1. new.pc \notin InGlob
    BY <1>3 DEF InGlob
  <2> QED BY <1>1, <1>3, <2>1 DEF Covers
<1> QED BY <1>1, <1>2, <1>3

\* They stay the same during the call.
LEMMA OldSame ==
    ASSUME NEW me, NEW new, MovesOn(me, new)
    PROVE  Old(new) = Old(me) /\ GlobOf(new) = GlobOf(me)
BY DEF MovesOn, Old, GlobOf

\* GlobCovers in terms of Old and GlobOf.
LEMMA GlobCoversIs ==
    ASSUME NEW me
    PROVE  GlobCovers(me) <=>
            /\ me.i > 0 => \A n \in Old(me) : Runs(n, me.value.text, me.i - 1) => Within(n, me.cur)
            /\ \A n \in Old(me) : Runs(n, me.value.text, me.i) => Within(n, me.next) \/ Pending(me, n)
            /\ \A l \in GlobOf(me) : Trails(l.arg) =>
                \A j \in 0..me.i : Runs(Tok(l.arg)[Last(l.arg)], me.value.text, j) =>
                    l \in me.hits \/ (j = me.i /\ Coming(me, Tok(l.arg)[Last(l.arg)]))
BY DEF GlobCovers, GlobOf

\* When the automaton begins, only the root is left to enter.
LEMMA LoadGlobCovers ==
    ASSUME IndexFits, NEW r \in Readers, ReaderFits(rd[r]), Covers(rd[r]), LoadGlob(r)
    PROVE  \E me : Covers(me) /\ Set(r, me)
<1> DEFINE me == rd[r]
           s == me.value.text
           new == [me EXCEPT !.pc = "enter", !.node = Root, !.i = 0, !.cur = << >>, !.next = << >>, !.s = 1]
<1>1. me.pc = "load" /\ me.stage = "glob" /\ Set(r, new) /\ ReaderFits(me) /\ Covers(me)
  BY DEF LoadGlob, Loading
<1> HIDE DEF me
<1>2. Base(me) /\ s \in Strings /\ Len(s) \in Nat
  BY <1>1, LoadingIs
<1>3. /\ new.pc = "enter" /\ new.stage = me.stage /\ new.value = me.value
      /\ new.ready = me.ready /\ new.hits = me.hits /\ new.node = Root /\ new.i = 0
  BY <1>2 DEF Base, Fields
<1> HIDE DEF new
<1>4. MovesOn(me, new) /\ me.ready \subseteq added
  BY <1>2, <1>3 DEF MovesOn, Base
<1>5. Old(new) = Old(me) /\ GlobOf(new) = GlobOf(me)
  BY <1>4, OldSame
<1>6. 0 \in 0..Len(s)
  BY <1>2
<1>7. Coming(new, Root)
  BY <1>3 DEF Coming
<1>8. ASSUME NEW n \in Old(me), Runs(n, s, 0)
      PROVE  n = Root \/ (Root \in Old(me) /\ n = Append(Root, Spin))
  <2>1. \/ n = Root
        \/ \E m \in Old(me), h \in 0..0 : n = Append(m, Spin) /\ ~Spins(m) /\ Runs(m, s, h)
    <3> HIDE DEF s
    <3> QED BY <1>2, <1>4, <1>6, <1>8, OldRuns
  <2>2. ASSUME NEW m \in Old(me), NEW h \in 0..0, n = Append(m, Spin), ~Spins(m), Runs(m, s, h)
        PROVE  m = Root
    <3>1. h = 0
      OBVIOUS
    <3>2. Runs(m, s, 0)
      BY <2>2, <3>1
    <3>3. \/ m = Root
          \/ \E k \in Old(me), g \in 0..0 : m = Append(k, Spin) /\ ~Spins(k) /\ Runs(k, s, g)
      <4> HIDE DEF s
      <4> QED BY <1>2, <1>4, <1>6, <3>2, OldRuns
    <3>4. ASSUME NEW k \in Old(me), m = Append(k, Spin) PROVE FALSE
      <4>1. k \in Nodes /\ Spin \in 0..256
        BY <1>4, OldIs, SMTT(30) DEF Spin
      <4>2. Spins(Append(k, Spin))
        BY <4>1, NodeMore, Zenon
      <4> QED BY <2>2, <3>4, <4>2
    <3> QED BY <3>3, <3>4
  <2> QED BY <2>1, <2>2
<1>9. \A n \in Old(new) : Runs(n, new.value.text, new.i) => Within(n, new.next) \/ Pending(new, n)
  BY <1>3, <1>5, <1>7, <1>8 DEF Pending
<1>10. ASSUME NEW l \in GlobOf(new), Trails(l.arg), NEW j \in 0..new.i, Runs(Tok(l.arg)[Last(l.arg)], new.value.text, j)
       PROVE  j = new.i /\ Coming(new, Tok(l.arg)[Last(l.arg)])
  <2> DEFINE n == Tok(l.arg)[Last(l.arg)]
  <2>1. j = 0
    BY <1>3
  <2>2. ~Spins(n) /\ n \in Old(me)
    <3>1. Last(l.arg) \in 0..Len(l.arg) /\ Len(l.arg) \in Nat /\ ~Spins(n)
          /\ \A i \in 0..Last(l.arg) : Tok(l.arg)[i] \in Old(me)
      BY <1>4, <1>5, <1>10, ReadyGlob
    <3>2. Last(l.arg) \in 0..Last(l.arg)
      BY <3>1
    <3> QED BY <3>1, <3>2
  <2> HIDE DEF n
  <2>3. Runs(n, s, 0)
    BY <1>3, <1>10, <2>1 DEF n
  <2>4. n = Root
    <3>1. Root \in Nodes /\ Spin \in 0..256
      BY DEF Nodes, Root, Spin
    <3>2. Spins(Append(Root, Spin))
      BY <3>1, NodeMore, Zenon
    <3> QED BY <1>8, <2>2, <2>3, <3>2, Zenon
  <2> QED BY <1>3, <1>7, <2>1, <2>4 DEF n
<1>11. GlobCovers(new)
  BY <1>3, <1>9, <1>10, GlobCoversIs
<1>12. new.pc \in InGlob /\ new.pc \in {"final"} \cup InGlob /\ me.pc \in {"load", "final"} \cup InGlob
  BY <1>1, <1>3 DEF InGlob
<1>13. Covers(new)
  BY <1>1, <1>4, <1>11, <1>12, GlobCarries
<1> QED BY <1>1, <1>13

\* The node that a leaf with a '*' at its end is accepted at.
LEMMA TrailIs ==
    ASSUME IndexFits, NEW me, me.ready \subseteq added, NEW l \in GlobOf(me), Trails(l.arg)
    PROVE  /\ Tok(l.arg)[Last(l.arg)] \in Old(me) /\ ~Spins(Tok(l.arg)[Last(l.arg)])
           /\ l \in x.glob[Tok(l.arg)[Last(l.arg)]].reach
           /\ End(l.arg) = Append(Tok(l.arg)[Last(l.arg)], Spin)
<1>1. /\ Last(l.arg) \in 0..Len(l.arg) /\ Len(l.arg) \in Nat
      /\ \A i \in 0..Last(l.arg) : Tok(l.arg)[i] \in Old(me)
      /\ ~Spins(Tok(l.arg)[Last(l.arg)])
      /\ End(l.arg) = Append(Tok(l.arg)[Last(l.arg)], Spin)
      /\ l \in x.glob[Tok(l.arg)[Last(l.arg)]].reach
  BY ReadyGlob
<1>2. Last(l.arg) \in 0..Last(l.arg)
  BY <1>1
<1> QED BY <1>1, <1>2

\* A node that is entered is in next, and its leaves with a '*' at the end are found.
LEMMA EnterCovers ==
    ASSUME IndexFits, NEW me, ReaderFits(me), Covers(me), me.pc = "enter",
           NEW new, new = [me EXCEPT !.pc = "spin", !.next = Append(@, me.node),
                                     !.hits = @ \cup x.glob[me.node].reach]
    PROVE  Covers(new)
<1>1. me.pc \in {"final"} \cup InGlob /\ me.pc \in InGlob
  BY DEF InGlob
<1>2. /\ DOMAIN me = Fields /\ me.stage = "glob" /\ GlobState(me) /\ Len(me.next) \in Nat
  BY <1>1, GlobReaderIs
<1>3. /\ new.pc = "spin" /\ new.stage = me.stage /\ new.value = me.value
      /\ new.ready = me.ready /\ new.hits = me.hits \cup x.glob[me.node].reach /\ new.node = me.node /\ new.i = me.i
      /\ new.cur = me.cur /\ new.next = Append(me.next, me.node) /\ new.s = me.s
  BY <1>2 DEF Fields
<1>4. MovesOn(me, new) /\ me.ready \subseteq added
  BY <1>3 DEF MovesOn, ReaderFits
<1>5. Old(new) = Old(me) /\ GlobOf(new) = GlobOf(me)
  BY <1>4, OldSame
<1>6. \A n : Coming(me, n) => n = me.node \/ Coming(new, n)
  BY <1>3 DEF Coming, Rest1
<1>7. Within(me.node, new.next) /\ \A n : Within(n, me.next) => Within(n, new.next)
  <2> DEFINE q == me.next
             n == me.node
             D == DOMAIN x.glob
  <2>1. q \in Seq(D) /\ n \in D
    BY <1>1, <1>2 DEF GlobState
  <2> HIDE DEF D
  <2>2. Len(q) \in Nat /\ Len(Append(q, n)) = Len(q) + 1 /\ Append(q, n)[Len(q) + 1] = n
        /\ \A i \in 1..Len(q) : Append(q, n)[i] = q[i]
    <3> HIDE DEF q, n
    <3> QED BY <2>1, LenProperties
  <2>3. Len(q) + 1 \in 1..Len(q) + 1 /\ \A i \in 1..Len(q) : i \in 1..Len(q) + 1
    BY <2>2
  <2> HIDE DEF q, n
  <2>4. Within(n, Append(q, n)) /\ \A e : Within(e, q) => Within(e, Append(q, n))
    BY <2>2, <2>3 DEF Within
  <2> QED BY <1>3, <2>4 DEF q, n
<1>8. GlobCovers(me)
  BY <1>1 DEF Covers
<1>9. ASSUME NEW n \in Old(me), Runs(n, me.value.text, me.i) PROVE Within(n, new.next) \/ Pending(new, n)
  <2>1. Within(n, me.next) \/ Pending(me, n)
    BY <1>8, <1>9 DEF GlobCovers
  <2>2. CASE Within(n, me.next)
    BY <1>7, <2>2
  <2>3. CASE Coming(me, n)
    BY <1>6, <1>7, <2>3 DEF Pending
  <2>4. CASE Spins(n) /\ \E j \in Rest1(me)..Len(me.cur) : n = me.cur[j]
    <3>1. Rest1(new) = Rest1(me)
      BY <1>3 DEF Rest1
    <3> QED BY <1>3, <2>4, <3>1 DEF Pending
  <2>5. ASSUME NEW m \in Old(me), n = Append(m, Spin), Coming(me, m) PROVE Pending(new, n)
    BY <1>3, <1>5, <1>6, <2>5 DEF Pending
  <2> QED BY <2>1, <2>2, <2>3, <2>4, <2>5 DEF Pending
<1>10. ASSUME NEW l \in GlobOf(me), Trails(l.arg), NEW j \in 0..me.i, Runs(Tok(l.arg)[Last(l.arg)], me.value.text, j)
       PROVE  l \in new.hits \/ (j = new.i /\ Coming(new, Tok(l.arg)[Last(l.arg)]))
  <2>1. l \in me.hits \/ (j = me.i /\ Coming(me, Tok(l.arg)[Last(l.arg)]))
    BY <1>8, <1>10, GlobCoversIs
  <2>2. l \in x.glob[Tok(l.arg)[Last(l.arg)]].reach
    BY <1>4, <1>10, TrailIs
  <2> QED BY <1>3, <1>6, <2>1, <2>2
<1>11. GlobCovers(new)
  <2>1. new.i > 0 => \A n \in Old(new) : Runs(n, new.value.text, new.i - 1) => Within(n, new.cur)
    BY <1>3, <1>5, <1>8 DEF GlobCovers
  <2>2. \A n \in Old(new) : Runs(n, new.value.text, new.i) => Within(n, new.next) \/ Pending(new, n)
    BY <1>3, <1>5, <1>9
  <2>3. \A l \in GlobOf(new) : Trails(l.arg) =>
            \A j \in 0..new.i : Runs(Tok(l.arg)[Last(l.arg)], new.value.text, j) =>
                l \in new.hits \/ (j = new.i /\ Coming(new, Tok(l.arg)[Last(l.arg)]))
    BY <1>3, <1>5, <1>10
  <2> QED BY <2>1, <2>2, <2>3, GlobCoversIs
<1>12. new.pc \in InGlob /\ new.pc \in {"final"} \cup InGlob /\ me.pc \in {"load", "final"} \cup InGlob
  BY <1>1, <1>3 DEF InGlob
<1> QED BY <1>2, <1>4, <1>11, <1>12, GlobCarries

\* The spinner of a node that is entered is in next, too.
LEMMA EnterSpinCovers ==
    ASSUME IndexFits, NEW me, ReaderFits(me), Covers(me), me.pc = "spin",
           NEW new, new = [me EXCEPT !.pc = "step", !.s = @ + 1,
                                     !.next = IF x.glob[me.node].spin
                                              THEN AddSpinner(@, Append(me.node, Spin)) ELSE @]
    PROVE  Covers(new)
<1>1. me.pc \in {"final"} \cup InGlob /\ me.pc \in InGlob
  BY DEF InGlob
<1>2. /\ DOMAIN me = Fields /\ me.stage = "glob" /\ GlobState(me)
  BY <1>1, GlobReaderIs
<1> DEFINE n0 == me.node
           m0 == Append(n0, Spin)
           q == me.next
           p == IF x.glob[n0].spin THEN AddSpinner(q, m0) ELSE q
<1>3. /\ new.pc = "step" /\ new.stage = me.stage /\ new.value = me.value
      /\ new.ready = me.ready /\ new.hits = me.hits /\ new.i = me.i
      /\ new.cur = me.cur /\ new.next = p /\ new.s = me.s + 1
  BY <1>2 DEF Fields
<1>4. MovesOn(me, new) /\ me.ready \subseteq added
  BY <1>3 DEF MovesOn, ReaderFits
<1>5. Old(new) = Old(me) /\ GlobOf(new) = GlobOf(me)
  BY <1>4, OldSame
<1>6. Rest1(new) = Rest1(me) /\ \A n : Coming(me, n) => Coming(new, n)
  <2>1. Rest1(new) = Rest1(me)
    BY <1>3 DEF Rest1
  <2> QED BY <1>3, <2>1 DEF Coming
<1>7. (m0 \in DOMAIN x.glob => Within(m0, p)) /\ \A n : Within(n, q) => Within(n, p)
  <2>1. n0 \in DOMAIN x.glob /\ q \in Seq(DOMAIN x.glob) /\ Distinct(q)
    BY <1>1, <1>2 DEF GlobState, Distinct
  <2>2. x.glob[n0].spin <=> m0 \in DOMAIN x.glob
    <3> HIDE DEF n0
    <3> QED BY <2>1, NodesAre DEF NodeFits
  <2>3. CASE x.glob[n0].spin
    <3>1. p = AddSpinner(q, m0) /\ m0 \in DOMAIN x.glob
      BY <2>2, <2>3
    <3> HIDE DEF p, q, m0
    <3>2. Within(m0, AddSpinner(q, m0)) /\ \A e : Within(e, q) => Within(e, AddSpinner(q, m0))
      BY <2>1, <3>1, AddSpinnerIs
    <3> QED BY <3>1, <3>2
  <2>4. CASE ~x.glob[n0].spin
    BY <2>2, <2>4
  <2> QED BY <2>3, <2>4
<1> HIDE DEF p
<1>8. GlobCovers(me)
  BY <1>1 DEF Covers
<1>9. ASSUME NEW n \in Old(me), Runs(n, me.value.text, me.i) PROVE Within(n, new.next) \/ Pending(new, n)
  <2>1. Within(n, me.next) \/ Pending(me, n)
    BY <1>8, <1>9 DEF GlobCovers
  <2>2. CASE Within(n, me.next)
    BY <1>3, <1>7, <2>2
  <2>3. CASE Coming(me, n)
    BY <1>6, <2>3 DEF Pending
  <2>4. CASE Spins(n) /\ \E j \in Rest1(me)..Len(me.cur) : n = me.cur[j]
    BY <1>3, <1>6, <2>4 DEF Pending
  <2>5. ASSUME NEW m \in Old(me), n = Append(m, Spin), Coming(me, m) PROVE Pending(new, n)
    BY <1>5, <1>6, <2>5 DEF Pending
  <2>6. ASSUME NEW m \in Old(me), n = Append(m, Spin), m = me.node PROVE Within(n, new.next)
    <3>1. n \in DOMAIN x.glob
      BY <1>4, OldIs
    <3> QED BY <1>3, <1>7, <2>6, <3>1
  <2> QED BY <2>1, <2>2, <2>3, <2>4, <2>5, <2>6 DEF Pending
<1>11. GlobCovers(new)
  <2>1. new.i > 0 => \A n \in Old(new) : Runs(n, new.value.text, new.i - 1) => Within(n, new.cur)
    BY <1>3, <1>5, <1>8 DEF GlobCovers
  <2>2. \A n \in Old(new) : Runs(n, new.value.text, new.i) => Within(n, new.next) \/ Pending(new, n)
    BY <1>3, <1>5, <1>9
  <2>3. ASSUME NEW l \in GlobOf(new), Trails(l.arg), NEW j \in 0..new.i,
               Runs(Tok(l.arg)[Last(l.arg)], new.value.text, j)
        PROVE  l \in new.hits \/ (j = new.i /\ Coming(new, Tok(l.arg)[Last(l.arg)]))
    <3>1. l \in me.hits \/ (j = me.i /\ Coming(me, Tok(l.arg)[Last(l.arg)]))
      BY <1>3, <1>5, <1>8, <2>3, GlobCoversIs
    <3> QED BY <1>3, <1>6, <3>1
  <2> QED BY <2>1, <2>2, <2>3, GlobCoversIs
<1>12. new.pc \in InGlob /\ new.pc \in {"final"} \cup InGlob /\ me.pc \in {"load", "final"} \cup InGlob
  BY <1>1, <1>3 DEF InGlob
<1> QED BY <1>2, <1>4, <1>11, <1>12, GlobCarries

\* Of a node of cur the kid is entered, and a spinner is kept.
LEMMA StepCovers ==
    ASSUME IndexFits, NEW me, ReaderFits(me), Covers(me), me.pc = "step", me.s <= Len(me.cur)
    PROVE  Covers(Stepped(me))
<1> DEFINE q == me.next
           n0 == Here(me)
           b == Byte(me)
           p == Kept(me)
           new == Stepped(me)
           taken == Append(n0, b) \in DOMAIN x.glob
<1>1. me.pc \in {"final"} \cup InGlob /\ me.pc \in InGlob
  BY DEF InGlob
<1>2. /\ DOMAIN me = Fields /\ me.stage = "glob" /\ GlobState(me) /\ me.s \in Nat \ {0} /\ Len(me.cur) \in Nat
  BY <1>1, GlobReaderIs, SMTT(30)
<1>3. /\ me.i \in 1..Len(me.value.text) /\ b \in 0..255 /\ me.s \in 1..Len(me.cur) /\ n0 \in DOMAIN x.glob
      /\ new = IF taken THEN [me EXCEPT !.pc = "enter", !.node = Append(n0, b), !.next = p]
               ELSE [me EXCEPT !.s = @ + 1, !.next = p]
  BY StepKeepsFit, Zenon
<1>4. n0 = me.cur[me.s] /\ b = me.value.text[me.i]
  BY DEF Here, Byte
<1>5. (\A n : Within(n, q) => Within(n, p)) /\ (Spins(n0) => Within(n0, p))
  <2>1. q \in Seq(DOMAIN x.glob) /\ Distinct(q)
    BY <1>2 DEF GlobState, Distinct
  <2>2. CASE Spins(n0)
    <3>1. p = AddSpinner(q, n0)
      BY <2>2 DEF Kept
    <3> HIDE DEF p, q, n0
    <3>2. Within(n0, AddSpinner(q, n0)) /\ \A e : Within(e, q) => Within(e, AddSpinner(q, n0))
      BY <1>3, <2>1, AddSpinnerIs
    <3> QED BY <3>1, <3>2
  <2>3. CASE ~Spins(n0)
    BY <2>3 DEF Kept
  <2> QED BY <2>2, <2>3
<1> HIDE DEF n0, b, p, new
<1>6. /\ new.stage = me.stage /\ new.value = me.value /\ new.ready = me.ready /\ new.hits = me.hits
      /\ new.i = me.i /\ new.cur = me.cur /\ new.next = p
      /\ taken => new.pc = "enter" /\ new.node = Append(n0, b) /\ new.s = me.s
      /\ ~taken => new.pc = "step" /\ new.s = me.s + 1
  BY <1>2, <1>3 DEF Fields
<1>7. Rest1(me) = me.s /\ Rest1(new) = me.s + 1
  BY <1>6 DEF Rest1
<1>8. MovesOn(me, new) /\ me.ready \subseteq added
  BY <1>6 DEF MovesOn, ReaderFits
<1>9. Old(new) = Old(me) /\ GlobOf(new) = GlobOf(me)
  BY <1>8, OldSame
<1>10. \A j \in Rest1(me)..Len(me.cur) : j = me.s \/ j \in Rest1(new)..Len(new.cur)
  BY <1>2, <1>6, <1>7
<1>11. ASSUME NEW n \in Old(me), Coming(me, n) PROVE Coming(new, n)
  <2>1. PICK j \in Rest1(me)..Len(me.cur) : n = Append(me.cur[j], me.value.text[me.i])
    BY <1>11 DEF Coming
  <2>2. CASE j = me.s
    <3>1. n = Append(n0, b)
      BY <1>4, <2>1, <2>2
    <3>2. n \in DOMAIN x.glob
      BY <1>8, OldIs
    <3>3. taken
      BY <3>1, <3>2
    <3> QED BY <1>6, <3>1, <3>3 DEF Coming
  <2>3. CASE j \in Rest1(new)..Len(new.cur)
    <3>1. new.i > 0 /\ n = Append(new.cur[j], new.value.text[new.i])
      BY <1>3, <1>6, <2>1
    <3> QED BY <2>3, <3>1 DEF Coming
  <2> QED BY <1>10, <2>2, <2>3
<1>12. GlobCovers(me)
  BY <1>1 DEF Covers
<1>13. ASSUME NEW n \in Old(me), Runs(n, me.value.text, me.i) PROVE Within(n, new.next) \/ Pending(new, n)
  <2>1. Within(n, me.next) \/ Pending(me, n)
    BY <1>12, <1>13 DEF GlobCovers
  <2>2. CASE Within(n, me.next)
    BY <1>5, <1>6, <2>2
  <2>3. CASE Coming(me, n)
    BY <1>11, <2>3 DEF Pending
  <2>4. CASE Spins(n) /\ \E j \in Rest1(me)..Len(me.cur) : n = me.cur[j]
    <3>1. PICK j \in Rest1(me)..Len(me.cur) : n = me.cur[j]
      BY <2>4
    <3>2. CASE j = me.s
      BY <1>4, <1>5, <1>6, <2>4, <3>1, <3>2
    <3>3. CASE j \in Rest1(new)..Len(new.cur)
      BY <1>6, <2>4, <3>1, <3>3 DEF Pending
    <3> QED BY <1>10, <3>2, <3>3
  <2>5. ASSUME NEW m \in Old(me), n = Append(m, Spin), Coming(me, m) PROVE Pending(new, n)
    BY <1>9, <1>11, <2>5 DEF Pending
  <2> QED BY <2>1, <2>2, <2>3, <2>4, <2>5 DEF Pending
<1>14. GlobCovers(new)
  <2>1. new.i > 0 => \A n \in Old(new) : Runs(n, new.value.text, new.i - 1) => Within(n, new.cur)
    BY <1>6, <1>9, <1>12 DEF GlobCovers
  <2>2. \A n \in Old(new) : Runs(n, new.value.text, new.i) => Within(n, new.next) \/ Pending(new, n)
    BY <1>6, <1>9, <1>13
  <2>3. ASSUME NEW l \in GlobOf(new), Trails(l.arg), NEW j \in 0..new.i,
               Runs(Tok(l.arg)[Last(l.arg)], new.value.text, j)
        PROVE  l \in new.hits \/ (j = new.i /\ Coming(new, Tok(l.arg)[Last(l.arg)]))
    <3>1. l \in me.hits \/ (j = me.i /\ Coming(me, Tok(l.arg)[Last(l.arg)]))
      BY <1>6, <1>9, <1>12, <2>3, GlobCoversIs
    <3>2. Tok(l.arg)[Last(l.arg)] \in Old(me)
      BY <1>8, <1>9, <2>3, TrailIs
    <3> QED BY <1>6, <1>11, <3>1, <3>2
  <2> QED BY <2>1, <2>2, <2>3, GlobCoversIs
<1>15. new.pc \in InGlob /\ new.pc \in {"final"} \cup InGlob /\ me.pc \in {"load", "final"} \cup InGlob
  BY <1>1, <1>6 DEF InGlob
<1>16. Covers(new)
  BY <1>2, <1>8, <1>14, <1>15, GlobCarries
<1> QED BY <1>16 DEF new

\* When all of cur has been stepped, next has every node that the text leads to.
LEMMA AllEntered ==
    ASSUME IndexFits, NEW me, ReaderFits(me), Covers(me), me.pc = "step", me.s > Len(me.cur)
    PROVE  /\ \A n \in Old(me) : Runs(n, me.value.text, me.i) => Within(n, me.next)
           /\ \A l \in GlobOf(me) : Trails(l.arg) =>
                \A j \in 0..me.i : Runs(Tok(l.arg)[Last(l.arg)], me.value.text, j) => l \in me.hits
<1>1. me.pc \in {"final"} \cup InGlob /\ me.pc \in InGlob
  BY DEF InGlob
<1>2. me.s \in Nat /\ Len(me.cur) \in Nat
  BY <1>1, GlobReaderIs
<1>3. Rest1(me) = me.s /\ Rest1(me)..Len(me.cur) = {}
  BY <1>2 DEF Rest1
<1>4. \A n : ~Coming(me, n)
  BY <1>3 DEF Coming
<1>5. \A n : ~Pending(me, n)
  BY <1>3, <1>4 DEF Pending
<1>6. GlobCovers(me)
  BY <1>1 DEF Covers
<1> QED BY <1>4, <1>5, <1>6, GlobCoversIs

\* A text that is not led any further leads nowhere later.
LEMMA NoneLeft ==
    ASSUME IndexFits, NEW me, me.ready \subseteq added, NEW s \in Strings, NEW i \in Nat, NEW l \in GlobOf(me),
           \A n \in Old(me) : ~Runs(n, s, i), NEW h, i <= h
    PROVE  ~Runs(Tok(l.arg)[Last(l.arg)], s, h)
<1> SUFFICES ASSUME Runs(Tok(l.arg)[Last(l.arg)], s, h) PROVE FALSE
  OBVIOUS
<1> DEFINE v == l.arg
           k == Last(l.arg)
<1>1. v \in Strings /\ ValidWildcard(v) /\ k \in 0..Len(v) /\ \A m \in 0..k : Tok(v)[m] \in Old(me)
  BY ReadyGlob
<1>2. Runs(Tok(v)[k], s, h)
  OBVIOUS
<1> HIDE DEF v, k
<1>3. \E m \in 0..k : Runs(Tok(v)[m], s, i)
  BY <1>1, <1>2, RunsEarly
<1> QED BY <1>1, <1>3

\* OldRuns for the next byte.
LEMMA OldGoes ==
    ASSUME IndexFits, NEW me, me.ready \subseteq added, NEW s \in Strings, NEW n \in Old(me), NEW i \in Nat,
           NEW k \in 0..Len(s), k = i + 1, Runs(n, s, k)
    PROVE  \/ \E m \in Old(me) : n = Append(m, s[k]) /\ Runs(m, s, i)
           \/ \E m \in Old(me), h \in 0..k : n = Append(m, Spin) /\ ~Spins(m) /\ Runs(m, s, h)
<1>1. \/ n = Root /\ k = 0
      \/ k > 0 /\ \E m \in Old(me) : n = Append(m, s[k]) /\ Runs(m, s, k - 1)
      \/ \E m \in Old(me), h \in 0..k : n = Append(m, Spin) /\ ~Spins(m) /\ Runs(m, s, h)
  BY OldRuns
<1>2. k - 1 = i /\ k # 0
  OBVIOUS
<1> QED BY <1>1, <1>2

\* The next byte begins with all nodes in cur, or the automaton ends with them.
LEMMA NextByteCovers ==
    ASSUME IndexFits, NEW me, ReaderFits(me), Covers(me), me.pc = "step", me.s > Len(me.cur),
           NEW new, new = [me EXCEPT !.cur = me.next, !.next = << >>, !.i = @ + 1, !.s = 1,
                                     !.pc = IF me.i < Len(me.value.text) /\ me.next # << >>
                                            THEN "step" ELSE "final"]
    PROVE  Covers(new)
<1> DEFINE s == me.value.text
           q == me.next
           i == me.i
<1>1. me.pc \in {"final"} \cup InGlob /\ me.pc \in InGlob
  BY DEF InGlob
<1>2. /\ DOMAIN me = Fields /\ me.stage = "glob" /\ s \in Strings /\ Len(s) \in Nat /\ i \in 0..Len(s)
      /\ Len(q) \in Nat
  <2>1. /\ DOMAIN me = Fields /\ me.stage = "glob" /\ GlobState(me) /\ s \in Strings /\ Len(s) \in Nat /\ i \in Nat
        /\ Len(q) \in Nat
    BY <1>1, GlobReaderIs
  <2>2. i <= Len(s)
    BY <1>1, <2>1 DEF GlobState
  <2> QED BY <2>1, <2>2
<1>3. /\ new.stage = me.stage /\ new.value = me.value
      /\ new.ready = me.ready /\ new.hits = me.hits /\ new.i = i + 1
      /\ new.cur = q /\ new.next = << >> /\ new.s = 1
      /\ new.pc = IF i < Len(s) /\ q # << >> THEN "step" ELSE "final"
  BY <1>2 DEF Fields
<1>4. MovesOn(me, new) /\ me.ready \subseteq added
  BY <1>3 DEF MovesOn, ReaderFits
<1>5. Old(new) = Old(me) /\ GlobOf(new) = GlobOf(me)
  BY <1>4, OldSame
<1>6. /\ \A n \in Old(me) : Runs(n, s, i) => Within(n, q)
      /\ \A l \in GlobOf(me) : Trails(l.arg) =>
            \A j \in 0..i : Runs(Tok(l.arg)[Last(l.arg)], s, j) => l \in me.hits
  BY AllEntered
<1>7. new.pc \in {"final"} \cup InGlob /\ me.pc \in {"load", "final"} \cup InGlob
  BY <1>1, <1>3 DEF InGlob
<1> HIDE DEF s, q, i
<1>8. CASE i < Len(s) /\ q # << >>
  <2> DEFINE k == i + 1
  <2>1. new.pc = "step" /\ Rest1(new) = 1 /\ k \in 0..Len(s) /\ k > 0 /\ k = i + 1 /\ k - 1 = i /\ i \in Nat
        /\ new.i = k
    BY <1>2, <1>3, <1>8 DEF Rest1
  <2> HIDE DEF k
  <2>2. ASSUME NEW m \in Old(me), Runs(m, s, i) PROVE Coming(new, Append(m, s[k]))
    <3>1. PICK j \in 1..Len(q) : q[j] = m
      BY <1>6, <2>2 DEF Within
    <3>2. j \in Rest1(new)..Len(new.cur) /\ new.cur[j] = m /\ new.value.text[new.i] = s[k] /\ new.i > 0
      BY <1>3, <2>1, <3>1 DEF s
    <3> QED BY <3>2 DEF Coming
  <2>3. ASSUME NEW n \in Old(me), Runs(n, s, k)
        PROVE  \/ \E m \in Old(me) : n = Append(m, s[k]) /\ Runs(m, s, i)
               \/ \E m \in Old(me), h \in 0..k : n = Append(m, Spin) /\ ~Spins(m) /\ Runs(m, s, h)
    BY <1>2, <1>4, <2>1, <2>3, OldGoes
  <2>4. ASSUME NEW n \in Old(me), Runs(n, s, k), ~Spins(n) PROVE Coming(new, n)
    <3>2. ASSUME NEW m \in Old(me), n = Append(m, Spin) PROVE FALSE
      <4>1. m \in Nodes /\ Spin \in 0..256
        BY <1>4, OldIs, SMTT(30) DEF Spin
      <4>2. Spins(Append(m, Spin))
        BY <4>1, NodeMore, Zenon
      <4> QED BY <2>4, <3>2, <4>2
    <3>4. PICK m \in Old(me) : n = Append(m, s[k]) /\ Runs(m, s, i)
      BY <2>4, <2>3, <3>2
    <3> QED BY <2>2, <3>4
  <2>5. ASSUME NEW n \in Old(me), Runs(n, s, k) PROVE Pending(new, n)
    <3>1. CASE ~Spins(n)
      BY <2>4, <2>5, <3>1 DEF Pending
    <3>2. CASE Spins(n)
      <4>3. CASE \E m \in Old(me) : n = Append(m, s[k]) /\ Runs(m, s, i)
        BY <2>2, <4>3 DEF Pending
      <4>4. ASSUME NEW m \in Old(me), NEW h \in 0..k, n = Append(m, Spin), ~Spins(m), Runs(m, s, h)
            PROVE  Pending(new, n)
        <5>1. CASE h = k
          <6>1. Coming(new, m)
            BY <2>4, <4>4, <5>1
          <6> QED BY <1>5, <4>4, <6>1 DEF Pending
        <5>2. CASE h # k
          <6>1. i \in h..Len(s)
            BY <1>2, <2>1, <5>2
          <6>0. m \in Nodes
            BY <1>4, OldIs
          <6>2. Runs(n, s, i)
            BY <1>2, <4>4, <6>0, <6>1, SpinRuns
          <6>3. PICK j \in 1..Len(q) : q[j] = n
            BY <1>6, <6>2 DEF Within
          <6>4. j \in Rest1(new)..Len(new.cur) /\ n = new.cur[j]
            BY <1>3, <2>1, <6>3
          <6> QED BY <3>2, <6>4 DEF Pending
        <5> QED BY <5>1, <5>2
      <4> QED BY <2>5, <2>3, <4>3, <4>4
    <3> QED BY <3>1, <3>2
  <2>6. ASSUME NEW l \in GlobOf(me), Trails(l.arg), NEW j \in 0..k, Runs(Tok(l.arg)[Last(l.arg)], s, j)
        PROVE  l \in new.hits \/ (j = new.i /\ Coming(new, Tok(l.arg)[Last(l.arg)]))
    <3>1. CASE j = k
      <4> DEFINE n == Tok(l.arg)[Last(l.arg)]
      <4>1. n \in Old(me) /\ ~Spins(n) /\ Runs(n, s, k)
        BY <1>4, <2>6, <3>1, TrailIs
      <4> HIDE DEF n
      <4>2. Coming(new, n)
        BY <2>4, <4>1
      <4> QED BY <2>1, <3>1, <4>2 DEF n
    <3>2. CASE j # k
      <4>1. j \in 0..i
        BY <1>2, <2>1, <3>2
      <4> QED BY <1>3, <1>6, <2>6, <4>1
    <3> QED BY <3>1, <3>2
  <2>7. GlobCovers(new)
    <3>1. new.i > 0 => \A n \in Old(new) : Runs(n, new.value.text, new.i - 1) => Within(n, new.cur)
      <4>1. new.i - 1 = i
        <5>1. new.i = k
          BY <2>1
        <5> QED BY <2>1, <5>1
      <4> QED BY <1>3, <1>5, <1>6, <4>1 DEF s
    <3>2. \A n \in Old(new) : Runs(n, new.value.text, new.i) => Within(n, new.next) \/ Pending(new, n)
      BY <1>3, <1>5, <2>1, <2>5 DEF s
    <3>3. \A l \in GlobOf(new) : Trails(l.arg) =>
            \A j \in 0..new.i : Runs(Tok(l.arg)[Last(l.arg)], new.value.text, j) =>
                l \in new.hits \/ (j = new.i /\ Coming(new, Tok(l.arg)[Last(l.arg)]))
      BY <1>3, <1>5, <2>1, <2>6 DEF s
    <3> QED BY <3>1, <3>2, <3>3, GlobCoversIs
  <2>8. new.pc \in InGlob
    BY <2>1 DEF InGlob
  <2> QED BY <1>2, <1>4, <1>7, <2>7, <2>8, GlobCarries
<1>9. CASE ~(i < Len(s) /\ q # << >>)
  <2>1. new.pc = "final"
    BY <1>3, <1>9
  <2>2. i < Len(s) => \A n \in Old(me) : ~Runs(n, s, i)
    <3> SUFFICES ASSUME i < Len(s), NEW n \in Old(me), Runs(n, s, i) PROVE FALSE
      OBVIOUS
    <3>1. Within(n, q)
      BY <1>6
    <3>2. q = << >>
      BY <1>9
    <3>3. Len(q) = 0
      BY <3>2
    <3> QED BY <3>1, <3>3 DEF Within
  <2>3. ASSUME NEW l \in GlobOf(me), LeafMatches(l, new.value)
        PROVE  l \in new.hits \/ Ahead(new, l)
    <3> DEFINE n == Tok(l.arg)[Last(l.arg)]
    <3>1. Runs(End(l.arg), s, Len(s)) /\ l.kind = "glob"
      BY <1>3, <2>3 DEF LeafMatches, GlobOf, s
    <3>2. \A h \in i..Len(s) : i < Len(s) => ~Runs(n, s, h)
      <4> SUFFICES ASSUME NEW h \in i..Len(s), i < Len(s) PROVE ~Runs(n, s, h)
        OBVIOUS
      <4>1. i \in Nat /\ i <= h /\ \A m \in Old(me) : ~Runs(m, s, i)
        BY <1>2, <2>2
      <4> QED BY <1>2, <1>4, <4>1, NoneLeft
    <3>3. CASE Trails(l.arg)
      <4>1. n \in Old(me) /\ End(l.arg) = Append(n, Spin)
        BY <1>4, <3>3, TrailIs
      <4>2. n \in Nodes /\ Spin \in 0..256
        BY <1>4, <4>1, OldIs DEF Spin
      <4>3. PICK h \in 0..Len(s) : Runs(n, s, h)
        <5> HIDE DEF n
        <5>1. Runs(Append(n, Spin), s, Len(s))
          BY <3>1, <4>1
        <5> QED BY <1>2, <4>2, <5>1, RunsAppend
      <4>4. h \in 0..i
        <5>1. CASE i < Len(s)
          <6>1. h \notin i..Len(s)
            BY <3>2, <4>3, <5>1
          <6> HIDE DEF n
          <6> QED BY <1>2, <4>3, <6>1
        <5>2. CASE ~(i < Len(s))
          BY <1>2, <5>2
        <5> QED BY <5>1, <5>2
      <4> QED BY <1>3, <1>6, <3>3, <4>3, <4>4
    <3>4. CASE ~Trails(l.arg)
      <4>1. n \in Old(me) /\ End(l.arg) = n
        <5>1. /\ Last(l.arg) \in 0..Len(l.arg) /\ Len(l.arg) \in Nat
              /\ \A k \in 0..Last(l.arg) : Tok(l.arg)[k] \in Old(me)
              /\ End(l.arg) = Tok(l.arg)[Last(l.arg)]
          BY <1>4, <3>4, ReadyGlob
        <5>2. Last(l.arg) \in 0..Last(l.arg)
          BY <5>1
        <5> QED BY <5>1, <5>2
      <4> HIDE DEF n
      <4>2. Runs(n, s, Len(s))
        BY <3>1, <4>1
      <4>3. i = Len(s)
        <5>1. Len(s) \in i..Len(s)
          BY <1>2
        <5>2. ~(i < Len(s))
          BY <3>2, <4>2, <5>1
        <5> QED BY <1>2, <5>2
      <4>4. PICK j \in 1..Len(q) : q[j] = n
        BY <1>6, <4>1, <4>2, <4>3 DEF Within
      <4>5. j \in new.s..Len(new.cur) /\ new.cur[j] = End(l.arg)
        BY <1>3, <4>1, <4>4
      <4> QED BY <2>1, <3>1, <3>4, <4>5 DEF Ahead
    <3> QED BY <3>3, <3>4
  <2> QED BY <1>2, <1>4, <1>7, <2>1, <2>3, GlobCarries
<1> QED BY <1>8, <1>9

\* What is left to find after the last byte.
LEMMA FinalAhead ==
    ASSUME IndexFits, NEW me, ReaderFits(me), Covers(me), me.pc = "final", NEW l \in me.ready,
           LeafMatches(l, me.value), l \notin me.hits
    PROVE  \/ Later(me, l) /\ l \notin GlobOf(me)
           \/ l \in GlobOf(me) /\ ~Trails(l.arg) /\ \E j \in me.s..Len(me.cur) : me.cur[j] = End(l.arg)
<1>1. me.pc \in {"final"} \cup InGlob
  OBVIOUS
<1>2. me.stage = "glob" /\ me.ready \subseteq added
  BY <1>1 DEF ReaderFits
<1>3. IsLeaf(l)
  BY <1>2, ReadyAre
<1>4. Ahead(me, l)
  BY DEF Covers
<1>5. CASE l.kind = "glob"
  <2>1. StageOf(l) = "glob"
    BY <1>3, <1>5, StageOfLeaf DEF LeafKinds, Affixes
  <2>2. "glob" \in StageNames
    BY <1>3, <2>1, StageOfLeaf
  <2>3. StageNo("glob") \in 1..6
    BY <2>2, StagesAre
  <2>4. ~(StageNo(me.stage) < StageNo(StageOf(l)))
    BY <1>2, <2>1, <2>3
  <2> QED BY <1>4, <1>5, <2>4 DEF Ahead, GlobOf, InGlob
<1>6. CASE l.kind # "glob"
  BY <1>4, <1>6, SMTT(30) DEF Ahead, GlobOf, InGlob, Later
<1> QED BY <1>5, <1>6

\* A node that is left has its leaves found.
LEMMA FinalCovers ==
    ASSUME IndexFits, NEW me, ReaderFits(me), Covers(me), me.pc = "final", me.s <= Len(me.cur),
           NEW new, new = [me EXCEPT !.s = @ + 1, !.hits = @ \cup x.glob[me.cur[me.s]].final]
    PROVE  Covers(new)
<1>1. me.pc \in {"final"} \cup InGlob
  OBVIOUS
<1>2. DOMAIN me = Fields /\ me.stage = "glob" /\ me.s \in Nat \ {0} /\ Len(me.cur) \in Nat
  BY <1>1, GlobReaderIs
<1>3. /\ new.stage = me.stage /\ new.value = me.value /\ new.ready = me.ready
      /\ new.hits = me.hits \cup x.glob[me.cur[me.s]].final
      /\ new.cur = me.cur /\ new.s = me.s + 1 /\ new.pc = "final"
  BY <1>2 DEF Fields
<1>4. MovesOn(me, new) /\ me.ready \subseteq added
  BY <1>3 DEF MovesOn, ReaderFits
<1>5. \A j \in me.s..Len(me.cur) : j = me.s \/ j \in new.s..Len(new.cur)
  BY <1>2, <1>3
<1>6. ASSUME NEW l \in GlobOf(me), LeafMatches(l, new.value) PROVE l \in new.hits \/ Ahead(new, l)
  <2>1. CASE l \in me.hits
    BY <1>3, <2>1
  <2>2. CASE l \notin me.hits
    <3>1. l \in me.ready /\ LeafMatches(l, me.value) /\ l.kind = "glob"
      BY <1>3, <1>6 DEF GlobOf
    <3>2. ~Trails(l.arg) /\ \E j \in me.s..Len(me.cur) : me.cur[j] = End(l.arg)
      BY <1>6, <2>2, <3>1, FinalAhead
    <3>3. PICK j \in me.s..Len(me.cur) : me.cur[j] = End(l.arg)
      BY <3>2
    <3>4. CASE j = me.s
      <4>1. l \in x.glob[End(l.arg)].final
        BY <1>4, <1>6, <3>2, ReadyGlob
      <4> QED BY <1>3, <3>3, <3>4, <4>1
    <3>5. CASE j \in new.s..Len(new.cur)
      BY <1>3, <3>1, <3>2, <3>3, <3>5 DEF Ahead
    <3> QED BY <1>5, <3>4, <3>5
  <2> QED BY <2>1, <2>2
<1>7. new.pc \in {"final"} \cup InGlob /\ me.pc \in {"load", "final"} \cup InGlob
  BY <1>3
<1> QED BY <1>2, <1>3, <1>4, <1>6, <1>7, GlobCarries

\* After the automaton no wildcard leaf is missing.
LEMMA LeaveGlobCovers ==
    ASSUME IndexFits, NEW me, ReaderFits(me), Covers(me), me.pc = "final", me.s > Len(me.cur),
           NEW new, new = [me EXCEPT !.cur = << >>, !.s = 1]
    PROVE  Covers(Leave(new))
<1>1. me.pc \in {"final"} \cup InGlob
  OBVIOUS
<1>2. DOMAIN me = Fields /\ me.s \in Nat \ {0} /\ Len(me.cur) \in Nat
  BY <1>1, GlobReaderIs
<1>3. new.stage = me.stage /\ new.value = me.value /\ new.ready = me.ready /\ new.hits = me.hits
  BY <1>2 DEF Fields
<1>4. Base(new)
  BY LeaveGlobFits
<1>5. me.s..Len(me.cur) = {}
  BY <1>2
<1>6. ASSUME NEW l \in new.ready, LeafMatches(l, new.value), l \notin new.hits PROVE Later(new, l)
  <2>1. l \in me.ready /\ LeafMatches(l, me.value) /\ l \notin me.hits
    BY <1>3, <1>6
  <2>2. Later(me, l)
    BY <1>5, <2>1, FinalAhead
  <2> QED BY <1>3, <2>2 DEF Later
<1> QED BY <1>4, <1>6, LeaveCovers

-----------------------------------------------------------------------------
(* Every step leaves no leaf behind.                                       *)

\* Every step of a reader leaves no leaf behind.
LEMMA ReaderKeepsCover ==
    ASSUME IndexFits, NEW r \in Readers, ReaderFits(rd[r]), Covers(rd[r]), Reader(r)
    PROVE  \E me : Covers(me) /\ Set(r, me)
<1> DEFINE me == rd[r]
<1>1. CASE \E v \in ValuesOf[patterns] : Collect(r, v)
  BY <1>1, CollectCovers
<1>2. CASE LoadEquals(r) \/ LoadLens(r) \/ LoadCidr(r) \/ Lookup(r) \/ LoadNumber(r) \/ LoadExists(r)
           \/ LoadGlob(r) \/ Rest(r)
  BY <1>2, LoadEqualsCovers, LoadLensCovers, LoadCidrCovers, LookupCovers, LoadNumberCovers,
     LoadExistsCovers, LoadGlobCovers, RestCovers
<1>3. CASE Enter(r)
  <2> DEFINE new == [me EXCEPT !.pc = "spin", !.next = Append(@, me.node), !.hits = @ \cup x.glob[me.node].reach]
  <2>1. me.pc = "enter" /\ Set(r, new)
    BY <1>3 DEF Enter
  <2>2. Covers(new)
    BY <2>1, EnterCovers
  <2> QED BY <2>1, <2>2
<1>4. CASE EnterSpin(r)
  <2> DEFINE new == [me EXCEPT !.pc = "step", !.s = @ + 1,
                               !.next = IF x.glob[me.node].spin
                                        THEN AddSpinner(@, Append(me.node, Spin)) ELSE @]
  <2>1. me.pc = "spin" /\ Set(r, new)
    BY <1>4 DEF EnterSpin
  <2>2. Covers(new)
    BY <2>1, EnterSpinCovers
  <2> QED BY <2>1, <2>2
<1>5. CASE Step(r)
  <2>1. me.pc = "step" /\ me.s <= Len(me.cur) /\ Set(r, Stepped(me))
    BY <1>5, Zenon DEF Step, Stepped, Kept, Here, Byte, Spins, Text
  <2> HIDE DEF me
  <2>2. ReaderFits(me) /\ Covers(me)
    BY DEF me
  <2>3. Covers(Stepped(me))
    BY <2>1, <2>2, StepCovers
  <2> QED BY <2>1, <2>3, SMTT(30)
<1>6. CASE NextByte(r)
  <2> DEFINE new == [me EXCEPT !.cur = me.next, !.next = << >>, !.i = @ + 1, !.s = 1,
                               !.pc = IF me.i < Len(me.value.text) /\ me.next # << >> THEN "step" ELSE "final"]
  <2>1. me.pc = "step" /\ me.s > Len(me.cur) /\ Set(r, new)
    BY <1>6 DEF NextByte, Text
  <2>2. Covers(new)
    BY <2>1, NextByteCovers
  <2> QED BY <2>1, <2>2
<1>7. CASE Final(r)
  <2>1. CASE me.s > Len(me.cur)
    <3> DEFINE new == [me EXCEPT !.cur = << >>, !.s = 1]
    <3>1. me.pc = "final" /\ Set(r, Leave(new))
      BY <1>7, <2>1 DEF Final
    <3>2. Covers(Leave(new))
      BY <2>1, <3>1, LeaveGlobCovers
    <3> HIDE DEF new
    <3> QED BY <3>1, <3>2
  <2>2. CASE ~(me.s > Len(me.cur))
    <3> DEFINE new == [me EXCEPT !.s = @ + 1, !.hits = @ \cup x.glob[me.cur[me.s]].final]
    <3>1. me.pc = "final" /\ Set(r, new)
      BY <1>7, <2>2 DEF Final
    <3>2. me.s <= Len(me.cur)
      <4>1. me.pc \in {"final"} \cup InGlob
        BY <3>1
      <4> HIDE DEF me
      <4>2. ReaderFits(me)
        BY DEF me
      <4>3. me.s \in Nat /\ Len(me.cur) \in Nat
        BY <4>1, <4>2, GlobReaderIs, SMTT(30)
      <4> QED BY <2>2, <4>3
    <3>3. Covers(new)
      BY <3>1, <3>2, FinalCovers
    <3> QED BY <3>1, <3>3
  <2> QED BY <2>1, <2>2
<1> QED BY <1>1, <1>2, <1>3, <1>4, <1>5, <1>6, <1>7 DEF Reader

\* A reader that is idle has no leaves to find.
LEMMA ReadersCoverInit == Init => ReadersCover
<1> SUFFICES ASSUME Init PROVE ReadersCover
  OBVIOUS
<1>1. rd = [r \in Readers |-> IdleReader]
  BY DEF Init
<1>2. IdleReader.pc = "idle" /\ IdleReader.ready = {}
  BY DEF IdleReader
<1>3. Covers(IdleReader)
  BY <1>2 DEF Covers, InGlob
<1> HIDE DEF IdleReader
<1> QED BY <1>1, <1>3 DEF ReadersCover

\* Every step leaves no leaf behind.
LEMMA ReadersCoverNext == IndexFits /\ ReadersFit /\ ReadersCover /\ [Next]_vars => ReadersCover'
<1> SUFFICES ASSUME IndexFits, ReadersFit, ReadersCover, [Next]_vars PROVE ReadersCover'
  OBVIOUS
<1>1. CASE rd' = rd
  <2>1. \A q \in Readers : Covers(rd'[q])
    BY <1>1 DEF ReadersCover
  <2> QED BY <2>1 DEF ReadersCover, Covers, GlobCovers, Ahead, Pending, Coming, Old, Rest1, Within
<1>2. CASE UNCHANGED vars \/ Writer
  BY <1>1, <1>2, WriterGrows DEF vars
<1>3. CASE \E r \in Readers : Reader(r)
  <2>1. PICK r \in Readers : Reader(r)
    BY <1>3
  <2>2. ReaderFits(rd[r]) /\ Covers(rd[r]) /\ DOMAIN rd = Readers
    BY DEF ReadersFit, ReadersCover
  <2>3. PICK me : Covers(me) /\ Set(r, me)
    BY <2>1, <2>2, ReaderKeepsCover
  <2>4. \A q \in Readers : rd'[q] = IF q = r THEN me ELSE rd[q]
    BY <2>2, <2>3 DEF Set
  <2>5. \A q \in Readers : Covers(rd'[q])
    BY <2>3, <2>4 DEF ReadersCover
  <2> QED BY <2>5 DEF ReadersCover, Covers, GlobCovers, Ahead, Pending, Coming, Old, Rest1, Within
<1> QED BY <1>2, <1>3 DEF Next

-----------------------------------------------------------------------------
(* The properties.                                                         *)

\* What holds of the readers whenever the invariants do.
LEMMA FitMeans == IndexFits /\ ReadersFit => HitsMatch /\ NeverPanics /\ NodesAreVisitedOnce
<1> SUFFICES ASSUME IndexFits, ReadersFit PROVE HitsMatch /\ NeverPanics /\ NodesAreVisitedOnce
  OBVIOUS
<1>1. patterns \in PatternSets
  BY DEF IndexFits, WriterFits
<1>2. HitsMatch
  <2> SUFFICES ASSUME NEW r \in Readers, NEW l \in rd[r].hits
               PROVE  l \in Leaves /\ \A p \in PatternsOf(l) : ValueMatches(p, rd[r].value)
    BY DEF HitsMatch, Leaves
  <2>1. l \in Leaves /\ LeafMatches(l, rd[r].value)
    BY DEF ReadersFit, ReaderFits
  <2>2. rd[r].value \in ValuesOf[patterns]
    BY DEF ReadersFit, ReaderFits
  <2> DEFINE v == rd[r].value
  <2> HIDE DEF v
  <2>3. \A p \in PatternsOf(l) : ValueMatches(p, v)
    BY <1>1, <2>1, <2>2, LeavesAre DEF v
  <2> QED BY <2>1, <2>3 DEF v
<1>3. NeverPanics
  BY DEF NeverPanics, ReadersFit, ReaderFits, InGlob
<1>4. NodesAreVisitedOnce
  <2> SUFFICES ASSUME NEW r \in Readers PROVE \A i, j \in 1..Len(rd[r].next) : rd[r].next[i] = rd[r].next[j] => i = j
    BY DEF NodesAreVisitedOnce
  <2>1. CASE rd[r].pc \in InGlob
    BY <2>1 DEF ReadersFit, ReaderFits, GlobState
  <2>2. CASE rd[r].pc \notin InGlob
    <3>1. rd[r].next = << >>
      BY <2>2 DEF ReadersFit, ReaderFits
    <3>2. Len(rd[r].next) = 0
      BY <3>1
    <3> QED BY <3>2
  <2> QED BY <2>1, <2>2
<1> QED BY <1>2, <1>3, <1>4

\* A call that is done has nothing ahead.
LEMMA CoverMeans == IndexFits /\ ReadersFit /\ ReadersCover => AddedLeavesAreFound
<1> SUFFICES ASSUME IndexFits, ReadersFit, ReadersCover, NEW r \in Readers, rd[r].pc = "done",
                    NEW l \in rd[r].ready, NEW p \in PatternsOf(l), ValueMatches(p, rd[r].value)
             PROVE  l \in rd[r].hits
  BY DEF AddedLeavesAreFound
<1> DEFINE me == rd[r]
           v == me.value
<1>1. ReaderFits(me) /\ Covers(me)
  BY DEF ReadersFit, ReadersCover
<1>2. patterns \in PatternSets /\ added \subseteq Leaves
  BY DEF IndexFits, WriterFits
<1>3. v \in ValuesOf[patterns] /\ l \in Leaves
  BY <1>1, <1>2 DEF ReaderFits
<1>4. ValueMatches(p, v) /\ me.pc = "done" /\ l \in me.ready
  OBVIOUS
<1> HIDE DEF v
<1>5. LeafMatches(l, v)
  BY <1>2, <1>3, <1>4, LeavesAre
<1> HIDE DEF me
<1>6. l \in me.hits
  BY <1>1, <1>4, <1>5 DEF Covers, Ahead, InGlob, v
<1> QED BY <1>6 DEF me

\* Every entry around a number is found at one place.
LEMMA NumbersMean == IndexFits => NumbersFound
<1> SUFFICES ASSUME IndexFits, NEW v \in ValuesOf[patterns], v.num # NoNum
             PROVE  LET found == CollectNumbers(x.number, v.num)
                        in == {l \in added \cup {w.leaf} : l.kind = "number"}
                    IN  /\ \A l \in added : l.kind = "number" =>
                            Cardinality({i \in 1..Len(found) : found[i].leaf = l})
                                = IF Contains(l.arg, v.num) THEN 1 ELSE 0
                        /\ \A i \in 1..Len(found) : found[i].leaf \in in
  BY DEF NumbersFound
<1> DEFINE n == v.num
           found == CollectNumbers(x.number, n)
           A == Around(Entries, n)
<1>1. n \in Int
  BY LeavesAre DEF IndexFits, WriterFits, IsValue
<1> HIDE DEF n
<1>2. Each(found, A)
  BY <1>1, EntriesAre, CollectFits
<1>3. added \subseteq Done /\ Done \subseteq added \cup {w.leaf}
  BY DEF Done
<1> HIDE DEF found
<1>4. /\ Len(found) \in Nat /\ found \in [1..Len(found) -> A]
      /\ \A e \in A : \E i \in 1..Len(found) : found[i] = e
      /\ \A i, j \in 1..Len(found) : found[i] = found[j] => i = j
  BY <1>2, EachIs DEF Each
<1>5. ASSUME NEW i \in 1..Len(found)
      PROVE  /\ found[i] = Entry(found[i].leaf) /\ found[i].leaf \in Done /\ found[i].leaf.kind = "number"
             /\ Contains(found[i].leaf.arg, n)
  <2>1. found[i] \in Entries /\ Contains(found[i].iv, n)
    BY <1>4 DEF Around
  <2>2. PICK l \in Done : l.kind = "number" /\ found[i] = Entry(l)
    BY <2>1 DEF Entries
  <2>3. Entry(l).leaf = l /\ Entry(l).iv = l.arg
    BY DEF Entry
  <2> QED BY <2>1, <2>2, <2>3
<1>6. ASSUME NEW l \in added, l.kind = "number"
      PROVE  Cardinality({i \in 1..Len(found) : found[i].leaf = l}) = IF Contains(l.arg, n) THEN 1 ELSE 0
  <2> DEFINE at == {i \in 1..Len(found) : found[i].leaf = l}
  <2>1. CASE Contains(l.arg, n)
    <3>1. Entry(l) \in A /\ Entry(l).leaf = l
      <4>1. Entry(l) \in Entries /\ Entry(l).iv = l.arg /\ Entry(l).leaf = l
        BY <1>3, <1>6, EntriesAre DEF Entry
      <4> QED BY <2>1, <4>1 DEF Around
    <3> HIDE DEF A
    <3>2. PICK i \in 1..Len(found) : found[i] = Entry(l)
      BY <1>4, <3>1
    <3>3. \A j \in 1..Len(found) : found[j].leaf = l => found[j] = found[i]
      BY <1>5, <3>2
    <3>4. at = {i}
      BY <1>4, <3>1, <3>2, <3>3
    <3>5. Cardinality(at) = 1
      BY <3>4, FS_Singleton
    <3> QED BY <2>1, <3>5
  <2>2. CASE ~Contains(l.arg, n)
    <3>1. at = {}
      BY <1>5, <2>2
    <3>2. Cardinality(at) = 0
      BY <3>1, FS_EmptySet
    <3> QED BY <2>2, <3>2
  <2> QED BY <2>1, <2>2
<1>7. \A i \in 1..Len(found) : found[i].leaf \in {l \in added \cup {w.leaf} : l.kind = "number"}
  BY <1>3, <1>5
<1> QED BY <1>6, <1>7 DEF found, n

\* add keeps every structure of the index in order, at each of its stores: the
\* tables, the lengths, the automaton and the number index hold what has been
\* published of the leaves, and nothing else (valueIndex.add).
THEOREM IndexIsKept == Spec => []IndexFits
<1>1. Init => IndexFits
  BY IndexInit
<1>2. IndexFits /\ [Next]_vars => IndexFits'
  BY IndexNext
<1> QED BY <1>1, <1>2, PTL DEF Spec

\* A reader's place in the index is one that its lookups lead to, whatever the
\* writer has stored meanwhile (valueIndex.collect, globNode).
THEOREM ReadersAreKept == Spec => []ReadersFit
<1>1. Init => IndexFits /\ ReadersFit
  BY IndexInit, ReadersInit
<1>2. IndexFits /\ ReadersFit /\ [Next]_vars => (IndexFits /\ ReadersFit)'
  BY IndexNext, ReadersNext
<1> QED BY <1>1, <1>2, PTL DEF Spec

\* A reader has found each leaf that matches, or still has to look at what it is
\* in, if its add had returned when the call began.
THEOREM ReadersAreCovered == Spec => []ReadersCover
<1>1. Init => IndexFits /\ ReadersFit /\ ReadersCover
  BY IndexInit, ReadersInit, ReadersCoverInit
<1>2. IndexFits /\ ReadersFit /\ ReadersCover /\ [Next]_vars => (IndexFits /\ ReadersFit /\ ReadersCover)'
  BY IndexNext, ReadersNext, ReadersCoverNext
<1> QED BY <1>1, <1>2, PTL DEF Spec

\* collect finds only leaves that match the value, as each of their patterns is
\* understood by itself.
THEOREM FoundLeavesMatch == Spec => []HitsMatch
BY FitMeans, IndexIsKept, ReadersAreKept, PTL

\* collect finds every leaf that matches the value and had been added.
THEOREM NoLeafIsMissed == Spec => []AddedLeavesAreFound
BY CoverMeans, IndexIsKept, ReadersAreKept, ReadersAreCovered, PTL

\* A structure whose kind a reader sees is there.
THEOREM KindsComeLast == Spec => []NeverPanics
BY FitMeans, IndexIsKept, ReadersAreKept, PTL

\* The simulation of the automaton has no node twice.
THEOREM NodesAreDistinct == Spec => []NodesAreVisitedOnce
BY FitMeans, IndexIsKept, ReadersAreKept, PTL

\* Every number finds each interval around it once (numIndex.collect).
THEOREM IntervalsAreFoundOnce == Spec => []NumbersFound
BY NumbersMean, IndexIsKept, PTL
=============================================================================
