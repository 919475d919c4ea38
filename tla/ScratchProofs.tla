----------------------------- MODULE ScratchProofs -----------------------------
(***************************************************************************)
(* Theorems about Scratch, for any rules, events, hashes and table sizes:  *)
(* the span table always has an empty slot, however reset, addWild and     *)
(* record enter spans, and the formulas of a group see its own hits only.  *)
(***************************************************************************)
EXTENDS Scratch, FiniteSetTheorems, TLAPS

-----------------------------------------------------------------------------
(* Sequences of anything.                                                  *)

IsSeq(q) == \E S : q \in Seq(S)

\* Append keeps a sequence one.
LEMMA SeqAppend ==
    ASSUME NEW q, IsSeq(q), NEW e
    PROVE  /\ IsSeq(Append(q, e)) /\ Len(Append(q, e)) = Len(q) + 1 /\ Len(q) \in Nat
           /\ \A i \in 1..Len(q) : Append(q, e)[i] = q[i]
           /\ Append(q, e)[Len(q) + 1] = e
<1>1. PICK S : q \in Seq(S)
  BY DEF IsSeq
<1>2. q \in Seq(S \cup {e}) /\ e \in S \cup {e}
  BY <1>1
<1>3. /\ Append(q, e) \in Seq(S \cup {e}) /\ Len(Append(q, e)) = Len(q) + 1 /\ Len(q) \in Nat
      /\ \A i \in 1..Len(q) : Append(q, e)[i] = q[i]
      /\ Append(q, e)[Len(q) + 1] = e
  BY <1>2
<1> QED BY <1>3 DEF IsSeq

\* The length of a sequence is a number.
LEMMA SeqLen ==
    ASSUME NEW q, IsSeq(q)
    PROVE  Len(q) \in Nat /\ DOMAIN q = 1..Len(q)
  BY DEF IsSeq

\* A function on 1..n is a sequence of length n.
LEMMA SeqOfFunction ==
    ASSUME NEW n \in Nat, NEW f, f = [i \in 1..n |-> f[i]]
    PROVE  IsSeq(f) /\ Len(f) = n
<1>1. f \in [1..n -> {f[i] : i \in 1..n}]
  OBVIOUS
<1>2. f \in Seq({f[i] : i \in 1..n}) /\ Len(f) = n
  BY <1>1
<1> QED BY <1>2 DEF IsSeq

\* A store at an index keeps a sequence and its length.
LEMMA SeqExcept ==
    ASSUME NEW q, IsSeq(q), NEW k, NEW e
    PROVE  /\ IsSeq([q EXCEPT ![k] = e]) /\ Len([q EXCEPT ![k] = e]) = Len(q)
           /\ \A i \in 1..Len(q) : [q EXCEPT ![k] = e][i] = IF i = k THEN e ELSE q[i]
<1>1. Len(q) \in Nat /\ DOMAIN q = 1..Len(q)
  BY SeqLen
<1>2. [q EXCEPT ![k] = e] = [i \in 1..Len(q) |-> IF i = k THEN e ELSE q[i]]
  BY <1>1
<1> DEFINE f == [q EXCEPT ![k] = e]
<1>3. f = [i \in 1..Len(q) |-> f[i]]
  BY <1>2
<1>4. \A i \in 1..Len(q) : f[i] = IF i = k THEN e ELSE q[i]
  BY <1>2
<1> HIDE DEF f
<1>5. IsSeq(f) /\ Len(f) = Len(q)
  BY <1>1, <1>3, SeqOfFunction
<1> QED BY <1>4, <1>5 DEF f

\* So is the beginning of a sequence.
LEMMA SeqFront ==
    ASSUME NEW q, NEW n \in Nat
    PROVE  /\ IsSeq(SubSeq(q, 1, n)) /\ Len(SubSeq(q, 1, n)) = n
           /\ \A i \in 1..n : SubSeq(q, 1, n)[i] = q[i]
<1>1. SubSeq(q, 1, n) = [i \in 1..n |-> q[i]]
  OBVIOUS
<1>2. SubSeq(q, 1, n) = [i \in 1..n |-> SubSeq(q, 1, n)[i]]
  BY <1>1
<1>3. IsSeq(SubSeq(q, 1, n)) /\ Len(SubSeq(q, 1, n)) = n
  BY <1>2, SeqOfFunction
<1> QED BY <1>1, <1>3

\* Concatenation keeps sequences.
LEMMA SeqConcat ==
    ASSUME NEW q, IsSeq(q), NEW r, IsSeq(r)
    PROVE  IsSeq(q \o r) /\ Len(q \o r) = Len(q) + Len(r)
<1>1. PICK S : q \in Seq(S)
  BY DEF IsSeq
<1>2. PICK T : r \in Seq(T)
  BY DEF IsSeq
<1>3. q \in Seq(S \cup T) /\ r \in Seq(S \cup T)
  BY <1>1, <1>2
<1>4. q \o r \in Seq(S \cup T) /\ Len(q \o r) = Len(q) + Len(r)
  BY <1>3
<1> QED BY <1>4 DEF IsSeq

\* What a sequence over R holds.
LEMMA ElementOf ==
    ASSUME NEW R, NEW q \in Seq(R), NEW i \in 1..Len(q)
    PROVE  q[i] \in R
  OBVIOUS

\* Some sequence is empty.
LEMMA SeqEmpty == IsSeq(<< >>) /\ Len(<< >>) = 0
<1>1. << >> \in Seq({}) /\ Len(<< >>) = 0
  OBVIOUS
<1> QED BY <1>1 DEF IsSeq

-----------------------------------------------------------------------------
(* Numbers.                                                                *)

\* A set of natural numbers has a smallest one: among the sets {m \in S : m < x},
\* x \in S, one is minimal.
LEMMA Smallest ==
    ASSUME NEW S \in SUBSET Nat, S # {}
    PROVE  \E x \in S : \A m \in S : x <= m
<1> DEFINE B(x) == {m \in S : m < x}
           T == {B(x) : x \in S}
           R == StrictSubsetOrdering(S)
<1>0. \A x \in S : x \in Nat
  OBVIOUS
<1>1. \A x \in S : IsFiniteSet(B(x))
  <2> SUFFICES ASSUME NEW x \in S PROVE IsFiniteSet(B(x))
    OBVIOUS
  <2>1. x \in Nat /\ B(x) \in SUBSET Nat
    BY <1>0
  <2>2. \A m \in B(x) : m <= x
    BY <1>0
  <2> HIDE DEF B
  <2> QED BY <2>1, <2>2, FS_BoundedSetOfNaturals
<1>2. T \subseteq FiniteSubsetsOf(S) /\ T # {}
  BY <1>1 DEF FiniteSubsetsOf
<1>3. PICK t \in T : \A u \in T : ~(<<u, t>> \in R)
  <2> HIDE DEF T, R
  <2>1. IsWellFoundedOn(R, FiniteSubsetsOf(S))
    BY FS_StrictSubsetOrderingWellFounded DEF R
  <2> QED BY <1>2, <2>1, WFMin
<1>4. PICK x \in S : t = B(x)
  OBVIOUS
<1>5. ASSUME NEW y \in S, y < x PROVE FALSE
  <2>1. \A m \in S : m < y => m < x
    BY <1>0, <1>5
  <2>2. B(y) \subseteq B(x)
    BY <2>1
  <2>3. y \in B(x) /\ y \notin B(y)
    BY <1>0, <1>5
  <2>4. <<B(y), B(x)>> \in R
    BY <2>2, <2>3 DEF StrictSubsetOrdering
  <2> QED BY <1>3, <1>4, <2>4
<1>6. \A y \in S : x <= y
  BY <1>0, <1>5
<1> QED BY <1>6

\* Induction over m..n, for a set: what holds of m, and of i if of i - 1.
LEMMA Induct ==
    ASSUME NEW m \in Nat, NEW n \in Nat, NEW T, m \in T,
           \A i \in m + 1..n : i - 1 \in T => i \in T
    PROVE  m..n \subseteq T
<1> SUFFICES ASSUME ~(m..n \subseteq T) PROVE FALSE
  OBVIOUS
<1> DEFINE S == {i \in m..n : i \notin T}
<1>1. S \in SUBSET Nat /\ S # {}
  OBVIOUS
<1>2. PICK x \in S : \A i \in S : x <= i
  BY <1>1, Smallest
<1>3. x \in m + 1..n /\ x - 1 \in m..n /\ ~(x <= x - 1)
  OBVIOUS
<1>4. x - 1 \in T
  BY <1>2, <1>3
<1> QED BY <1>3, <1>4

\* Division with remainder.
LEMMA DivMod ==
    ASSUME NEW n \in Nat, n > 0, NEW h \in Nat
    PROVE  h = (h \div n) * n + (h % n) /\ h % n \in 0..n - 1 /\ h \div n \in Nat
  OBVIOUS

\* The remainder is the one below the divisor.
LEMMA ModOfSum ==
    ASSUME NEW n \in Nat, n > 0, NEW q \in Nat, NEW j \in 0..n - 1
    PROVE  (q * n + j) % n = j
  OBVIOUS

\* A probe sequence comes by every slot.
LEMMA ProbesAll ==
    ASSUME NEW n \in Nat, n > 0, NEW h \in Nat, NEW j \in 0..n - 1
    PROVE  \E d \in 0..n - 1 : (h + d) % n = j
<1> DEFINE q == h \div n
           r == h % n
<1>1. q \in Nat /\ r \in 0..n - 1 /\ h = q * n + r
  BY DivMod
<1> HIDE DEF q, r
<1>2. CASE j >= r
  <2>1. h + (j - r) = q * n + j /\ j - r \in 0..n - 1
    BY <1>1, <1>2
  <2>2. (q * n + j) % n = j
    BY <1>1, ModOfSum
  <2> QED BY <2>1, <2>2
<1>3. CASE j < r
  <2>1. h + (j - r + n) = (q + 1) * n + j /\ j - r + n \in 0..n - 1
    BY <1>1, <1>3
  <2>2. ((q + 1) * n + j) % n = j
    BY <1>1, ModOfSum
  <2> QED BY <2>1, <2>2
<1> QED BY <1>1, <1>2, <1>3

-----------------------------------------------------------------------------
(* The span table.                                                         *)

Fields == {"props", "spans", "slots", "frefs", "used", "jvals", "pbuf", "jwild", "bits"}
SpanFields == {"path", "first", "last", "flo", "fhi", "folded"}
Paths == DOMAIN HashOf

\* Slots hold indexes of spans, every one in one slot at most.
TableFits(s) ==
    /\ DOMAIN s = Fields
    /\ IsSeq(s.spans)
    /\ \A k \in 1..Len(s.spans) : DOMAIN s.spans[k] = SpanFields /\ s.spans[k].path \in Paths
    /\ Size(s) \in Nat
    /\ s.slots \in [0..Size(s) - 1 -> 0..Len(s.spans)]
    /\ \A i, j \in DOMAIN s.slots : s.slots[i] = s.slots[j] /\ s.slots[i] # 0 => i = j

\* What entering spans leaves alone.
Same(s, t) == t.bits = s.bits /\ t.jwild = s.jwild /\ t.pbuf = s.pbuf

\* The size of the table.
LEMMA SizeOf ==
    ASSUME NEW n \in Nat, NEW s, DOMAIN s.slots = 0..n - 1
    PROVE  Size(s) = n
<1>1. Cardinality(0..n - 1) = IF 0 > n - 1 THEN 0 ELSE n - 1 - 0 + 1
  BY FS_Interval
<1> QED BY <1>1 DEF Size

\* A table with more slots than spans has an empty one: otherwise two slots would
\* hold the same span.
LEMMA EmptySlot ==
    ASSUME NEW s, TableFits(s), Len(s.spans) < Size(s)
    PROVE  \E j \in DOMAIN s.slots : s.slots[j] = 0
<1> DEFINE n == Size(s)
           l == Len(s.spans)
           S == 0..n - 1
           T == 1..l
<1>1. n \in Nat /\ l \in Nat /\ s.slots \in [S -> 0..l] /\ DOMAIN s.slots = S
  BY SeqLen DEF TableFits
<1>2. /\ IsFiniteSet(S) /\ Cardinality(S) = n
      /\ IsFiniteSet(T) /\ Cardinality(T) = l
  <2> HIDE DEF n, l
  <2>1. n - 1 \in Int /\ l \in Int
    BY <1>1
  <2>2. /\ Cardinality(0..n - 1) = (IF 0 > n - 1 THEN 0 ELSE n - 1 - 0 + 1)
        /\ IsFiniteSet(0..n - 1)
    BY <2>1, FS_Interval
  <2>3. Cardinality(1..l) = (IF 1 > l THEN 0 ELSE l - 1 + 1) /\ IsFiniteSet(1..l)
    BY <2>1, FS_Interval
  <2> QED BY <1>1, <2>2, <2>3
<1> SUFFICES ASSUME \A j \in S : s.slots[j] # 0 PROVE FALSE
  BY <1>1
<1>3. s.slots \in [S -> T]
  BY <1>1
<1>4. \E i, j \in S : i # j /\ s.slots[i] = s.slots[j]
  <2> HIDE DEF S, T, n, l
  <2>1. Cardinality(T) < Cardinality(S)
    BY <1>2 DEF n, l
  <2> QED BY <1>2, <1>3, <2>1, FS_PigeonHole
<1> QED BY <1>1, <1>4 DEF TableFits

\* A probe ends at a slot of the table: an empty one, or the one of the path.
LEMMA ProbeEnds ==
    ASSUME NEW s, TableFits(s), Len(s.spans) < Size(s), NEW path \in Paths
    PROVE  /\ SlotOf(s, path) \in 0..Size(s) - 1
           /\ s.slots[SlotOf(s, path)] = 0 \/ s.spans[s.slots[SlotOf(s, path)]].path = path
<1> DEFINE h == HashOf[path]
           n == Size(s)
           at(d) == (h + d) % n
           ends(d) == s.slots[at(d)] = 0 \/ s.spans[s.slots[at(d)]].path = path
           D == {d \in 0..n - 1 : ends(d)}
<1>1. n \in Nat /\ n > 0 /\ h \in Nat
  BY ScratchAssumption, SeqLen DEF TableFits, Paths
<1>2. PICK j \in 0..n - 1 : s.slots[j] = 0
  BY EmptySlot DEF TableFits
<1>3. PICK d0 \in 0..n - 1 : at(d0) = j
  BY <1>1, ProbesAll
<1>4. D # {} /\ D \in SUBSET Nat
  BY <1>1, <1>2, <1>3
<1>5. PICK x \in D : \A m \in D : x <= m
  <2> HIDE DEF D
  <2> QED BY <1>4, Smallest
<1>6. x \in 0..n - 1 /\ ends(x) /\ \A c \in 0..x - 1 : ~ends(c)
  <2>1. \A c \in 0..x - 1 : c \in 0..n - 1 /\ ~(x <= c)
    BY <1>1
  <2> QED BY <1>5, <2>1
<1> DEFINE P(d) == ends(d) /\ \A c \in 0..d - 1 : ~ends(c)
           y == CHOOSE d \in 0..n - 1 : P(d)
<1>7. y \in 0..n - 1 /\ P(y)
  <2>1. \E d \in 0..n - 1 : P(d)
    BY <1>6
  <2> HIDE DEF P
  <2> QED BY <2>1
<1>8. SlotOf(s, path) = at(y)
  BY DEF SlotOf
<1> HIDE DEF y
<1>9. at(y) \in 0..n - 1
  <2>1. y \in 0..n - 1
    BY <1>7
  <2>2. h + y \in Nat
    <3> HIDE DEF h, n
    <3> QED BY <1>1, <2>1
  <2> QED BY <1>1, <2>2, DivMod
<1> QED BY <1>7, <1>8, <1>9

\* Entering a path that has a span changes nothing; a new one takes an empty slot.
LEMMA WithSpanFits ==
    ASSUME NEW s, TableFits(s), Len(s.spans) < Size(s), NEW path \in Paths, NEW folded
    PROVE  LET t == WithSpan(s, path, folded)
           IN  /\ TableFits(t) /\ Size(t) = Size(s) /\ Same(s, t)
               /\ Len(t.spans) \in Len(s.spans)..Len(s.spans) + 1
<1> DEFINE j == SlotOf(s, path)
           l == Len(s.spans)
           n == Size(s)
           sp == [path |-> path, first |-> 0, last |-> 0, flo |-> 0, fhi |-> 0, folded |-> folded]
           t == WithSpan(s, path, folded)
<1>1. /\ DOMAIN s = Fields /\ IsSeq(s.spans) /\ n \in Nat /\ l \in Nat
      /\ s.slots \in [0..n - 1 -> 0..l] /\ j \in 0..n - 1
      /\ \A k \in 1..l : DOMAIN s.spans[k] = SpanFields /\ s.spans[k].path \in Paths
      /\ \A i, k \in 0..n - 1 : s.slots[i] = s.slots[k] /\ s.slots[i] # 0 => i = k
  BY ProbeEnds, SeqLen DEF TableFits
<1>2. CASE s.slots[j] # 0
  <2>1. t = s
    BY <1>2 DEF WithSpan
  <2> QED BY <1>1, <2>1 DEF Same
<1>3. CASE s.slots[j] = 0
  <2>1. t = [s EXCEPT !.slots[j] = l + 1, !.spans = Append(@, sp)]
    BY <1>3 DEF WithSpan
  <2>2. /\ DOMAIN t = Fields /\ Same(s, t)
        /\ t.slots = [s.slots EXCEPT ![j] = l + 1]
        /\ t.spans = Append(s.spans, sp)
    BY <1>1, <2>1 DEF Fields, Same
  <2>3. /\ IsSeq(t.spans) /\ Len(t.spans) = l + 1
        /\ \A i \in 1..l : t.spans[i] = s.spans[i]
        /\ t.spans[l + 1] = sp
    BY <1>1, <2>2, SeqAppend
  <2>4. DOMAIN sp = SpanFields /\ sp.path = path
    BY DEF SpanFields
  <2>5. \A k \in 1..l + 1 : DOMAIN t.spans[k] = SpanFields /\ t.spans[k].path \in Paths
    <3> HIDE DEF sp, t, l
    <3>1. \A k \in 1..l + 1 : k \in 1..l \/ k = l + 1
      BY <1>1
    <3> QED BY <1>1, <2>3, <2>4, <3>1
  <2>6. t.slots \in [0..n - 1 -> 0..l + 1]
    BY <1>1, <2>2
  <2>7. Size(t) = n
    BY <1>1, <2>6, SizeOf
  <2>8. \A i, k \in 0..n - 1 : t.slots[i] = t.slots[k] /\ t.slots[i] # 0 => i = k
    <3> HIDE DEF t, n, l
    <3>1. \A i \in 0..n - 1 :
            /\ t.slots[i] = IF i = j THEN l + 1 ELSE s.slots[i]
            /\ s.slots[i] # l + 1
      BY <1>1, <2>2
    <3> QED BY <1>1, <3>1
  <2> QED
    <3> HIDE DEF t, sp, n
    <3>1. DOMAIN t.slots = 0..n - 1
      BY <2>6
    <3>2. TableFits(t)
      <4>1. /\ DOMAIN t = Fields /\ IsSeq(t.spans) /\ Size(t) \in Nat
            /\ t.slots \in [0..Size(t) - 1 -> 0..Len(t.spans)]
        BY <1>1, <2>2, <2>3, <2>6, <2>7
      <4>2. /\ \A k \in 1..Len(t.spans) : DOMAIN t.spans[k] = SpanFields /\ t.spans[k].path \in Paths
            /\ \A i, k \in DOMAIN t.slots : t.slots[i] = t.slots[k] /\ t.slots[i] # 0 => i = k
        BY <2>3, <2>5, <2>8, <3>1
      <4> QED BY <4>1, <4>2 DEF TableFits
    <3> QED BY <1>1, <2>2, <2>3, <2>7, <3>2 DEF n, t
<1> QED BY <1>2, <1>3

-----------------------------------------------------------------------------
(* The sizes of new tables, and tables that grow.  Each recursive function  *)
(* exists, because those on 0..n are extended to 0..n + 1.                  *)

\* The table that reset makes has two slots for every property.
LEMMA SlotsForAll ==
    ASSUME NEW n \in Nat
    PROVE  SlotsFor(n) \in Nat /\ SlotsFor(n) >= 2 /\ SlotsFor(n) >= 2 * n
<1> DEFINE Next0(x) == IF x < 2 * n THEN 2 * x ELSE x
           Is(f, m) == f = [k \in 0..m |-> IF k = 0 THEN MinSlots ELSE Next0(f[k - 1])]
           T == {m \in 0..n : \E f : Is(f, m)}
           double == CHOOSE f : Is(f, n)
<1>1. 0 \in T
  <2> DEFINE f == [k \in 0..0 |-> MinSlots]
  <2>1. Is(f, 0)
    OBVIOUS
  <2> HIDE DEF Is
  <2> QED BY <2>1
<1>2. ASSUME NEW i \in 0 + 1..n, i - 1 \in T
      PROVE  i \in T
  <2> HIDE DEF Next0
  <2>1. PICK g : Is(g, i - 1)
    BY <1>2
  <2> DEFINE f == [k \in 0..i |-> IF k = i THEN Next0(g[i - 1]) ELSE g[k]]
  <2>2. ASSUME NEW k \in 0..i
        PROVE  f[k] = IF k = 0 THEN MinSlots ELSE Next0(f[k - 1])
    BY <2>1
  <2>3. Is(f, i)
    BY <2>2
  <2> HIDE DEF Is
  <2> QED BY <2>3
<1>3. Is(double, n)
  <2>1. n \in T
    <3> HIDE DEF T
    <3>1. 0..n \subseteq T
      BY <1>1, <1>2, Induct
    <3> QED BY <3>1
  <2>2. \E f : Is(f, n)
    BY <2>1
  <2> HIDE DEF Is
  <2> QED BY <2>2
<1>4. SlotsFor(n) = double[n]
  BY DEF SlotsFor
<1> HIDE DEF double
<1>0. /\ double[0] = MinSlots
      /\ \A i \in 1..n : double[i] = Next0(double[i - 1])
  BY <1>3
<1> HIDE DEF Is, T
<1> DEFINE U == {k \in 0..n : double[k] \in Nat /\ (double[k] >= 2 * (k + 1) \/ (double[k] >= 2 /\ double[k] >= 2 * n))}
<1>5. 0 \in U
  BY <1>0, ScratchAssumption
<1>6. ASSUME NEW i \in 0 + 1..n, i - 1 \in U
      PROVE  i \in U
  <2>1. double[i] = Next0(double[i - 1])
    BY <1>0
  <2> QED BY <1>6, <2>1
<1>7. n \in U
  <2> HIDE DEF U
  <2>1. 0..n \subseteq U
    BY <1>5, <1>6, Induct
  <2> QED BY <2>1
<1> QED BY <1>4, <1>7

\* Entering the spans again, in a table with a slot for each, gives a table.
LEMMA RehashFits ==
    ASSUME NEW s, TableFits(s), NEW size \in Nat, Len(s.spans) <= size
    PROVE  LET t == Rehash(s, size)
           IN  TableFits(t) /\ Size(t) = size /\ Same(s, t) /\ Len(t.spans) <= Len(s.spans)
<1> DEFINE n == Len(s.spans)
           start == [s EXCEPT !.spans = <<>>, !.slots = InitSlots(size)]
           Step(x, i) == LET t == WithSpan(x, s.spans[i].path, FALSE)
                         IN  [t EXCEPT !.spans[i] = s.spans[i]]
           Fits(x, i) == TableFits(x) /\ Size(x) = size /\ Same(s, x) /\ Len(x.spans) <= i
<1>r0. /\ n \in Nat /\ DOMAIN s = Fields
       /\ \A k \in 1..n : DOMAIN s.spans[k] = SpanFields /\ s.spans[k].path \in Paths
  BY SeqLen DEF TableFits
<1>1. Fits(start, 0)
  <2>1. /\ DOMAIN start = Fields /\ Same(s, start) /\ start.spans = <<>>
        /\ start.slots = [j \in 0..size - 1 |-> 0]
    BY <1>r0 DEF Fields, Same, InitSlots
  <2>2. Size(start) = size
    <3> HIDE DEF start
    <3> QED BY <2>1, SizeOf
  <2> HIDE DEF start
  <2>3. TableFits(start)
    BY <2>1, <2>2, SeqEmpty DEF TableFits
  <2> QED BY <2>1, <2>2, <2>3, SeqEmpty
<1>2. ASSUME NEW i \in 1..n, NEW x, Fits(x, i - 1)
      PROVE  Fits(Step(x, i), i)
  <2> DEFINE t == WithSpan(x, s.spans[i].path, FALSE)
             u == [t EXCEPT !.spans[i] = s.spans[i]]
  <2>1. Len(x.spans) \in Nat /\ Len(x.spans) <= i - 1
    BY <1>2, SeqLen DEF TableFits
  <2>2. s.spans[i].path \in Paths /\ Len(x.spans) < Size(x)
    BY <1>r0, <1>2, <2>1
  <2>3. /\ TableFits(t) /\ Size(t) = size /\ Same(x, t)
        /\ Len(t.spans) \in Len(x.spans)..Len(x.spans) + 1
    BY <1>2, <2>2, WithSpanFits
  <2> HIDE DEF t
  <2>4. /\ DOMAIN u = Fields /\ Same(t, u) /\ u.slots = t.slots
        /\ u.spans = [t.spans EXCEPT ![i] = s.spans[i]]
    BY <2>3 DEF TableFits, Fields, Same
  <2>5. /\ IsSeq(u.spans) /\ Len(u.spans) = Len(t.spans)
        /\ \A k \in 1..Len(t.spans) : u.spans[k] = IF k = i THEN s.spans[i] ELSE t.spans[k]
    <3> DEFINE f == [t.spans EXCEPT ![i] = s.spans[i]]
    <3>1. IsSeq(t.spans)
      BY <2>3 DEF TableFits
    <3>2. IsSeq(f) /\ Len(f) = Len(t.spans)
      BY <3>1, SeqExcept, Zenon
    <3>4. \A k \in 1..Len(t.spans) : f[k] = IF k = i THEN s.spans[i] ELSE t.spans[k]
      BY <3>1, SeqLen
    <3> HIDE DEF u, f
    <3>3. u.spans = f
      BY <2>4 DEF f
    <3> QED BY <3>2, <3>3, <3>4
  <2> HIDE DEF u
  <2>6. Size(u) = Size(t)
    BY <2>4 DEF Size
  <2>7. \A k \in 1..Len(u.spans) : DOMAIN u.spans[k] = SpanFields /\ u.spans[k].path \in Paths
    BY <1>r0, <2>3, <2>5 DEF TableFits
  <2>8. TableFits(u)
    BY <2>3, <2>4, <2>5, <2>6, <2>7 DEF TableFits
  <2>9. Len(u.spans) <= i
    BY <2>1, <2>3, <2>5
  <2>10. Same(s, u)
    BY <1>2, <2>3, <2>4 DEF Same
  <2> QED BY <2>3, <2>6, <2>8, <2>9, <2>10 DEF t, u
<1> HIDE DEF Step, start
<1> DEFINE Is(f, m) == f = [k \in 0..m |-> IF k = 0 THEN start ELSE Step(f[k - 1], k)]
           T == {m \in 0..n : \E f : Is(f, m)}
           Enter == CHOOSE f : Is(f, n)
<1>r1. 0 \in T
  <2> DEFINE f == [k \in 0..0 |-> start]
  <2>1. Is(f, 0)
    OBVIOUS
  <2> HIDE DEF Is
  <2> QED BY <1>r0, <2>1
<1>r2. ASSUME NEW i \in 0 + 1..n, i - 1 \in T
      PROVE  i \in T
  <2>1. PICK g : Is(g, i - 1)
    BY <1>r2
  <2> DEFINE f == [k \in 0..i |-> IF k = i THEN Step(g[i - 1], i) ELSE g[k]]
  <2>2. ASSUME NEW k \in 0..i
        PROVE  f[k] = IF k = 0 THEN start ELSE Step(f[k - 1], k)
    BY <1>r0, <2>1
  <2>3. Is(f, i)
    BY <2>2
  <2> HIDE DEF Is
  <2> QED BY <1>r0, <2>3
<1>r3. Is(Enter, n)
  <2>1. n \in T
    <3> HIDE DEF T
    <3>1. 0..n \subseteq T
      BY <1>r0, <1>r1, <1>r2, Induct
    <3> QED BY <1>r0, <3>1
  <2>2. \E f : Is(f, n)
    BY <2>1
  <2> HIDE DEF Is
  <2> QED BY <2>2
<1> HIDE DEF Enter
<1>r4. /\ Enter[0] = start
      /\ \A i \in 0 + 1..n : Enter[i] = Step(Enter[i - 1], i)
  BY <1>r0, <1>r3
<1> HIDE DEF Is, T
<1>3. Rehash(s, size) = Enter[n]
  BY DEF Rehash, Enter, Is, Step, start
<1> DEFINE U == {i \in 0..n : Fits(Enter[i], i)}
<1> HIDE DEF Fits
<1>4. 0 \in U
  BY <1>r0, <1>r4, <1>1
<1>5. ASSUME NEW i \in 0 + 1..n, i - 1 \in U
      PROVE  i \in U
  <2>1. Enter[i] = Step(Enter[i - 1], i) /\ Fits(Enter[i - 1], i - 1) /\ i \in 1..n
    BY <1>r0, <1>r4, <1>5
  <2> QED BY <1>2, <2>1
<1>6. Fits(Enter[n], n)
  <2>1. 0..n \subseteq U
    <3> HIDE DEF U, n
    <3> QED BY <1>r0, <1>4, <1>5, Induct
  <2> QED BY <1>r0, <2>1
<1> QED BY <1>3, <1>6 DEF Fits

\* A span entered with the check of jsonSpan leaves the table half empty, if it was
\* not full before.
LEMMA JsonSpanFits ==
    ASSUME NEW s, TableFits(s), Len(s.spans) < Size(s), NEW path \in Paths
    PROVE  LET t == JsonSpan(s, path)
           IN  /\ TableFits(t) /\ Same(s, t)
               /\ Size(t) >= Size(s) /\ 2 * Len(t.spans) <= Size(t)
<1> DEFINE u == IF HasRoom(s) THEN s ELSE Rehash(s, 2 * Size(s))
<1>1. Len(s.spans) \in Nat /\ Size(s) \in Nat
  BY SeqLen DEF TableFits
<1>2. /\ TableFits(u) /\ Same(s, u) /\ Size(u) >= Size(s)
      /\ Size(u) \in Nat /\ Len(u.spans) \in Nat /\ 2 * (Len(u.spans) + 1) <= Size(u)
  <2>1. CASE HasRoom(s)
    BY <1>1, <2>1 DEF HasRoom, Same
  <2>2. CASE ~HasRoom(s)
    <3> DEFINE t == Rehash(s, 2 * Size(s))
    <3>1. 2 * Size(s) \in Nat /\ Len(s.spans) <= 2 * Size(s)
      BY <1>1
    <3>2. TableFits(t) /\ Size(t) = 2 * Size(s) /\ Same(s, t) /\ Len(t.spans) <= Len(s.spans)
      BY <3>1, RehashFits
    <3>3. u = t
      BY <2>2
    <3> HIDE DEF t, u
    <3>4. Len(t.spans) \in Nat
      BY <3>2, SeqLen DEF TableFits
    <3> QED BY <1>1, <3>2, <3>3, <3>4
  <2> QED BY <2>1, <2>2
<1>3. JsonSpan(s, path) = WithSpan(u, path, TRUE)
  BY DEF JsonSpan
<1> HIDE DEF u
<1> DEFINE t == WithSpan(u, path, TRUE)
<1>4. /\ TableFits(t) /\ Size(t) = Size(u) /\ Same(u, t)
      /\ Len(t.spans) \in Len(u.spans)..Len(u.spans) + 1
  <2>1. Len(u.spans) < Size(u)
    BY <1>2
  <2> QED BY <1>2, <2>1, WithSpanFits, Zenon
<1>5. Same(s, t)
  BY <1>2, <1>4 DEF Same
<1>6. Size(t) >= Size(s) /\ 2 * Len(t.spans) <= Size(t)
  <2> HIDE DEF t
  <2> QED BY <1>1, <1>2, <1>4
<1> QED BY <1>3, <1>4, <1>5, <1>6

\* Values at the end of a chain change neither slots nor paths.
LEMMA ChainFits ==
    ASSUME NEW s, TableFits(s), NEW k, NEW values
    PROVE  LET t == Chain(s, k, values)
           IN  TableFits(t) /\ Size(t) = Size(s) /\ Same(s, t) /\ Len(t.spans) = Len(s.spans)
<1> DEFINE t == Chain(s, k, values)
           sp == s.spans[k]
           n == Len(s.props) + 1
           new == [[[sp EXCEPT !.first = IF @ = 0 THEN n ELSE @]
                        EXCEPT !.folded = IF sp.first = 0 THEN FALSE ELSE @]
                        EXCEPT !.last = n]
<1>1. /\ DOMAIN t = Fields /\ Same(s, t) /\ t.slots = s.slots
      /\ IsSeq(t.spans) /\ Len(t.spans) = Len(s.spans)
      /\ \A i \in 1..Len(s.spans) :
            DOMAIN t.spans[i] = DOMAIN s.spans[i] /\ t.spans[i].path = s.spans[i].path
  <2>1. DOMAIN t = Fields /\ Same(s, t) /\ t.slots = s.slots
    BY DEF TableFits, Chain, Fields, Same
  <2>2. t.spans = [s.spans EXCEPT ![k] = t.spans[k]]
    BY DEF TableFits, Chain, Fields
  <2>3. IsSeq(t.spans) /\ Len(t.spans) = Len(s.spans)
    <3> DEFINE e == t.spans[k]
               f == [s.spans EXCEPT ![k] = e]
    <3>1. IsSeq(s.spans)
      BY DEF TableFits
    <3> HIDE DEF e
    <3>2. IsSeq(f) /\ Len(f) = Len(s.spans)
      BY <3>1, SeqExcept, Zenon
    <3> HIDE DEF f
    <3>3. t.spans = f
      BY <2>2 DEF e, f
    <3> QED BY <3>2, <3>3
  <2>4. \A i \in 1..Len(s.spans) :
            DOMAIN t.spans[i] = DOMAIN s.spans[i] /\ t.spans[i].path = s.spans[i].path
    BY SeqLen DEF TableFits, Chain, Fields, SpanFields
  <2> QED BY <2>1, <2>3, <2>4
<1> HIDE DEF t
<1>2. Size(t) = Size(s)
  BY <1>1 DEF Size
<1>3. TableFits(t)
  BY <1>1, <1>2 DEF TableFits
<1> QED BY <1>1, <1>2, <1>3 DEF t

-----------------------------------------------------------------------------
(* Wildcard paths, and the values of MatchJSON.                            *)

\* The wildcard paths of a call are paths.
LEMMA WildPaths ==
    ASSUME call.known \in RulePaths, NEW base
    PROVE  WildAt(base) \subseteq Paths
  BY ScratchAssumption DEF WildAt, Wilds, Paths

\* addWild leaves the table half empty, if it enters anything.
LEMMA AddWildFits ==
    ASSUME NEW s, TableFits(s), Len(s.spans) < Size(s), call.known \in RulePaths,
           NEW prop, prop.path \in Seq(STRING)
    PROVE  LET t == AddWild(s, prop)
           IN  /\ TableFits(t) /\ Same(s, t) /\ Size(t) >= Size(s)
               /\ \/ Len(t.spans) = Len(s.spans)
                  \/ 2 * Len(t.spans) <= Size(t)
<1> DEFINE n == Len(prop.path)
           At(i) == IF prop.path[i] = Dot THEN WildAt(SubSeq(prop.path, 1, i - 1)) ELSE {}
           start == s
           Step(x, i) == IF At(i) \subseteq {prop.path} THEN x
                         ELSE LET path == CHOOSE y \in At(i) : TRUE
                                  t == JsonSpan(x, path)
                              IN  Chain(t, IndexOf(t, path), prop.values)
           Fits(x) == /\ TableFits(x) /\ Same(s, x) /\ Size(x) >= Size(s)
                      /\ Len(x.spans) = Len(s.spans) \/ 2 * Len(x.spans) <= Size(x)
<1>r0. n \in Nat
  OBVIOUS
<1>1. Fits(start)
  BY SeqLen DEF TableFits, Same
<1>2. ASSUME NEW x, Fits(x), NEW i \in 1..n
      PROVE  Fits(Step(x, i))
  <2>1. CASE At(i) \subseteq {prop.path}
    BY <1>2, <2>1
  <2>2. CASE ~(At(i) \subseteq {prop.path})
    <3> DEFINE path == CHOOSE y \in At(i) : TRUE
               t == JsonSpan(x, path)
               u == Chain(t, IndexOf(t, path), prop.values)
    <3>1. path \in Paths
      <4>1. At(i) \subseteq Paths /\ At(i) # {}
        BY <2>2, WildPaths
      <4> HIDE DEF At
      <4> QED BY <4>1
    <3>2. Step(x, i) = u
      BY <2>2
    <3> HIDE DEF path, Step
    <3>3. Len(x.spans) \in Nat /\ Len(s.spans) \in Nat /\ Size(s) \in Nat /\ Size(x) \in Nat
      BY <1>2, SeqLen DEF TableFits
    <3>4. Len(x.spans) < Size(x)
      BY <1>2, <3>3
    <3>5. TableFits(t) /\ Same(x, t) /\ Size(t) >= Size(x) /\ 2 * Len(t.spans) <= Size(t)
      BY <1>2, <3>1, <3>4, JsonSpanFits
    <3> HIDE DEF t
    <3>6. TableFits(u) /\ Size(u) = Size(t) /\ Same(t, u) /\ Len(u.spans) = Len(t.spans)
      BY <3>5, ChainFits
    <3> HIDE DEF u
    <3>7. Same(s, u)
      BY <1>2, <3>5, <3>6 DEF Same
    <3>8. Size(u) >= Size(s) /\ 2 * Len(u.spans) <= Size(u)
      <4>1. Size(t) \in Nat /\ Len(t.spans) \in Nat
        BY <3>5, SeqLen DEF TableFits
      <4> QED BY <1>2, <3>3, <3>5, <3>6, <4>1
    <3>9. Fits(u)
      BY <3>6, <3>7, <3>8
    <3> HIDE DEF Fits
    <3> QED BY <3>2, <3>9
  <2> QED BY <2>1, <2>2
<1> HIDE DEF n
<1> HIDE DEF Step, start
<1> DEFINE Is(f, m) == f = [k \in 0..m |-> IF k = 0 THEN start ELSE Step(f[k - 1], k)]
           T == {m \in 0..n : \E f : Is(f, m)}
           add == CHOOSE f : Is(f, n)
<1>r1. 0 \in T
  <2> DEFINE f == [k \in 0..0 |-> start]
  <2>1. Is(f, 0)
    OBVIOUS
  <2> HIDE DEF Is
  <2> QED BY <1>r0, <2>1
<1>r2. ASSUME NEW i \in 0 + 1..n, i - 1 \in T
      PROVE  i \in T
  <2>1. PICK g : Is(g, i - 1)
    BY <1>r2
  <2> DEFINE f == [k \in 0..i |-> IF k = i THEN Step(g[i - 1], i) ELSE g[k]]
  <2>2. ASSUME NEW k \in 0..i
        PROVE  f[k] = IF k = 0 THEN start ELSE Step(f[k - 1], k)
    BY <1>r0, <2>1
  <2>3. Is(f, i)
    BY <2>2
  <2> HIDE DEF Is
  <2> QED BY <1>r0, <2>3
<1>r3. Is(add, n)
  <2>1. n \in T
    <3> HIDE DEF T
    <3>1. 0..n \subseteq T
      BY <1>r0, <1>r1, <1>r2, Induct
    <3> QED BY <1>r0, <3>1
  <2>2. \E f : Is(f, n)
    BY <2>1
  <2> HIDE DEF Is
  <2> QED BY <2>2
<1> HIDE DEF add
<1>r4. /\ add[0] = start
      /\ \A i \in 0 + 1..n : add[i] = Step(add[i - 1], i)
  BY <1>r0, <1>r3
<1> HIDE DEF Is, T
<1>3. AddWild(s, prop) = add[n]
  BY DEF AddWild, add, Is, Step, start, n
<1> HIDE DEF Fits
<1> DEFINE U == {i \in 0..n : Fits(add[i])}
<1>4. 0 \in U
  BY <1>r0, <1>r4, <1>1
<1>5. ASSUME NEW i \in 0 + 1..n, i - 1 \in U
      PROVE  i \in U
  <2>1. add[i] = Step(add[i - 1], i) /\ Fits(add[i - 1]) /\ i \in 1..n
    BY <1>r0, <1>r4, <1>5
  <2> QED BY <1>2, <2>1
<1>6. Fits(add[n])
  <2>1. 0..n \subseteq U
    <3> HIDE DEF U
    <3> QED BY <1>r0, <1>4, <1>5, Induct
  <2> QED BY <1>r0, <2>1
<1> QED BY <1>3, <1>6 DEF Fits

\* The entries of jwild are paths of the call.
WildsFit(q) ==
    /\ IsSeq(q)
    /\ \A k \in 1..Len(q) : DOMAIN q[k] = {"path", "span"} /\ q[k].path \in Paths

\* openWild adds at most one entry.
LEMMA OpenWildFits ==
    ASSUME call.known \in RulePaths, NEW wilds, WildsFit(wilds), NEW base
    PROVE  WildsFit(OpenWild(wilds, base)) /\ Len(OpenWild(wilds, base)) >= Len(wilds)
<1> DEFINE w == WildAt(base)
           path == CHOOSE x \in w : TRUE
           e == [path |-> path, span |-> 0]
           new == Append(wilds, e)
<1>0. IsSeq(wilds) /\ Len(wilds) \in Nat
  BY SeqLen DEF WildsFit
<1>1. CASE w = {}
  BY <1>0, <1>1 DEF OpenWild
<1>2. CASE w # {}
  <2>1. path \in Paths
    BY <1>2, WildPaths
  <2>2. OpenWild(wilds, base) = new
    BY <1>2 DEF OpenWild
  <2> HIDE DEF path, w
  <2>3. DOMAIN e = {"path", "span"} /\ e.path \in Paths
    BY <2>1
  <2> HIDE DEF e
  <2>4. /\ IsSeq(new) /\ Len(new) = Len(wilds) + 1
        /\ \A k \in 1..Len(wilds) : new[k] = wilds[k]
        /\ new[Len(wilds) + 1] = e
    BY <1>0, SeqAppend
  <2> HIDE DEF new
  <2>5. \A k \in 1..Len(new) : k \in 1..Len(wilds) \/ k = Len(wilds) + 1
    BY <1>0, <2>4
  <2>6. WildsFit(new)
    BY <2>3, <2>4, <2>5 DEF WildsFit
  <2> QED BY <1>0, <2>2, <2>4, <2>6
<1> QED BY <1>1, <1>2

\* openWilds adds entries for the rest of a key.
LEMMA OpenWildsFits ==
    ASSUME call.known \in RulePaths, NEW wilds, WildsFit(wilds), NEW buf, Len(buf) \in Nat,
           NEW from \in Nat, from > 0, from <= Len(buf) + 1
    PROVE  WildsFit(OpenWilds(wilds, buf, from)) /\ Len(OpenWilds(wilds, buf, from)) >= Len(wilds)
<1> DEFINE n == Len(buf)
           start == wilds
           Step(x, i) == IF buf[i] = Dot THEN OpenWild(x, SubSeq(buf, 1, i - 1)) ELSE x
           Fits(x) == WildsFit(x) /\ Len(x) >= Len(wilds)
<1>r0. n \in Nat /\ from - 1 \in Nat /\ from - 1 <= n
  OBVIOUS
<1>1. Fits(start)
  BY SeqLen DEF WildsFit
<1>2. ASSUME NEW x, Fits(x), NEW i \in from - 1 + 1..n
      PROVE  Fits(Step(x, i))
  <2>1. CASE buf[i] # Dot
    BY <1>2, <2>1
  <2>2. CASE buf[i] = Dot
    <3> DEFINE y == OpenWild(x, SubSeq(buf, 1, i - 1))
    <3>1. WildsFit(y) /\ Len(y) >= Len(x)
      BY <1>2, OpenWildFits
    <3>2. Step(x, i) = y
      BY <2>2
    <3> HIDE DEF y, Step
    <3>3. Len(x) \in Nat /\ Len(y) \in Nat /\ Len(wilds) \in Nat
      BY <1>2, <3>1, SeqLen DEF WildsFit
    <3> QED BY <1>2, <3>1, <3>2, <3>3
  <2> QED BY <2>1, <2>2
<1> HIDE DEF n
<1> HIDE DEF Step, start
<1> DEFINE Is(f, m) == f = [k \in from - 1..m |-> IF k < from THEN start ELSE Step(f[k - 1], k)]
           T == {m \in from - 1..n : \E f : Is(f, m)}
           open == CHOOSE f : Is(f, n)
<1>r1. from - 1 \in T
  <2> DEFINE f == [k \in from - 1..from - 1 |-> start]
  <2>1. Is(f, from - 1)
    OBVIOUS
  <2> HIDE DEF Is
  <2> QED BY <1>r0, <2>1
<1>r2. ASSUME NEW i \in from - 1 + 1..n, i - 1 \in T
      PROVE  i \in T
  <2>1. PICK g : Is(g, i - 1)
    BY <1>r2
  <2> DEFINE f == [k \in from - 1..i |-> IF k = i THEN Step(g[i - 1], i) ELSE g[k]]
  <2>2. ASSUME NEW k \in from - 1..i
        PROVE  f[k] = IF k < from THEN start ELSE Step(f[k - 1], k)
    <3>1. i \in Nat /\ k \in Nat
      BY <1>r0
    <3>2. CASE k < from
      <4>1. k \in from - 1..i - 1 /\ k # i
        BY <1>r0, <1>r2, <3>1, <3>2
      <4> QED BY <2>1, <3>2, <4>1
    <3>3. CASE ~(k < from) /\ k # i
      <4>1. k \in from - 1..i - 1 /\ k - 1 \in from - 1..i /\ k - 1 # i
        BY <1>r0, <1>r2, <3>1, <3>3
      <4> QED BY <2>1, <3>3, <4>1
    <3>4. CASE k = i
      <4>1. ~(k < from) /\ k - 1 \in from - 1..i /\ k - 1 # i
        BY <1>r0, <1>r2, <3>1, <3>4
      <4> QED BY <3>4, <4>1
    <3> QED BY <3>2, <3>3, <3>4
  <2>3. Is(f, i)
    BY <2>2
  <2> HIDE DEF Is
  <2> QED BY <1>r0, <2>3
<1>r3. Is(open, n)
  <2>1. n \in T
    <3> HIDE DEF T
    <3>1. from - 1..n \subseteq T
      BY <1>r0, <1>r1, <1>r2, Induct
    <3> QED BY <1>r0, <3>1
  <2>2. \E f : Is(f, n)
    BY <2>1
  <2> HIDE DEF Is
  <2> QED BY <2>2
<1> HIDE DEF open
<1>r4. /\ open[from - 1] = start
      /\ \A i \in from - 1 + 1..n : open[i] = Step(open[i - 1], i)
  BY <1>r0, <1>r3
<1> HIDE DEF Is, T
<1>4. OpenWilds(wilds, buf, from) = open[n]
  BY DEF OpenWilds, open, Is, Step, start, n
<1> HIDE DEF Fits
<1> DEFINE U == {i \in from - 1..n : Fits(open[i])}
<1>5. from - 1 \in U
  BY <1>r0, <1>r4, <1>1
<1>6. ASSUME NEW i \in from - 1 + 1..n, i - 1 \in U
      PROVE  i \in U
  <2>1. open[i] = Step(open[i - 1], i) /\ Fits(open[i - 1]) /\ i \in from - 1 + 1..n /\ i \in from - 1..n
    BY <1>r0, <1>r4, <1>6
  <2> QED BY <1>2, <2>1
<1>7. Fits(open[n])
  <2>1. from - 1..n \subseteq U
    <3> HIDE DEF U
    <3> QED BY <1>r0, <1>5, <1>6, Induct
  <2> QED BY <1>r0, <2>1
<1> QED BY <1>4, <1>7 DEF Fits

\* An entry that gets its span stays one.
LEMMA WildSpan ==
    ASSUME NEW q, WildsFit(q), NEW k \in 1..Len(q), NEW at
    PROVE  WildsFit([q EXCEPT ![k].span = at]) /\ Len([q EXCEPT ![k].span = at]) = Len(q)
<1> DEFINE e == [q[k] EXCEPT !.span = at]
           f == [q EXCEPT ![k] = e]
<1>1. IsSeq(q) /\ Len(q) \in Nat /\ DOMAIN q = 1..Len(q)
  BY SeqLen DEF WildsFit
<1>2. [q EXCEPT ![k].span = at] = f
  OBVIOUS
<1>3. DOMAIN e = {"path", "span"} /\ e.path \in Paths
  BY DEF WildsFit
<1> HIDE DEF e
<1>4. IsSeq(f) /\ Len(f) = Len(q)
  BY <1>1, SeqExcept, Zenon
<1>5. \A i \in 1..Len(q) : f[i] = IF i = k THEN e ELSE q[i]
  BY <1>1
<1> HIDE DEF f
<1>6. WildsFit(f)
  BY <1>3, <1>4, <1>5 DEF WildsFit
<1> QED BY <1>2, <1>4, <1>6

\* What a record call leaves as it was, and that the table stays half empty.
HalfEmpty(s, t) ==
    /\ TableFits(t) /\ Size(t) >= 2 /\ 2 * Len(t.spans) <= Size(t)
    /\ t.bits = s.bits /\ t.pbuf = s.pbuf
    /\ WildsFit(t.jwild) /\ Len(t.jwild) = Len(s.jwild)

\* jsonSpan in a table that is half empty.
LEMMA HalfEmptySpan ==
    ASSUME NEW s, NEW t, HalfEmpty(s, t), NEW path \in Paths
    PROVE  HalfEmpty(s, JsonSpan(t, path)) /\ JsonSpan(t, path).jwild = t.jwild
<1> DEFINE u == JsonSpan(t, path)
<1>1. Len(t.spans) \in Nat /\ Size(t) \in Nat
  BY SeqLen DEF TableFits, HalfEmpty
<1>2. Len(t.spans) < Size(t) /\ TableFits(t)
  BY <1>1 DEF HalfEmpty
<1>3. TableFits(u) /\ Same(t, u) /\ Size(u) >= Size(t) /\ 2 * Len(u.spans) <= Size(u)
  BY <1>2, JsonSpanFits
<1> HIDE DEF u
<1>4. Size(u) \in Nat /\ Size(u) >= 2
  BY <1>1, <1>3 DEF TableFits, HalfEmpty
<1>5. HalfEmpty(s, u) /\ u.jwild = t.jwild
  BY <1>3, <1>4 DEF HalfEmpty, Same
<1> QED BY <1>5 DEF u

\* record keeps the table half empty and the entries of jwild as many.
LEMMA RecordedFits ==
    ASSUME NEW s, HalfEmpty(s, s), call.known \in RulePaths, NEW path, NEW text
    PROVE  HalfEmpty(s, Recorded(s, path, text))
<1> DEFINE n == Len(s.jwild)
           t == IF path \in call.known THEN JsonSpan(s, path) ELSE s
           span == IF path \in call.known THEN IndexOf(t, path) ELSE 0
           start == IF path \in call.known
                    THEN [t EXCEPT !.jvals = Append(@, [span |-> span, text |-> text])] ELSE t
           Old(x, k) == x.jwild[k]
           Upd(x, k) == IF Old(x, k).span # 0 THEN x ELSE JsonSpan(x, Old(x, k).path)
           At(x, k) == IF Old(x, k).span # 0 THEN Old(x, k).span ELSE IndexOf(Upd(x, k), Old(x, k).path)
           Step(x, k) == [Upd(x, k) EXCEPT !.jwild[k].span = At(x, k),
                                !.jvals = IF At(x, k) = span THEN @
                                          ELSE Append(@, [span |-> At(x, k), text |-> text])]
<1>r0. n \in Nat
  BY SeqLen DEF HalfEmpty, WildsFit
<1>1. HalfEmpty(s, start)
  <2>1. HalfEmpty(s, t)
    <3>1. CASE path \in call.known
      <4>1. path \in Paths
        BY <3>1, ScratchAssumption DEF Paths
      <4> QED BY <3>1, <4>1, HalfEmptySpan
    <3>2. CASE path \notin call.known
      BY <3>2
    <3> QED BY <3>1, <3>2
  <2> DEFINE e == [t EXCEPT !.jvals = Append(@, [span |-> span, text |-> text])]
  <2>2. HalfEmpty(s, e)
    <3> HIDE DEF t, span
    <3>1. /\ DOMAIN e = Fields /\ e.slots = t.slots /\ e.spans = t.spans /\ e.bits = t.bits
          /\ e.pbuf = t.pbuf /\ e.jwild = t.jwild
      BY <2>1 DEF HalfEmpty, TableFits, Fields
    <3> HIDE DEF e
    <3>2. Size(e) = Size(t)
      BY <3>1 DEF Size
    <3> QED BY <2>1, <3>1, <3>2 DEF HalfEmpty, TableFits
  <2>3. start = t \/ start = e
    OBVIOUS
  <2> HIDE DEF start, t, e
  <2> QED BY <2>1, <2>2, <2>3
<1>2. ASSUME NEW x, HalfEmpty(s, x), NEW k \in 1..n
      PROVE  HalfEmpty(s, Step(x, k))
  <2> DEFINE u == Upd(x, k)
             at == At(x, k)
             v == Step(x, k)
  <2>1. k \in 1..Len(x.jwild) /\ x.jwild[k].path \in Paths
    BY <1>2 DEF HalfEmpty, WildsFit
  <2>2. HalfEmpty(s, u) /\ u.jwild = x.jwild
    BY <1>2, <2>1, HalfEmptySpan
  <2> HIDE DEF u, At, Upd, Old
  <2>3. v = [u EXCEPT !.jwild[k].span = at,
                      !.jvals = IF at = span THEN @ ELSE Append(@, [span |-> at, text |-> text])]
    BY DEF u
  <2> HIDE DEF at, Step, span
  <2>4. /\ DOMAIN v = Fields /\ v.slots = u.slots /\ v.spans = u.spans /\ v.bits = u.bits
        /\ v.pbuf = u.pbuf /\ v.jwild = [u.jwild EXCEPT ![k].span = at]
    BY <2>2, <2>3 DEF HalfEmpty, TableFits, Fields
  <2> DEFINE f == [u.jwild EXCEPT ![k].span = at]
  <2>5. WildsFit(f) /\ Len(f) = Len(u.jwild)
    <3>1. WildsFit(u.jwild) /\ k \in 1..Len(u.jwild)
      BY <2>1, <2>2 DEF HalfEmpty
    <3> QED BY <3>1, WildSpan, Zenon
  <2> HIDE DEF f, v
  <2>6. v.jwild = f
    BY <2>4 DEF f
  <2>7. Size(v) = Size(u)
    BY <2>4 DEF Size
  <2>8. HalfEmpty(s, v)
    BY <2>2, <2>4, <2>5, <2>6, <2>7 DEF HalfEmpty, TableFits
  <2> QED BY <2>8 DEF v
<1>3. CASE Wilds = {}
  <2>1. Recorded(s, path, text) = start
    BY <1>3 DEF Recorded
  <2> QED BY <1>1, <2>1
<1> HIDE DEF n
<1> HIDE DEF Step, start
<1> DEFINE Is(f, m) == f = [k \in 0..m |-> IF k = 0 THEN start ELSE Step(f[k - 1], k)]
           T == {m \in 0..n : \E f : Is(f, m)}
           rec == CHOOSE f : Is(f, n)
<1>r1. 0 \in T
  <2> DEFINE f == [k \in 0..0 |-> start]
  <2>1. Is(f, 0)
    OBVIOUS
  <2> HIDE DEF Is
  <2> QED BY <1>r0, <2>1
<1>r2. ASSUME NEW i \in 0 + 1..n, i - 1 \in T
      PROVE  i \in T
  <2>1. PICK g : Is(g, i - 1)
    BY <1>r2
  <2> DEFINE f == [k \in 0..i |-> IF k = i THEN Step(g[i - 1], i) ELSE g[k]]
  <2>2. ASSUME NEW k \in 0..i
        PROVE  f[k] = IF k = 0 THEN start ELSE Step(f[k - 1], k)
    BY <1>r0, <2>1
  <2>3. Is(f, i)
    BY <2>2
  <2> HIDE DEF Is
  <2> QED BY <1>r0, <2>3
<1>r3. Is(rec, n)
  <2>1. n \in T
    <3> HIDE DEF T
    <3>1. 0..n \subseteq T
      BY <1>r0, <1>r1, <1>r2, Induct
    <3> QED BY <1>r0, <3>1
  <2>2. \E f : Is(f, n)
    BY <2>1
  <2> HIDE DEF Is
  <2> QED BY <2>2
<1> HIDE DEF rec
<1>r4. /\ rec[0] = start
      /\ \A i \in 0 + 1..n : rec[i] = Step(rec[i - 1], i)
  BY <1>r0, <1>r3
<1> HIDE DEF Is, T
<1>4. Wilds # {} => Recorded(s, path, text) = rec[n]
  BY DEF Recorded, rec, Is, Step, start, n, Upd, At, Old
<1> DEFINE U == {k \in 0..n : HalfEmpty(s, rec[k])}
<1>5. 0 \in U
  BY <1>r0, <1>r4, <1>1
<1>6. ASSUME NEW i \in 0 + 1..n, i - 1 \in U
      PROVE  i \in U
  <2>1. rec[i] = Step(rec[i - 1], i) /\ HalfEmpty(s, rec[i - 1]) /\ i \in 1..n
    BY <1>r0, <1>r4, <1>6
  <2> QED BY <1>2, <2>1
<1>7. HalfEmpty(s, rec[n])
  <2>1. 0..n \subseteq U
    <3> HIDE DEF U
    <3> QED BY <1>r0, <1>5, <1>6, Induct
  <2> QED BY <1>r0, <2>1
<1> QED BY <1>3, <1>4, <1>7

\* groupJSONValues keeps the paths of the spans.
LEMMA GroupedFits ==
    ASSUME NEW s, TableFits(s)
    PROVE  LET t == Grouped(s)
           IN  TableFits(t) /\ Size(t) = Size(s) /\ t.bits = s.bits /\ Len(t.spans) = Len(s.spans)
<1> DEFINE t == Grouped(s)
<1>1. /\ DOMAIN t = Fields /\ t.slots = s.slots /\ t.bits = s.bits
      /\ DOMAIN t.spans = 1..Len(s.spans) /\ t.spans = [k \in 1..Len(s.spans) |-> t.spans[k]]
      /\ \A k \in 1..Len(s.spans) :
            DOMAIN t.spans[k] = DOMAIN s.spans[k] /\ t.spans[k].path = s.spans[k].path
  BY DEF Grouped, TableFits, Fields, SpanFields
<1> HIDE DEF t
<1>2. Len(s.spans) \in Nat
  BY SeqLen DEF TableFits
<1>3. IsSeq(t.spans) /\ Len(t.spans) = Len(s.spans)
  BY <1>1, <1>2, SeqOfFunction
<1>4. Size(t) = Size(s)
  BY <1>1 DEF Size
<1>5. TableFits(t)
  BY <1>1, <1>3, <1>4 DEF TableFits
<1> QED BY <1>1, <1>3, <1>4, <1>5 DEF t

\* Folding the values of a span keeps the paths of the spans.
LEMMA FoldedFits ==
    ASSUME NEW s, TableFits(s), NEW k
    PROVE  LET t == Folded(s, k)
           IN  TableFits(t) /\ Size(t) = Size(s) /\ t.bits = s.bits /\ Len(t.spans) = Len(s.spans)
<1> DEFINE t == Folded(s, k)
           e == t.spans[k]
           f == [s.spans EXCEPT ![k] = e]
<1>1. IsSeq(s.spans) /\ Len(s.spans) \in Nat
  BY SeqLen DEF TableFits
<1>2. CASE s.spans[k].folded
  <2>1. t = s
    BY <1>2 DEF Folded
  <2> QED BY <2>1
<1>3. CASE ~s.spans[k].folded
  <2>1. /\ DOMAIN t = Fields /\ t.slots = s.slots /\ t.bits = s.bits
        /\ t.spans = f
    BY <1>3 DEF Folded, TableFits, Fields
  <2>2. \A i \in 1..Len(s.spans) :
            DOMAIN t.spans[i] = DOMAIN s.spans[i] /\ t.spans[i].path = s.spans[i].path
    BY <1>1, <1>3, SeqLen DEF Folded, TableFits, Fields, SpanFields
  <2> HIDE DEF e
  <2>3. IsSeq(f) /\ Len(f) = Len(s.spans)
    BY <1>1, SeqExcept, Zenon
  <2> HIDE DEF f, t
  <2>4. Size(t) = Size(s)
    BY <2>1 DEF Size
  <2>5. TableFits(t)
    BY <2>1, <2>2, <2>3, <2>4 DEF TableFits
  <2> QED BY <2>1, <2>3, <2>4, <2>5 DEF t
<1> QED BY <1>2, <1>3

-----------------------------------------------------------------------------
(* The stack of the parser.                                                *)

FrameFields == {"kind", "path", "record", "root", "outer", "open", "child", "value"}

\* A frame; in an array only values come.
IsFrame(f) ==
    /\ DOMAIN f = FrameFields
    /\ {f.path, f.child, f.outer, f.open} \subseteq Nat
    /\ f.kind = "array" => f.value = TRUE
IsObject(f) == f.kind # "array"

\* What an open object remembers of jwild is still there: its length before and
\* after the entry of the object itself, in the order of the objects.
StackFits(stack, n) ==
    /\ IsSeq(stack)
    /\ \A i \in 1..Len(stack) : IsFrame(stack[i])
    /\ \A i \in 1..Len(stack) : IsObject(stack[i]) =>
          /\ stack[i].outer <= stack[i].open /\ stack[i].open <= n
          /\ \A j \in i + 1..Len(stack) : IsObject(stack[j]) => stack[i].open <= stack[j].outer

\* The same if jwild is longer.
LEMMA StackGrows ==
    ASSUME NEW stack, NEW m \in Nat, StackFits(stack, m), NEW n \in Nat, m <= n
    PROVE  StackFits(stack, n)
<1>1. \A i \in 1..Len(stack) : stack[i].open \in Nat
  BY DEF StackFits, IsFrame
<1>2. \A i \in 1..Len(stack) : stack[i].open <= m => stack[i].open <= n
  BY <1>1
<1> QED BY <1>2 DEF StackFits

\* A value opens an object or an array.
LEMMA PushFits ==
    ASSUME NEW stack, NEW m \in Nat, StackFits(stack, m), NEW n \in Nat, m <= n,
           NEW f, IsFrame(f), IsObject(f) => f.outer = m /\ f.open = n
    PROVE  StackFits(Append(stack, f), n)
<1> DEFINE l == Len(stack)
           new == Append(stack, f)
<1>1. /\ IsSeq(new) /\ Len(new) = l + 1 /\ l \in Nat
      /\ \A i \in 1..l : new[i] = stack[i]
      /\ new[l + 1] = f
  BY SeqAppend DEF StackFits
<1> HIDE DEF new
<1>2. \A i \in 1..Len(new) : i \in 1..l \/ i = l + 1
  BY <1>1
<1>3. \A i \in 1..Len(new) : IsFrame(new[i])
  BY <1>1, <1>2 DEF StackFits
<1>4. ASSUME NEW i \in 1..Len(new), IsObject(new[i])
      PROVE  /\ new[i].outer <= new[i].open /\ new[i].open <= n
             /\ \A j \in i + 1..Len(new) : IsObject(new[j]) => new[i].open <= new[j].outer
  <2>1. CASE i \in 1..l
    <3>1. stack[i].open \in Nat /\ new[i] = stack[i]
      BY <1>1, <2>1 DEF StackFits, IsFrame
    <3>2. stack[i].outer <= stack[i].open /\ stack[i].open <= m
      BY <1>4, <2>1, <3>1 DEF StackFits
    <3>3. ASSUME NEW j \in i + 1..Len(new), IsObject(new[j])
          PROVE  new[i].open <= new[j].outer
      <4>1. CASE j \in 1..l
        <5>1. new[j] = stack[j] /\ j \in i + 1..Len(stack)
          BY <1>1, <4>1
        <5> QED BY <1>4, <2>1, <3>1, <3>3, <5>1 DEF StackFits
      <4>2. CASE j = l + 1
        BY <1>1, <3>1, <3>2, <3>3, <4>2
      <4> QED BY <1>1, <4>1, <4>2
    <3> QED BY <3>1, <3>2, <3>3
  <2>2. CASE i = l + 1
    BY <1>1, <1>4, <2>2
  <2> QED BY <1>2, <2>1, <2>2
<1> QED BY <1>1, <1>3, <1>4 DEF StackFits, new

\* A frame that stays what it is but for its child and value.
LEMMA SetFrameFits ==
    ASSUME NEW stack, NEW n \in Nat, StackFits(stack, n), NEW k \in 1..Len(stack), NEW f, IsFrame(f),
           f.kind = stack[k].kind, f.outer = stack[k].outer, f.open = stack[k].open
    PROVE  StackFits([stack EXCEPT ![k] = f], n)
<1> DEFINE new == [stack EXCEPT ![k] = f]
<1>1. IsSeq(stack) /\ DOMAIN stack = 1..Len(stack)
  BY SeqLen DEF StackFits
<1>2. IsSeq(new) /\ Len(new) = Len(stack)
  BY <1>1, SeqExcept, Zenon
<1>3. \A i \in 1..Len(stack) : new[i] = IF i = k THEN f ELSE stack[i]
  BY <1>1
<1> HIDE DEF new
<1>4. \A i \in 1..Len(stack) : /\ IsFrame(new[i])
                               /\ IsObject(new[i]) <=> IsObject(stack[i])
                               /\ new[i].outer = stack[i].outer
                               /\ new[i].open = stack[i].open
  BY <1>3 DEF StackFits, IsObject
<1>5. ASSUME NEW i \in 1..Len(new), IsObject(new[i])
      PROVE  /\ new[i].outer <= new[i].open /\ new[i].open <= n
             /\ \A j \in i + 1..Len(new) : IsObject(new[j]) => new[i].open <= new[j].outer
  <2>1. i \in 1..Len(stack) /\ IsObject(stack[i]) /\ Len(stack) \in Nat
    BY <1>1, <1>2, <1>4, <1>5, SeqLen
  <2>2. stack[i].outer <= stack[i].open /\ stack[i].open <= n
    BY <2>1 DEF StackFits
  <2>3. \A j \in i + 1..Len(stack) : IsObject(stack[j]) => stack[i].open <= stack[j].outer
    BY <2>1 DEF StackFits
  <2>4. \A j \in i + 1..Len(stack) : j \in 1..Len(stack)
    BY <2>1
  <2>5. new[i].outer <= new[i].open /\ new[i].open <= n
    BY <1>4, <2>1, <2>2
  <2>6. \A j \in i + 1..Len(new) : IsObject(new[j]) => new[i].open <= new[j].outer
    BY <1>2, <1>4, <2>1, <2>3, <2>4
  <2> QED BY <2>5, <2>6
<1> QED BY <1>2, <1>4, <1>5 DEF StackFits, new

\* After a value, the innermost object expects a key.
LEMMA PoppedFits ==
    ASSUME NEW stack, NEW n \in Nat, StackFits(stack, n)
    PROVE  StackFits(Popped(stack), n)
<1>1. CASE stack = << >>
  BY <1>1 DEF Popped
<1>2. CASE stack # << >>
  <2> DEFINE k == Len(stack)
             f == [stack[k] EXCEPT !.value = stack[k].kind = "array"]
  <2>1. k \in 1..Len(stack) /\ IsSeq(stack)
    BY <1>2 DEF StackFits, IsSeq
  <2>2. IsFrame(f) /\ f.kind = stack[k].kind /\ f.outer = stack[k].outer /\ f.open = stack[k].open
    BY <2>1 DEF StackFits, IsFrame, FrameFields
  <2>3. Popped(stack) = [stack EXCEPT ![k] = f]
    BY <1>2 DEF Popped
  <2> HIDE DEF f
  <2>4. StackFits([stack EXCEPT ![k] = f], n)
    BY <2>1, <2>2, SetFrameFits, Zenon
  <2> QED BY <2>3, <2>4
<1> QED BY <1>1, <1>2

\* The stack without its top fits as much of jwild as the top remembers.
LEMMA FrontFits ==
    ASSUME NEW stack, NEW n \in Nat, StackFits(stack, n), stack # << >>
    PROVE  /\ StackFits(SubSeq(stack, 1, Len(stack) - 1), n)
           /\ IsObject(stack[Len(stack)]) =>
                StackFits(SubSeq(stack, 1, Len(stack) - 1), stack[Len(stack)].outer)
<1> DEFINE l == Len(stack)
           new == SubSeq(stack, 1, l - 1)
<1>1. IsSeq(stack) /\ l \in Nat /\ l - 1 \in Nat
  BY DEF StackFits, IsSeq
<1>2. IsSeq(new) /\ Len(new) = l - 1 /\ \A i \in 1..l - 1 : new[i] = stack[i]
  BY <1>1, SeqFront
<1> HIDE DEF new
<1>3. \A i \in 1..Len(new) : IsFrame(new[i]) /\ i \in 1..l /\ l \in i + 1..l /\ new[i] = stack[i]
  BY <1>1, <1>2 DEF StackFits
<1>4. ASSUME NEW i \in 1..Len(new), IsObject(new[i])
      PROVE  /\ new[i].outer <= new[i].open /\ new[i].open <= n
             /\ IsObject(stack[l]) => new[i].open <= stack[l].outer
             /\ \A j \in i + 1..Len(new) : IsObject(new[j]) => new[i].open <= new[j].outer
  <2>1. i \in 1..l /\ l \in i + 1..l /\ new[i] = stack[i]
    BY <1>3
  <2>2. stack[i].outer <= stack[i].open /\ stack[i].open <= n
    BY <1>4, <2>1 DEF StackFits
  <2>3. \A j \in i + 1..l : IsObject(stack[j]) => stack[i].open <= stack[j].outer
    BY <1>4, <2>1 DEF StackFits
  <2>4. \A j \in i + 1..Len(new) : j \in i + 1..l /\ new[j] = stack[j]
    BY <1>1, <1>2
  <2> QED BY <2>1, <2>2, <2>3, <2>4
<1>5. StackFits(new, n)
  BY <1>2, <1>3, <1>4 DEF StackFits
<1>6. IsObject(stack[l]) => StackFits(new, stack[l].outer)
  BY <1>2, <1>3, <1>4 DEF StackFits
<1> QED BY <1>5, <1>6 DEF new

\* After a value, jwild is cut to what the innermost object remembers.
LEMMA TruncatedFits ==
    ASSUME NEW wilds, WildsFit(wilds), NEW stack, StackFits(stack, Len(wilds))
    PROVE  /\ WildsFit(Truncated(wilds, stack))
           /\ StackFits(stack, Len(Truncated(wilds, stack)))
<1>1. CASE Wilds = {} \/ stack = << >> \/ stack[Len(stack)].kind = "array"
  BY <1>1 DEF Truncated
<1>2. CASE ~(Wilds = {} \/ stack = << >> \/ stack[Len(stack)].kind = "array")
  <2> DEFINE l == Len(stack)
             m == stack[l].open
             new == SubSeq(wilds, 1, m)
  <2>1. IsSeq(stack) /\ l \in Nat /\ l \in 1..l /\ Len(wilds) \in Nat
    BY <1>2, SeqLen DEF StackFits, IsSeq, WildsFit
  <2>2. m \in Nat /\ m <= Len(wilds) /\ IsObject(stack[l]) /\ stack[l].outer <= m /\ stack[l].outer \in Nat
    BY <1>2, <2>1 DEF StackFits, IsFrame, IsObject
  <2>3. Truncated(wilds, stack) = new
    BY <1>2 DEF Truncated
  <2> HIDE DEF m
  <2>4. IsSeq(new) /\ Len(new) = m /\ \A i \in 1..m : new[i] = wilds[i]
    BY <2>2, SeqFront
  <2> HIDE DEF new
  <2>5. WildsFit(new)
    <3>1. \A i \in 1..Len(new) : i \in 1..Len(wilds) /\ new[i] = wilds[i]
      BY <2>1, <2>2, <2>4
    <3> QED BY <2>4, <3>1 DEF WildsFit
  <2>6. ASSUME NEW i \in 1..l, IsObject(stack[i])
        PROVE  stack[i].open <= m
    <3>1. CASE i = l
      BY <2>2, <3>1 DEF m
    <3>2. CASE i # l
      <4>1. l \in i + 1..l
        BY <2>1, <3>2
      <4>2. stack[i].open <= stack[l].outer /\ stack[i].open \in Nat
        BY <2>2, <2>6, <4>1 DEF StackFits, IsFrame
      <4> QED BY <2>2, <4>2
    <3> QED BY <3>1, <3>2
  <2>7. StackFits(stack, m)
    BY <2>6 DEF StackFits
  <2> QED BY <2>3, <2>4, <2>5, <2>7
<1> QED BY <1>1, <1>2

-----------------------------------------------------------------------------
(* The inductive invariant.                                                *)

\* The table has two slots for every property, and since addWild made it half
\* empty, every property has added at most one span.
ResetFits ==
    /\ call.event \in Events
    /\ DOMAIN p = {"pos", "stack"} /\ p.pos \in 1..Len(call.event) + 1
    /\ Size(sc) >= 2 /\ Size(sc) >= 2 * Len(call.event)
    /\ p.pos = 1 => Len(sc.spans) = 0
    /\ p.pos > 1 => 2 * Len(sc.spans) <= Size(sc) + 2 * (p.pos - 2)

ParseFits ==
    /\ call.event \in Documents
    /\ HalfEmpty(sc, sc)
    /\ IsSeq(sc.pbuf)
    /\ p.pos \in Nat \ {0}
    /\ StackFits(p.stack, Len(sc.jwild))

ScratchInv ==
    /\ pc \in {"idle", "reset", "parse", "visit", "formulas", "release"}
    /\ DOMAIN sc = Fields
    /\ pc = "formulas" => sc.bits = got.hits
    /\ pc # "formulas" => sc.bits = {}
    /\ pc # "idle" => TableFits(sc) /\ call.known \in RulePaths
    /\ pc = "reset" => ResetFits
    /\ pc = "parse" => ParseFits
    /\ pc \in {"visit", "formulas", "release"} => Len(sc.spans) < Size(sc)

\* Between the entries of two spans the table has an empty slot.
LEMMA InvHasRoom ==
    ASSUME ScratchInv, pc # "idle"
    PROVE  Len(sc.spans) < Size(sc)
<1>1. Len(sc.spans) \in Nat /\ Size(sc) \in Nat
  BY SeqLen DEF ScratchInv, TableFits
<1>2. CASE pc = "reset"
  <2>1. call.event \in Seq([path : Paths, values : Seq(Values)])
    BY <1>2, ScratchAssumption DEF ScratchInv, ResetFits, Paths
  <2>2. Len(call.event) \in Nat
    BY <2>1
  <2> QED BY <1>1, <1>2, <2>2 DEF ScratchInv, ResetFits
<1>3. CASE pc = "parse"
  BY <1>1, <1>3 DEF ScratchInv, ParseFits, HalfEmpty
<1> QED BY <1>2, <1>3 DEF ScratchInv

\* A new scratch.
LEMMA InitFits ==
    ASSUME Init
    PROVE  ScratchInv
  BY DEF Init, ScratchInv, NewScratch, Fields

\* The emptied table of a scratch whose other buffers are kept.
LEMMA EmptyTable ==
    ASSUME NEW s, DOMAIN s = Fields, NEW n \in Nat, s.spans = << >>, s.slots = InitSlots(n)
    PROVE  TableFits(s) /\ Size(s) = n /\ Len(s.spans) = 0
<1>1. s.slots = [j \in 0..n - 1 |-> 0]
  BY DEF InitSlots
<1>2. Size(s) = n
  BY <1>1, SizeOf
<1>3. IsSeq(s.spans) /\ Len(s.spans) = 0
  BY SeqEmpty
<1> QED BY <1>1, <1>2, <1>3 DEF TableFits

\* Between two calls the words of the bit set are zero.
LEMMA MatchFits ==
    ASSUME ScratchInv, NEW event \in Events, NEW known \in RulePaths, Match(event, known)
    PROVE  ScratchInv'
<1> DEFINE n == SlotsFor(Len(event))
<1>1. Len(event) \in Nat
  BY ScratchAssumption
<1>2. n \in Nat /\ n >= 2 /\ n >= 2 * Len(event)
  BY <1>1, SlotsForAll
<1>3. PICK old \in {sc, NewScratch} :
          sc' = [old EXCEPT !.props = <<>>, !.spans = <<>>, !.slots = InitSlots(n)]
  BY DEF Match
<1> HIDE DEF n
<1>4. DOMAIN old = Fields /\ old.bits = {}
  BY DEF ScratchInv, NewScratch, Fields, Match
<1>5. DOMAIN sc' = Fields /\ sc'.bits = {} /\ sc'.spans = << >> /\ sc'.slots = InitSlots(n)
  BY <1>3, <1>4 DEF Fields
<1>6. TableFits(sc') /\ Size(sc') = n /\ Len(sc'.spans) = 0
  BY <1>2, <1>5, EmptyTable
<1>7. /\ pc' = "reset" /\ call'.event = event /\ call'.known = known
      /\ p' = [pos |-> 1, stack |-> << >>]
  BY DEF Match, NoParser
<1>8. ResetFits'
  BY <1>1, <1>2, <1>6, <1>7 DEF ResetFits
<1> QED BY <1>5, <1>6, <1>7, <1>8 DEF ScratchInv

\* The same for MatchJSON, whose stack holds the frame of the whole event.
LEMMA MatchJSONFits ==
    ASSUME ScratchInv, NEW doc \in Documents, NEW err, NEW known \in RulePaths,
           MatchJSON(doc, err, known)
    PROVE  ScratchInv'
<1> DEFINE n == MinJSONSlots
           frame == Frame("object", 0, TRUE, TRUE, 0, 0)
<1>1. n \in Nat /\ n >= 2
  BY ScratchAssumption
<1>2. PICK old \in {sc, NewScratch} : sc' = ResetBuffers(old)
  BY DEF MatchJSON
<1>3. DOMAIN old = Fields /\ old.bits = {}
  BY DEF ScratchInv, NewScratch, Fields, MatchJSON
<1>4. /\ DOMAIN sc' = Fields /\ sc'.bits = {} /\ sc'.spans = << >> /\ sc'.slots = InitSlots(n)
      /\ sc'.jwild = << >> /\ sc'.pbuf = << >>
  BY <1>2, <1>3 DEF Fields, ResetBuffers
<1> HIDE DEF n
<1>5. TableFits(sc') /\ Size(sc') = n /\ Len(sc'.spans) = 0
  BY <1>1, <1>4, EmptyTable
<1>6. /\ pc' \in {"parse", "release"} /\ call'.event = doc /\ call'.known = known
      /\ p' = [pos |-> 2, stack |-> <<frame>>]
  BY DEF MatchJSON
<1>7. WildsFit(sc'.jwild) /\ Len(sc'.jwild) = 0
  BY <1>4, SeqEmpty DEF WildsFit
<1>8. StackFits(<<frame>>, 0)
  <2>1. IsFrame(frame) /\ frame.outer = 0 /\ frame.open = 0
    BY DEF Frame, IsFrame, FrameFields
  <2> HIDE DEF frame
  <2>2. StackFits(<< >>, 0)
    BY SeqEmpty DEF StackFits
  <2>3. StackFits(Append(<< >>, frame), 0)
    <3>1. 0 \in Nat /\ 0 <= 0
      OBVIOUS
    <3> QED BY <2>1, <2>2, <3>1, PushFits, Zenon
  <2> QED BY <2>3
<1>9. IsSeq(sc'.pbuf)
  BY <1>4, SeqEmpty
<1>10. HalfEmpty(sc', sc')
  BY <1>1, <1>5, <1>7 DEF HalfEmpty
<1>11. p'.pos \in Nat \ {0} /\ p'.stack = <<frame>>
  <2> DEFINE stack == <<frame>>
  <2>1. p' = [pos |-> 2, stack |-> stack]
    BY <1>6
  <2> HIDE DEF stack
  <2>2. p'.pos = 2 /\ p'.stack = stack
    BY <2>1
  <2> QED BY <2>2 DEF stack
<1>12. ParseFits'
  BY <1>6, <1>7, <1>8, <1>9, <1>10, <1>11 DEF ParseFits
<1> QED BY <1>1, <1>4, <1>5, <1>6, <1>12 DEF ScratchInv

\* One span more than the bound for the properties before.
LEMMA OneSpanMore ==
    ASSUME NEW l \in Nat, NEW m \in Nat, NEW size \in Nat, NEW pos \in Nat,
           m <= l + 1, 2 * l <= size + 2 * (pos - 2)
    PROVE  2 * m <= size + 2 * (pos + 1 - 2)
  OBVIOUS

\* A property adds a span without a check, and then its wildcard paths with one.
LEMMA ResetPropertyFits ==
    ASSUME ScratchInv, ResetProperty
    PROVE  ScratchInv'
<1> DEFINE prop == call.event[p.pos]
           s == WithSpan(sc, prop.path, FALSE)
           t == Chain(s, IndexOf(s, prop.path), prop.values)
           n == Len(call.event)
<1>1. /\ pc = "reset" /\ pc' = "reset" /\ call' = call /\ p' = [p EXCEPT !.pos = @ + 1]
      /\ p.pos <= n
      /\ sc' = IF prop.values = << >> THEN sc ELSE IF Wilds = {} THEN t ELSE AddWild(t, prop)
  BY DEF ResetProperty
<1>2. /\ TableFits(sc) /\ DOMAIN sc = Fields /\ sc.bits = {} /\ call.known \in RulePaths
      /\ ResetFits /\ Len(sc.spans) < Size(sc)
  BY <1>1, InvHasRoom DEF ScratchInv
<1>3. call.event \in Seq([path : Paths, values : Seq(Values)])
  BY <1>2, ScratchAssumption DEF ResetFits, Paths
<1>4. n \in Nat /\ p.pos \in 1..n /\ prop.path \in Paths /\ prop.path \in Seq(STRING)
  <2>1. n \in Nat /\ p.pos \in 1..n
    BY <1>1, <1>2, <1>3 DEF ResetFits
  <2>2. prop \in [path : Paths, values : Seq(Values)]
    BY <1>3, <2>1, ElementOf
  <2>3. Paths \subseteq Seq(STRING)
    BY ScratchAssumption DEF Paths
  <2> HIDE DEF prop
  <2> QED BY <2>1, <2>2, <2>3
<1>5. /\ TableFits(s) /\ Size(s) = Size(sc) /\ Same(sc, s)
      /\ Len(s.spans) \in Len(sc.spans)..Len(sc.spans) + 1
  <2> HIDE DEF prop
  <2> QED BY <1>2, <1>4, WithSpanFits, Zenon
<1> HIDE DEF s
<1>6. TableFits(t) /\ Size(t) = Size(s) /\ Same(s, t) /\ Len(t.spans) = Len(s.spans)
  BY <1>5, ChainFits
<1> HIDE DEF t, n, prop
<1>4a. n \in Nat /\ p.pos \in Nat /\ p.pos >= 1 /\ p.pos <= n
  BY <1>4
<1>7. /\ Size(sc) \in Nat /\ Len(sc.spans) \in Nat /\ Size(sc) >= 2 /\ Size(sc) >= 2 * n
      /\ p.pos = 1 => Len(sc.spans) = 0
      /\ p.pos > 1 => 2 * Len(sc.spans) <= Size(sc) + 2 * (p.pos - 2)
  BY <1>2, SeqLen DEF ResetFits, TableFits, n
<1>8. /\ Size(t) = Size(sc) /\ Len(t.spans) \in Nat
      /\ 2 * Len(t.spans) <= Size(t) + 2 * (p.pos + 1 - 2)
      /\ Len(t.spans) < Size(t)
  <2>1. Size(t) = Size(sc) /\ Len(t.spans) \in Len(sc.spans)..Len(sc.spans) + 1
    BY <1>5, <1>6
  <2>2. CASE p.pos = 1
    BY <1>7, <2>1, <2>2
  <2>3. CASE p.pos > 1 /\ p.pos <= n
    <3>1. 2 * Len(sc.spans) <= Size(sc) + 2 * (p.pos - 2)
      BY <1>7, <2>3
    <3>2. Len(t.spans) \in Nat /\ Len(t.spans) <= Len(sc.spans) + 1
      BY <1>7, <2>1
    <3>3. 2 * Len(t.spans) <= Size(t) + 2 * (p.pos + 1 - 2)
      <4>1. Size(sc) \in Nat /\ Len(sc.spans) \in Nat
        BY <1>7
      <4>2. 2 * Len(t.spans) <= Size(sc) + 2 * (p.pos + 1 - 2)
        BY <1>4a, <3>1, <3>2, <4>1, OneSpanMore
      <4> QED BY <2>1, <4>2
    <3>4. Len(t.spans) < Size(t)
      BY <1>4a, <1>7, <2>1, <3>2, <3>3
    <3> QED BY <2>1, <3>2, <3>3, <3>4
  <2> QED BY <1>4a, <2>2, <2>3
<1> DEFINE Good(x) == /\ TableFits(x) /\ Size(x) >= Size(sc) /\ x.bits = {}
                      /\ 2 * Len(x.spans) <= Size(x) + 2 * (p.pos + 1 - 2)
<1>9. Good(sc')
  <2>1. CASE prop.values = << >>
    <3>1. sc' = sc
      BY <1>1, <2>1
    <3>2. 2 * Len(sc.spans) <= Size(sc) + 2 * (p.pos + 1 - 2)
      <4>1. CASE p.pos = 1
        BY <1>7, <4>1
      <4>2. CASE p.pos > 1
        BY <1>4a, <1>7, <4>2
      <4> QED BY <1>4a, <4>1, <4>2
    <3> QED BY <1>2, <1>7, <3>1, <3>2
  <2>2. CASE prop.values # << >> /\ Wilds = {}
    <3>1. sc' = t
      BY <1>1, <2>2
    <3>2. t.bits = {}
      BY <1>2, <1>5, <1>6 DEF Same
    <3> QED BY <1>6, <1>7, <1>8, <3>1, <3>2
  <2>3. CASE prop.values # << >> /\ Wilds # {}
    <3> DEFINE u == AddWild(t, prop)
    <3>1. sc' = u
      BY <1>1, <2>3
    <3>2. /\ TableFits(u) /\ Same(t, u) /\ Size(u) >= Size(t)
          /\ Len(u.spans) = Len(t.spans) \/ 2 * Len(u.spans) <= Size(u)
      <4> HIDE DEF prop
      <4> QED BY <1>2, <1>4, <1>6, <1>8, AddWildFits
    <3> HIDE DEF u
    <3>3. u.bits = {}
      BY <1>2, <1>5, <1>6, <3>2 DEF Same
    <3>4. Size(u) \in Nat /\ Len(u.spans) \in Nat
      BY <3>2, SeqLen DEF TableFits
    <3>5. 2 * Len(u.spans) <= Size(u) + 2 * (p.pos + 1 - 2)
      <4>1. p.pos \in Nat /\ p.pos >= 1 /\ Size(t) \in Nat
        BY <1>4, <1>7, <1>8
      <4>2. CASE Len(u.spans) = Len(t.spans)
        BY <1>8, <3>2, <3>4, <4>1, <4>2
      <4>3. CASE 2 * Len(u.spans) <= Size(u)
        BY <3>4, <4>1, <4>3
      <4> QED BY <3>2, <4>2, <4>3
    <3>6. Size(u) >= Size(sc)
      BY <1>8, <3>2
    <3> QED BY <3>1, <3>2, <3>3, <3>5, <3>6
  <2> QED BY <2>1, <2>2, <2>3
<1>10. DOMAIN p' = {"pos", "stack"} /\ p'.pos = p.pos + 1
  BY <1>1, <1>2 DEF ResetFits
<1> DEFINE x == sc'
<1>11. TableFits(sc') /\ DOMAIN sc' = Fields /\ sc'.bits = {} /\ Size(sc') \in Nat /\ Len(sc'.spans) \in Nat
  <2>1. Good(x)
    BY <1>9
  <2> HIDE DEF x
  <2>2. TableFits(x) /\ DOMAIN x = Fields /\ x.bits = {} /\ Size(x) \in Nat /\ Len(x.spans) \in Nat
    BY <2>1, SeqLen DEF TableFits
  <2> QED BY <2>2 DEF x
<1>12. /\ Size(sc') >= 2 /\ Size(sc') >= 2 * n
       /\ 2 * Len(sc'.spans) <= Size(sc') + 2 * (p'.pos - 2)
  BY <1>4, <1>7, <1>9, <1>10, <1>11
<1>13. ResetFits'
  <2>1. call'.event \in Events /\ Len(call'.event) = n
    BY <1>1, <1>2 DEF ResetFits, n
  <2>2. p'.pos \in 1..n + 1 /\ p'.pos # 1
    BY <1>4, <1>10
  <2> QED BY <1>10, <1>12, <2>1, <2>2 DEF ResetFits
<1> QED BY <1>1, <1>2, <1>11, <1>13 DEF ScratchInv

\* The parser goes on, with jwild and the stack as they fit together.
LEMMA ParseStep ==
    ASSUME ScratchInv, pc = "parse", UNCHANGED <<pc, call, got>>,
           TableFits(sc'), Size(sc') >= 2, 2 * Len(sc'.spans) <= Size(sc'), sc'.bits = sc.bits,
           WildsFit(sc'.jwild), IsSeq(sc'.pbuf), p'.pos \in Nat \ {0}, StackFits(p'.stack, Len(sc'.jwild))
    PROVE  ScratchInv'
<1>1. HalfEmpty(sc', sc')
  BY DEF HalfEmpty
<1>2. ParseFits'
  BY <1>1 DEF ScratchInv, ParseFits
<1>3. DOMAIN sc' = Fields
  BY DEF TableFits
<1> QED BY <1>2, <1>3 DEF ScratchInv

\* What every step of the parser starts from.
LEMMA Parsing ==
    ASSUME ScratchInv, pc = "parse"
    PROVE  /\ call.known \in RulePaths /\ call.event \in Documents
           /\ TableFits(sc) /\ HalfEmpty(sc, sc) /\ Size(sc) >= 2 /\ 2 * Len(sc.spans) <= Size(sc)
           /\ WildsFit(sc.jwild) /\ Len(sc.jwild) \in Nat /\ IsSeq(sc.pbuf) /\ p.pos \in Nat \ {0}
           /\ StackFits(p.stack, Len(sc.jwild)) /\ IsSeq(p.stack) /\ Len(p.stack) \in Nat
           /\ p.stack # << >> => Len(p.stack) \in 1..Len(p.stack) /\ IsFrame(Top)
  BY SeqLen DEF ScratchInv, ParseFits, HalfEmpty, StackFits, WildsFit, Top, IsSeq

\* A step that changes jwild and the stack only.
LEMMA WildStep ==
    ASSUME ScratchInv, pc = "parse", UNCHANGED <<pc, call, got>>,
           NEW s, HalfEmpty(sc, s), NEW wilds, WildsFit(wilds), sc' = [s EXCEPT !.jwild = wilds],
           NEW pos \in Nat \ {0}, NEW stack, StackFits(stack, Len(wilds)),
           p' = [pos |-> pos, stack |-> stack]
    PROVE  ScratchInv'
<1>1. /\ DOMAIN sc' = Fields /\ sc'.slots = s.slots /\ sc'.spans = s.spans /\ sc'.bits = sc.bits
      /\ sc'.pbuf = sc.pbuf /\ sc'.jwild = wilds
  BY DEF HalfEmpty, TableFits, Fields
<1>2. Size(sc') = Size(s)
  BY <1>1 DEF Size
<1>3. TableFits(sc') /\ Size(sc') >= 2 /\ 2 * Len(sc'.spans) <= Size(sc')
  BY <1>1, <1>2 DEF HalfEmpty, TableFits
<1>4. IsSeq(sc'.pbuf)
  BY <1>1, Parsing
<1>5. p'.pos \in Nat \ {0} /\ StackFits(p'.stack, Len(sc'.jwild))
  BY <1>1
<1> QED BY <1>1, <1>3, <1>4, <1>5, ParseStep

\* A key becomes the end of pbuf; the wildcard paths at its dots open.
LEMMA KeyFits ==
    ASSUME ScratchInv, Key
    PROVE  ScratchInv'
<1> DEFINE buf == Path(Top.path) \o (IF Top.root THEN <<>> ELSE <<Dot>>)
           full == buf \o Token[2]
           wilds == OpenWilds(sc.jwild, full, Len(buf) + 1)
           frame == [Top EXCEPT !.value = TRUE, !.child = IF Top.record THEN Len(full) ELSE Top.path]
           stack == [p.stack EXCEPT ![Len(p.stack)] = frame]
<1>1. /\ pc = "parse" /\ p.stack # << >> /\ UNCHANGED <<pc, call, got>>
      /\ p.pos <= Len(call.event) /\ Token[1] = "key"
      /\ sc' = IF Top.record THEN [sc EXCEPT !.pbuf = full, !.jwild = wilds] ELSE sc
      /\ p' = [pos |-> p.pos + 1, stack |-> stack]
  BY DEF Key, Parses, Advance
<1>2. /\ call.known \in RulePaths /\ TableFits(sc) /\ Size(sc) >= 2 /\ 2 * Len(sc.spans) <= Size(sc)
      /\ WildsFit(sc.jwild) /\ Len(sc.jwild) \in Nat /\ IsSeq(sc.pbuf)
      /\ StackFits(p.stack, Len(sc.jwild)) /\ Len(p.stack) \in 1..Len(p.stack) /\ IsFrame(Top)
      /\ p.pos \in Nat \ {0}
  BY <1>1, Parsing
<1>3. IsSeq(full) /\ Len(full) \in Nat /\ Len(buf) \in Nat /\ Len(buf) <= Len(full)
  <2>1. IsSeq(Path(Top.path))
    BY <1>2, SeqFront DEF IsFrame, Path
  <2>2. IsSeq(IF Top.root THEN <<>> ELSE <<Dot>>)
    <3>1. <<Dot>> \in Seq({Dot}) /\ << >> \in Seq({Dot})
      OBVIOUS
    <3>2. IsSeq(<<Dot>>) /\ IsSeq(<< >>)
      BY <3>1 DEF IsSeq
    <3> QED BY <3>2
  <2>3. IsSeq(Token[2])
    <3>1. call.event \in Seq(Tokens) /\ p.pos \in 1..Len(call.event)
      <4>1. call.event \in Seq(Tokens)
        BY <1>1, Parsing, ScratchAssumption
      <4>2. p.pos \in Nat /\ p.pos # 0 /\ p.pos <= Len(call.event) /\ Len(call.event) \in Nat
        BY <1>1, <1>2, <4>1
      <4> QED BY <4>1, <4>2
    <3>2. Token \in Tokens
      BY <3>1, ElementOf DEF Token
    <3>3. Token \in {"key"} \X Seq(STRING)
      <4>1. CASE Token \in {<<k>> : k \in {"{", "}", "[", "]", "null"}}
        <5> DEFINE tok == Token
        <5>1. PICK k \in {"{", "}", "[", "]", "null"} : tok = <<k>>
          BY <4>1
        <5> HIDE DEF tok
        <5>2. tok[1] # "key"
          BY <5>1
        <5>3. Token[1] # "key"
          BY <5>2 DEF tok
        <5> QED BY <1>1, <5>3
      <4>2. CASE Token \in {"value"} \X Values
        <5>1. Token[1] = "value"
          BY <4>2
        <5> QED BY <1>1, <5>1
      <4> QED BY <3>2, <4>1, <4>2 DEF Tokens
    <3>4. Token[2] \in Seq(STRING)
      BY <3>3
    <3> QED BY <3>4 DEF IsSeq
  <2> HIDE DEF full
  <2>4. IsSeq(buf) /\ Len(buf) \in Nat
    BY <2>1, <2>2, SeqConcat, SeqLen
  <2> HIDE DEF buf
  <2>5. IsSeq(full) /\ Len(full) = Len(buf) + Len(Token[2]) /\ Len(Token[2]) \in Nat
    BY <2>3, <2>4, SeqConcat, SeqLen DEF full
  <2> QED BY <2>4, <2>5
<1> HIDE DEF full, buf
<1>4. WildsFit(wilds) /\ Len(wilds) >= Len(sc.jwild) /\ Len(wilds) \in Nat
  BY <1>2, <1>3, OpenWildsFits, SeqLen DEF WildsFit
<1> HIDE DEF wilds
<1>5. StackFits(stack, Len(sc.jwild))
  <2>1. /\ IsFrame(frame) /\ frame.kind = p.stack[Len(p.stack)].kind
        /\ frame.outer = p.stack[Len(p.stack)].outer /\ frame.open = p.stack[Len(p.stack)].open
    BY <1>2, <1>3 DEF IsFrame, FrameFields, Top
  <2> HIDE DEF frame
  <2> QED BY <1>2, <2>1, SetFrameFits, Zenon
<1> HIDE DEF frame, stack
<1>6. CASE Top.record
  <2>1. sc' = [sc EXCEPT !.pbuf = full, !.jwild = wilds]
    BY <1>1, <1>6
  <2>2. /\ DOMAIN sc' = Fields /\ sc'.slots = sc.slots /\ sc'.spans = sc.spans /\ sc'.bits = sc.bits
        /\ sc'.pbuf = full /\ sc'.jwild = wilds
    BY <1>2, <2>1 DEF TableFits, Fields
  <2>3. Size(sc') = Size(sc)
    BY <2>2 DEF Size
  <2>4. TableFits(sc')
    BY <1>2, <2>2, <2>3 DEF TableFits
  <2>5. StackFits(stack, Len(wilds))
    BY <1>2, <1>4, <1>5, StackGrows
  <2>6. p'.pos \in Nat \ {0} /\ p'.stack = stack
    BY <1>1, <1>2
  <2> QED BY <1>1, <1>2, <1>3, <1>4, <2>2, <2>3, <2>4, <2>5, <2>6, ParseStep
<1>7. CASE ~Top.record
  <2>1. sc' = sc
    BY <1>1, <1>7
  <2>2. p'.pos \in Nat \ {0} /\ p'.stack = stack
    BY <1>1, <1>2
  <2> QED BY <1>1, <1>2, <1>5, <2>1, <2>2, ParseStep
<1> QED BY <1>6, <1>7

\* An object that is empty ends at once, another one remembers jwild.
LEMMA OpenObjectFits ==
    ASSUME ScratchInv, OpenObject
    PROVE  ScratchInv'
<1> DEFINE record == Top.record /\ (Below \/ Path(Top.child) \in Prefixes)
           wilds == IF record THEN OpenWild(sc.jwild, Path(Top.child)) ELSE sc.jwild
           frame == Frame("object", Top.child, record, FALSE, Len(sc.jwild), Len(wilds))
           cut == Truncated(sc.jwild, p.stack)
<1>1. /\ pc = "parse" /\ p.stack # << >> /\ UNCHANGED <<pc, call, got>>
      /\ \/ /\ sc' = [sc EXCEPT !.jwild = cut]
            /\ p' = [pos |-> p.pos + 2, stack |-> Popped(p.stack)]
         \/ /\ sc' = [sc EXCEPT !.jwild = wilds]
            /\ p' = [pos |-> p.pos + 1, stack |-> Append(p.stack, frame)]
  BY DEF OpenObject, Parses, Advance
<1>2. /\ call.known \in RulePaths /\ HalfEmpty(sc, sc)
      /\ WildsFit(sc.jwild) /\ Len(sc.jwild) \in Nat
      /\ StackFits(p.stack, Len(sc.jwild)) /\ IsFrame(Top)
      /\ p.pos \in Nat \ {0}
  BY <1>1, Parsing
<1>3. CASE /\ sc' = [sc EXCEPT !.jwild = cut]
           /\ p' = [pos |-> p.pos + 2, stack |-> Popped(p.stack)]
  <2>1. WildsFit(cut) /\ StackFits(p.stack, Len(cut))
    BY <1>2, TruncatedFits
  <2> HIDE DEF cut
  <2>2. Len(cut) \in Nat
    BY <2>1, SeqLen DEF WildsFit
  <2>3. StackFits(Popped(p.stack), Len(cut))
    BY <2>1, <2>2, PoppedFits
  <2> QED BY <1>1, <1>2, <1>3, <2>1, <2>3, WildStep
<1>4. CASE /\ sc' = [sc EXCEPT !.jwild = wilds]
           /\ p' = [pos |-> p.pos + 1, stack |-> Append(p.stack, frame)]
  <2>1. WildsFit(wilds) /\ Len(wilds) >= Len(sc.jwild)
    BY <1>2, OpenWildFits
  <2>2. IsFrame(frame) /\ frame.outer = Len(sc.jwild) /\ frame.open = Len(wilds)
    <3> HIDE DEF wilds, record
    <3>1. Len(wilds) \in Nat
      BY <2>1, SeqLen DEF WildsFit
    <3> QED BY <1>2, <3>1 DEF Frame, IsFrame, FrameFields
  <2> HIDE DEF wilds, frame
  <2>3. Len(wilds) \in Nat
    BY <2>1, SeqLen DEF WildsFit
  <2>4. StackFits(Append(p.stack, frame), Len(wilds))
    BY <1>2, <2>1, <2>2, <2>3, PushFits
  <2>5. p.pos + 1 \in Nat \ {0}
    BY <1>2
  <2> QED BY <1>1, <1>2, <1>4, <2>1, <2>4, <2>5, WildStep
<1> QED BY <1>1, <1>3, <1>4

\* The end of an object closes the entries that it opened.
LEMMA CloseObjectFits ==
    ASSUME ScratchInv, CloseObject
    PROVE  ScratchInv'
<1> DEFINE outer == SubSeq(p.stack, 1, Len(p.stack) - 1)
           wilds == IF Wilds = {} THEN sc.jwild ELSE SubSeq(sc.jwild, 1, Top.outer)
           cut == Truncated(wilds, outer)
<1>1. /\ pc = "parse" /\ p.stack # << >> /\ UNCHANGED <<pc, call, got>>
      /\ sc' = [sc EXCEPT !.jwild = cut]
      /\ p' = [pos |-> p.pos + 1, stack |-> Popped(outer)]
  BY DEF CloseObject, Parses, Advance
<1>2. /\ call.known \in RulePaths /\ HalfEmpty(sc, sc)
      /\ WildsFit(sc.jwild) /\ Len(sc.jwild) \in Nat
      /\ StackFits(p.stack, Len(sc.jwild)) /\ IsFrame(Top)
      /\ p.pos \in Nat \ {0} /\ Len(p.stack) \in 1..Len(p.stack)
  BY <1>1, Parsing
<1>3. IsObject(Top)
  <2>1. Top.value = FALSE
    BY DEF CloseObject, Parses
  <2> QED BY <1>2, <2>1 DEF IsFrame, IsObject
<1>4. WildsFit(wilds) /\ StackFits(outer, Len(wilds))
  <2>1. /\ StackFits(outer, Len(sc.jwild))
        /\ StackFits(outer, Top.outer)
    BY <1>1, <1>2, <1>3, FrontFits DEF Top
  <2>2. CASE Wilds = {}
    BY <1>2, <2>1, <2>2
  <2>3. CASE Wilds # {}
    <3> DEFINE n == Top.outer
               new == SubSeq(sc.jwild, 1, n)
    <3>1. n \in Nat /\ n <= Len(sc.jwild)
      <4>1. Top.outer \in Nat /\ Top.open \in Nat
        BY <1>2 DEF IsFrame
      <4>2. Top.outer <= Top.open /\ Top.open <= Len(sc.jwild)
        BY <1>2, <1>3 DEF StackFits, Top
      <4> QED BY <1>2, <4>1, <4>2
    <3>2. wilds = new
      BY <2>3
    <3> HIDE DEF n
    <3>3. IsSeq(new) /\ Len(new) = n /\ \A i \in 1..n : new[i] = sc.jwild[i]
      BY <3>1, SeqFront
    <3> HIDE DEF new
    <3>4. WildsFit(new)
      BY <1>2, <3>1, <3>3 DEF WildsFit
    <3> QED BY <2>1, <3>2, <3>3, <3>4 DEF n
  <2> QED BY <2>2, <2>3
<1> HIDE DEF wilds, outer
<1>5. WildsFit(cut) /\ StackFits(outer, Len(cut))
  BY <1>4, TruncatedFits
<1> HIDE DEF cut
<1>6. Len(cut) \in Nat
  BY <1>5, SeqLen DEF WildsFit
<1>7. StackFits(Popped(outer), Len(cut))
  BY <1>5, <1>6, PoppedFits
<1> QED BY <1>1, <1>2, <1>5, <1>7, WildStep

\* An array has no entries of its own.
LEMMA OpenArrayFits ==
    ASSUME ScratchInv, OpenArray
    PROVE  ScratchInv'
<1> DEFINE frame == Frame("array", Top.child, Top.record, FALSE, 0, 0)
           n == Len(sc.jwild)
           stack == Append(p.stack, frame)
<1>1. /\ pc = "parse" /\ p.stack # << >> /\ UNCHANGED <<pc, call, got>>
      /\ sc' = sc /\ p' = [pos |-> p.pos + 1, stack |-> stack]
  BY DEF OpenArray, Parses, Advance
<1>2. /\ TableFits(sc) /\ Size(sc) >= 2 /\ 2 * Len(sc.spans) <= Size(sc)
      /\ WildsFit(sc.jwild) /\ n \in Nat /\ IsSeq(sc.pbuf)
      /\ StackFits(p.stack, n) /\ IsFrame(Top) /\ p.pos \in Nat \ {0}
  BY <1>1, Parsing
<1>3. IsFrame(frame) /\ ~IsObject(frame)
  <2>1. DOMAIN frame = FrameFields /\ frame.kind = "array"
    BY DEF Frame, FrameFields
  <2>2. {frame.path, frame.child, frame.outer, frame.open} \subseteq Nat
    BY <1>2 DEF Frame, IsFrame
  <2>3. frame.value = TRUE
    <3>1. frame.value = ("array" = "array")
      BY DEF Frame
    <3> QED BY <3>1, Zenon
  <2> QED BY <2>1, <2>2, <2>3 DEF IsFrame, IsObject
<1> HIDE DEF frame, n
<1>4. StackFits(stack, n)
  <2>1. n <= n
    BY <1>2
  <2> QED BY <1>2, <1>3, <2>1, PushFits
<1> HIDE DEF stack
<1>5. p'.pos \in Nat \ {0} /\ p'.stack = stack
  BY <1>1, <1>2
<1> QED BY <1>1, <1>2, <1>4, <1>5, ParseStep DEF n

\* The end of an array is the end of a value.
LEMMA CloseArrayFits ==
    ASSUME ScratchInv, CloseArray
    PROVE  ScratchInv'
<1> DEFINE outer == SubSeq(p.stack, 1, Len(p.stack) - 1)
           cut == Truncated(sc.jwild, outer)
<1>1. /\ pc = "parse" /\ p.stack # << >> /\ UNCHANGED <<pc, call, got>>
      /\ sc' = [sc EXCEPT !.jwild = cut]
      /\ p' = [pos |-> p.pos + 1, stack |-> Popped(outer)]
  BY DEF CloseArray, Parses, Advance
<1>2. /\ HalfEmpty(sc, sc) /\ WildsFit(sc.jwild) /\ Len(sc.jwild) \in Nat
      /\ StackFits(p.stack, Len(sc.jwild)) /\ p.pos \in Nat \ {0}
  BY <1>1, Parsing
<1>3. StackFits(outer, Len(sc.jwild))
  BY <1>1, <1>2, FrontFits
<1> HIDE DEF outer
<1>4. WildsFit(cut) /\ StackFits(outer, Len(cut))
  BY <1>2, <1>3, TruncatedFits
<1> HIDE DEF cut
<1>5. Len(cut) \in Nat
  BY <1>4, SeqLen DEF WildsFit
<1>6. StackFits(Popped(outer), Len(cut)) /\ p.pos + 1 \in Nat \ {0}
  BY <1>2, <1>4, <1>5, PoppedFits
<1> QED BY <1>1, <1>2, <1>4, <1>6, WildStep

\* A value is recorded.
LEMMA ScalarFits ==
    ASSUME ScratchInv, Scalar
    PROVE  ScratchInv'
<1> DEFINE s == IF Token[1] = "value" /\ Top.record
                THEN Recorded(sc, Path(Top.child), FoldOf[Token[2]]) ELSE sc
           cut == Truncated(s.jwild, p.stack)
<1>1. /\ pc = "parse" /\ p.stack # << >> /\ UNCHANGED <<pc, call, got>>
      /\ sc' = [s EXCEPT !.jwild = cut]
      /\ p' = [pos |-> p.pos + 1, stack |-> Popped(p.stack)]
  BY DEF Scalar, Parses, Advance
<1>2. /\ HalfEmpty(sc, sc) /\ WildsFit(sc.jwild) /\ Len(sc.jwild) \in Nat
      /\ StackFits(p.stack, Len(sc.jwild)) /\ p.pos \in Nat \ {0} /\ call.known \in RulePaths
  BY <1>1, Parsing
<1>3. HalfEmpty(sc, s)
  BY <1>2, RecordedFits
<1> HIDE DEF s
<1>4. WildsFit(s.jwild) /\ Len(s.jwild) = Len(sc.jwild)
  BY <1>3 DEF HalfEmpty
<1>5. WildsFit(cut) /\ StackFits(p.stack, Len(cut))
  BY <1>2, <1>4, TruncatedFits
<1> HIDE DEF cut
<1>6. Len(cut) \in Nat
  BY <1>5, SeqLen DEF WildsFit
<1>7. StackFits(Popped(p.stack), Len(cut)) /\ p.pos + 1 \in Nat \ {0}
  BY <1>2, <1>5, <1>6, PoppedFits
<1> QED BY <1>1, <1>2, <1>3, <1>5, <1>7, WildStep

\* The span that a string which cannot be decoded leaves behind fits the table.
LEMMA FailInStringFits ==
    ASSUME ScratchInv, FailInString
    PROVE  ScratchInv'
<1> DEFINE path == Path(Top.child)
           t == JsonSpan(sc, path)
<1>1. /\ pc = "parse" /\ pc' = "release" /\ UNCHANGED <<call, got>> /\ sc' = t
      /\ path \in call.known
  BY DEF FailInString
<1>2. HalfEmpty(sc, sc) /\ call.known \in RulePaths /\ sc.bits = {}
  BY <1>1, Parsing DEF ScratchInv
<1>3. path \in Paths
  BY <1>1, <1>2, ScratchAssumption DEF Paths
<1>4. HalfEmpty(sc, t)
  BY <1>2, <1>3, HalfEmptySpan
<1> HIDE DEF t
<1>5. Len(t.spans) \in Nat /\ Size(t) \in Nat
  BY <1>4, SeqLen DEF HalfEmpty, TableFits
<1>6. /\ TableFits(sc') /\ Len(sc'.spans) < Size(sc') /\ sc'.bits = {}
      /\ DOMAIN sc' = Fields
  BY <1>1, <1>2, <1>4, <1>5 DEF HalfEmpty, TableFits
<1> QED BY <1>1, <1>2, <1>6 DEF ScratchInv

\* Grouping the values leaves the table as it is.
LEMMA GroupValuesFits ==
    ASSUME ScratchInv, GroupValues
    PROVE  ScratchInv'
<1>1. pc = "parse" /\ pc' = "visit" /\ call' = call /\ got' = got /\ sc' = Grouped(sc)
  BY DEF GroupValues
<1>2. TableFits(sc) /\ Len(sc.spans) < Size(sc) /\ sc.bits = {} /\ call.known \in RulePaths
  BY <1>1, InvHasRoom DEF ScratchInv
<1>3. /\ TableFits(sc') /\ Size(sc') = Size(sc) /\ sc'.bits = sc.bits
      /\ Len(sc'.spans) = Len(sc.spans)
  BY <1>1, <1>2, GroupedFits
<1> QED BY <1>1, <1>2, <1>3 DEF ScratchInv, TableFits

\* A group starts from an empty bit set, so that it holds its hits only.
LEMMA EvalGroupFits ==
    ASSUME ScratchInv, NEW path, EvalGroup(path)
    PROVE  ScratchInv'
<1> DEFINE k == IndexOf(sc, path)
           s == Folded(sc, k)
           seen == Seen(s, k)
           hits == {LeafId[v] : v \in {seen[i].text : i \in 1..Len(seen)} \cap DOMAIN LeafId}
           h == Hashed(s, k)
<1>1. /\ pc = "visit" /\ call' = call
      /\ got'.hits = IF k = 0 THEN {} ELSE hits
      /\ sc' = IF k = 0 THEN sc ELSE [h EXCEPT !.bits = @ \cup hits]
      /\ pc' = IF k = 0 THEN "visit" ELSE "formulas"
  BY DEF EvalGroup
<1>2. /\ TableFits(sc) /\ Len(sc.spans) < Size(sc) /\ sc.bits = {} /\ call.known \in RulePaths
      /\ DOMAIN sc = Fields
  BY <1>1 DEF ScratchInv
<1>3. TableFits(s) /\ Size(s) = Size(sc) /\ s.bits = sc.bits /\ Len(s.spans) = Len(sc.spans)
  BY <1>2, FoldedFits
<1> HIDE DEF s, hits, k
<1>4. CASE k = 0
  BY <1>1, <1>2, <1>4 DEF ScratchInv
<1>5. CASE k # 0
  <2>1. /\ DOMAIN sc' = Fields /\ sc'.slots = s.slots /\ sc'.spans = s.spans
        /\ sc'.bits = {} \cup hits
    BY <1>1, <1>2, <1>3, <1>5 DEF TableFits, Fields, Hashed
  <2>2. sc'.bits = hits /\ got'.hits = hits /\ pc' = "formulas"
    BY <1>1, <1>5, <2>1
  <2>3. Size(sc') = Size(s)
    BY <2>1 DEF Size
  <2>4. TableFits(sc')
    BY <1>3, <2>1, <2>3 DEF TableFits
  <2>5. Len(sc'.spans) < Size(sc')
    BY <1>2, <1>3, <2>1, <2>3
  <2> QED BY <1>1, <1>2, <2>1, <2>2, <2>4, <2>5 DEF ScratchInv
<1> QED BY <1>4, <1>5

\* The bit set holds the hits, so the words of the hits are all that is cleared.
LEMMA ClearBitsFits ==
    ASSUME ScratchInv, ClearBits
    PROVE  ScratchInv'
<1>1. /\ pc = "formulas" /\ pc' = "visit" /\ call' = call
      /\ sc' = [sc EXCEPT !.bits = {b \in @ : \A h \in got.hits : b \div WordBits # h \div WordBits}]
  BY DEF ClearBits
<1>2. /\ TableFits(sc) /\ Len(sc.spans) < Size(sc) /\ sc.bits = got.hits /\ call.known \in RulePaths
      /\ DOMAIN sc = Fields
  BY <1>1 DEF ScratchInv
<1>3. {b \in sc.bits : \A h \in got.hits : b \div WordBits # h \div WordBits} = {}
  BY <1>2
<1>4. /\ DOMAIN sc' = Fields /\ sc'.slots = sc.slots /\ sc'.spans = sc.spans /\ sc'.bits = {}
  BY <1>1, <1>2, <1>3 DEF Fields
<1>5. Size(sc') = Size(sc)
  BY <1>4 DEF Size
<1>6. TableFits(sc')
  BY <1>2, <1>4, <1>5 DEF TableFits
<1> QED BY <1>1, <1>2, <1>4, <1>5, <1>6 DEF ScratchInv

\* The end of reset, the end of a call and a failed event leave the table alone.
LEMMA OtherFits ==
    ASSUME ScratchInv, ResetDone \/ Fail \/ VisitDone \/ Release
    PROVE  ScratchInv'
<1>1. CASE ResetDone
  <2>1. /\ pc = "reset" /\ pc' = "visit" /\ call' = call /\ sc' = [sc EXCEPT !.used = 0]
    BY <1>1 DEF ResetDone
  <2>2. /\ TableFits(sc) /\ Len(sc.spans) < Size(sc) /\ sc.bits = {} /\ call.known \in RulePaths
        /\ DOMAIN sc = Fields
    BY <2>1, InvHasRoom DEF ScratchInv
  <2>3. DOMAIN sc' = Fields /\ sc'.slots = sc.slots /\ sc'.spans = sc.spans /\ sc'.bits = {}
    BY <2>1, <2>2 DEF Fields
  <2>4. Size(sc') = Size(sc)
    BY <2>3 DEF Size
  <2>5. TableFits(sc')
    BY <2>2, <2>3, <2>4 DEF TableFits
  <2> QED BY <2>1, <2>2, <2>3, <2>4, <2>5 DEF ScratchInv
<1>2. CASE Fail \/ VisitDone
  <2>1. pc \in {"parse", "visit"} /\ pc' = "release" /\ call' = call /\ sc' = sc
    BY <1>2 DEF Fail, VisitDone
  <2>2. Len(sc.spans) < Size(sc)
    BY <2>1, InvHasRoom
  <2> QED BY <2>1, <2>2 DEF ScratchInv
<1>3. CASE Release
  <2>1. pc = "release" /\ pc' = "idle" /\ DOMAIN sc' = DOMAIN sc /\ sc'.bits = sc.bits
    BY <1>3 DEF Release, ScratchInv, Fields
  <2> QED BY <2>1 DEF ScratchInv
<1> QED BY <1>1, <1>2, <1>3

\* Every step keeps the invariant.
LEMMA InvNext ==
    ASSUME ScratchInv, [Next]_vars
    PROVE  ScratchInv'
<1>1. CASE UNCHANGED vars
  BY <1>1 DEF vars, ScratchInv, ResetFits, ParseFits
<1>2. ASSUME NEW known \in RulePaths, NEW event \in Events, Match(event, known)
      PROVE  ScratchInv'
  BY <1>2, MatchFits
<1>3. ASSUME NEW known \in RulePaths, NEW doc \in Documents, NEW err \in 0..Len(doc) + 1,
             MatchJSON(doc, err, known)
      PROVE  ScratchInv'
  BY <1>3, MatchJSONFits
<1>4. ASSUME NEW path \in call.known, EvalGroup(path)
      PROVE  ScratchInv'
  BY <1>4, EvalGroupFits
<1>5. CASE ResetProperty \/ ResetDone \/ Key \/ OpenObject \/ CloseObject
  BY <1>5, ResetPropertyFits, OtherFits, KeyFits, OpenObjectFits, CloseObjectFits
<1>6. CASE OpenArray \/ CloseArray \/ Scalar \/ GroupValues \/ Fail \/ FailInString
  BY <1>6, OpenArrayFits, CloseArrayFits, ScalarFits, GroupValuesFits, OtherFits, FailInStringFits
<1>7. CASE ClearBits \/ VisitDone \/ Release
  BY <1>7, ClearBitsFits, OtherFits
<1> QED BY <1>1, <1>2, <1>3, <1>4, <1>5, <1>6, <1>7 DEF Next

-----------------------------------------------------------------------------
(* Theorems.                                                               *)

\* The invariant holds in every reachable state.
THEOREM ScratchFits == Spec => []ScratchInv
<1>1. Init => ScratchInv
  BY InitFits
<1>2. ScratchInv /\ [Next]_vars => ScratchInv'
  BY InvNext
<1> QED BY <1>1, <1>2, PTL DEF Spec

\* The span table always has an empty slot, so that every probe ends: reset enters
\* properties without a check, but in a table with two slots for each of them, and
\* every span of a wildcard path and of MatchJSON is entered with one, after which
\* the table is half empty at least.
THEOREM ProbingEnds == Spec => []TableHasRoom
<1>1. ScratchInv => TableHasRoom
  <2> SUFFICES ASSUME ScratchInv, pc # "idle"
               PROVE  \E j \in DOMAIN sc.slots : sc.slots[j] = 0
    BY DEF TableHasRoom
  <2>1. TableFits(sc) /\ Len(sc.spans) < Size(sc)
    BY InvHasRoom DEF ScratchInv
  <2> QED BY <2>1, EmptySlot
<1> QED BY <1>1, ScratchFits, PTL

\* The bit set that the formulas of a group read holds the hits of this group only,
\* whatever calls the scratch was used for before and wherever they failed.
THEOREM OwnHitsOnly == Spec => []FormulasSeeHits
<1>1. ScratchInv => FormulasSeeHits
  BY DEF ScratchInv, FormulasSeeHits
<1> QED BY <1>1, ScratchFits, PTL
=============================================================================
