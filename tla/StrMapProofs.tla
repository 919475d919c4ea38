---------------------------- MODULE StrMapProofs ----------------------------
(***************************************************************************)
(* Proofs about StrMap, for any keys and values, any hash function, any    *)
(* initial size and any number of readers: a key has one slot, and lookups *)
(* are regular while put stores entries and grow copies tables.            *)
(***************************************************************************)
EXTENDS StrMap, FiniteSetTheorems, TLAPS

Entries == Keys \X Vals
Tables == UNION {[0..n - 1 -> Entries \cup {NoEntry}] : n \in Nat \ {0}}

Occupied(t) == {i \in DOMAIN t : t[i] # NoEntry}
Unique(t) == \A i, j \in Occupied(t) : t[i][1] = t[j][1] => i = j

\* Key's way through t has no gap before the slot after j others.
NoGap(t, key, j) == \A c \in 0..j - 1 : t[Slot(t, key, c)] # NoEntry

\* A lookup reaches every entry.
Reached(t) ==
    \A i \in Occupied(t) : \E j \in 0..Size(t) - 1 :
        Slot(t, t[i][1], j) = i /\ NoGap(t, t[i][1], j)

Good(t) == t \in Tables /\ Unique(t) /\ Reached(t)

-----------------------------------------------------------------------------
(* The least element of a set of numbers below a bound.                    *)

\* Among the sets {m \in S : m < x}, x \in S, one is minimal; its x is least.
LEMMA LeastIsLeast ==
    ASSUME NEW S \in SUBSET Nat, S # {}
    PROVE  Least(S) \in S /\ \A m \in S : Least(S) <= m
<1> DEFINE B(x) == {m \in S : m < x}
           T == {B(x) : x \in S}
           R == StrictSubsetOrdering(S)
<1>0. \A x \in S : x \in Nat
  OBVIOUS
<1>1. \A x \in S : IsFiniteSet(B(x))
  <2> SUFFICES ASSUME NEW x \in S PROVE IsFiniteSet(B(x))
    OBVIOUS
  <2>1. x \in Nat /\ B(x) \in SUBSET Nat
    BY <1>0
  <2>1a. \A m \in B(x) : m <= x
    BY <1>0
  <2> HIDE DEF B
  <2>2. QED
    BY <2>1, <2>1a, FS_BoundedSetOfNaturals
<1>2. T \subseteq FiniteSubsetsOf(S) /\ T # {}
  BY <1>1 DEF FiniteSubsetsOf
<1>3. PICK t \in T : \A u \in T : ~(<<u, t>> \in R)
  <2> HIDE DEF T, R
  <2>1. IsWellFoundedOn(R, FiniteSubsetsOf(S))
    BY FS_StrictSubsetOrderingWellFounded DEF R
  <2>2. QED
    BY <1>2, <2>1, WFMin
<1>4. PICK x \in S : t = B(x)
  OBVIOUS
<1>5. ASSUME NEW y \in S, y < x PROVE FALSE
  <2>1. \A m \in S : m < y => m < x
    BY <1>0, <1>5
  <2>1a. B(y) \subseteq B(x)
    BY <2>1
  <2>1b. y \in B(x) /\ y \notin B(y)
    BY <1>0, <1>5
  <2>2. <<B(y), B(x)>> \in R
    BY <2>1a, <2>1b DEF StrictSubsetOrdering
  <2>3. QED
    BY <1>3, <1>4, <2>2
<1>6. \A y \in S : x <= y
  BY <1>5
<1>7. QED
  BY <1>6 DEF Least

-----------------------------------------------------------------------------
(* Tables, and the way of a key through one.                               *)

\* A table has its size, and its slots hold entries or nothing.
LEMMA TableFacts ==
    ASSUME NEW t \in Tables
    PROVE  /\ Size(t) \in Nat \ {0}
           /\ DOMAIN t = 0..Size(t) - 1
           /\ t \in [0..Size(t) - 1 -> Entries \cup {NoEntry}]
           /\ \A i \in DOMAIN t : t[i] # NoEntry => t[i] \in Entries /\ t[i][1] \in Keys
<1>1. PICK n \in Nat \ {0} : t \in [0..n - 1 -> Entries \cup {NoEntry}]
  BY DEF Tables
<1>2. DOMAIN t = 0..n - 1
  BY <1>1
<1>3. Cardinality(0..n - 1) = n
  BY FS_Interval
<1>4. Size(t) = n
  BY <1>2, <1>3 DEF Size
<1>5. QED
  BY <1>1, <1>2, <1>4 DEF Entries

\* The way of a key starts in the table.
LEMMA StartInTable ==
    ASSUME NEW n \in Nat \ {0}, NEW h \in Nat
    PROVE  h % n \in 0..n - 1
  OBVIOUS

\* It stays in the table, meets no slot twice, and meets every slot.
LEMMA WayOfKey ==
    ASSUME NEW t \in Tables, NEW key \in Keys
    PROVE  /\ \A j \in 0..Size(t) - 1 : Slot(t, key, j) \in DOMAIN t
           /\ \A i, j \in 0..Size(t) - 1 : Slot(t, key, i) = Slot(t, key, j) => i = j
           /\ \A i \in DOMAIN t : \E j \in 0..Size(t) - 1 : Slot(t, key, j) = i
<1> DEFINE n == Size(t)
           h == HashOf[key] % n
<1>1. n \in Nat \ {0} /\ DOMAIN t = 0..n - 1
  BY TableFacts
<1>2. h \in 0..n - 1
  BY <1>1, StartInTable, StrMapAssumption
<1>3. \A j \in Nat : Slot(t, key, j) = IF h + j < n THEN h + j ELSE h + j - n
  BY <1>1, <1>2 DEF Slot
<1> HIDE DEF n, h
<1>4. \A j \in 0..n - 1 : Slot(t, key, j) \in 0..n - 1
  BY <1>1, <1>2, <1>3
<1>5. \A i, j \in 0..n - 1 : Slot(t, key, i) = Slot(t, key, j) => i = j
  BY <1>1, <1>2, <1>3
<1>6. ASSUME NEW i \in 0..n - 1
      PROVE  \E j \in 0..n - 1 : Slot(t, key, j) = i
  <2>1. CASE i >= h
    <3>1. i - h \in 0..n - 1 /\ Slot(t, key, i - h) = i
      BY <1>1, <1>2, <1>3, <2>1
    <3>2. QED
      BY <3>1
  <2>2. CASE i < h
    <3>1. i - h + n \in 0..n - 1 /\ Slot(t, key, i - h + n) = i
      BY <1>1, <1>2, <1>3, <2>2
    <3>2. QED
      BY <3>1
  <2>3. QED
    BY <1>1, <1>2, <2>1, <2>2
<1>7. QED
  BY <1>1, <1>4, <1>5, <1>6 DEF n

\* Its occupied slots can be counted.
LEMMA OccupiedFinite ==
    ASSUME NEW t \in Tables
    PROVE  IsFiniteSet(Occupied(t)) /\ Cardinality(Occupied(t)) \in Nat
<1>1. Size(t) \in Nat /\ DOMAIN t = 0..Size(t) - 1
  BY TableFacts
<1>2. IsFiniteSet(DOMAIN t)
  BY <1>1, FS_Interval
<1>3. QED
  BY <1>2, FS_Subset, FS_CardinalityType DEF Occupied

\* A table that is not full has an empty slot.
LEMMA EmptySlot ==
    ASSUME NEW t \in Tables, Cardinality(Occupied(t)) < Size(t)
    PROVE  \E i \in DOMAIN t : t[i] = NoEntry
<1>1. SUFFICES ASSUME \A i \in DOMAIN t : t[i] # NoEntry PROVE FALSE
  OBVIOUS
<1>2. Occupied(t) = DOMAIN t
  BY <1>1 DEF Occupied
<1>3. Size(t) \in Nat
  BY TableFacts
<1>4. QED
  BY <1>2, <1>3 DEF Size

\* Where insert stops: at the first slot on the way that is empty or has the key.
LEMMA SlotForStops ==
    ASSUME NEW t \in Tables, NEW e \in Entries, Cardinality(Occupied(t)) < Size(t)
    PROVE  \E j \in 0..Size(t) - 1 :
              /\ SlotFor(t, e) = Slot(t, e[1], j)
              /\ t[SlotFor(t, e)] = NoEntry \/ t[SlotFor(t, e)][1] = e[1]
              /\ \A c \in 0..j - 1 : /\ t[Slot(t, e[1], c)] # NoEntry
                                     /\ t[Slot(t, e[1], c)][1] # e[1]
<1> DEFINE n == Size(t)
           stop(j) == t[Slot(t, e[1], j)] = NoEntry \/ t[Slot(t, e[1], j)][1] = e[1]
           S == {j \in 0..n - 1 : stop(j)}
<1>1. n \in Nat /\ e[1] \in Keys
  BY TableFacts DEF Entries
<1>2. PICK i \in DOMAIN t : t[i] = NoEntry
  BY EmptySlot
<1>3. PICK k \in 0..n - 1 : Slot(t, e[1], k) = i
  BY <1>1, <1>2, WayOfKey
<1>4. k \in S
  BY <1>2, <1>3
<1>5. S \in SUBSET Nat
  BY <1>1
<1> DEFINE j == Least(S)
<1>6. j \in S /\ \A m \in S : j <= m
  <2> HIDE DEF S
  <2>1. QED
    BY <1>4, <1>5, LeastIsLeast
<1>7. SlotFor(t, e) = Slot(t, e[1], j)
  BY DEF SlotFor
<1>8. \A c \in 0..j - 1 : c \notin S
  <2>1. j \in Nat
    BY <1>5, <1>6
  <2> HIDE DEF S, j
  <2>2. QED
    BY <1>5, <1>6, <2>1
<1>9. \A c \in 0..j - 1 : c \in 0..n - 1
  <2>1. j \in 0..n - 1
    BY <1>6
  <2> HIDE DEF j, n
  <2>2. QED
    BY <1>1, <2>1
<1>10. j \in 0..n - 1 /\ stop(j) /\ \A c \in 0..j - 1 : ~stop(c)
  BY <1>6, <1>8, <1>9
<1> HIDE DEF j
<1>11. QED
  BY <1>7, <1>10

\* Insert finds the slot of a present key.
LEMMA PresentKey ==
    ASSUME NEW t, Good(t), NEW e \in Entries, Cardinality(Occupied(t)) < Size(t),
           NEW i \in Occupied(t), t[i][1] = e[1]
    PROVE  SlotFor(t, e) = i
<1> DEFINE n == Size(t)
<1>1. t \in Tables /\ n \in Nat /\ e[1] \in Keys
  BY TableFacts DEF Good, Entries
<1>2. PICK j \in 0..n - 1 :
        /\ SlotFor(t, e) = Slot(t, e[1], j)
        /\ t[SlotFor(t, e)] = NoEntry \/ t[SlotFor(t, e)][1] = e[1]
        /\ \A c \in 0..j - 1 : t[Slot(t, e[1], c)] # NoEntry /\ t[Slot(t, e[1], c)][1] # e[1]
  BY <1>1, SlotForStops
<1>3. PICK d \in 0..n - 1 : Slot(t, e[1], d) = i /\ NoGap(t, e[1], d)
  BY DEF Good, Reached
<1>4. t[i] # NoEntry
  BY DEF Occupied
<1>5. ~(d < j)
  BY <1>1, <1>2, <1>3
<1>6. SlotFor(t, e) \in DOMAIN t
  BY <1>1, <1>2, WayOfKey
<1>7. CASE j < d
  <2>1. j \in 0..d - 1
    BY <1>1, <1>7
  <2>2. t[SlotFor(t, e)] # NoEntry
    BY <1>2, <1>3, <2>1 DEF NoGap
  <2>3. SlotFor(t, e) \in Occupied(t) /\ t[SlotFor(t, e)][1] = t[i][1]
    BY <1>2, <1>6, <2>2 DEF Occupied
  <2>4. QED
    BY <2>3 DEF Good, Unique
<1>8. CASE j = d
  BY <1>2, <1>3, <1>8
<1>9. QED
  BY <1>1, <1>5, <1>7, <1>8

-----------------------------------------------------------------------------
(* Insert.                                                                 *)

\* Insert changes one slot, in place of an empty one or of an entry with the
\* same key, and keeps the table good.
LEMMA InsertGood ==
    ASSUME NEW t, Good(t), NEW e \in Entries, Cardinality(Occupied(t)) < Size(t)
    PROVE  /\ SlotFor(t, e) \in DOMAIN t
           /\ t[SlotFor(t, e)] = NoEntry \/ t[SlotFor(t, e)][1] = e[1]
           /\ DOMAIN Insert(t, e) = DOMAIN t
           /\ Size(Insert(t, e)) = Size(t)
           /\ Insert(t, e)[SlotFor(t, e)] = e
           /\ \A i \in DOMAIN t : i # SlotFor(t, e) => Insert(t, e)[i] = t[i]
           /\ Good(Insert(t, e))
           /\ Cardinality(Occupied(Insert(t, e))) =
                Cardinality(Occupied(t)) + (IF t[SlotFor(t, e)] = NoEntry THEN 1 ELSE 0)
<1> DEFINE n == Size(t)
           s == SlotFor(t, e)
           u == Insert(t, e)
<1>1. /\ t \in Tables /\ n \in Nat \ {0} /\ DOMAIN t = 0..n - 1
      /\ t \in [0..n - 1 -> Entries \cup {NoEntry}]
      /\ \A i \in DOMAIN t : t[i] # NoEntry => t[i] \in Entries /\ t[i][1] \in Keys
  BY TableFacts DEF Good
<1>2. e[1] \in Keys /\ e # NoEntry
  BY StrMapAssumption DEF Entries
<1>3. PICK j \in 0..n - 1 :
        /\ s = Slot(t, e[1], j)
        /\ t[s] = NoEntry \/ t[s][1] = e[1]
        /\ \A c \in 0..j - 1 : t[Slot(t, e[1], c)] # NoEntry /\ t[Slot(t, e[1], c)][1] # e[1]
  BY <1>1, SlotForStops
<1>4. s \in DOMAIN t
  BY <1>1, <1>2, <1>3, WayOfKey
<1>5. u = [t EXCEPT ![s] = e]
  BY DEF Insert
<1> HIDE DEF u
<1>6. /\ DOMAIN u = DOMAIN t
      /\ u[s] = e
      /\ \A i \in DOMAIN t : i # s => u[i] = t[i]
      /\ u \in [0..n - 1 -> Entries \cup {NoEntry}]
  <2> HIDE DEF s
  <2>1. QED
    BY <1>1, <1>4, <1>5
<1>7. Size(u) = n /\ u \in Tables
  BY <1>1, <1>6 DEF Size, Tables
<1>8. \A key, i : Slot(u, key, i) = Slot(t, key, i)
  BY <1>7 DEF Slot
<1>9. Occupied(u) = Occupied(t) \cup {s}
  <2> HIDE DEF s
  <2>1. QED
    BY <1>2, <1>4, <1>6 DEF Occupied
<1>10. ASSUME NEW i \in Occupied(t), i # s PROVE t[i][1] # e[1]
  BY <1>10, PresentKey
<1>11. Unique(u)
  <2> SUFFICES ASSUME NEW a \in Occupied(u), NEW b \in Occupied(u), u[a][1] = u[b][1]
               PROVE  a = b
    BY DEF Unique
  <2> HIDE DEF s
  <2>1. Occupied(t) \subseteq DOMAIN t
    BY DEF Occupied
  <2>2. CASE a = s
    BY <1>6, <1>9, <1>10, <2>1, <2>2
  <2>3. CASE b = s
    BY <1>6, <1>9, <1>10, <2>1, <2>3
  <2>4. CASE a # s /\ b # s
    <3>1. a \in Occupied(t) /\ b \in Occupied(t) /\ t[a][1] = t[b][1]
      BY <1>6, <1>9, <2>1, <2>4
    <3>2. QED
      BY <3>1 DEF Good, Unique
  <2>5. QED
    BY <2>2, <2>3, <2>4
<1>12. \A key \in Keys, c \in 0..n - 1 :
          t[Slot(t, key, c)] # NoEntry => u[Slot(t, key, c)] # NoEntry
  <2> SUFFICES ASSUME NEW key \in Keys, NEW c \in 0..n - 1, t[Slot(t, key, c)] # NoEntry
               PROVE  u[Slot(t, key, c)] # NoEntry
    OBVIOUS
  <2>1. Slot(t, key, c) \in DOMAIN t
    BY <1>1, WayOfKey
  <2> HIDE DEF s
  <2>2. QED
    BY <1>2, <1>6, <2>1
<1>13. Reached(u)
  <2> SUFFICES ASSUME NEW i \in Occupied(u)
               PROVE  \E d \in 0..n - 1 : Slot(t, u[i][1], d) = i /\ NoGap(u, u[i][1], d)
    BY <1>7, <1>8 DEF Reached
  <2>1. CASE i = s
    <3>1. \A c \in 0..j - 1 : c \in 0..n - 1
      BY <1>1
    <3>2. \A c \in 0..j - 1 : u[Slot(t, e[1], c)] # NoEntry
      BY <1>2, <1>3, <1>12, <3>1
    <3>3. u[i][1] = e[1]
      BY <1>6, <2>1
    <3> HIDE DEF s
    <3>4. QED
      BY <1>3, <1>8, <2>1, <3>2, <3>3 DEF NoGap
  <2>2. CASE i # s
    <3>1. i \in Occupied(t) /\ i \in DOMAIN t /\ u[i] = t[i]
      <4> HIDE DEF s
      <4>1. QED
        BY <1>6, <1>9, <2>2 DEF Occupied
    <3>2. PICK d \in 0..n - 1 : Slot(t, t[i][1], d) = i /\ NoGap(t, t[i][1], d)
      BY <3>1 DEF Good, Reached
    <3>3. t[i][1] \in Keys
      BY <1>1, <3>1 DEF Occupied
    <3>4. \A c \in 0..d - 1 : c \in 0..n - 1
      BY <1>1
    <3>5. \A c \in 0..d - 1 : u[Slot(t, t[i][1], c)] # NoEntry
      BY <1>12, <3>2, <3>3, <3>4 DEF NoGap
    <3>6. QED
      BY <1>8, <3>1, <3>2, <3>5 DEF NoGap
  <2>3. QED
    BY <2>1, <2>2
<1>14. IsFiniteSet(Occupied(t))
  <2>1. IsFiniteSet(DOMAIN t)
    BY <1>1, FS_Interval
  <2>2. QED
    BY <2>1, FS_Subset DEF Occupied
<1>15. Cardinality(Occupied(u)) = Cardinality(Occupied(t)) + (IF t[s] = NoEntry THEN 1 ELSE 0)
  <2>1. s \in Occupied(t) <=> t[s] # NoEntry
    BY <1>4 DEF Occupied
  <2> HIDE DEF s
  <2>2. QED
    BY <1>9, <1>14, <2>1, FS_AddElement, FS_CardinalityType
<1>16. QED
  BY <1>1, <1>3, <1>4, <1>6, <1>7, <1>11, <1>13, <1>15 DEF Good, u

\* A new table is good, and empty.
LEMMA EmptyGood ==
    ASSUME NEW n \in Nat \ {0}
    PROVE  /\ Good(Empty(n))
           /\ Size(Empty(n)) = n
           /\ Occupied(Empty(n)) = {}
           /\ Cardinality(Occupied(Empty(n))) = 0
<1>1. Empty(n) \in [0..n - 1 -> Entries \cup {NoEntry}] /\ DOMAIN Empty(n) = 0..n - 1
  BY DEF Empty
<1>2. Size(Empty(n)) = n
  BY <1>1, FS_Interval DEF Size
<1>3. Occupied(Empty(n)) = {}
  BY DEF Occupied, Empty
<1>4. Empty(n) \in Tables
  BY <1>1 DEF Tables
<1>5. QED
  BY <1>2, <1>3, <1>4, FS_EmptySet DEF Good, Unique, Reached

-----------------------------------------------------------------------------
(* The inductive invariant.                                                *)

\* The value of e was put for its key, as the m-th or a later one.
PutSince(e, m) == \E n \in 1..Len(history[e[1]]) : n >= m /\ e[2] = history[e[1]][n]

WriterStates ==
    [pc : {"idle", "grow", "copy", "insert"}, entry : Entries \cup {NoEntry},
     new : Tables \cup {Empty(0)}, i : Nat, used : Nat]

ReaderStates ==
    [pc : {"idle", "probe", "done"}, key : Keys \cup {NoEntry}, table : Nat, i : Nat,
     found : Entries \cup {NoEntry}, since : Nat]

Types ==
    /\ tables \in Seq(Tables)
    /\ used \in Nat
    /\ history \in [Keys -> Seq(Vals)]
    /\ w \in WriterStates
    /\ rd \in [Readers -> ReaderStates]

\* Every table is good and holds values that were put.
TablesInv ==
    \A n \in 1..Len(tables) :
        /\ Good(tables[n])
        /\ \A i \in Occupied(tables[n]) : PutSince(tables[n][i], 1)

\* The current table holds what put has returned for, and is not full.
FreshInv ==
    /\ tables # <<>> => Cardinality(Occupied(Current)) <= used
    /\ \A k \in Keys : Stored(k) > 0 =>
          tables # <<>> /\ \E i \in DOMAIN Current : Current[i] = <<k, history[k][Stored(k)]>>

WriterInv ==
    /\ w.pc = "idle" => w.entry = NoEntry
    /\ w.pc # "idle" => /\ w.entry \in Entries
                        /\ history[w.entry[1]] # <<>>
                        /\ w.entry[2] = history[w.entry[1]][Len(history[w.entry[1]])]
    /\ w.pc = "grow" => w.i = 0 /\ w.used = 0
    /\ w.pc = "insert" => tables # <<>> /\ used < Size(Current)

\* The copy holds what the loop of grow has passed, and nothing else.
CopyInv ==
    w.pc = "copy" =>
        /\ Good(w.new)
        /\ w.i <= OldSize /\ OldSize < Size(w.new)
        /\ Cardinality(Occupied(w.new)) <= w.used /\ w.used <= w.i
        /\ tables # <<>> => \A i \in Occupied(Current) : i < w.i =>
              \E j \in DOMAIN w.new : w.new[j] = Current[i]
        /\ \A j \in Occupied(w.new) : PutSince(w.new[j], 1)
        /\ \A j \in Occupied(w.new) :
              tables # <<>> /\ \E i \in Occupied(Current) : i < w.i /\ Current[i] = w.new[j]

\* A lookup has passed no slot that is empty or has its key, and its table holds
\* an entry that is recent enough.
Passed(t, key, i) ==
    /\ i < Size(t)
    /\ \A c \in 0..i - 1 : t[Slot(t, key, c)] # NoEntry /\ t[Slot(t, key, c)][1] # key

Holds(t, key, since) ==
    since > 0 => \E j \in Occupied(t) : t[j][1] = key /\ PutSince(t[j], since)

Probing(r) ==
    /\ rd[r].key \in Keys
    /\ rd[r].table \in 1..Len(tables)
    /\ rd[r].since <= Len(history[rd[r].key])
    /\ rd[r].found = NoEntry
    /\ Passed(tables[rd[r].table], rd[r].key, rd[r].i)
    /\ Holds(tables[rd[r].table], rd[r].key, rd[r].since)

Done(r) ==
    IF rd[r].found = NoEntry THEN rd[r].since = 0
    ELSE rd[r].found[1] = rd[r].key /\ PutSince(rd[r].found, rd[r].since)

ReadersInv ==
    \A r \in Readers :
        /\ rd[r].pc = "probe" => Probing(r)
        /\ rd[r].pc = "done" => Done(r)

IInv == Types /\ TablesInv /\ FreshInv /\ WriterInv /\ CopyInv /\ ReadersInv

-----------------------------------------------------------------------------
(* Every step preserves the invariant.                                     *)

\* The current table, once there is one.
LEMMA CurrentFacts ==
    ASSUME Types, TablesInv, tables # <<>>
    PROVE  /\ Len(tables) \in 1..Len(tables)
           /\ Current \in Tables /\ Good(Current)
           /\ Size(Current) \in Nat \ {0} /\ DOMAIN Current = 0..Size(Current) - 1
           /\ \A i \in DOMAIN Current : Current[i] # NoEntry =>
                Current[i] \in Entries /\ PutSince(Current[i], 1)
<1>1. Len(tables) \in 1..Len(tables)
  BY DEF Types, WriterStates, ReaderStates
<1>2. Good(Current)
  BY <1>1 DEF Current, TablesInv
<1>3. Current \in Tables
  BY <1>2 DEF Good
<1>4. \A i \in Occupied(Current) : PutSince(Current[i], 1)
  BY <1>1 DEF Current, TablesInv
<1> HIDE DEF Current
<1>5. QED
  BY <1>1, <1>2, <1>3, <1>4, TableFacts DEF Occupied

\* The numbers of values that were put and stored.
LEMMA StoredFacts ==
    ASSUME Types, WriterInv, NEW k \in Keys
    PROVE  Stored(k) \in Nat /\ Len(history[k]) \in Nat /\ Stored(k) <= Len(history[k])
<1>1. history[k] \in Seq(Vals) /\ Len(history[k]) \in Nat
  BY DEF Types, WriterStates, ReaderStates
<1>2. CASE w.entry # NoEntry /\ w.entry[1] = k
  <2>1. history[k] # <<>>
    BY <1>2 DEF WriterInv, Types, WriterStates, ReaderStates
  <2>2. Len(history[k]) > 0
    BY <1>1, <2>1
  <2>3. QED
    BY <1>1, <1>2, <2>2 DEF Stored
<1>3. CASE ~(w.entry # NoEntry /\ w.entry[1] = k)
  <2>1. Stored(k) = Len(history[k]) - 0
    BY <1>3, Zenon DEF Stored
  <2>2. QED
    BY <1>1, <2>1
<1>4. QED
  BY <1>2, <1>3

\* What was put stays put.
LEMMA PutSinceKept ==
    ASSUME Types, NEW k \in Keys, NEW v \in Vals, history' = [history EXCEPT ![k] = Append(@, v)],
           NEW e, e[1] \in Keys, NEW m, PutSince(e, m)
    PROVE  \E n \in 1..Len(history'[e[1]]) : n >= m /\ e[2] = history'[e[1]][n]
<1>1. PICK n \in 1..Len(history[e[1]]) : n >= m /\ e[2] = history[e[1]][n]
  BY DEF PutSince
<1>2. history[k] \in Seq(Vals) /\ history[e[1]] \in Seq(Vals)
  BY DEF Types, WriterStates, ReaderStates
<1>3. history'[e[1]] = IF e[1] = k THEN Append(history[k], v) ELSE history[e[1]]
  BY DEF Types, WriterStates, ReaderStates
<1>4. n \in 1..Len(history'[e[1]]) /\ history'[e[1]][n] = history[e[1]][n]
  BY <1>1, <1>2, <1>3
<1>5. QED
  BY <1>1, <1>4

LEMMA PutStep ==
    ASSUME IInv, NEW k \in Keys, NEW v \in Vals, Put(k, v)
    PROVE  IInv'
<1> USE DEF IInv
<1>1. /\ w.pc = "idle" /\ w.entry = NoEntry
      /\ UNCHANGED <<tables, used, rd>>
      /\ history' = [history EXCEPT ![k] = Append(@, v)]
      /\ w' = [IdleWriter EXCEPT !.pc = IF NeedsGrowth THEN "grow" ELSE "insert", !.entry = <<k, v>>]
  BY DEF Put, WriterInv
<1>2. /\ w'.pc = IF NeedsGrowth THEN "grow" ELSE "insert"
      /\ w'.entry = <<k, v>> /\ w'.i = 0 /\ w'.used = 0 /\ w'.new = Empty(0)
      /\ <<k, v>> \in Entries /\ <<k, v>> # NoEntry
  BY <1>1, StrMapAssumption DEF IdleWriter, Entries
<1>3. /\ history \in [Keys -> Seq(Vals)] /\ history' \in [Keys -> Seq(Vals)]
      /\ \A x \in Keys : history'[x] = IF x = k THEN Append(history[k], v) ELSE history[x]
  BY <1>1 DEF Types, WriterStates, ReaderStates
<1>4. Types'
  <2>1. w' \in WriterStates
    BY <1>1, <1>2 DEF IdleWriter, WriterStates
  <2>2. QED
    BY <1>1, <1>3, <2>1 DEF Types, WriterStates, ReaderStates
<1>5. TablesInv'
  <2> SUFFICES ASSUME NEW n \in 1..Len(tables)
               PROVE  /\ Good(tables[n])
                      /\ \A i \in Occupied(tables[n]) : PutSince(tables[n][i], 1)'
    BY <1>1 DEF TablesInv
  <2>1. Good(tables[n])
    BY DEF TablesInv
  <2>2. \A i \in Occupied(tables[n]) : tables[n][i][1] \in Keys
    BY <2>1, TableFacts DEF Good, Occupied
  <2>3. ASSUME NEW i \in Occupied(tables[n])
        PROVE  PutSince(tables[n][i], 1)'
    <3>1. PutSince(tables[n][i], 1) /\ tables[n][i][1] \in Keys
      BY <2>2 DEF TablesInv
    <3>2. QED
      BY <1>1, <3>1, PutSinceKept DEF PutSince
  <2>4. QED
    BY <2>1, <2>3
<1>6. FreshInv'
  <2>1. \A x \in Keys : Stored(x)' = Stored(x) /\ Stored(x) = Len(history[x]) /\ Len(history[x]) \in Nat
    BY <1>1, <1>2, <1>3 DEF Stored
  <2>2. \A x \in Keys : Stored(x) > 0 => history'[x][Stored(x)] = history[x][Stored(x)]
    BY <1>3, <2>1
  <2>3. Current' = Current
    BY <1>1 DEF Current
  <2> HIDE DEF Current
  <2>4. QED
    BY <1>1, <2>1, <2>2, <2>3 DEF FreshInv
<1>7. WriterInv'
  <2>1. history'[k] # <<>> /\ history'[k][Len(history'[k])] = v
    BY <1>3
  <2>2. w'.pc = "insert" => tables # <<>> /\ used < Size(Current)
    <3>1. SUFFICES ASSUME ~NeedsGrowth PROVE tables # <<>> /\ used < Size(Current)
      BY <1>2
    <3>2. tables # <<>> /\ ~((used + 1) * 4 > Size(Current) * 3)
      BY <3>1 DEF NeedsGrowth
    <3>3. Size(Current) \in Nat /\ used \in Nat
      BY <3>2, CurrentFacts DEF Types, WriterStates, ReaderStates
    <3>4. QED
      BY <3>2, <3>3
  <2>3. QED
    BY <1>1, <1>2, <2>1, <2>2 DEF WriterInv, Current
<1>8. CopyInv'
  BY <1>2 DEF CopyInv
<1>9. ReadersInv'
  <2> SUFFICES ASSUME NEW r \in Readers
               PROVE  /\ rd[r].pc = "probe" => Probing(r)'
                      /\ rd[r].pc = "done" => Done(r)'
    BY <1>1 DEF ReadersInv
  <2>1. ASSUME rd[r].pc = "probe" PROVE Probing(r)'
    <3> DEFINE t == tables[rd[r].table]
    <3>1. Probing(r) /\ rd[r].since \in Nat
      BY <2>1 DEF ReadersInv, Types, WriterStates, ReaderStates
    <3>2. Good(t)
      BY <3>1 DEF Probing, TablesInv
    <3>2a. rd[r].key \in Keys /\ rd[r].since <= Len(history[rd[r].key])
      BY <3>1 DEF Probing
    <3>3. rd[r].since <= Len(history'[rd[r].key])
      <4>1. Len(history[rd[r].key]) <= Len(history'[rd[r].key])
        <5>1. PICK x \in Keys : x = rd[r].key
          BY <3>2a
        <5>2. history[x] \in Seq(Vals) /\ history'[x] = IF x = k THEN Append(history[x], v) ELSE history[x]
          BY <1>3
        <5>3. Len(history[x]) \in Nat /\ Len(Append(history[x], v)) = Len(history[x]) + 1
          BY <5>2
        <5>4. QED
          BY <5>1, <5>2, <5>3
      <4>2. Len(history[rd[r].key]) \in Nat /\ Len(history'[rd[r].key]) \in Nat
        BY <1>3, <3>2a
      <4>3. QED
        BY <3>1, <3>2a, <4>1, <4>2
    <3>4. ASSUME rd[r].since > 0
          PROVE  \E j \in Occupied(t) : t[j][1] = rd[r].key /\ PutSince(t[j], rd[r].since)'
      <4>1. PICK j \in Occupied(t) : t[j][1] = rd[r].key /\ PutSince(t[j], rd[r].since)
        BY <3>1, <3>4 DEF Probing, Holds
      <4>2. t[j][1] \in Keys
        BY <3>2, TableFacts DEF Good, Occupied
      <4>3. PutSince(t[j], rd[r].since)'
        BY <1>1, <4>1, <4>2, PutSinceKept DEF PutSince
      <4>4. QED
        BY <4>1, <4>3
    <3>5. Holds(t, rd[r].key, rd[r].since)'
      BY <1>1, <3>4 DEF Holds
    <3>6. QED
      BY <1>1, <3>1, <3>3, <3>5 DEF Probing
  <2>2. ASSUME rd[r].pc = "done" PROVE Done(r)'
    <3>1. Done(r) /\ rd[r].found \in Entries \cup {NoEntry}
      BY <2>2 DEF ReadersInv, Types, WriterStates, ReaderStates
    <3>2. ASSUME rd[r].found # NoEntry PROVE PutSince(rd[r].found, rd[r].since)'
      <4>1. rd[r].found[1] \in Keys /\ PutSince(rd[r].found, rd[r].since)
        BY <3>1, <3>2 DEF Done, Entries
      <4>2. QED
        BY <1>1, <4>1, PutSinceKept DEF PutSince
    <3>3. QED
      BY <1>1, <3>1, <3>2 DEF Done
  <2>3. QED
    BY <2>1, <2>2
<1>10. QED
  BY <1>4, <1>5, <1>6, <1>7, <1>8, <1>9

LEMMA GrowStep ==
    ASSUME IInv, Grow
    PROVE  IInv'
<1> USE DEF IInv
<1> DEFINE n == IF tables = <<>> THEN InitSize ELSE 2 * Size(Current)
<1>1. /\ w.pc = "grow" /\ w.i = 0 /\ w.used = 0
      /\ UNCHANGED <<tables, used, rd, history>>
      /\ w' = [w EXCEPT !.pc = "copy", !.new = Empty(n)]
  BY DEF Grow, WriterInv
<1>2. n \in Nat \ {0} /\ OldSize \in Nat /\ OldSize < n
  <2>1. CASE tables = <<>>
    BY <2>1, StrMapAssumption DEF OldSize
  <2>2. CASE tables # <<>>
    <3>1. Size(Current) \in Nat \ {0}
      BY <2>2, CurrentFacts
    <3>2. QED
      BY <2>2, <3>1 DEF OldSize
  <2>3. QED
    BY <2>1, <2>2
<1> HIDE DEF n
<1>3. /\ Good(Empty(n)) /\ Empty(n) \in Tables /\ Size(Empty(n)) = n
      /\ Occupied(Empty(n)) = {} /\ Cardinality(Occupied(Empty(n))) = 0
  BY <1>2, EmptyGood DEF Good
<1>4. /\ w'.pc = "copy" /\ w'.new = Empty(n) /\ w'.i = 0 /\ w'.used = 0 /\ w'.entry = w.entry
      /\ w' \in WriterStates
  BY <1>1, <1>3 DEF Types, WriterStates, ReaderStates
<1>5. Types'
  BY <1>1, <1>4 DEF Types
<1>6. TablesInv'
  BY <1>1 DEF TablesInv, PutSince
<1>7. FreshInv'
  BY <1>1, <1>4 DEF FreshInv, Stored, Current
<1>8. WriterInv'
  BY <1>1, <1>4 DEF WriterInv
<1>9. CopyInv'
  <2>1. OldSize' = OldSize /\ Current' = Current
    BY <1>1 DEF OldSize, Current
  <2>2. tables # <<>> => \A i \in Occupied(Current) : ~(i < 0)
    BY CurrentFacts DEF Occupied
  <2>3. /\ Good(w.new)' /\ (w.i <= OldSize)' /\ (OldSize < Size(w.new))'
        /\ Occupied(w.new)' = {} /\ (Cardinality(Occupied(w.new)) <= w.used)' /\ (w.used <= w.i)'
    BY <1>2, <1>3, <1>4, <2>1
  <2>4. (tables # <<>> => \A i \in Occupied(Current) : ~(i < w.i))'
    BY <1>1, <1>4, <2>1, <2>2
  <2> HIDE DEF Current
  <2>5. QED
    BY <2>3, <2>4 DEF CopyInv
<1>10. ReadersInv'
  BY <1>1 DEF ReadersInv, Probing, Holds, Done, PutSince
<1>11. QED
  BY <1>5, <1>6, <1>7, <1>8, <1>9, <1>10

\* The loop of grow: an entry is copied, and no other entry of the copy is lost.
LEMMA CopyStep ==
    ASSUME IInv, Copy
    PROVE  IInv'
<1> USE DEF IInv
<1> DEFINE t == w.new
           e == Current[w.i]
           u == IF e = NoEntry THEN t ELSE Insert(t, e)
<1>1. /\ w.pc = "copy" /\ w.i < OldSize
      /\ UNCHANGED <<tables, used, rd, history>>
      /\ w' = IF e = NoEntry THEN [w EXCEPT !.i = @ + 1]
              ELSE [w EXCEPT !.i = @ + 1, !.new = Insert(@, e), !.used = @ + 1]
  BY DEF Copy
<1>2. w.i \in Nat /\ w.used \in Nat /\ OldSize \in Nat /\ tables # <<>> /\ OldSize = Size(Current)
  <2>1. w.i \in Nat /\ w.used \in Nat
    BY DEF Types, WriterStates, ReaderStates
  <2>2. tables # <<>>
    BY <1>1, <2>1 DEF OldSize
  <2>3. QED
    BY <2>1, <2>2, CurrentFacts DEF OldSize
<1>3. /\ Current \in Tables /\ Good(Current) /\ DOMAIN Current = 0..OldSize - 1
      /\ w.i \in DOMAIN Current
      /\ e # NoEntry => e \in Entries /\ PutSince(e, 1) /\ w.i \in Occupied(Current)
  BY <1>1, <1>2, CurrentFacts DEF Occupied
<1>4. /\ Good(t) /\ t \in Tables /\ OldSize < Size(t) /\ Size(t) \in Nat
      /\ Cardinality(Occupied(t)) <= w.used /\ w.used <= w.i
      /\ Cardinality(Occupied(t)) \in Nat /\ IsFiniteSet(DOMAIN t)
  <2>1. Good(t) /\ t \in Tables /\ OldSize < Size(t)
        /\ Cardinality(Occupied(t)) <= w.used /\ w.used <= w.i
    BY <1>1 DEF CopyInv, Good
  <2>2. Size(t) \in Nat /\ IsFiniteSet(DOMAIN t)
    BY <2>1, TableFacts, FS_Interval
  <2>3. Cardinality(Occupied(t)) \in Nat
    BY <2>2, FS_Subset, FS_CardinalityType DEF Occupied
  <2>4. QED
    BY <2>1, <2>2, <2>3
<1>5. Cardinality(Occupied(t)) < Size(t)
  BY <1>1, <1>2, <1>4
<1>6. ASSUME e # NoEntry
      PROVE  /\ SlotFor(t, e) \in DOMAIN t /\ (t[SlotFor(t, e)] = NoEntry \/ t[SlotFor(t, e)][1] = e[1])
             /\ DOMAIN u = DOMAIN t /\ Size(u) = Size(t) /\ u[SlotFor(t, e)] = e
             /\ \A i \in DOMAIN t : i # SlotFor(t, e) => u[i] = t[i]
             /\ Good(u) /\ Cardinality(Occupied(u)) <= Cardinality(Occupied(t)) + 1
  BY <1>3, <1>4, <1>5, <1>6, InsertGood
<1>7. /\ w'.pc = "copy" /\ w'.i = w.i + 1 /\ w'.new = u /\ w'.entry = w.entry
      /\ w'.used = IF e = NoEntry THEN w.used ELSE w.used + 1
      /\ w' \in WriterStates
  <2>1. u \in Tables
    BY <1>4, <1>6 DEF Good
  <2>1a. w' = [w EXCEPT !.i = w.i + 1, !.new = u, !.used = IF e = NoEntry THEN w.used ELSE w.used + 1]
    <3> HIDE DEF e
    <3>1. CASE e = NoEntry
      BY <1>1, <3>1 DEF Types, WriterStates, ReaderStates
    <3>2. CASE e # NoEntry
      BY <1>1, <3>2 DEF Types, WriterStates, ReaderStates
    <3>3. QED
      BY <3>1, <3>2
  <2>2. /\ w \in WriterStates
        /\ w.pc = "copy" /\ w.i + 1 \in Nat
        /\ (IF e = NoEntry THEN w.used ELSE w.used + 1) \in Nat
    BY <1>1, <1>2 DEF Types, WriterStates, ReaderStates
  <2> DEFINE x == IF e = NoEntry THEN w.used ELSE w.used + 1
  <2> HIDE DEF t, e, u, x
  <2>3. QED
    BY <2>1, <2>1a, <2>2 DEF x, WriterStates
<1>8. Types'
  BY <1>1, <1>7 DEF Types
<1>9. TablesInv'
  BY <1>1 DEF TablesInv, PutSince
<1>10. FreshInv'
  BY <1>1, <1>7 DEF FreshInv, Stored, Current
<1>11. WriterInv'
  BY <1>1, <1>7 DEF WriterInv
<1>12. CopyInv'
  <2> DEFINE O == Occupied(Current)
  <2>1. OldSize' = OldSize /\ Current' = Current
    BY <1>1 DEF OldSize, Current
  <2>2. /\ \A i \in O : i < w.i => \E j \in DOMAIN t : t[j] = Current[i]
        /\ \A j \in Occupied(t) : PutSince(t[j], 1)
        /\ \A j \in Occupied(t) : \E i \in O : i < w.i /\ Current[i] = t[j]
    BY <1>1, <1>2 DEF CopyInv
  <2>3. Unique(Current) /\ O \subseteq DOMAIN Current /\ \A i \in O : i \in Nat
    BY <1>2, <1>3 DEF Good, Occupied
  <2>4. ASSUME NEW i \in O, i < w.i + 1 PROVE \E j \in DOMAIN u : u[j] = Current[i]
    <3>1. CASE i = w.i
      <4>1. e # NoEntry
        BY <3>1 DEF Occupied
      <4>2. QED
        BY <1>6, <3>1, <4>1
    <3>2. CASE i # w.i
      <4>1. PICK j \in DOMAIN t : t[j] = Current[i]
        BY <1>2, <2>2, <2>3, <2>4, <3>2
      <4>2. CASE e = NoEntry
        BY <4>1, <4>2
      <4>3. CASE e # NoEntry
        <5>1. Current[i] # NoEntry /\ (Current[i][1] = e[1] => i = w.i)
          BY <1>3, <2>3, <4>3 DEF Occupied, Unique
        <5>2. j # SlotFor(t, e)
          BY <1>6, <3>2, <4>1, <4>3, <5>1
        <5>3. u[j] = t[j] /\ j \in DOMAIN u
          BY <1>6, <4>1, <4>3, <5>2
        <5>4. QED
          BY <4>1, <5>3
      <4>4. QED
        BY <4>2, <4>3
    <3>3. QED
      BY <3>1, <3>2
  <2>5. ASSUME NEW j \in Occupied(u)
        PROVE  PutSince(u[j], 1) /\ \E i \in O : i < w.i + 1 /\ Current[i] = u[j]
    <3>1. CASE e # NoEntry /\ j = SlotFor(t, e)
      <4>1. u[j] = e /\ w.i \in O /\ Current[w.i] = e
        BY <1>3, <1>6, <3>1
      <4>2. QED
        BY <1>2, <1>3, <3>1, <4>1
    <3>2. CASE ~(e # NoEntry /\ j = SlotFor(t, e))
      <4>1. j \in Occupied(t) /\ u[j] = t[j]
        BY <1>6, <3>2 DEF Occupied
      <4>2. PutSince(u[j], 1) /\ \E i \in O : i < w.i /\ Current[i] = u[j]
        BY <2>2, <4>1
      <4>3. QED
        BY <1>2, <2>3, <4>2
    <3>3. QED
      BY <3>1, <3>2
  <2>6. Good(u) /\ Size(u) = Size(t)
    BY <1>4, <1>6
  <2>7. Cardinality(Occupied(u)) <= w'.used /\ w'.used <= w.i + 1
    <3>1. CASE e = NoEntry
      BY <1>2, <1>4, <1>7, <3>1
    <3>2. CASE e # NoEntry
      <4>1. IsFiniteSet(DOMAIN u)
        BY <1>4, <1>6, <3>2
      <4>2. Cardinality(Occupied(u)) \in Nat
        BY <4>1, FS_Subset, FS_CardinalityType DEF Occupied
      <4> HIDE DEF u, e
      <4>3. QED
        BY <1>2, <1>4, <1>6, <1>7, <3>2, <4>2
    <3>3. QED
      BY <3>1, <3>2
  <2>8. \A j \in Occupied(u) : PutSince(w.new[j], 1)'
    BY <1>1, <1>7, <2>5 DEF PutSince
  <2>9. /\ Good(w.new)' /\ (w.i <= OldSize)' /\ (OldSize < Size(w.new))'
        /\ (Cardinality(Occupied(w.new)) <= w.used)' /\ (w.used <= w.i)'
    <3> HIDE DEF u
    <3>1. QED
      BY <1>1, <1>2, <1>4, <1>7, <2>1, <2>6, <2>7
  <2>10. (\A i \in Occupied(Current) : i < w.i => \E j \in DOMAIN w.new : w.new[j] = Current[i])'
    <3> HIDE DEF u
    <3>1. QED
      BY <1>7, <2>1, <2>4
  <2>11. (\A j \in Occupied(w.new) : \E i \in Occupied(Current) : i < w.i /\ Current[i] = w.new[j])'
    <3> HIDE DEF u
    <3>1. QED
      BY <1>7, <2>1, <2>5
  <2>12. (\A j \in Occupied(w.new) : PutSince(w.new[j], 1))' /\ tables' # <<>>
    <3> HIDE DEF u
    <3>1. QED
      BY <1>1, <1>2, <1>7, <2>8
  <2> HIDE DEF Current
  <2>13. QED
    BY <2>9, <2>10, <2>11, <2>12 DEF CopyInv
<1>13. ReadersInv'
  BY <1>1 DEF ReadersInv, Probing, Holds, Done, PutSince
<1>14. QED
  BY <1>8, <1>9, <1>10, <1>11, <1>12, <1>13

\* Readers do not notice that a table is added, nor that an entry takes an empty
\* slot or the place of an older entry with its key.
Kept(t, u) ==
    /\ DOMAIN u = DOMAIN t
    /\ \A i \in Occupied(t) :
          /\ u[i] # NoEntry /\ u[i][1] = t[i][1]
          /\ u[i] = t[i] \/ PutSince(u[i], Len(history[t[i][1]]))

LEMMA ReadersKept ==
    ASSUME IInv, UNCHANGED <<rd, history>>,
           \A n \in 1..Len(tables) : n \in 1..Len(tables') /\ Kept(tables[n], tables'[n])
    PROVE  ReadersInv'
<1> USE DEF IInv
<1> SUFFICES ASSUME NEW r \in Readers
             PROVE  /\ rd[r].pc = "probe" => Probing(r)'
                    /\ rd[r].pc = "done" => Done(r)'
  BY DEF ReadersInv
<1>1. ASSUME rd[r].pc = "probe" PROVE Probing(r)'
  <2>1. PICK n \in 1..Len(tables) : n = rd[r].table
    BY <1>1 DEF ReadersInv, Probing
  <2>2. PICK t : t = tables[n]
    OBVIOUS
  <2>3. PICK u : u = tables'[n]
    OBVIOUS
  <2>4. PICK key \in Keys : key = rd[r].key
    BY <1>1 DEF ReadersInv, Probing
  <2>5. PICK since \in Nat : since = rd[r].since
    BY DEF Types, WriterStates, ReaderStates
  <2>6. PICK i \in Nat : i = rd[r].i
    BY DEF Types, WriterStates, ReaderStates
  <2>7. since <= Len(history[key]) /\ Passed(t, key, i) /\ Holds(t, key, since) /\ rd[r].found = NoEntry
    BY <1>1, <2>1, <2>2, <2>4, <2>5, <2>6 DEF ReadersInv, Probing
  <2>8. Kept(t, u) /\ n \in 1..Len(tables')
    BY <2>2, <2>3
  <2>9. t \in Tables /\ Size(t) \in Nat /\ Size(u) = Size(t)
    BY <2>2, <2>8, TableFacts DEF TablesInv, Good, Kept, Size
  <2>10. \A c : Slot(u, key, c) = Slot(t, key, c)
    BY <2>9 DEF Slot
  <2>11. Passed(u, key, i)
    <3>1. ASSUME NEW c \in 0..i - 1
          PROVE  u[Slot(t, key, c)] # NoEntry /\ u[Slot(t, key, c)][1] # key
      <4>1. i < Size(t) /\ t[Slot(t, key, c)] # NoEntry /\ t[Slot(t, key, c)][1] # key
        BY <2>7 DEF Passed
      <4>2. c \in 0..Size(t) - 1
        BY <2>9, <4>1
      <4>3. Slot(t, key, c) \in Occupied(t)
        BY <2>9, <4>1, <4>2, WayOfKey DEF Occupied
      <4>4. QED
        BY <2>8, <4>1, <4>3 DEF Kept
    <3>2. QED
      BY <2>7, <2>9, <2>10, <3>1 DEF Passed
  <2>12. Holds(u, key, since)
    <3>1. SUFFICES ASSUME since > 0
                   PROVE  \E j \in Occupied(u) : u[j][1] = key /\ PutSince(u[j], since)
      BY DEF Holds
    <3>2. PICK j \in Occupied(t) : t[j][1] = key /\ PutSince(t[j], since)
      BY <2>7, <3>1 DEF Holds
    <3>3. j \in Occupied(u) /\ u[j][1] = key
      BY <2>8, <3>2 DEF Kept, Occupied
    <3>4. u[j] = t[j] \/ PutSince(u[j], Len(history[key]))
      BY <2>8, <3>2 DEF Kept
    <3>5. Len(history[key]) \in Nat
      BY DEF Types
    <3>6. PutSince(u[j], since)
      BY <2>7, <3>2, <3>4, <3>5 DEF PutSince
    <3>7. QED
      BY <3>3, <3>6
  <2>13. Holds(u, key, since)'
    BY <2>12 DEF Holds, PutSince
  <2>14. rd'[r].key = key /\ rd'[r].table = n /\ rd'[r].i = i /\ rd'[r].since = since
    BY <2>1, <2>4, <2>5, <2>6
  <2>15. QED
    BY <2>3, <2>7, <2>8, <2>11, <2>13, <2>14 DEF Probing
<1>2. ASSUME rd[r].pc = "done" PROVE Done(r)'
  BY <1>2 DEF ReadersInv, Done, PutSince
<1>3. QED
  BY <1>1, <1>2

LEMMA PublishStep ==
    ASSUME IInv, Publish
    PROVE  IInv'
<1> USE DEF IInv
<1>1. /\ w.pc = "copy" /\ w.i = OldSize
      /\ tables' = Append(tables, w.new) /\ used' = w.used
      /\ w' = [IdleWriter EXCEPT !.pc = "insert", !.entry = w.entry]
      /\ UNCHANGED <<rd, history>>
  BY DEF Publish
<1>2. /\ w'.pc = "insert" /\ w'.entry = w.entry /\ w'.i = 0 /\ w'.used = 0 /\ w'.new = Empty(0)
  BY <1>1 DEF IdleWriter
<1>3. /\ Good(w.new) /\ w.new \in Tables /\ OldSize < Size(w.new) /\ w.used <= OldSize
      /\ Cardinality(Occupied(w.new)) <= w.used
      /\ \A j \in Occupied(w.new) : PutSince(w.new[j], 1)
  BY <1>1 DEF CopyInv, Good
<1>4. tables \in Seq(Tables) /\ w.used \in Nat /\ w.entry \in Entries \cup {NoEntry}
  BY DEF Types, WriterStates, ReaderStates
<1>5. /\ tables' \in Seq(Tables) /\ tables' # <<>>
      /\ Len(tables') = Len(tables) + 1 /\ Len(tables) \in Nat
      /\ \A n \in 1..Len(tables) : n \in 1..Len(tables') /\ tables'[n] = tables[n]
      /\ tables'[Len(tables) + 1] = w.new
  BY <1>1, <1>3, <1>4
<1>6. Current' = w.new
  BY <1>5 DEF Current
<1>7. Types'
  <2>1. w' \in WriterStates
    BY <1>1, <1>4 DEF IdleWriter, WriterStates
  <2>2. QED
    BY <1>1, <1>4, <1>5, <2>1 DEF Types, WriterStates, ReaderStates
<1>8. TablesInv'
  <2> SUFFICES ASSUME NEW n \in 1..Len(tables')
               PROVE  Good(tables'[n]) /\ \A i \in Occupied(tables'[n]) : PutSince(tables'[n][i], 1)
    BY <1>1 DEF TablesInv, PutSince
  <2>1. CASE n \in 1..Len(tables)
    BY <1>5, <2>1 DEF TablesInv
  <2>2. CASE n = Len(tables) + 1
    BY <1>3, <1>5, <2>2
  <2>3. QED
    BY <1>5, <2>1, <2>2
<1>9. FreshInv'
  <2>1. \A k \in Keys : Stored(k)' = Stored(k)
    BY <1>1, <1>2 DEF Stored
  <2>2. ASSUME NEW k \in Keys, Stored(k) > 0
        PROVE  \E j \in DOMAIN w.new : w.new[j] = <<k, history[k][Stored(k)]>>
    <3>1. tables # <<>>
      BY <2>2 DEF FreshInv
    <3>2. PICK i \in DOMAIN Current : Current[i] = <<k, history[k][Stored(k)]>>
      BY <2>2 DEF FreshInv
    <3>3. Current[i] # NoEntry
      <4>1. history[k][Stored(k)] \in Vals
        BY <2>2, StoredFacts DEF Types, WriterStates, ReaderStates
      <4> HIDE DEF Current
      <4>2. QED
        BY <3>2, <4>1, StrMapAssumption
    <3>4. i \in Occupied(Current) /\ i < w.i
      BY <1>1, <3>1, <3>2, <3>3, CurrentFacts DEF Occupied, OldSize
    <3>5. QED
      BY <1>1, <3>1, <3>2, <3>4 DEF CopyInv
  <2>3. (Cardinality(Occupied(Current)) <= used)'
    BY <1>1, <1>3, <1>6
  <2>4. ASSUME NEW k \in Keys, Stored(k)' > 0
        PROVE  (\E j \in DOMAIN Current : Current[j] = <<k, history[k][Stored(k)]>>)'
    BY <1>1, <1>6, <2>1, <2>2, <2>4
  <2>5. QED
    BY <1>5, <2>3, <2>4 DEF FreshInv
<1>10. WriterInv'
  <2>1. OldSize \in Nat /\ Size(w.new) \in Nat
    BY <1>3, TableFacts, CurrentFacts DEF OldSize
  <2>2. used' < Size(w.new)
    BY <1>1, <1>3, <1>4, <2>1
  <2>3. QED
    BY <1>1, <1>2, <1>5, <1>6, <2>2 DEF WriterInv
<1>11. CopyInv'
  BY <1>2 DEF CopyInv
<1>12. ReadersInv'
  <2>1. \A n \in 1..Len(tables) : Kept(tables[n], tables'[n])
    BY <1>5 DEF Kept, Occupied
  <2>2. QED
    BY <1>1, <1>5, <2>1, ReadersKept
<1>13. QED
  BY <1>7, <1>8, <1>9, <1>10, <1>11, <1>12

LEMMA StoreStep ==
    ASSUME IInv, Store
    PROVE  IInv'
<1> USE DEF IInv
<1>1. PICK t : t = Current
  OBVIOUS
<1>2. PICK e : e = w.entry
  OBVIOUS
<1>3. PICK s : s = SlotFor(t, e)
  OBVIOUS
<1>4. PICK u : u = Insert(t, e)
  OBVIOUS
<1>5. PICK len : len = Len(tables)
  OBVIOUS
<1>6. /\ w.pc = "insert"
      /\ used' = IF t[s] = NoEntry THEN used + 1 ELSE used
      /\ tables' = [tables EXCEPT ![len] = u]
      /\ w' = IdleWriter
      /\ UNCHANGED <<rd, history>>
  BY <1>1, <1>2, <1>3, <1>4, <1>5 DEF Store, Current
<1>7. /\ tables # <<>> /\ used < Size(t) /\ used \in Nat
      /\ e \in Entries /\ e # NoEntry /\ e[1] \in Keys
      /\ history[e[1]] # <<>> /\ e[2] = history[e[1]][Len(history[e[1]])]
  <2>1. tables # <<>> /\ used < Size(t) /\ used \in Nat
    BY <1>1, <1>6 DEF WriterInv, Types, WriterStates, ReaderStates
  <2>2. e \in Entries /\ history[e[1]] # <<>> /\ e[2] = history[e[1]][Len(history[e[1]])]
    BY <1>2, <1>6 DEF WriterInv
  <2>3. QED
    BY <2>1, <2>2, StrMapAssumption DEF Entries
<1>8. /\ history[e[1]] \in Seq(Vals) /\ Len(history[e[1]]) \in Nat \ {0}
      /\ PutSince(e, Len(history[e[1]])) /\ PutSince(e, 1)
  <2>1. history[e[1]] \in Seq(Vals) /\ history[e[1]] # <<>>
    BY <1>7 DEF Types, WriterStates, ReaderStates
  <2>2. Len(history[e[1]]) \in Nat \ {0}
    BY <2>1
  <2>3. Len(history[e[1]]) \in 1..Len(history[e[1]]) /\ Len(history[e[1]]) >= 1
    BY <2>2
  <2>4. QED
    BY <1>7, <2>1, <2>2, <2>3 DEF PutSince
<1>9. /\ len \in 1..Len(tables) /\ t = tables[len] /\ Good(t) /\ t \in Tables
      /\ Size(t) \in Nat /\ DOMAIN t = 0..Size(t) - 1
      /\ \A i \in Occupied(t) : PutSince(t[i], 1)
      /\ Cardinality(Occupied(t)) <= used
      /\ Cardinality(Occupied(t)) \in Nat
  <2>1. /\ len \in 1..Len(tables) /\ t = tables[len] /\ Good(t) /\ t \in Tables
        /\ Size(t) \in Nat /\ DOMAIN t = 0..Size(t) - 1
        /\ \A i \in Occupied(t) : PutSince(t[i], 1)
    BY <1>1, <1>5, <1>7, CurrentFacts DEF Current, Occupied
  <2>2. Cardinality(Occupied(t)) <= used
    BY <1>1, <1>7 DEF FreshInv
  <2>3. Cardinality(Occupied(t)) \in Nat
    BY <2>1, OccupiedFinite
  <2>4. QED
    BY <2>1, <2>2, <2>3
<1>10. /\ s \in DOMAIN t /\ (t[s] = NoEntry \/ t[s][1] = e[1])
       /\ DOMAIN u = DOMAIN t /\ Size(u) = Size(t) /\ u[s] = e
       /\ \A i \in DOMAIN t : i # s => u[i] = t[i]
       /\ Good(u)
       /\ Cardinality(Occupied(u)) = Cardinality(Occupied(t)) + (IF t[s] = NoEntry THEN 1 ELSE 0)
  <2>1. Cardinality(Occupied(t)) < Size(t)
    BY <1>7, <1>9
  <2>2. QED
    BY <1>3, <1>4, <1>7, <1>9, <2>1, InsertGood
<1>11. /\ tables' \in Seq(Tables) /\ Len(tables') = Len(tables) /\ tables' # <<>>
       /\ tables'[len] = u
       /\ \A n \in 1..Len(tables) : n # len => tables'[n] = tables[n]
       /\ used' \in Nat
  <2>1. tables \in Seq(Tables) /\ u \in Tables
    BY <1>10 DEF Types, WriterStates, ReaderStates, Good
  <2>2. QED
    BY <1>6, <1>7, <1>9, <2>1
<1>12. Current' = u
  BY <1>5, <1>11 DEF Current
<1>13. Types'
  <2>1. IdleWriter \in WriterStates
    BY DEF IdleWriter, WriterStates
  <2>2. QED
    BY <1>6, <1>11, <2>1 DEF Types, WriterStates, ReaderStates
<1>14. TablesInv'
  <2> SUFFICES ASSUME NEW n \in 1..Len(tables)
               PROVE  Good(tables'[n]) /\ \A i \in Occupied(tables'[n]) : PutSince(tables'[n][i], 1)
    BY <1>6, <1>11 DEF TablesInv, PutSince
  <2>1. CASE n = len
    <3>1. \A i \in Occupied(u) : u[i] = e \/ (i \in Occupied(t) /\ u[i] = t[i])
      BY <1>10 DEF Occupied
    <3>2. QED
      BY <1>8, <1>9, <1>10, <1>11, <2>1, <3>1
  <2>2. CASE n # len
    BY <1>11, <2>2 DEF TablesInv
  <2>3. QED
    BY <2>1, <2>2
<1>15. FreshInv'
  <2>1. (Cardinality(Occupied(Current)) <= used)'
    <3>1. Cardinality(Occupied(u)) <= used'
      BY <1>6, <1>7, <1>9, <1>10
    <3>2. QED
      BY <1>12, <3>1
  <2>2. \A k \in Keys : Stored(k)' = Len(history[k])
    <3>1. w'.entry = NoEntry
      BY <1>6 DEF IdleWriter
    <3>2. \A k \in Keys : Stored(k)' = Len(history[k]) - 0
      BY <1>6, <3>1 DEF Stored
    <3>3. \A k \in Keys : Len(history[k]) \in Nat
      BY DEF Types, WriterStates, ReaderStates
    <3>4. QED
      BY <3>2, <3>3
  <2>3. ASSUME NEW k \in Keys, Len(history[k]) > 0
        PROVE  \E j \in DOMAIN u : u[j] = <<k, history[k][Len(history[k])]>>
    <3>1. CASE k = e[1]
      <4>1. e = <<k, history[k][Len(history[k])]>>
        BY <1>7, <3>1 DEF Entries
      <4>2. QED
        BY <1>10, <4>1
    <3>2. CASE k # e[1]
      <4>1. Stored(k) = Len(history[k])
        <5>1. Stored(k) = Len(history[k]) - 0
          BY <1>2, <3>2, Zenon DEF Stored
        <5>2. QED
          BY <5>1 DEF Types, WriterStates, ReaderStates
      <4>2. PICK i \in DOMAIN t : t[i] = <<k, history[k][Len(history[k])]>>
        BY <1>1, <2>3, <4>1 DEF FreshInv
      <4>3. t[i] # NoEntry
        <5>1. history[k][Len(history[k])] \in Vals
          BY <2>3 DEF Types, WriterStates, ReaderStates
        <5>2. QED
          BY <4>2, <5>1, StrMapAssumption
      <4>4. i # s
        BY <1>10, <3>2, <4>2, <4>3
      <4>5. QED
        BY <1>10, <4>2, <4>4
    <3>3. QED
      BY <3>1, <3>2
  <2>4. ASSUME NEW k \in Keys, Stored(k)' > 0
        PROVE  (\E j \in DOMAIN Current : Current[j] = <<k, history[k][Stored(k)]>>)'
    BY <1>6, <1>12, <2>2, <2>3, <2>4
  <2>5. QED
    BY <1>11, <2>1, <2>4 DEF FreshInv
<1>16. WriterInv' /\ CopyInv'
  BY <1>6 DEF WriterInv, CopyInv, IdleWriter
<1>17. ReadersInv'
  <2>1. ASSUME NEW n \in 1..Len(tables) PROVE Kept(tables[n], tables'[n])
    <3>1. CASE n # len
      BY <1>11, <3>1 DEF Kept, Occupied
    <3>2. CASE n = len
      <4>1. ASSUME NEW i \in Occupied(t)
            PROVE  /\ u[i] # NoEntry /\ u[i][1] = t[i][1]
                   /\ u[i] = t[i] \/ PutSince(u[i], Len(history[t[i][1]]))
        <5>1. i \in DOMAIN t /\ t[i] # NoEntry
          BY DEF Occupied
        <5>2. CASE i = s
          BY <1>7, <1>8, <1>10, <5>1, <5>2
        <5>3. CASE i # s
          BY <1>10, <5>1, <5>3
        <5>4. QED
          BY <5>2, <5>3
      <4>2. QED
        BY <1>9, <1>10, <1>11, <3>2, <4>1 DEF Kept
    <3>3. QED
      BY <3>1, <3>2
  <2>2. QED
    BY <1>6, <1>11, <2>1, ReadersKept
<1>18. QED
  BY <1>13, <1>14, <1>15, <1>16, <1>17

\* What does not change for the tables and the writer.
LEMMA TablesUnchanged ==
    ASSUME IInv, UNCHANGED <<tables, used, w, history>>
    PROVE  TablesInv' /\ FreshInv' /\ WriterInv' /\ CopyInv'
<1> USE DEF IInv
<1>1. TablesInv'
  BY DEF TablesInv, PutSince
<1>2. FreshInv'
  BY DEF FreshInv, Stored, Current
<1>3. WriterInv'
  BY DEF WriterInv, Current
<1>4. CopyInv'
  <2>1. OldSize' = OldSize /\ Current' = Current
    BY DEF OldSize, Current
  <2> HIDE DEF Current
  <2>2. QED
    BY <2>1 DEF CopyInv, PutSince
<1>5. QED
  BY <1>1, <1>2, <1>3, <1>4

LEMMA GetStep ==
    ASSUME IInv, NEW r \in Readers, NEW k \in Keys, Get(r, k)
    PROVE  IInv'
<1> USE DEF IInv
<1> DEFINE new == [IdleReader EXCEPT !.pc = IF tables = <<>> THEN "done" ELSE "probe",
                                     !.key = k, !.table = Len(tables), !.since = Stored(k)]
<1>1. rd' = [rd EXCEPT ![r] = new] /\ UNCHANGED <<tables, used, w, history>>
  BY DEF Get
<1>2. Stored(k) \in Nat /\ Stored(k) <= Len(history[k])
  BY StoredFacts
<1>3. /\ new.pc = (IF tables = <<>> THEN "done" ELSE "probe") /\ new.key = k
      /\ new.table = Len(tables) /\ new.since = Stored(k) /\ new.i = 0 /\ new.found = NoEntry
      /\ new \in ReaderStates
  <2>1. Len(tables) \in Nat
    BY DEF Types, WriterStates, ReaderStates
  <2>2. QED
    BY <1>2, <2>1 DEF IdleReader, ReaderStates
<1> HIDE DEF new
<1>4. rd'[r] = new /\ \A q \in Readers : q # r => rd'[q] = rd[q]
  BY <1>1 DEF Types, WriterStates, ReaderStates
<1>5. Types'
  BY <1>1, <1>3 DEF Types
<1>6. ReadersInv'
  <2>1. ASSUME NEW q \in Readers, q # r
        PROVE  (rd[q].pc = "probe" => Probing(q))' /\ (rd[q].pc = "done" => Done(q))'
    BY <1>1, <1>4, <2>1 DEF ReadersInv, Probing, Holds, Done, PutSince
  <2>2. (rd[r].pc = "done" => Done(r))'
    <3>1. tables = <<>> => Stored(k) = 0
      BY <1>2 DEF FreshInv
    <3>2. QED
      BY <1>3, <1>4, <3>1 DEF Done
  <2>3. ASSUME tables # <<>> PROVE Probing(r)'
    <3>1. /\ Len(tables) \in 1..Len(tables) /\ Size(Current) \in Nat \ {0}
          /\ \A i \in DOMAIN Current : Current[i] # NoEntry => Current[i] \in Entries
      BY <2>3, CurrentFacts
    <3>2. ASSUME Stored(k) > 0
          PROVE  \E j \in Occupied(Current) : Current[j][1] = k /\ PutSince(Current[j], Stored(k))
      <4>1. PICK j \in DOMAIN Current : Current[j] = <<k, history[k][Stored(k)]>>
        BY <3>2 DEF FreshInv
      <4>2. Stored(k) \in 1..Len(history[k]) /\ Len(history[k]) \in Nat /\ history[k][Stored(k)] \in Vals
        BY <1>2, <3>2 DEF Types, WriterStates, ReaderStates
      <4>3. <<k, history[k][Stored(k)]>> # NoEntry
        BY <4>2, StrMapAssumption
      <4>4. PutSince(<<k, history[k][Stored(k)]>>, Stored(k))
        BY <1>2, <4>2 DEF PutSince
      <4> HIDE DEF Current
      <4>5. QED
        BY <4>1, <4>3, <4>4 DEF Occupied
    <3>3. Current = tables[Len(tables)]
      BY DEF Current
    <3> HIDE DEF Current
    <3>4. Passed(Current, k, 0)
      BY <3>1 DEF Passed
    <3>5. Holds(Current, k, Stored(k))
      BY <3>2 DEF Holds
    <3>6. Holds(Current, k, rd[r].since)'
      <4>1. Current' = Current /\ rd'[r].since = Stored(k)
        BY <1>1, <1>3, <1>4 DEF Current
      <4>2. QED
        BY <1>1, <3>5, <4>1 DEF Holds, PutSince
    <3>7. tables' = tables /\ history' = history /\ Current' = Current
      BY <1>1 DEF Current
    <3>8. QED
      BY <1>2, <1>3, <1>4, <3>1, <3>3, <3>4, <3>6, <3>7 DEF Probing
  <2>4. QED
    BY <1>3, <1>4, <2>1, <2>2, <2>3 DEF ReadersInv
<1>7. QED
  BY <1>1, <1>5, <1>6, TablesUnchanged

LEMMA RestStep ==
    ASSUME IInv, NEW r \in Readers, Rest(r)
    PROVE  IInv'
<1> USE DEF IInv
<1>1. rd' = [rd EXCEPT ![r] = IdleReader] /\ UNCHANGED <<tables, used, w, history>>
  BY DEF Rest
<1>2. IdleReader.pc = "idle"
      /\ IdleReader \in ReaderStates
  BY DEF IdleReader, ReaderStates
<1>3. rd'[r] = IdleReader /\ \A q \in Readers : q # r => rd'[q] = rd[q]
  BY <1>1 DEF Types, WriterStates, ReaderStates
<1>4. Types'
  BY <1>1, <1>2 DEF Types
<1>5. ReadersInv'
  BY <1>1, <1>2, <1>3 DEF ReadersInv, Probing, Holds, Done, PutSince
<1>6. QED
  BY <1>1, <1>4, <1>5, TablesUnchanged

LEMMA ProbeStep ==
    ASSUME IInv, NEW r \in Readers, Probe(r)
    PROVE  IInv'
<1> USE DEF IInv
<1>1. PICK t : t = tables[rd[r].table]
  OBVIOUS
<1>2. PICK key : key = rd[r].key
  OBVIOUS
<1>3. PICK i \in Nat : i = rd[r].i
  BY DEF Types, WriterStates, ReaderStates
<1>4. PICK since \in Nat : since = rd[r].since
  BY DEF Types, WriterStates, ReaderStates
<1>5. PICK e : e = t[Slot(t, key, i)]
  OBVIOUS
<1>6. /\ rd[r].pc = "probe"
      /\ UNCHANGED <<tables, used, w, history>>
      /\ e = NoEntry => rd' = [rd EXCEPT ![r].pc = "done"]
      /\ e # NoEntry /\ e[1] = key => rd' = [rd EXCEPT ![r].pc = "done", ![r].found = e]
      /\ e # NoEntry /\ e[1] # key => rd' = [rd EXCEPT ![r].i = (@ + 1) % Size(t)]
  BY <1>1, <1>2, <1>3, <1>5, Zenon DEF Probe
<1>7. /\ key \in Keys /\ rd[r].table \in 1..Len(tables) /\ i < Size(t) /\ since <= Len(history[key])
      /\ Passed(t, key, i) /\ Holds(t, key, since) /\ rd[r].found = NoEntry
  <2>1. Probing(r)
    BY <1>6 DEF ReadersInv
  <2>2. QED
    BY <1>1, <1>2, <1>3, <1>4, <2>1 DEF Probing, Passed
<1>8. /\ Good(t) /\ t \in Tables /\ Size(t) \in Nat \ {0} /\ i \in 0..Size(t) - 1
      /\ Slot(t, key, i) \in DOMAIN t
      /\ e # NoEntry => e \in Entries
  <2>1. Good(t) /\ t \in Tables
    BY <1>1, <1>7 DEF TablesInv, Good
  <2>2. Size(t) \in Nat \ {0} /\ i \in 0..Size(t) - 1
    BY <1>7, <2>1, TableFacts
  <2>3. Slot(t, key, i) \in DOMAIN t
    BY <1>7, <2>1, <2>2, WayOfKey
  <2>4. QED
    BY <1>5, <2>1, <2>2, <2>3, TableFacts
<1>9. rd[r] \in ReaderStates
  BY DEF Types, WriterStates, ReaderStates
<1>10. \A q \in Readers : q # r => rd'[q] = rd[q]
  BY <1>6 DEF Types, WriterStates, ReaderStates
<1>11. SUFFICES /\ rd' \in [Readers -> ReaderStates]
                /\ (rd[r].pc = "probe" => Probing(r))'
                /\ (rd[r].pc = "done" => Done(r))'
  <2>1. Types' <=> rd' \in [Readers -> ReaderStates]
    BY <1>6 DEF Types, WriterStates, ReaderStates
  <2>2. ASSUME NEW q \in Readers, q # r
        PROVE  (rd[q].pc = "probe" => Probing(q))' /\ (rd[q].pc = "done" => Done(q))'
    <3>1. rd'[q] = rd[q] /\ UNCHANGED <<tables, history>>
      BY <1>6, <1>10, <2>2
    <3>2. (Probing(q)' <=> Probing(q)) /\ (Done(q)' <=> Done(q))
      BY <3>1 DEF Probing, Holds, Done, PutSince
    <3>3. QED
      BY <3>1, <3>2 DEF ReadersInv
  <2>3. QED
    BY <1>6, <2>1, <2>2, TablesUnchanged DEF ReadersInv
<1>12. CASE e = NoEntry
  <2>1. rd' = [rd EXCEPT ![r].pc = "done"] /\ rd'[r] = [rd[r] EXCEPT !.pc = "done"]
    BY <1>6, <1>12 DEF Types
  <2>2. ASSUME since > 0 PROVE FALSE
    <3>1. PICK j \in Occupied(t) : t[j][1] = key
      BY <1>7, <2>2 DEF Holds
    <3>2. PICK d \in 0..Size(t) - 1 : Slot(t, key, d) = j /\ NoGap(t, key, d)
      BY <1>8, <3>1 DEF Good, Reached
    <3>3. t[j] # NoEntry
      BY DEF Occupied
    <3>4. ~(i < d)
      <4>1. i < d => i \in 0..d - 1
        BY <1>8
      <4>2. QED
        BY <1>5, <1>12, <3>2, <4>1 DEF NoGap
    <3>5. d # i
      BY <1>5, <1>12, <3>2, <3>3
    <3>6. d \in 0..i - 1
      BY <1>8, <3>4, <3>5
    <3>7. QED
      BY <1>7, <3>1, <3>2, <3>6 DEF Passed
  <2>3. rd'[r] \in ReaderStates /\ rd'[r].pc = "done" /\ rd'[r].found = NoEntry /\ rd'[r].since = since
    BY <1>4, <1>7, <1>9, <2>1 DEF ReaderStates
  <2>4. Done(r)'
    BY <1>4, <2>2, <2>3 DEF Done
  <2>5. QED
    BY <2>1, <2>3, <2>4 DEF Types
<1>13. CASE e # NoEntry /\ e[1] = key
  <2>1. /\ rd' = [rd EXCEPT ![r].pc = "done", ![r].found = e]
        /\ rd'[r] = [rd[r] EXCEPT !.pc = "done", !.found = e]
    BY <1>6, <1>13 DEF Types, WriterStates, ReaderStates
  <2>2. PutSince(e, since)
    <3>1. Slot(t, key, i) \in Occupied(t)
      BY <1>5, <1>8, <1>13 DEF Occupied
    <3>2. CASE since > 0
      <4>1. PICK j \in Occupied(t) : t[j][1] = key /\ PutSince(t[j], since)
        BY <1>7, <3>2 DEF Holds
      <4>2. j = Slot(t, key, i)
        BY <1>5, <1>8, <1>13, <3>1, <4>1 DEF Good, Unique
      <4>3. QED
        BY <1>5, <4>1, <4>2
    <3>3. CASE since = 0
      <4>1. PutSince(e, 1)
        BY <1>1, <1>5, <1>7, <3>1 DEF TablesInv
      <4>2. Len(history[e[1]]) \in Nat
        BY <1>7, <1>13 DEF Types, WriterStates, ReaderStates
      <4>3. QED
        BY <3>3, <4>1, <4>2 DEF PutSince
    <3>4. QED
      BY <3>2, <3>3
  <2>3. PutSince(e, since)'
    BY <1>6, <2>2 DEF PutSince
  <2>4. rd'[r] = [rd[r] EXCEPT !.pc = "done", !.found = e]
    BY <2>1
  <2>5. /\ rd'[r] \in ReaderStates
        /\ rd'[r].pc = "done" /\ rd'[r].found = e /\ rd'[r].key = key /\ rd'[r].since = since
    BY <1>2, <1>4, <1>8, <1>9, <1>13, <2>4 DEF ReaderStates
  <2>6. Done(r)'
    BY <1>13, <2>3, <2>5 DEF Done, PutSince
  <2>7. QED
    BY <2>1, <2>5, <2>6 DEF Types
<1>14. CASE e # NoEntry /\ e[1] # key
  <2>1. PICK k \in Nat : k = (i + 1) % Size(t)
    BY <1>8
  <2>2. k = IF i + 1 < Size(t) THEN i + 1 ELSE 0
    BY <1>8, <2>1
  <2>3. rd' = [rd EXCEPT ![r].i = k] /\ rd'[r] = [rd[r] EXCEPT !.i = k]
    BY <1>3, <1>6, <1>14, <2>1 DEF Types, WriterStates, ReaderStates
  <2>4. rd'[r] = [rd[r] EXCEPT !.i = k]
    BY <2>3
  <2>5. /\ rd'[r] \in ReaderStates
        /\ rd'[r].pc = "probe" /\ rd'[r].key = key /\ rd'[r].table = rd[r].table
        /\ rd'[r].since = since /\ rd'[r].i = k /\ rd'[r].found = NoEntry
    BY <1>2, <1>4, <1>6, <1>7, <1>9, <2>4 DEF ReaderStates
  <2>6. Passed(t, key, k)
    <3>1. \A c \in 0..k - 1 : c \in 0..i - 1 \/ c = i
      BY <1>8, <2>2
    <3>2. \A c \in 0..k - 1 : t[Slot(t, key, c)] # NoEntry /\ t[Slot(t, key, c)][1] # key
      BY <1>5, <1>7, <1>14, <3>1 DEF Passed
    <3>3. k < Size(t)
      BY <1>8, <2>2
    <3>4. QED
      BY <3>2, <3>3 DEF Passed
  <2>7. Holds(t, key, rd[r].since)'
    <3>1. rd'[r].since = since /\ history' = history
      BY <1>6, <2>5
    <3>2. QED
      BY <1>7, <3>1 DEF Holds, PutSince
  <2>8. tables' = tables /\ history' = history
    BY <1>6
  <2>9. Probing(r)'
    BY <1>1, <1>7, <2>5, <2>6, <2>7, <2>8 DEF Probing
  <2>10. QED
    BY <2>3, <2>5, <2>9 DEF Types
<1>15. QED
  BY <1>12, <1>13, <1>14

-----------------------------------------------------------------------------
(* The theorems.                                                           *)

LEMMA InitIInv == Init => IInv
<1> SUFFICES ASSUME Init PROVE IInv
  OBVIOUS
<1>1. /\ tables = <<>> /\ used = 0 /\ w = IdleWriter /\ rd = [r \in Readers |-> IdleReader]
      /\ history = [k \in Keys |-> <<>>]
  BY DEF Init
<1>2. /\ IdleWriter \in WriterStates
      /\ IdleWriter.pc = "idle" /\ IdleWriter.entry = NoEntry
  BY DEF IdleWriter, WriterStates
<1>3. /\ IdleReader \in ReaderStates
      /\ IdleReader.pc = "idle"
  BY DEF IdleReader, ReaderStates
<1>4. Types
  BY <1>1, <1>2, <1>3 DEF Types, WriterStates, ReaderStates
<1>5. TablesInv
  BY <1>1 DEF TablesInv
<1>6. FreshInv
  <2>1. \A k \in Keys : Stored(k) = 0
    BY <1>1, <1>2 DEF Stored
  <2>2. QED
    BY <1>1, <2>1 DEF FreshInv
<1>7. WriterInv /\ CopyInv
  BY <1>1, <1>2 DEF WriterInv, CopyInv
<1>8. ReadersInv
  BY <1>1, <1>3 DEF ReadersInv
<1>9. QED
  BY <1>4, <1>5, <1>6, <1>7, <1>8 DEF IInv

LEMMA NextIInv == IInv /\ [Next]_vars => IInv'
<1> SUFFICES ASSUME IInv, [Next]_vars PROVE IInv'
  OBVIOUS
<1>1. CASE Puts < MaxPuts /\ \E k \in Keys, v \in Vals : Put(k, v)
  BY <1>1, PutStep
<1>2. CASE Grow
  BY <1>2, GrowStep
<1>3. CASE Copy
  BY <1>3, CopyStep
<1>4. CASE Publish
  BY <1>4, PublishStep
<1>5. CASE Store
  BY <1>5, StoreStep
<1>6. CASE \E r \in Readers : (\E k \in Keys : Get(r, k)) \/ Probe(r) \/ Rest(r)
  BY <1>6, GetStep, ProbeStep, RestStep
<1>7. CASE UNCHANGED vars
  <2>1. TablesInv' /\ FreshInv' /\ WriterInv' /\ CopyInv'
    BY <1>7, TablesUnchanged DEF vars
  <2>2. Types'
    BY <1>7 DEF vars, IInv, Types
  <2>3. ReadersInv'
    <3>1. \A r \in Readers : (Probing(r)' <=> Probing(r)) /\ (Done(r)' <=> Done(r))
      BY <1>7 DEF vars, Probing, Holds, Done, PutSince
    <3>2. QED
      BY <1>7, <3>1 DEF vars, IInv, ReadersInv
  <2>4. QED
    BY <2>1, <2>2, <2>3 DEF IInv
<1>8. QED
  BY <1>1, <1>2, <1>3, <1>4, <1>5, <1>6, <1>7 DEF Next

\* The inductive invariant: every table lookups may hold is well formed, the
\* current one holds all that put returned for, and a lookup has missed nothing.
THEOREM Invariance == Spec => []IInv
BY InitIInv, NextIInv, PTL DEF Spec

\* A key has one slot in every table published, for any hash function, while
\* entries are stored and tables are copied (insert, grow).
THEOREM KeysUnique == Spec => []KeysAreUnique
<1>1. IInv => KeysAreUnique
  BY DEF IInv, TablesInv, Good, Unique, Occupied, KeysAreUnique
<1>2. QED
  BY <1>1, Invariance, PTL

\* A lookup misses no key put before it began and returns no older value, in any
\* interleaving with stores and growths, for any number of keys and readers.
THEOREM LookupRegular == Spec => []LookupIsRegular
<1>1. IInv => LookupIsRegular
  <2> SUFFICES ASSUME IInv, NEW r \in Readers, rd[r].pc = "done", rd[r].found # NoEntry
               PROVE  \E i \in 1..Len(history[rd[r].key]) :
                        i >= rd[r].since /\ rd[r].found = <<rd[r].key, history[rd[r].key][i]>>
    BY DEF LookupIsRegular, IInv, ReadersInv, Done
  <2>1. /\ rd[r].found \in Entries /\ rd[r].found[1] = rd[r].key
        /\ PutSince(rd[r].found, rd[r].since)
    BY DEF IInv, ReadersInv, Done, Types, WriterStates, ReaderStates
  <2>2. rd[r].found = <<rd[r].found[1], rd[r].found[2]>>
    BY <2>1 DEF Entries
  <2>3. QED
    BY <2>1, <2>2 DEF PutSince
<1>2. QED
  BY <1>1, Invariance, PTL
=============================================================================
