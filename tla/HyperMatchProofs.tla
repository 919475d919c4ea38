-------------------------- MODULE HyperMatchProofs ----------------------------
(***************************************************************************)
(* Theorems about HyperMatch and HyperMatchCalls, in three parts: the      *)
(* operators and the types of what the writer keeps; the writer's          *)
(* invariant, which ties identifiers, spans and removed bits together; the *)
(* order keys, and the order in which Match returns identifiers.           *)
(***************************************************************************)
EXTENDS HyperMatchCalls, FiniteSetTheorems, FunctionTheorems, TLAPS

-----------------------------------------------------------------------------
(***************************************************************************)
(* Lemmas about the operators of HyperMatch and about the types of what    *)
(* the writer keeps, for any identifiers, rules, events and readers and    *)
(* for any values of WordBits, CompactFactor and MaxRules.                 *)
(***************************************************************************)

(* The smallest number of a set, and sets sorted by their keys.            *)

\* Among the sets {m \in S : m < x}, x \in S, one is minimal; its x is least.
LEMMA LeastIsLeast ==
    ASSUME NEW S \in SUBSET Nat, S # {}
    PROVE  Least(S) \in S /\ \A m \in S : Least(S) <= m
<1> DEFINE B(x) == {m \in S : m < x}
           T == {B(x) : x \in S}
           R == StrictSubsetOrdering(S)
<1>0. \A x \in S : x \in Nat
  OBVIOUS
<1>1. \A x \in S : IsFiniteSet(B(x))
  <2> SUFFICES ASSUME NEW x \in S PROVE IsFiniteSet(B(x))
    OBVIOUS
  <2>1. x \in Nat /\ B(x) \in SUBSET Nat
    BY <1>0
  <2>1a. \A m \in B(x) : m <= x
    BY <1>0
  <2> HIDE DEF B
  <2>2. QED
    BY <2>1, <2>1a, FS_BoundedSetOfNaturals
<1>2. T \subseteq FiniteSubsetsOf(S) /\ T # {}
  BY <1>1 DEF FiniteSubsetsOf
<1>3. PICK t \in T : \A u \in T : ~(<<u, t>> \in R)
  <2> HIDE DEF T, R
  <2>1. IsWellFoundedOn(R, FiniteSubsetsOf(S))
    BY FS_StrictSubsetOrderingWellFounded DEF R
  <2>2. QED
    BY <1>2, <2>1, WFMin
<1>4. PICK x \in S : t = B(x)
  OBVIOUS
<1>5. ASSUME NEW y \in S, y < x PROVE FALSE
  <2>1. \A m \in S : m < y => m < x
    BY <1>0, <1>5
  <2>1a. B(y) \subseteq B(x)
    BY <2>1
  <2>1b. y \in B(x) /\ y \notin B(y)
    BY <1>0, <1>5
  <2>2. <<B(y), B(x)>> \in R
    BY <2>1a, <2>1b DEF StrictSubsetOrdering
  <2>3. QED
    BY <1>3, <1>4, <2>2
<1>6. \A y \in S : x <= y
  BY <1>5
<1>7. QED
  BY <1>6 DEF Least

\* Rank numbers the elements of a finite set from 0 on, without gaps.
LEMMA RankBelow ==
    ASSUME NEW S \in SUBSET Nat, IsFiniteSet(S), NEW key, NEW n \in S,
           \A m \in S : key[m] \in Nat
    PROVE  Rank(S, key, n) \in 0..Cardinality(S) - 1
<1> DEFINE B == {m \in S : Before(key, m, n)}
<1>1. n \notin B
  BY DEF Before
<1>1a. B \in SUBSET S /\ B # S
  BY <1>1
<1>2. IsFiniteSet(B) /\ Cardinality(B) <= Cardinality(S) /\ Cardinality(S) # Cardinality(B)
  <2> HIDE DEF B
  <2> QED
    BY <1>1a, FS_Subset
<1>3. Cardinality(B) \in Nat /\ Cardinality(S) \in Nat
  BY <1>2, FS_CardinalityType
<1>4. QED
  BY <1>2, <1>3 DEF Rank

\* Of two elements of a finite set, the one that comes earlier has the smaller
\* rank.
LEMMA RankInjective ==
    ASSUME NEW S \in SUBSET Nat, IsFiniteSet(S), NEW key,
           \A m \in S : key[m] \in Nat,
           NEW a \in S, NEW b \in S, Before(key, a, b)
    PROVE  Rank(S, key, a) < Rank(S, key, b)
<1> DEFINE A == {m \in S : Before(key, m, a)}
           B == {m \in S : Before(key, m, b)}
<1>0. \A m \in S : m \in Nat /\ key[m] \in Nat
  OBVIOUS
<1>0a. \A m \in S : Before(key, m, a) => Before(key, m, b)
  BY <1>0 DEF Before
<1>0b. ~Before(key, a, a)
  BY <1>0 DEF Before
<1>1. A \in SUBSET B /\ a \in B /\ a \notin A
  BY <1>0a, <1>0b
<1>2. IsFiniteSet(B)
  BY FS_Subset
<1>3. IsFiniteSet(A) /\ Cardinality(A) <= Cardinality(B) /\ Cardinality(A) # Cardinality(B)
  <2> HIDE DEF A, B
  <2> QED
    BY <1>1, <1>2, FS_Subset
<1>4. Cardinality(A) \in Nat /\ Cardinality(B) \in Nat
  BY <1>2, <1>3, FS_CardinalityType
<1>5. QED
  BY <1>3, <1>4 DEF Rank

\* Two elements with the same rank are one: compact gives every rule a number
\* of its own.
LEMMA RankUnique ==
    ASSUME NEW S \in SUBSET Nat, IsFiniteSet(S), NEW key,
           \A m \in S : key[m] \in Nat,
           NEW a \in S, NEW b \in S, Rank(S, key, a) = Rank(S, key, b)
    PROVE  a = b
<1>1. Rank(S, key, a) \in Nat /\ Cardinality(S) \in Nat
  BY RankBelow, FS_CardinalityType
<1>2. ~Before(key, a, b) /\ ~Before(key, b, a)
  <2>1. Rank(S, key, b) \in Nat
    BY <1>1
  <2>2. QED
    BY <1>1, <2>1, RankInjective
<1>3. a \in Nat /\ b \in Nat /\ key[a] \in Nat /\ key[b] \in Nat
  OBVIOUS
<1>4. QED
  BY <1>2, <1>3 DEF Before

\* Every position has an element: Sorted(S, key) lists S.
LEMMA SortedInSet ==
    ASSUME NEW S \in SUBSET Nat, IsFiniteSet(S), NEW key,
           \A m \in S : key[m] \in Nat,
           NEW i \in 1..Cardinality(S)
    PROVE  Sorted(S, key)[i] \in S /\ Rank(S, key, Sorted(S, key)[i]) = i - 1
<1> DEFINE f == [n \in S |-> Rank(S, key, n)]
           T == 0..Cardinality(S) - 1
<1>1. Cardinality(S) \in Nat
  BY FS_CardinalityType
<1>2. f \in [S -> T]
  BY RankBelow
<1>3. \A a, b \in S : f[a] = f[b] => a = b
  <2> SUFFICES ASSUME NEW a \in S, NEW b \in S, a # b PROVE f[a] # f[b]
    OBVIOUS
  <2>1. Before(key, a, b) \/ Before(key, b, a)
    BY DEF Before
  <2>2. f[a] \in T /\ f[b] \in T
    BY <1>2
  <2>3. CASE Before(key, a, b)
    BY <2>3, <2>2, RankInjective
  <2>4. CASE Before(key, b, a)
    BY <2>4, <2>2, RankInjective
  <2>5. QED
    BY <2>1, <2>3, <2>4
<1>4. f \in Injection(S, T)
  BY <1>2, <1>3, Fun_IsInj
<1>5. IsFiniteSet(T) /\ Cardinality(T) = Cardinality(S)
  <2>1. 0 \in Int /\ Cardinality(S) - 1 \in Int
    BY <1>1
  <2>2. \A c \in Int : IsFiniteSet(0..c) /\ Cardinality(0..c) = IF 0 > c THEN 0 ELSE c - 0 + 1
    BY FS_Interval
  <2>3. QED
    BY <1>1, <2>1, <2>2
<1>6. f \in Surjection(S, T)
  <2> HIDE DEF f, T
  <2> QED
    BY <1>4, <1>5, FS_Injection
<1>7. \E n \in S : f[n] = i - 1
  <2>1. i - 1 \in T
    BY <1>1
  <2> HIDE DEF f, T
  <2>2. QED
    BY <2>1, <1>6 DEF Surjection
<1>8. \E n \in S : Rank(S, key, n) = i - 1
  BY <1>7
<1>9. QED
  BY <1>8 DEF Sorted

-----------------------------------------------------------------------------
(* What every step of the writer but compact preserves by itself.          *)

\* The writer's locals fit what it is about to do: the set it inserts exists,
\* its rule has a number that ids holds or is about to, and the array of meta
\* that it stores to has a slot for it.
Inserting == {"number", "span", "order", "ids", "lower", "follow", "link", "rule"}

WriterFits ==
    /\ w.pc # "idle" => w.id \in Ids
    /\ w.pc \in Inserting => /\ w.sets \in RuleSets
                             /\ w.i \in 1..Len(w.sets)
                             /\ w.k \in 0..Len(w.sets[w.i])
    /\ w.pc \in {"follow", "link"} => w.k < Len(w.sets[w.i])
    /\ w.pc \in {"lower", "follow", "link", "rule", "version", "retire"} => w.num \in 0..Number - 1
    /\ w.pc \in {"span", "order"} => /\ w.num \in Nat /\ w.target \in Nat
                                     /\ w.target = w.num => w.num = Number
                                     /\ w.target # w.num => w.num < Number
    /\ w.pc = "order" => Len(table.meta) # 0 /\ w.target < Len(table.meta[Len(table.meta)])
    /\ w.pc = "ids" => w.num = Number
    /\ w.pc # "idle" /\ w.old # NoNumber => w.num \in Nat /\ w.old < w.num
    /\ w.pc = "number" => w.old = NoNumber
    /\ w.pc \in {"bit", "forget"} => w.num \in Nat

WriterInv ==
    /\ hasTab \in BOOLEAN
    /\ table \in Tables
    /\ nums \in [Ids -> {NoNumber} \cup 0..Len(table.ids) - 1]
    /\ dead \in Nat
    /\ count \in Int
    /\ w \in Writers
    /\ WriterFits

-----------------------------------------------------------------------------
(* Tables.                                                                 *)

\* The types of the fields of a table.
LEMMA TableParts ==
    ASSUME NEW tb \in Tables
    PROVE  /\ tb.ids \in Seq(Ids) /\ Len(tb.ids) \in Nat /\ tb.version \in Nat
           /\ tb.removed \in Seq(Bits) /\ Len(tb.removed) \in Nat
           /\ tb.meta \in Seq(Seq(MetaWords)) /\ Len(tb.meta) \in Nat
           /\ tb.hasAbsent \in BOOLEAN /\ tb.edges \in SUBSET Paths
           /\ tb.rules \in [Paths -> SUBSET Nat] /\ tb.minKey \in [Paths -> Nat]
           /\ \A a \in 1..Len(tb.meta) : tb.meta[a] \in Seq(MetaWords) /\ Len(tb.meta[a]) \in Nat
           /\ \A a \in 1..Len(tb.removed) : tb.removed[a] \in Bits
<1>1. /\ tb.ids \in Seq(Ids) /\ Len(tb.ids) \in Nat /\ tb.version \in Nat
      /\ tb.removed \in Seq(Bits) /\ Len(tb.removed) \in Nat
      /\ tb.meta \in Seq(Seq(MetaWords)) /\ Len(tb.meta) \in Nat
      /\ tb.hasAbsent \in BOOLEAN /\ tb.edges \in SUBSET Paths
      /\ tb.rules \in [Paths -> SUBSET Nat] /\ tb.minKey \in [Paths -> Nat]
  BY DEF Tables
<1>2. \A a \in 1..Len(tb.meta) : tb.meta[a] \in Seq(MetaWords)
  BY <1>1
<1>3. \A a \in 1..Len(tb.removed) : tb.removed[a] \in Bits
  BY <1>1
<1>4. QED
  BY <1>1, <1>2, <1>3

\* What a reader or the writer finds in meta, in any array published.
LEMMA MetaType ==
    ASSUME NEW tb \in Tables, NEW a \in 0..Len(tb.meta), NEW n \in Nat
    PROVE  MetaAt(tb, a, n) \in MetaWords /\ OrderIn(tb, a, n) \in Nat
<1>1. MetaAt(tb, a, n) \in MetaWords
  <2>1. NoMeta \in MetaWords
    BY DEF NoMeta, MetaWords
  <2>2. CASE a # 0 /\ n < Len(tb.meta[a])
    <3>1. a \in 1..Len(tb.meta)
      BY <2>2, TableParts
    <3>2. tb.meta[a] \in Seq(MetaWords) /\ n + 1 \in 1..Len(tb.meta[a])
      BY <2>2, <3>1, TableParts
    <3>3. QED
      BY <2>2, <3>2 DEF MetaAt
  <2>3. QED
    BY <2>1, <2>2 DEF MetaAt
<1>2. QED
  BY <1>1 DEF OrderIn, MetaWords

\* A table that Init or compact builds from identifiers and rules has the type.
LEMMA NewTableType ==
    ASSUME NEW ids \in Seq(Ids), NEW at \in [Paths -> SUBSET Nat]
    PROVE  NewTable(ids, at) \in Tables /\ NewTable(ids, at).ids = ids
<1> DEFINE below(p) == UNION {at[q] : q \in Subtree(p)}
<1>1. ASSUME NEW p \in Paths, below(p) # {} PROVE 1 + Least(below(p)) \in Nat
  <2>1. below(p) \in SUBSET Nat
    BY DEF Subtree
  <2>2. Least(below(p)) \in below(p)
    <3> HIDE DEF below
    <3> QED
      BY <2>1, <1>1, LeastIsLeast
  <2> HIDE DEF below
  <2>3. QED
    BY <2>1, <2>2
<1>2. TrieOf(at).minKey \in [Paths -> Nat]
  BY <1>1 DEF TrieOf
<1>3. TrieOf(at).edges \in SUBSET Paths /\ TrieOf(at).hasAbsent \in BOOLEAN
      /\ TrieOf(at).rules = at
  BY DEF TrieOf
<1>4. <<>> \in Seq(Bits) /\ <<>> \in Seq(Seq(MetaWords)) /\ 0 \in Nat
  OBVIOUS
<1>5. QED
  BY <1>2, <1>3, <1>4 DEF NewTable, Tables

\* So does the table of a reader that holds none.
LEMMA EmptyTableType == EmptyTable \in Tables
<1>1. <<>> \in Seq(Ids) /\ [p \in Paths |-> {}] \in [Paths -> SUBSET Nat]
  OBVIOUS
<1>2. QED
  BY <1>1, NewTableType DEF EmptyTable

-----------------------------------------------------------------------------
(* The writer's steps.                                                     *)

Grown ==
    /\ Len(table.ids) <= Len(table.ids')
    /\ Len(table.meta) <= Len(table.meta')
    /\ Len(table.removed) <= Len(table.removed')

\* What a call passes is a sequence of sets, not empty, each a body.
LEMMA RuleSetParts ==
    ASSUME NEW sets \in RuleSets
    PROVE  /\ sets \in Seq(Bodies) /\ Len(sets) \in Nat \ {0}
           /\ \A i \in 1..Len(sets) : sets[i] \in Bodies /\ Len(sets[i]) \in Nat
<1>1. sets \in Seq(Bodies) /\ sets # <<>>
  BY ConstantsAssumption
<1>2. \A i \in 1..Len(sets) : sets[i] \in Bodies
  BY <1>1
<1>3. \A b \in Bodies : Len(b) \in Nat
  <2> SUFFICES ASSUME NEW b \in Bodies PROVE Len(b) \in Nat
    OBVIOUS
  <2>1. b \in Seq(Conditions)
    BY ConstantsAssumption
  <2>2. QED
    BY <2>1
<1>4. QED
  BY <1>1, <1>2, <1>3

\* While trie.insert runs, the set it works on and the states it meets exist.
LEMMA InsertedBody ==
    ASSUME WriterInv, w.pc \in Inserting
    PROVE  /\ Body \in Bodies /\ Len(Body) \in Nat /\ Here \in Paths
           /\ w.k < Len(Body) => Child \in Paths
           /\ Len(w.sets) \in Nat
<1>1. /\ w.sets \in RuleSets /\ w.i \in 1..Len(w.sets) /\ w.k \in 0..Len(w.sets[w.i])
  BY DEF WriterInv, WriterFits
<1>2. Body \in Bodies /\ Len(Body) \in Nat /\ w.k \in 0..Len(Body) /\ Len(w.sets) \in Nat
  BY <1>1, RuleSetParts DEF Body
<1>3. \A k \in 0..Len(Body) : SubSeq(Body, 1, k) \in Paths
  BY <1>2 DEF Paths, Prefixes
<1>4. Here \in Paths
  BY <1>2, <1>3 DEF Here
<1>5. w.k < Len(Body) => Child \in Paths
  BY <1>2, <1>3 DEF Child
<1>6. QED
  BY <1>2, <1>4, <1>5

\* The locals of a call that starts have the type.
LEMMA CallingType ==
    ASSUME NEW op \in {"add", "replace", "remove"}, NEW id \in Ids,
           NEW sets \in RuleSets \cup {<<>>}, NEW pc \in {"number", "lower", "span", "bit"}
    PROVE  Calling(op, id, sets, pc) \in Writers
<1>1. /\ pc \in {"idle", "number", "span", "order", "ids", "lower", "follow", "link", "rule",
                 "unlock", "version", "retire", "bit", "forget", "compact"}
      /\ op \in {"none", "add", "replace", "remove"}
  OBVIOUS
<1>2. 0 \in Nat /\ 1 \in Nat \ {0}
  OBVIOUS
<1>3. IdleWriter \in Writers
  BY <1>2 DEF IdleWriter, Writers
<1>4. QED
  BY <1>1, <1>3 DEF Calling, Writers

\* Starting AddRule keeps the locals fitting the table.
LEMMA StepAddRule ==
    ASSUME WriterInv, NEW id \in Targets, NEW sets \in RuleSets, AddRule(id, sets)
    PROVE  WriterInv' /\ Grown
<1>1. id \in Ids
  BY ConstantsAssumption
<1>2. /\ table' = table /\ nums' = nums /\ dead' = dead /\ count' = count /\ hasTab' = TRUE
  BY DEF AddRule
<1>3. /\ Len(table.ids) \in Nat /\ nums[id] \in {NoNumber} \cup 0..Number - 1
  BY <1>1, TableParts DEF WriterInv, Number
<1>4. Known(id) => Order(table, nums[id]) \in Nat
  <2> SUFFICES ASSUME Known(id) PROVE Order(table, nums[id]) \in Nat
    OBVIOUS
  <2>1. nums[id] \in Nat
    BY <1>3 DEF Known, Number
  <2>2. Len(table.meta) \in 0..Len(table.meta)
    BY TableParts DEF WriterInv
  <2>3. QED
    BY <2>1, <2>2, MetaType DEF WriterInv, Order
<1>5. w' \in Writers
  <2>1. CASE ~Known(id)
    BY <1>1, <2>1, CallingType DEF AddRule
  <2>2. CASE Known(id)
    <3>1. nums[id] \in Nat
      BY <1>3, <2>2 DEF Known, Number
    <3>2. Calling("add", id, sets, "lower") \in Writers
      BY <1>1, CallingType
    <3>3. w' = [Calling("add", id, sets, "lower") EXCEPT
                    !.num = nums[id], !.key = Order(table, nums[id])]
      BY <2>2 DEF AddRule
    <3>4. QED
      BY <1>4, <2>2, <3>1, <3>2, <3>3 DEF Writers
  <2>3. QED
    BY <2>1, <2>2
<1>6. WriterFits'
  BY <1>1, <1>2, <1>3, RuleSetParts
     DEF AddRule, Calling, IdleWriter, WriterFits, Inserting, Known, Number, NoNumber
<1>7. QED
  BY <1>2, <1>3, <1>5, <1>6, TableParts DEF WriterInv, Grown

\* So does starting ReplaceRule, whose new number is the next that ids has room
\* for.
LEMMA StepReplaceRule ==
    ASSUME WriterInv, NEW id \in Targets, NEW sets \in RuleSets, ReplaceRule(id, sets)
    PROVE  WriterInv' /\ Grown
<1>1. id \in Ids
  BY ConstantsAssumption
<1>2. /\ table' = table /\ nums' = nums /\ dead' = dead /\ count' = count /\ hasTab' = TRUE
  BY DEF ReplaceRule
<1>3. /\ Len(table.ids) \in Nat /\ nums[id] \in {NoNumber} \cup 0..Number - 1
      /\ table.version \in Nat
  BY <1>1, TableParts DEF WriterInv, Number
<1>4. Known(id) => /\ Order(table, nums[id]) \in Nat
                   /\ MetaAt(table, Len(table.meta), nums[id]).from \in Nat
  <2> SUFFICES ASSUME Known(id)
               PROVE  /\ Order(table, nums[id]) \in Nat
                      /\ MetaAt(table, Len(table.meta), nums[id]).from \in Nat
    OBVIOUS
  <2>1. nums[id] \in Nat
    BY <1>3 DEF Known, Number
  <2>2. Len(table.meta) \in 0..Len(table.meta)
    BY TableParts DEF WriterInv
  <2>3. QED
    BY <2>1, <2>2, MetaType DEF WriterInv, Order, MetaWords
<1>5. w' \in Writers
  <2>1. CASE ~Known(id)
    BY <1>1, <2>1, CallingType DEF ReplaceRule
  <2>2. CASE Known(id)
    <3>1. nums[id] \in Nat /\ Number \in Nat /\ table.version + 1 \in Nat
      BY <1>3, <2>2 DEF Known, Number
    <3>2. Calling("replace", id, sets, "span") \in Writers
      BY <1>1, CallingType
    <3>3. w' = [Calling("replace", id, sets, "span") EXCEPT
                    !.num = Number, !.target = Number, !.old = nums[id],
                    !.from = MetaAt(table, Len(table.meta), nums[id]).from,
                    !.key = Order(table, nums[id]), !.v = table.version + 1]
      BY <2>2 DEF ReplaceRule
    <3>4. QED
      BY <1>4, <2>2, <3>1, <3>2, <3>3 DEF Writers
  <2>3. QED
    BY <2>1, <2>2
<1>6. WriterFits'
  <2>1. CASE ~Known(id)
    <3>1. /\ w'.pc = "number" /\ w'.id = id /\ w'.sets = sets /\ w'.i = 1 /\ w'.k = 0
          /\ w'.old = NoNumber
      BY <2>1 DEF ReplaceRule, Calling, IdleWriter
    <3>2. QED
      BY <1>1, <3>1, RuleSetParts DEF WriterFits, Inserting
  <2>2. CASE Known(id)
    <3>1. /\ w'.pc = "span" /\ w'.id = id /\ w'.sets = sets /\ w'.i = 1 /\ w'.k = 0
          /\ w'.num = Number /\ w'.target = Number /\ w'.old = nums[id]
      BY <2>2 DEF ReplaceRule, Calling, IdleWriter
    <3>2. nums[id] \in 0..Number - 1
      BY <1>3, <2>2 DEF Known
    <3>3. QED
      BY <1>1, <1>2, <1>3, <3>1, <3>2, RuleSetParts DEF WriterFits, Inserting, Number
  <2>3. QED
    BY <2>1, <2>2
<1>7. QED
  BY <1>2, <1>3, <1>5, <1>6, TableParts DEF WriterInv, Grown

\* So does starting RemoveRule: the number it drops is one that ids has.
LEMMA StepRemoveRule ==
    ASSUME WriterInv, NEW id \in Targets, RemoveRule(id)
    PROVE  WriterInv' /\ Grown
<1>1. id \in Ids
  BY ConstantsAssumption
<1>2. /\ UNCHANGED <<hasTab, table, nums, dead, count>> /\ Known(id)
      /\ w' = [Calling("remove", id, <<>>, "bit") EXCEPT !.num = nums[id]]
  BY DEF RemoveRule
<1>3. /\ Len(table.ids) \in Nat /\ nums[id] \in Nat
  BY <1>1, <1>2, TableParts DEF WriterInv, Number, Known
<1>4. w' \in Writers
  <2>1. Calling("remove", id, <<>>, "bit") \in Writers
    BY <1>1, CallingType
  <2>2. QED
    BY <1>2, <1>3, <2>1 DEF Writers
<1>5. WriterFits'
  BY <1>1, <1>2, <1>3 DEF Calling, IdleWriter, WriterFits, Inserting, Number, NoNumber
<1>6. QED
  BY <1>2, <1>4, <1>5, TableParts DEF WriterInv, Grown

\* newNumber stores the number in h.nums when ids has its identifier.
LEMMA StepNewNumber ==
    ASSUME WriterInv, NewNumber
    PROVE  WriterInv' /\ Grown
<1>1. /\ w.pc = "number" /\ w.id \in Ids /\ w \in Writers /\ table \in Tables
      /\ table' = [table EXCEPT !.ids = Append(@, w.id)]
      /\ nums' = [nums EXCEPT ![w.id] = Number]
      /\ count' = count + 1 /\ UNCHANGED <<hasTab, dead>>
      /\ w' = [w EXCEPT !.pc = "lower", !.num = Number,
                        !.key = IF w.op = "add" THEN Order(table, Number) ELSE Number]
  BY DEF NewNumber, WriterInv, WriterFits
<1>2. table.ids \in Seq(Ids) /\ Number \in Nat /\ Len(table.meta) \in 0..Len(table.meta)
  BY <1>1, TableParts DEF Number
<1>3. Order(table, Number) \in Nat
  BY <1>1, <1>2, MetaType DEF Order
<1>4. Append(table.ids, w.id) \in Seq(Ids) /\ Len(Append(table.ids, w.id)) = Number + 1
  BY <1>1, <1>2 DEF Number
<1>5. table' \in Tables /\ table'.ids = Append(table.ids, w.id)
      /\ table'.meta = table.meta /\ table'.removed = table.removed
  BY <1>1, <1>4 DEF Tables
<1>6. nums' \in [Ids -> {NoNumber} \cup 0..Number]
  BY <1>1, <1>2 DEF WriterInv, Number
<1>7. w' \in Writers
  BY <1>1, <1>2, <1>3 DEF Writers
<1>8. WriterFits'
  <2>1. /\ w'.pc = "lower" /\ w'.id = w.id /\ w'.sets = w.sets /\ w'.i = w.i /\ w'.k = w.k
        /\ w'.num = Number /\ w'.old = w.old
    BY <1>1 DEF Writers
  <2>2. /\ w.old = NoNumber
        /\ w.sets \in RuleSets /\ w.i \in 1..Len(w.sets) /\ w.k \in 0..Len(w.sets[w.i])
    BY <1>1 DEF WriterInv, WriterFits, Inserting
  <2>3. QED
    BY <1>1, <1>2, <1>4, <1>5, <2>1, <2>2 DEF WriterFits, Inserting, Number
<1>9. Grown
  BY <1>1, <1>2, <1>4, <1>5, TableParts DEF Grown, Number
<1>10. QED
  BY <1>1, <1>2, <1>4, <1>5, <1>6, <1>7, <1>8, <1>9 DEF WriterInv, Number

\* Steps that return, or go on to compact, without touching the table.
LEMMA Returning ==
    ASSUME WriterInv, table' = table, hasTab' = hasTab, dead' \in Nat, count' \in Int,
           nums' \in [Ids -> {NoNumber} \cup 0..Number - 1],
           w.id \in Ids, w.old # NoNumber => w.num \in Nat /\ w.old < w.num,
           Return \/ w' = [w EXCEPT !.pc = "compact"]
    PROVE  WriterInv' /\ Grown
<1>1. w' \in Writers
  <2>1. CASE Return
    <3>1. IdleWriter \in Writers
      <4>1. 0 \in Nat /\ 1 \in Nat \ {0}
        OBVIOUS
      <4>2. QED
        BY <4>1 DEF IdleWriter, Writers
    <3>2. QED
      BY <2>1, <3>1 DEF Return
  <2>2. CASE w' = [w EXCEPT !.pc = "compact"]
    BY <2>2 DEF WriterInv, Writers
  <2>3. QED
    BY <2>1, <2>2
<1>2. WriterFits'
  <2>1. CASE Return
    BY <2>1 DEF Return, IdleWriter, WriterFits, Inserting
  <2>2. CASE w' = [w EXCEPT !.pc = "compact"]
    BY <2>2 DEF WriterInv, Writers, WriterFits, Inserting
  <2>3. QED
    BY <2>1, <2>2
<1>3. QED
  BY <1>1, <1>2, TableParts DEF WriterInv, Grown, Number

\* A call that returns or goes on with compact leaves a number that ids has.
LEMMA StepReturn ==
    ASSUME WriterInv, TooManyRules \/ Unlock \/ Retire \/ Forget
    PROVE  WriterInv' /\ Grown
<1>1. w.id \in Ids /\ (w.old # NoNumber => w.num \in Nat /\ w.old < w.num)
  BY DEF WriterInv, WriterFits, TooManyRules, Unlock, Retire, Forget
<1>2. CASE TooManyRules \/ Unlock
  BY <1>1, <1>2, Returning DEF WriterInv, TooManyRules, Unlock, Number
<1>3. CASE Retire
  <2>1. w.num \in 0..Number - 1
    BY <1>3 DEF Retire, WriterInv, WriterFits
  <2>2. nums' \in [Ids -> {NoNumber} \cup 0..Number - 1]
    BY <1>1, <1>3, <2>1 DEF Retire, WriterInv, Number
  <2>3. QED
    BY <1>1, <1>3, <2>2, Returning DEF Retire, CountDead, WriterInv
<1>4. CASE Forget
  <2>1. nums' \in [Ids -> {NoNumber} \cup 0..Number - 1]
    BY <1>1, <1>4 DEF Forget, WriterInv, Number
  <2>2. QED
    BY <1>1, <1>4, <2>1, Returning DEF Forget, CountDead, WriterInv
<1>5. QED
  BY <1>2, <1>3, <1>4

\* Replacing the meta of a table touches no other field.
LEMMA MetaReplaced ==
    ASSUME NEW tb \in Tables, NEW m \in Seq(Seq(MetaWords))
    PROVE  /\ [tb EXCEPT !.meta = m] \in Tables /\ [tb EXCEPT !.meta = m].meta = m
           /\ [tb EXCEPT !.meta = m].ids = tb.ids /\ [tb EXCEPT !.meta = m].removed = tb.removed
           /\ [tb EXCEPT !.meta = m].version = tb.version
  BY DEF Tables

\* A grown copy in ruleMeta.set is a longer sequence of words.
LEMMA StepMetaGrow ==
    ASSUME WriterInv, MetaGrow
    PROVE  WriterInv' /\ Grown
<1> DEFINE a == Len(table.meta)
           cur == IF a = 0 THEN <<>> ELSE table.meta[a]
           len == Most(2 * Len(cur), w.target + 1)
           new == [i \in 1..len |-> IF i <= Len(cur) THEN cur[i] ELSE NoMeta]
<1>1. /\ table' = [table EXCEPT !.meta = Append(@, new)]
      /\ w.pc = "span" /\ UNCHANGED <<hasTab, nums, dead, count, w>>
  BY DEF MetaGrow
<1>2. table \in Tables /\ w.target \in Nat
  BY <1>1 DEF WriterInv, WriterFits
<1>3. cur \in Seq(MetaWords) /\ a \in Nat
  BY <1>2, TableParts
<1>4. len \in Nat
  BY <1>2, <1>3 DEF Most
<1>5. new \in Seq(MetaWords)
  <2>1. NoMeta \in MetaWords
    BY DEF NoMeta, MetaWords
  <2>2. \A i \in 1..len : (IF i <= Len(cur) THEN cur[i] ELSE NoMeta) \in MetaWords
    <3> HIDE DEF cur
    <3> QED
      BY <1>3, <2>1
  <2> HIDE DEF cur, len
  <2>3. QED
    BY <1>4, <2>2
<1>6. table.meta \in Seq(Seq(MetaWords))
  BY <1>2, TableParts
<1> HIDE DEF new, len, cur
<1>7. /\ table' \in Tables /\ table'.ids = table.ids /\ table'.removed = table.removed
      /\ table'.meta = Append(table.meta, new)
  <2>1. Append(table.meta, new) \in Seq(Seq(MetaWords))
    BY <1>5, <1>6
  <2>2. table' = [table EXCEPT !.meta = Append(table.meta, new)]
    BY <1>1
  <2>3. QED
    BY <1>2, <2>1, <2>2, MetaReplaced
<1>8. Len(table'.meta) = a + 1
  BY <1>6, <1>7
<1>9. WriterFits'
  BY <1>1, <1>7 DEF WriterInv, WriterFits, Inserting, Number
<1>10. QED
  BY <1>1, <1>2, <1>3, <1>7, <1>8, <1>9, TableParts DEF WriterInv, Grown

\* The two stores of ruleMeta.set change words of one slot.
LEMMA MetaStored ==
    ASSUME NEW tb \in Tables, tb.meta # <<>>, NEW i \in 1..Len(tb.meta[Len(tb.meta)]),
           NEW x \in MetaWords
    PROVE  LET new == [tb EXCEPT !.meta[Len(tb.meta)][i] = x]
           IN  /\ new \in Tables /\ new.ids = tb.ids /\ new.removed = tb.removed
               /\ new.version = tb.version
               /\ Len(new.meta) = Len(tb.meta)
               /\ Len(new.meta[Len(tb.meta)]) = Len(tb.meta[Len(tb.meta)])
               /\ new.meta[Len(tb.meta)] = [tb.meta[Len(tb.meta)] EXCEPT ![i] = x]
               /\ \A b \in 1..Len(tb.meta) : b # Len(tb.meta) => new.meta[b] = tb.meta[b]
<1> DEFINE a == Len(tb.meta)
           new == [tb EXCEPT !.meta[a][i] = x]
<1>1. tb.meta \in Seq(Seq(MetaWords)) /\ a \in 1..Len(tb.meta)
      /\ tb.meta[a] \in Seq(MetaWords)
  BY TableParts
<1>2. [tb.meta[a] EXCEPT ![i] = x] \in Seq(MetaWords)
      /\ Len([tb.meta[a] EXCEPT ![i] = x]) = Len(tb.meta[a])
  BY <1>1
<1>3. [tb.meta EXCEPT ![a] = [tb.meta[a] EXCEPT ![i] = x]] \in Seq(Seq(MetaWords))
      /\ Len([tb.meta EXCEPT ![a] = [tb.meta[a] EXCEPT ![i] = x]]) = a
  BY <1>1, <1>2
<1> DEFINE m == [tb.meta EXCEPT ![a] = [tb.meta[a] EXCEPT ![i] = x]]
<1>4. new = [tb EXCEPT !.meta = m]
  BY DEF Tables
<1>5. m[a] = [tb.meta[a] EXCEPT ![i] = x]
  BY <1>1
<1>6. Len(m) = a /\ Len(m[a]) = Len(tb.meta[a]) /\ m \in Seq(Seq(MetaWords))
  BY <1>2, <1>3, <1>5
<1>7. /\ new \in Tables /\ new.ids = tb.ids /\ new.removed = tb.removed /\ new.meta = m
      /\ new.version = tb.version
  <2> HIDE DEF m, new
  <2> QED
    BY <1>4, <1>6, MetaReplaced
<1>8. /\ Len(new.meta) = a /\ Len(new.meta[a]) = Len(tb.meta[a])
      /\ new.meta[a] = [tb.meta[a] EXCEPT ![i] = x]
      /\ \A b \in 1..a : b # a => new.meta[b] = tb.meta[b]
  <2>1. \A b \in 1..a : b # a => m[b] = tb.meta[b]
    BY <1>1
  <2> HIDE DEF m, new
  <2>2. QED
    BY <1>5, <1>6, <1>7, <2>1
<1>9. QED
  BY <1>7, <1>8

\* Storing a span keeps types and lengths: its slot exists.
LEMMA StepMetaSpan ==
    ASSUME WriterInv, MetaSpan
    PROVE  WriterInv' /\ Grown
<1> DEFINE a == Len(table.meta)
           i == w.target + 1
           f == IF w.target = w.num THEN w.v ELSE w.from
           u == IF w.target = w.num THEN 0 ELSE w.v
           x == [table.meta[a][i] EXCEPT !.from = f, !.until = u]
<1>1. /\ w.pc = "span" /\ a # 0 /\ w.target < Len(table.meta[a])
      /\ table' = [table EXCEPT !.meta[a][i] = [@ EXCEPT !.from = f, !.until = u]]
      /\ w' = [w EXCEPT !.pc = "order"] /\ UNCHANGED <<hasTab, nums, dead, count>>
  BY DEF MetaSpan
<1>2. table \in Tables /\ w \in Writers /\ w.target \in Nat
  BY <1>1 DEF WriterInv, WriterFits
<1>3. /\ a \in 1..a /\ table.meta \in Seq(Seq(MetaWords)) /\ table.meta # <<>>
      /\ table.meta[a] \in Seq(MetaWords) /\ i \in 1..Len(table.meta[a])
  BY <1>1, <1>2, TableParts
<1>4. f \in Nat /\ u \in Nat
  BY <1>2 DEF Writers
<1>5. x \in MetaWords
  <2>1. table.meta[a][i] \in MetaWords
    BY <1>3
  <2> HIDE DEF f, u
  <2>2. QED
    BY <2>1, <1>4 DEF MetaWords
<1>6. table' = [table EXCEPT !.meta[a][i] = x]
  BY <1>1
<1>7. /\ table' \in Tables /\ table'.ids = table.ids /\ table'.removed = table.removed
      /\ Len(table'.meta) = a /\ Len(table'.meta[a]) = Len(table.meta[a])
  <2> HIDE DEF x, i, f, u
  <2> DEFINE new == [table EXCEPT !.meta[Len(table.meta)][i] = x]
  <2>1. i \in 1..Len(table.meta[Len(table.meta)])
    BY <1>3
  <2>2. /\ new \in Tables /\ new.ids = table.ids /\ new.removed = table.removed
        /\ Len(new.meta) = Len(table.meta)
        /\ Len(new.meta[Len(table.meta)]) = Len(table.meta[Len(table.meta)])
    BY <1>2, <1>3, <1>5, <2>1, MetaStored
  <2>3. table' = new
    BY <1>6
  <2> HIDE DEF new
  <2>4. QED
    BY <2>2, <2>3
<1>8. w' \in Writers
  BY <1>1, <1>2 DEF Writers
<1>9. WriterFits'
  <2>1. /\ w'.pc = "order" /\ w'.id = w.id /\ w'.sets = w.sets /\ w'.i = w.i /\ w'.k = w.k
        /\ w'.num = w.num /\ w'.target = w.target /\ w'.old = w.old
    BY <1>1, <1>2 DEF Writers
  <2>2. QED
    BY <1>1, <1>7, <2>1 DEF WriterInv, WriterFits, Inserting, Number
<1>10. QED
  BY <1>1, <1>2, <1>7, <1>8, <1>9, TableParts DEF WriterInv, Grown

\* So does storing an order key.
LEMMA StepMetaOrder ==
    ASSUME WriterInv, MetaOrder
    PROVE  WriterInv' /\ Grown
<1> DEFINE a == Len(table.meta)
           i == w.target + 1
           x == [table.meta[a][i] EXCEPT !.ord = w.key + 1]
<1>1. /\ w.pc = "order" /\ a # 0 /\ w.target < Len(table.meta[a])
      /\ table' = [table EXCEPT !.meta[a][i].ord = w.key + 1]
      /\ w' = [w EXCEPT !.pc = IF w.target = w.num THEN "ids" ELSE "version"]
      /\ UNCHANGED <<hasTab, nums, dead, count>>
  BY DEF MetaOrder, WriterInv, WriterFits
<1>2. table \in Tables /\ w \in Writers /\ w.target \in Nat /\ w.key + 1 \in Nat
  BY <1>1 DEF WriterInv, WriterFits, Writers
<1>3. /\ a \in 1..a /\ table.meta \in Seq(Seq(MetaWords)) /\ table.meta # <<>>
      /\ table.meta[a] \in Seq(MetaWords) /\ i \in 1..Len(table.meta[a])
  BY <1>1, <1>2, TableParts
<1>4. x \in MetaWords
  <2>1. table.meta[a][i] \in MetaWords
    BY <1>3
  <2>2. QED
    BY <2>1, <1>2 DEF MetaWords
<1>5. table' = [table EXCEPT !.meta[a][i] = x]
  <2> HIDE DEF i
  <2> QED
    BY <1>1, <1>2, <1>3 DEF Tables
<1>6. /\ table' \in Tables /\ table'.ids = table.ids /\ table'.removed = table.removed
      /\ Len(table'.meta) = a
  <2> HIDE DEF x, i
  <2> QED
    BY <1>2, <1>3, <1>4, <1>5, MetaStored
<1>7. w' \in Writers
  BY <1>1, <1>2 DEF Writers
<1>8. WriterFits'
  <2>1. /\ w'.pc = IF w.target = w.num THEN "ids" ELSE "version"
        /\ w'.id = w.id /\ w'.sets = w.sets /\ w'.i = w.i /\ w'.k = w.k
        /\ w'.num = w.num /\ w'.target = w.target /\ w'.old = w.old
    BY <1>1, <1>2 DEF Writers
  <2>2. Number \in Nat /\ Number' = Number
    BY <1>2, <1>6, TableParts DEF Number
  <2>3. CASE w.target = w.num
    BY <1>1, <2>1, <2>2, <2>3 DEF WriterInv, WriterFits, Inserting
  <2>4. CASE w.target # w.num
    BY <1>1, <2>1, <2>2, <2>4 DEF WriterInv, WriterFits, Inserting
  <2>5. QED
    BY <2>3, <2>4
<1>9. QED
  BY <1>1, <1>2, <1>6, <1>7, <1>8, TableParts DEF WriterInv, Grown

\* The number of a replacement is the index its identifier gets in ids.
LEMMA StepPublishId ==
    ASSUME WriterInv, PublishId
    PROVE  WriterInv' /\ Grown
<1>1. /\ w.pc = "ids" /\ w.id \in Ids /\ w \in Writers /\ table \in Tables /\ w.num = Number
      /\ table' = [table EXCEPT !.ids = Append(@, w.id)]
      /\ UNCHANGED <<hasTab, nums, dead, count>>
      /\ w' = [w EXCEPT !.pc = "lower"]
  BY DEF PublishId, WriterInv, WriterFits
<1>2. table.ids \in Seq(Ids) /\ Number \in Nat
  BY <1>1, TableParts DEF Number
<1>3. Append(table.ids, w.id) \in Seq(Ids) /\ Len(Append(table.ids, w.id)) = Number + 1
  BY <1>1, <1>2 DEF Number
<1>4. table' \in Tables /\ table'.ids = Append(table.ids, w.id)
      /\ table'.meta = table.meta /\ table'.removed = table.removed
  BY <1>1, <1>3 DEF Tables
<1>5. nums' \in [Ids -> {NoNumber} \cup 0..Number]
  BY <1>1, <1>2 DEF WriterInv, Number
<1>6. w' \in Writers
  BY <1>1 DEF Writers
<1>7. WriterFits'
  <2>1. /\ w'.pc = "lower" /\ w'.id = w.id /\ w'.sets = w.sets /\ w'.i = w.i /\ w'.k = w.k
        /\ w'.num = w.num /\ w'.old = w.old
    BY <1>1 DEF Writers
  <2>2. QED
    BY <1>1, <1>2, <1>3, <1>4, <2>1 DEF WriterInv, WriterFits, Inserting, Number
<1>8. Grown
  BY <1>1, <1>2, <1>3, <1>4, TableParts DEF Grown, Number
<1>9. QED
  BY <1>1, <1>2, <1>3, <1>4, <1>5, <1>6, <1>7, <1>8 DEF WriterInv, Number

\* What trie.insert does to the table leaves ids, meta and removed alone.
LEMMA Traversing ==
    ASSUME WriterInv, table' \in Tables, table'.ids = table.ids, table'.meta = table.meta,
           table'.removed = table.removed, UNCHANGED <<hasTab, nums, dead, count>>,
           w' \in Writers, WriterFits'
    PROVE  WriterInv' /\ Grown
  BY TableParts DEF WriterInv, Grown

\* Lowering a minKey, and going on with the next condition or the rule.
LEMMA StepLowerMinKey ==
    ASSUME WriterInv, LowerMinKey
    PROVE  WriterInv' /\ Grown
<1>1. /\ w.pc = "lower" /\ w \in Writers /\ table \in Tables
      /\ UNCHANGED <<hasTab, nums, dead, count>>
      /\ w' = [w EXCEPT !.pc = IF w.k = Len(Body) THEN "rule" ELSE "follow"]
      /\ table' \in {table, [table EXCEPT !.minKey[Here] = w.key + 1]}
  BY DEF LowerMinKey, WriterInv
<1>2. Here \in Paths /\ Len(Body) \in Nat
  BY <1>1, InsertedBody DEF Inserting
<1>3. /\ table' \in Tables /\ table'.ids = table.ids /\ table'.meta = table.meta
      /\ table'.removed = table.removed
  <2>1. w.key + 1 \in Nat /\ table.minKey \in [Paths -> Nat]
    BY <1>1, TableParts DEF Writers
  <2>2. [table.minKey EXCEPT ![Here] = w.key + 1] \in [Paths -> Nat]
    BY <1>2, <2>1
  <2>3. CASE table' = table
    BY <1>1, <2>3
  <2>4. CASE table' = [table EXCEPT !.minKey[Here] = w.key + 1]
    BY <1>1, <2>2, <2>4 DEF Tables
  <2>5. QED
    BY <1>1, <2>3, <2>4
<1>4. w' \in Writers
  BY <1>1 DEF Writers
<1>5. WriterFits'
  <2>1. /\ w'.pc = IF w.k = Len(Body) THEN "rule" ELSE "follow"
        /\ w'.id = w.id /\ w'.sets = w.sets /\ w'.i = w.i /\ w'.k = w.k
        /\ w'.num = w.num /\ w'.old = w.old
    BY <1>1 DEF Writers
  <2>2. QED
    BY <1>1, <1>2, <1>3, <2>1 DEF WriterInv, WriterFits, Inserting, Number, Body
<1>6. QED
  BY <1>1, <1>3, <1>4, <1>5, Traversing

\* Following or creating an edge, to a state that exists.
LEMMA StepFollow ==
    ASSUME WriterInv, Follow \/ LinkAbsent
    PROVE  WriterInv' /\ Grown
<1>1. /\ w.pc \in {"follow", "link"} /\ w \in Writers /\ table \in Tables
      /\ UNCHANGED <<hasTab, nums, dead, count>>
      /\ w' \in {[w EXCEPT !.pc = "lower", !.k = @ + 1], [w EXCEPT !.pc = "link"]}
      /\ table' \in {table, [table EXCEPT !.hasAbsent = TRUE],
                     [table EXCEPT !.edges = @ \cup {Child}]}
  BY DEF Follow, LinkAbsent, WriterInv
<1>2. Child \in Paths /\ Len(Body) \in Nat /\ w.k \in Nat /\ w.k < Len(Body)
  <2>1. w.k < Len(Body) /\ w.k \in Nat
    BY <1>1 DEF WriterInv, WriterFits, Writers, Body
  <2>2. QED
    BY <1>1, <2>1, InsertedBody DEF Inserting
<1>3. /\ table' \in Tables /\ table'.ids = table.ids /\ table'.meta = table.meta
      /\ table'.removed = table.removed
  <2>1. table.edges \cup {Child} \in SUBSET Paths
    BY <1>1, <1>2, TableParts
  <2>2. CASE table' = table
    BY <1>1, <2>2
  <2>3. CASE table' = [table EXCEPT !.hasAbsent = TRUE]
    BY <1>1, <2>3 DEF Tables
  <2>4. CASE table' = [table EXCEPT !.edges = @ \cup {Child}]
    BY <1>1, <2>1, <2>4 DEF Tables
  <2>5. QED
    BY <1>1, <2>2, <2>3, <2>4
<1>4. w' \in Writers
  <2>1. w.k + 1 \in Nat
    BY <1>2
  <2>2. CASE w' = [w EXCEPT !.pc = "lower", !.k = @ + 1]
    BY <1>1, <2>1, <2>2 DEF Writers
  <2>3. CASE w' = [w EXCEPT !.pc = "link"]
    BY <1>1, <2>3 DEF Writers
  <2>4. QED
    BY <1>1, <2>2, <2>3
<1>5. WriterFits'
  <2>1. /\ w'.id = w.id /\ w'.sets = w.sets /\ w'.i = w.i
        /\ w'.num = w.num /\ w'.old = w.old
        /\ \/ w'.pc = "lower" /\ w'.k = w.k + 1
           \/ w'.pc = "link" /\ w'.k = w.k
    BY <1>1 DEF Writers
  <2>2. w'.k \in 0..Len(Body) /\ (w'.pc = "link" => w'.k < Len(Body))
    BY <1>2, <2>1
  <2>3. QED
    BY <1>1, <1>3, <2>1, <2>2 DEF WriterInv, WriterFits, Inserting, Number, Body
<1>6. QED
  BY <1>1, <1>3, <1>4, <1>5, Traversing

\* Adding the number to a state, and going on with the next set, the span or
\* Unlock.
LEMMA StepAddNumber ==
    ASSUME WriterInv, AddNumber
    PROVE  WriterInv' /\ Grown
<1>1. /\ w.pc = "rule" /\ w \in Writers /\ table \in Tables
      /\ UNCHANGED <<hasTab, nums, dead, count>>
      /\ table' = [table EXCEPT !.rules[Here] = @ \cup {w.num}]
  BY DEF AddNumber, WriterInv
<1>2. /\ Here \in Paths /\ w.num \in 0..Number - 1 /\ Number \in Nat
      /\ w.sets \in RuleSets /\ w.i \in 1..Len(w.sets) /\ Len(w.sets) \in Nat
      /\ w.old # NoNumber => w.old < w.num /\ w.old \in Nat
  BY <1>1, InsertedBody, TableParts DEF WriterInv, WriterFits, Inserting, Number, Writers
<1>3. /\ table' \in Tables /\ table'.ids = table.ids /\ table'.meta = table.meta
      /\ table'.removed = table.removed
  <2>1. table.rules \in [Paths -> SUBSET Nat] /\ w.num \in Nat
    BY <1>1, <1>2, TableParts
  <2>2. [table.rules EXCEPT ![Here] = @ \cup {w.num}] \in [Paths -> SUBSET Nat]
    BY <1>2, <2>1
  <2>3. QED
    BY <1>1, <2>2 DEF Tables
<1>4. CASE w.i < Len(w.sets)
  <2>1. w' = [w EXCEPT !.pc = "lower", !.i = @ + 1, !.k = 0]
    BY <1>1, <1>4 DEF AddNumber
  <2>2. w' \in Writers
    <3>1. w.i + 1 \in Nat \ {0} /\ 0 \in Nat
      BY <1>2
    <3>2. QED
      BY <1>1, <2>1, <3>1 DEF Writers
  <2>3. /\ w'.pc = "lower" /\ w'.id = w.id /\ w'.sets = w.sets /\ w'.i = w.i + 1 /\ w'.k = 0
        /\ w'.num = w.num /\ w'.old = w.old
    BY <1>1, <2>1 DEF Writers
  <2>4. w.i + 1 \in 1..Len(w.sets) /\ Len(w.sets[w.i + 1]) \in Nat
    BY <1>2, <1>4, RuleSetParts
  <2>5. WriterFits'
    BY <1>1, <1>2, <1>3, <2>3, <2>4 DEF WriterInv, WriterFits, Inserting, Number
  <2>6. QED
    BY <1>1, <1>3, <2>2, <2>5, Traversing
<1>5. CASE ~(w.i < Len(w.sets)) /\ w.old # NoNumber
  <2>1. w' = [w EXCEPT !.pc = "span", !.target = w.old]
    BY <1>1, <1>5 DEF AddNumber
  <2>2. w' \in Writers
    BY <1>1, <1>2, <2>1 DEF Writers
  <2>3. /\ w'.pc = "span" /\ w'.id = w.id /\ w'.sets = w.sets /\ w'.i = w.i /\ w'.k = w.k
        /\ w'.num = w.num /\ w'.old = w.old /\ w'.target = w.old
    BY <1>1, <2>1 DEF Writers
  <2>4. WriterFits'
    BY <1>1, <1>2, <1>3, <1>5, <2>3 DEF WriterInv, WriterFits, Inserting, Number
  <2>5. QED
    BY <1>1, <1>3, <2>2, <2>4, Traversing
<1>6. CASE ~(w.i < Len(w.sets)) /\ w.old = NoNumber
  <2>1. w' = [w EXCEPT !.pc = "unlock"]
    BY <1>1, <1>6 DEF AddNumber
  <2>2. w' \in Writers
    BY <1>1, <2>1 DEF Writers
  <2>3. w'.pc = "unlock" /\ w'.id = w.id /\ w'.num = w.num /\ w'.old = w.old
    BY <1>1, <2>1 DEF Writers
  <2>4. WriterFits'
    BY <1>1, <1>6, <2>3 DEF WriterInv, WriterFits, Inserting
  <2>5. QED
    BY <1>1, <1>3, <2>2, <2>4, Traversing
<1>7. QED
  BY <1>4, <1>5, <1>6

\* Publishing the version leaves the lengths alone.
LEMMA StepPublishVersion ==
    ASSUME WriterInv, PublishVersion
    PROVE  WriterInv' /\ Grown
<1>1. /\ w.pc = "version" /\ w \in Writers /\ table \in Tables
      /\ UNCHANGED <<hasTab, nums, dead, count>>
      /\ table' = [table EXCEPT !.version = w.v]
      /\ w' = [w EXCEPT !.pc = "retire"]
  BY DEF PublishVersion, WriterInv
<1>2. /\ table' \in Tables /\ table'.ids = table.ids /\ table'.meta = table.meta
      /\ table'.removed = table.removed
  BY <1>1 DEF Tables, Writers
<1>3. w' \in Writers
  BY <1>1 DEF Writers
<1>4. WriterFits'
  <2>1. w'.pc = "retire" /\ w'.id = w.id /\ w'.num = w.num /\ w'.old = w.old
    BY <1>1 DEF Writers
  <2>2. QED
    BY <1>1, <1>2, <2>1 DEF WriterInv, WriterFits, Inserting, Number
<1>5. QED
  BY <1>1, <1>2, <1>3, <1>4, Traversing

\* A grown copy in bitset.set has more words.
LEMMA StepBitGrow ==
    ASSUME WriterInv, BitGrow
    PROVE  WriterInv' /\ Grown
<1> DEFINE a == Len(table.removed)
           cur == IF a = 0 THEN [len |-> 0, bits |-> {}] ELSE table.removed[a]
           word == w.num \div WordBits
           len == Most(2 * cur.len, word + 1)
           new == [cur EXCEPT !.len = len]
<1>1. /\ table' = [table EXCEPT !.removed = Append(@, new)]
      /\ w.pc = "bit" /\ UNCHANGED <<hasTab, nums, dead, count, w>>
  BY DEF BitGrow
<1>2. table \in Tables /\ w.num \in Nat /\ WordBits \in Nat \ {0}
  BY <1>1, ConstantsAssumption DEF WriterInv, WriterFits
<1>3. word \in Nat
  BY <1>2
<1>4. cur \in Bits
  <2>1. CASE a = 0
    BY <2>1 DEF Bits
  <2>2. CASE a # 0
    BY <1>2, <2>2, TableParts
  <2>3. QED
    BY <2>1, <2>2
<1> HIDE DEF cur, word
<1>5. len \in Nat
  BY <1>3, <1>4 DEF Most, Bits
<1> HIDE DEF len
<1>6. new \in Bits
  BY <1>4, <1>5 DEF Bits
<1> HIDE DEF new
<1>7. table.removed \in Seq(Bits) /\ a \in Nat
  BY <1>2, TableParts
<1>8. Append(table.removed, new) \in Seq(Bits) /\ Len(Append(table.removed, new)) = a + 1
  BY <1>6, <1>7
<1>9. /\ table' \in Tables /\ table'.ids = table.ids /\ table'.meta = table.meta
      /\ table'.removed = Append(table.removed, new)
  BY <1>1, <1>2, <1>8 DEF Tables
<1>10. WriterFits'
  BY <1>1, <1>9 DEF WriterInv, WriterFits, Inserting, Number
<1>11. QED
  BY <1>1, <1>2, <1>7, <1>8, <1>9, <1>10, TableParts DEF WriterInv, Grown

\* Setting a bit stores one word and touches nothing else.
LEMMA StepBitSet ==
    ASSUME WriterInv, BitSet
    PROVE  /\ WriterInv' /\ Grown
           /\ Len(table'.removed) = Len(table.removed)
           /\ table'.removed[Len(table.removed)].bits
                = table.removed[Len(table.removed)].bits \cup {w.num}
           /\ table'.ids = table.ids /\ table'.meta = table.meta
           /\ table'.version = table.version
<1> DEFINE a == Len(table.removed)
           new == [table.removed[a] EXCEPT !.bits = @ \cup {w.num}]
           removed == [table.removed EXCEPT ![a] = new]
<1>1. /\ w.pc = "bit" /\ a # 0 /\ UNCHANGED <<hasTab, nums, dead, count>>
      /\ table' = [table EXCEPT !.removed[a].bits = @ \cup {w.num}]
      /\ w' = [w EXCEPT !.pc = "forget"]
  BY DEF BitSet
<1>2. table \in Tables /\ w \in Writers /\ w.num \in Nat
  BY <1>1 DEF WriterInv, WriterFits
<1>3. table.removed \in Seq(Bits) /\ a \in 1..a /\ table.removed[a] \in Bits
  BY <1>1, <1>2, TableParts
<1>4. new \in Bits /\ new.bits = table.removed[a].bits \cup {w.num}
  BY <1>2, <1>3 DEF Bits
<1>5. table' = [table EXCEPT !.removed = removed]
  BY <1>1, <1>2 DEF Tables
<1>6. removed \in Seq(Bits) /\ Len(removed) = a /\ removed[a] = new
  <2> HIDE DEF new
  <2> QED
    BY <1>3, <1>4
<1> HIDE DEF removed, new
<1>7. /\ table' \in Tables /\ table'.ids = table.ids /\ table'.meta = table.meta
      /\ table'.removed = removed /\ table'.version = table.version
  BY <1>2, <1>5, <1>6 DEF Tables
<1>8. w' \in Writers
  BY <1>1, <1>2 DEF Writers
<1>9. WriterFits'
  <2>1. w'.pc = "forget" /\ w'.id = w.id /\ w'.num = w.num /\ w'.old = w.old
    BY <1>1, <1>2 DEF Writers
  <2>2. QED
    BY <1>1, <1>7, <2>1 DEF WriterInv, WriterFits, Inserting
<1>10. QED
  BY <1>1, <1>2, <1>4, <1>6, <1>7, <1>8, <1>9, TableParts DEF WriterInv, Grown

-----------------------------------------------------------------------------
(***************************************************************************)
(* Theorems about HyperMatch: the numbers in h.nums always have an         *)
(* identifier in the current table, and a reader never leaves the table    *)
(* that it has loaded.  Both need one inductive invariant, which relates   *)
(* h.nums to the removed bits, the spans and the call in progress.         *)
(***************************************************************************)

(* The inductive invariant.                                                *)

\* What h.nums says of the current table.  An identifier's number is its own,
\* neither removed nor replaced but in the middle of the call that does so, and
\* every number that is still current belongs to the identifier it stands for.
\* compact relies on both: it renumbers only what it keeps.
Until(n) == MetaAt(table, Len(table.meta), n).until
Dropped(n) == BitsHas(table, Len(table.removed), n)
Current(n) == ~Dropped(n) /\ ~(Until(n) # 0 /\ Until(n) <= table.version)

Replacing ==
    /\ w.pc \in {"span", "order", "ids", "lower", "follow", "link", "rule", "version", "retire"}
    /\ w.old # NoNumber

\* It has given the old number its span, or is past that.
Ending == w.pc \in {"version", "retire"} \/ (w.pc = "order" /\ w.target # w.num)

\* The number that a replacement brings along, once ids has it.
Pending(n) == Replacing /\ n = w.num

Unused == \A n \in Nat : n >= Number => ~Dropped(n) /\ Until(n) = 0

Numbered ==
    \A id \in Ids : Known(id) =>
        /\ table.ids[nums[id] + 1] = id
        /\ Dropped(nums[id]) => w.pc = "forget" /\ w.id = id
        /\ Until(nums[id]) # 0 => Ending /\ w.id = id /\ w.old # NoNumber

Owned ==
    \A n \in 0..Number - 1 : Current(n) => nums[table.ids[n + 1]] = n \/ Pending(n)

CallFits ==
    /\ Replacing =>
          /\ Known(w.id) /\ w.old = nums[w.id]
          /\ ~Dropped(w.num) /\ Until(w.num) = 0
          /\ w.num < Number => table.ids[w.num + 1] = w.id
          /\ w.pc # "retire" => w.v = table.version + 1
          /\ w.pc = "retire" => w.v = table.version /\ w.v # 0
          /\ Ending => Until(w.old) = w.v
    /\ w.pc \in {"span", "order", "ids", "version", "retire"} => w.old # NoNumber
    /\ w.pc \in {"span", "order"} => w.target \in {w.old, w.num}
    /\ w.pc = "number" => ~Known(w.id)
    /\ w.pc \in {"bit", "forget"} => Known(w.id) /\ w.num = nums[w.id]
    /\ w.pc = "forget" => Dropped(w.num)

NumbersFit == Unused /\ Numbered /\ Owned /\ CallFits

\* A reader that is not in a call holds nothing, and one that has found a rule
\* knows its number.
ScratchFits(s) ==
    /\ s.pc \in {"idle", "done"} =>
          /\ s.stale = FALSE /\ s.kept = {} /\ s.best = NoNumber
          /\ s.limit = 0 /\ s.meta = 0 /\ s.removed = 0
    /\ s.bestKey # MaxRules => s.best # NoNumber

ReadersFit == \A r \in Readers : ScratchFits(rd[r])

\* What ReadersInBounds says of a reader with scratch s and table tb.
Within(s, tb) ==
    /\ s.limit <= Len(tb.ids)
    /\ s.meta <= Len(tb.meta)
    /\ s.removed <= Len(tb.removed)
    /\ \A n \in s.kept : n < s.limit
    /\ s.best < s.limit

ReaderInv ==
    /\ rd \in [Readers -> Scratches]
    /\ old \in [Readers -> Tables]
    /\ ReadersInBounds
    /\ ReadersFit

Inv == WriterInv /\ NumbersFit /\ ReaderInv

-----------------------------------------------------------------------------
(* What h.nums says stays true: the steps of the writer but compact.       *)

\* What numbers mean depends on ids, meta, removed and version alone.
LEMMA TableKept ==
    ASSUME table'.ids = table.ids, table'.meta = table.meta, table'.removed = table.removed,
           table'.version = table.version, nums' = nums
    PROVE  /\ Number' = Number
           /\ \A n : Until(n)' = Until(n) /\ Dropped(n)' = Dropped(n) /\ Current(n)' = Current(n)
           /\ \A id : Known(id)' = Known(id)
<1>1. \A n : Until(n)' = Until(n)
  BY DEF Until, MetaAt
<1>2. \A n : Dropped(n)' = Dropped(n)
  BY DEF Dropped, BitsHas
<1>3. QED
  BY <1>1, <1>2 DEF Current, Number, Known

\* Two present identifiers never share a number.
LEMMA OwnNumber ==
    ASSUME WriterInv, Numbered, NEW a \in Ids, NEW b \in Ids, Known(a), nums[a] = nums[b]
    PROVE  a = b
  BY DEF Numbered, Known

\* A call starts, returns, or goes on: the table and nums do not change.
LEMMA NumbersQuiet ==
    ASSUME WriterInv, NumbersFit,
           table'.ids = table.ids, table'.meta = table.meta, table'.removed = table.removed,
           table'.version = table.version, nums' = nums,
           ~Replacing, w.pc # "forget", CallFits'
    PROVE  NumbersFit'
<1>1. /\ Number' = Number
      /\ \A n : Until(n)' = Until(n) /\ Dropped(n)' = Dropped(n) /\ Current(n)' = Current(n)
      /\ \A id : Known(id)' = Known(id)
  BY TableKept
<1>2. Unused'
  BY <1>1 DEF NumbersFit, Unused
<1>3. ~Ending \/ w.old = NoNumber
  BY DEF Replacing, Ending
<1>4. Numbered'
  BY <1>1, <1>3 DEF NumbersFit, Numbered
<1>5. Owned'
  BY <1>1 DEF NumbersFit, Owned, Pending
<1>6. QED
  BY <1>2, <1>4, <1>5 DEF NumbersFit

\* Starting a call changes no number.
LEMMA NumbersStart ==
    ASSUME WriterInv, NumbersFit, NEW id \in Targets, NEW sets,
           AddRule(id, sets) \/ ReplaceRule(id, sets) \/ RemoveRule(id)
    PROVE  NumbersFit'
<1>1. /\ w.pc = "idle" /\ UNCHANGED <<table, nums>> /\ id \in Ids
  BY ConstantsAssumption DEF AddRule, ReplaceRule, RemoveRule
<1>2. /\ Number' = Number
      /\ \A n : Until(n)' = Until(n) /\ Dropped(n)' = Dropped(n) /\ Current(n)' = Current(n)
      /\ \A x : Known(x)' = Known(x)
  BY <1>1, TableKept
<1>3. Number \in Nat /\ table.version \in Nat
  BY TableParts DEF WriterInv, Number
<1>4. CASE AddRule(id, sets)
  <2>1. /\ w'.old = NoNumber /\ w'.pc \in {"lower", "number"}
        /\ w'.pc = "number" => ~Known(id) /\ w'.id = id
    BY <1>4 DEF AddRule, Calling, IdleWriter
  <2>2. CallFits'
    BY <1>2, <2>1 DEF CallFits, Replacing
  <2>3. QED
    BY <1>1, <2>2, NumbersQuiet DEF Replacing
<1>5. CASE ReplaceRule(id, sets) /\ Known(id)
  <2>1. /\ w'.pc = "span" /\ w'.id = id /\ w'.num = Number /\ w'.target = Number
        /\ w'.old = nums[id] /\ w'.v = table.version + 1
    BY <1>5 DEF ReplaceRule, Calling, IdleWriter
  <2>2. ~Dropped(Number) /\ Until(Number) = 0
    BY <1>3 DEF NumbersFit, Unused
  <2>3. CallFits'
    BY <1>1, <1>2, <1>3, <1>5, <2>1, <2>2 DEF CallFits, Replacing, Ending, Known
  <2>4. QED
    BY <1>1, <2>3, NumbersQuiet DEF Replacing
<1>6. CASE ReplaceRule(id, sets) /\ ~Known(id)
  <2>1. w'.old = NoNumber /\ w'.pc = "number" /\ w'.id = id
    BY <1>6 DEF ReplaceRule, Calling, IdleWriter
  <2>2. CallFits'
    BY <1>2, <1>6, <2>1 DEF CallFits, Replacing
  <2>3. QED
    BY <1>1, <2>2, NumbersQuiet DEF Replacing
<1>7. CASE RemoveRule(id)
  <2>1. /\ w'.pc = "bit" /\ w'.id = id /\ w'.num = nums[id] /\ w'.old = NoNumber /\ Known(id)
    BY <1>7 DEF RemoveRule, Calling, IdleWriter
  <2>2. CallFits'
    BY <1>1, <1>2, <2>1 DEF CallFits, Replacing
  <2>3. QED
    BY <1>1, <2>2, NumbersQuiet DEF Replacing
<1>8. QED
  BY <1>4, <1>5, <1>6, <1>7

\* Nor does a call that returns early or at its end.
LEMMA NumbersReturn ==
    ASSUME WriterInv, NumbersFit, TooManyRules \/ Unlock
    PROVE  NumbersFit'
<1>1. /\ UNCHANGED <<table, nums>> /\ w' = IdleWriter /\ w.pc \in {"number", "unlock"}
  BY DEF TooManyRules, Unlock, Return
<1>2. CallFits'
  BY <1>1 DEF CallFits, Replacing, IdleWriter
<1>3. QED
  BY <1>1, <1>2, NumbersQuiet DEF Replacing

\* The number that newNumber gives is unused, so its identifier alone owns it.
LEMMA NumbersNewNumber ==
    ASSUME WriterInv, NumbersFit, NewNumber
    PROVE  NumbersFit'
<1>1. /\ w.pc = "number" /\ w.id \in Ids /\ w.old = NoNumber /\ w \in Writers
      /\ table' = [table EXCEPT !.ids = Append(@, w.id)] /\ table \in Tables
      /\ nums' = [nums EXCEPT ![w.id] = Number] /\ nums \in [Ids -> {NoNumber} \cup 0..Number - 1]
      /\ w'.pc = "lower" /\ w'.old = w.old
  BY DEF NewNumber, WriterInv, WriterFits, Number, Writers
<1>2. /\ table'.ids = Append(table.ids, w.id) /\ table'.meta = table.meta
      /\ table'.removed = table.removed /\ table'.version = table.version
  BY <1>1 DEF Tables
<1>3. table.ids \in Seq(Ids) /\ Number \in Nat /\ Len(table.ids) = Number
  BY <1>1, TableParts DEF Number
<1>4. /\ Number' = Number + 1 /\ table'.ids[Number + 1] = w.id
      /\ \A n \in 0..Number - 1 : table'.ids[n + 1] = table.ids[n + 1]
  BY <1>1, <1>2, <1>3 DEF Number
<1>5. \A n : Until(n)' = Until(n)
  BY <1>2 DEF Until, MetaAt
<1>6. \A n : Dropped(n)' = Dropped(n) /\ Current(n)' = Current(n)
  BY <1>2, <1>5 DEF Dropped, BitsHas, Current
<1>7. Unused'
  BY <1>3, <1>4, <1>5, <1>6 DEF NumbersFit, Unused
<1>8. Numbered'
  <2> SUFFICES ASSUME NEW id \in Ids, Known(id)'
               PROVE  table'.ids[nums'[id] + 1] = id /\ ~Dropped(nums'[id])
                      /\ Until(nums'[id]) = 0
    BY <1>5, <1>6 DEF Numbered
  <2>1. CASE id = w.id
    BY <1>1, <1>3, <1>4, <2>1 DEF NumbersFit, Unused
  <2>2. CASE id # w.id
    <3>1. nums'[id] = nums[id] /\ nums[id] \in 0..Number - 1
      BY <1>1, <2>2 DEF Known
    <3>2. Known(id)
      BY <3>1 DEF Known
    <3>3. QED
      BY <1>1, <1>4, <3>1, <3>2 DEF NumbersFit, Numbered
  <2>3. QED
    BY <2>1, <2>2
<1>9. Owned'
  <2> SUFFICES ASSUME NEW n \in 0..Number, Current(n) PROVE nums'[table'.ids[n + 1]] = n
    BY <1>3, <1>4, <1>6 DEF Owned
  <2>1. CASE n = Number
    BY <1>1, <1>4, <2>1
  <2>2. CASE n # Number
    <3>1. n \in 0..Number - 1 /\ table.ids[n + 1] \in Ids
      BY <1>3, <2>2
    <3>2. nums[table.ids[n + 1]] = n
      BY <1>1, <3>1 DEF NumbersFit, Owned, Pending, Replacing
    <3>3. table.ids[n + 1] # w.id
      BY <1>1, <3>1, <3>2 DEF NumbersFit, CallFits, Known, NoNumber
    <3>4. QED
      BY <1>1, <1>4, <3>1, <3>2, <3>3
  <2>3. QED
    BY <2>1, <2>2
<1>10. CallFits'
  BY <1>1 DEF CallFits, Replacing
<1>11. QED
  BY <1>7, <1>8, <1>9, <1>10 DEF NumbersFit

\* Nothing that h.nums is about changes.
LEMMA NumbersSame ==
    ASSUME WriterInv, NumbersFit, UNCHANGED <<nums, w>>,
           table'.ids = table.ids, table'.version = table.version,
           \A n \in Nat : Until(n)' = Until(n) /\ (Dropped(n)' <=> Dropped(n))
    PROVE  NumbersFit'
<1>1. /\ Number' = Number /\ Number \in Nat /\ nums \in [Ids -> {NoNumber} \cup 0..Number - 1]
      /\ \A n \in Nat : Current(n)' <=> Current(n)
      /\ \A id : Known(id)' = Known(id) /\ \A n : Pending(n)' = Pending(n)
      /\ Replacing' = Replacing /\ Ending' = Ending
  BY TableParts DEF WriterInv, Current, Number, Known, Replacing, Ending, Pending
<1>2. Unused'
  BY <1>1 DEF NumbersFit, Unused
<1>3. \A id \in Ids : Known(id) => nums[id] \in Nat
  BY <1>1 DEF Known
<1>4. Numbered'
  BY <1>1, <1>3 DEF NumbersFit, Numbered
<1>5. Owned'
  BY <1>1 DEF NumbersFit, Owned
<1>6. CallFits'
  <2>1. Replacing => w.num \in Nat /\ w.old \in Nat
    BY <1>1, <1>3 DEF NumbersFit, CallFits, Replacing, WriterInv, WriterFits
  <2>2. w.pc = "forget" => w.num \in Nat
    BY DEF WriterInv, WriterFits
  <2>3. QED
    BY <1>1, <2>1, <2>2 DEF NumbersFit, CallFits
<1>7. QED
  BY <1>2, <1>4, <1>5, <1>6 DEF NumbersFit

\* A grown meta or bitset says the same of every number.
LEMMA NumbersGrow ==
    ASSUME WriterInv, NumbersFit, MetaGrow \/ BitGrow
    PROVE  NumbersFit'
<1>1. /\ table \in Tables /\ UNCHANGED <<nums, w>> /\ w \in Writers
  BY DEF MetaGrow, BitGrow, WriterInv
<1>2. CASE MetaGrow
  <2> DEFINE a == Len(table.meta)
             cur == IF a = 0 THEN <<>> ELSE table.meta[a]
             len == Most(2 * Len(cur), w.target + 1)
             new == [i \in 1..len |-> IF i <= Len(cur) THEN cur[i] ELSE NoMeta]
  <2>1. table' = [table EXCEPT !.meta = Append(@, new)]
    BY <1>2 DEF MetaGrow
  <2>2. /\ table'.ids = table.ids /\ table'.removed = table.removed
        /\ table'.version = table.version /\ table'.meta = Append(table.meta, new)
    <3> HIDE DEF new
    <3> QED
      BY <1>1, <2>1 DEF Tables
  <2>3. cur \in Seq(MetaWords) /\ a \in Nat /\ w.target \in Nat
    BY <1>1, <1>2, TableParts DEF MetaGrow, WriterInv, WriterFits
  <2>4. len \in Nat /\ len >= Len(cur)
    <3> HIDE DEF cur
    <3> QED
      BY <2>3 DEF Most
  <2>5. Len(table'.meta) = a + 1 /\ table'.meta[a + 1] = new
    <3> HIDE DEF new
    <3> QED
      BY <1>1, <2>2, <2>3, TableParts
  <2>6. Len(new) = len
    <3> HIDE DEF len, cur
    <3> QED
      BY <2>4
  <2>7. ASSUME NEW n \in Nat PROVE Until(n)' = Until(n)
    <3>1. MetaAt(table', a + 1, n) = IF n < Len(cur) THEN cur[n + 1] ELSE NoMeta
      <4>1. MetaAt(table', a + 1, n) = IF n < len THEN new[n + 1] ELSE NoMeta
        <5> HIDE DEF new, len, cur
        <5> QED
          BY <2>3, <2>5, <2>6 DEF MetaAt
      <4>2. n < len => new[n + 1] = IF n + 1 <= Len(cur) THEN cur[n + 1] ELSE NoMeta
        <5> HIDE DEF len, cur
        <5> QED
          BY <2>4
      <4> HIDE DEF new, len, cur
      <4>3. QED
        BY <2>3, <2>4, <4>1, <4>2
    <3>2. MetaAt(table, a, n) = IF n < Len(cur) THEN cur[n + 1] ELSE NoMeta
      BY DEF MetaAt
    <3> HIDE DEF new, len, cur
    <3>3. QED
      BY <2>5, <3>1, <3>2 DEF Until
  <2>8. \A n : Dropped(n)' = Dropped(n)
    BY <2>2 DEF Dropped, BitsHas
  <2>9. QED
    BY <1>1, <2>2, <2>7, <2>8, NumbersSame
<1>3. CASE BitGrow
  <2> DEFINE a == Len(table.removed)
             cur == IF a = 0 THEN [len |-> 0, bits |-> {}] ELSE table.removed[a]
             len == Most(2 * cur.len, w.num \div WordBits + 1)
             new == [cur EXCEPT !.len = len]
  <2>1. table' = [table EXCEPT !.removed = Append(@, new)]
    BY <1>3 DEF BitGrow
  <2>2. /\ table'.ids = table.ids /\ table'.meta = table.meta
        /\ table'.version = table.version /\ table'.removed = Append(table.removed, new)
    <3> HIDE DEF new
    <3> QED
      BY <1>1, <2>1 DEF Tables
  <2>3. cur \in Bits /\ a \in Nat
    <3>1. CASE a = 0
      BY <3>1 DEF Bits
    <3>2. CASE a # 0
      BY <1>1, <3>2, TableParts
    <3>3. QED
      BY <3>1, <3>2
  <2>4. new.bits = cur.bits
    <3> HIDE DEF cur, len
    <3> QED
      BY <2>3 DEF Bits
  <2>5. Len(table'.removed) = a + 1 /\ table'.removed[a + 1] = new
    <3> HIDE DEF new
    <3> QED
      BY <1>1, <2>2, <2>3, TableParts
  <2>6. ASSUME NEW n \in Nat PROVE Dropped(n)' <=> Dropped(n)
    <3>1. BitsHas(table, a, n) <=> n \in cur.bits
      BY DEF BitsHas
    <3>2. BitsHas(table', a + 1, n) <=> n \in cur.bits
      <4> HIDE DEF cur, new
      <4> QED
        BY <2>3, <2>4, <2>5 DEF BitsHas
    <3> HIDE DEF cur, new
    <3>3. QED
      BY <2>5, <3>1, <3>2 DEF Dropped
  <2>7. \A n : Until(n)' = Until(n)
    BY <2>2 DEF Until, MetaAt
  <2>8. QED
    BY <1>1, <2>2, <2>6, <2>7, NumbersSame
<1>4. QED
  BY <1>2, <1>3

\* The span of a number that ids does not have, or one that ends in a version
\* to come, hides no rule.
LEMMA NumbersMetaSpan ==
    ASSUME WriterInv, NumbersFit, MetaSpan
    PROVE  NumbersFit'
<1> DEFINE a == Len(table.meta)
           i == w.target + 1
           f == IF w.target = w.num THEN w.v ELSE w.from
           u == IF w.target = w.num THEN 0 ELSE w.v
           x == [table.meta[a][i] EXCEPT !.from = f, !.until = u]
<1>1. /\ w.pc = "span" /\ a # 0 /\ w.target < Len(table.meta[a])
      /\ table' = [table EXCEPT !.meta[a][i] = [@ EXCEPT !.from = f, !.until = u]]
      /\ w' = [w EXCEPT !.pc = "order"] /\ nums' = nums
  BY DEF MetaSpan
<1>2. /\ table \in Tables /\ w \in Writers /\ w.target \in Nat /\ w.num \in Nat
      /\ w.target = w.num => w.num = Number
      /\ w.target # w.num => w.num < Number
      /\ w.old \in Nat /\ w.old < w.num /\ w.id \in Ids
      /\ nums \in [Ids -> {NoNumber} \cup 0..Number - 1]
  BY <1>1 DEF WriterInv, WriterFits, NumbersFit, CallFits, Number, Writers
<1>2a. Number \in Nat /\ table.version \in Nat
  BY <1>2, TableParts DEF Number
<1>3. /\ a \in 1..a /\ table.meta \in Seq(Seq(MetaWords))
      /\ table.meta[a] \in Seq(MetaWords) /\ i \in 1..Len(table.meta[a])
      /\ table.meta[a][i] \in MetaWords
  BY <1>1, <1>2, TableParts
<1>4. x.until = u
  <2> HIDE DEF f, u
  <2> QED
    BY <1>3 DEF MetaWords
<1>5. table' = [table EXCEPT !.meta[a][i] = x]
  BY <1>1
<1>6. /\ table'.ids = table.ids /\ table'.removed = table.removed
      /\ table'.version = table.version
      /\ Len(table'.meta) = a /\ Len(table'.meta[a]) = Len(table.meta[a])
      /\ table'.meta[a] = [table.meta[a] EXCEPT ![i] = x]
  <2>1. table.meta # <<>> /\ x \in MetaWords
    <3>1. f \in Nat /\ u \in Nat
      BY <1>2 DEF Writers
    <3>2. table.meta[a][i] \in MetaWords
      BY <1>3
    <3>3. table.meta # <<>>
      BY <1>1
    <3> HIDE DEF f, u
    <3>4. QED
      BY <3>1, <3>2, <3>3 DEF MetaWords
  <2> HIDE DEF x, i
  <2>2. QED
    BY <1>2, <1>3, <1>5, <2>1, MetaStored
<1>7. \A n \in Nat : Until(n)' = IF n = w.target THEN u ELSE Until(n)
  <2> SUFFICES ASSUME NEW n \in Nat
               PROVE  Until(n)' = IF n = w.target THEN u ELSE Until(n)
    OBVIOUS
  <2>1. MetaAt(table', a, n) = IF n = w.target THEN x ELSE MetaAt(table, a, n)
    <3>1. a # 0 /\ a \in Nat /\ w.target < Len(table.meta[a])
      BY <1>1, <1>3
    <3> HIDE DEF x, a
    <3>2. QED
      BY <1>2, <1>3, <1>6, <3>1 DEF MetaAt
  <2> HIDE DEF u, x
  <2>2. QED
    BY <1>4, <1>6, <2>1 DEF Until
<1>8. \A n : Dropped(n)' = Dropped(n)
  BY <1>6 DEF Dropped, BitsHas
<1>8a. u = IF w.target = w.num THEN 0 ELSE w.v
  OBVIOUS
<1> HIDE DEF a, i, f, u, x
<1>9. /\ w'.pc = "order" /\ w'.id = w.id /\ w'.num = w.num /\ w'.target = w.target
      /\ w'.old = w.old /\ w'.v = w.v
  BY <1>1, <1>2 DEF Writers
<1>10. /\ Known(w.id) /\ w.old = nums[w.id] /\ w.v = table.version + 1
       /\ ~Dropped(w.num) /\ Until(w.num) = 0
       /\ w.num < Number => table.ids[w.num + 1] = w.id
       /\ w.target \in {w.old, w.num} /\ w.old # NoNumber
  BY <1>1 DEF NumbersFit, CallFits, Replacing
<1>11. Number' = Number /\ \A id : Known(id)' = Known(id)
  BY <1>1, <1>6 DEF Number, Known
<1>12. ~Ending /\ (Ending' <=> w.target # w.num) /\ Replacing' /\ Replacing
  BY <1>1, <1>9, <1>10 DEF Ending, Replacing
<1>13. Unused'
  BY <1>2, <1>2a, <1>7, <1>8, <1>8a, <1>10, <1>11 DEF NumbersFit, Unused
<1>14. Numbered'
  <2> SUFFICES ASSUME NEW id \in Ids, Known(id)
               PROVE  /\ ~Dropped(nums[id]) /\ table.ids[nums[id] + 1] = id
                      /\ Until(nums[id])' # 0 => w.target # w.num /\ id = w.id
    BY <1>1, <1>6, <1>8, <1>9, <1>10, <1>11, <1>12 DEF Numbered
  <2>1. nums[id] \in Nat
    BY <1>2, <1>2a DEF Known
  <2>2. /\ ~Dropped(nums[id]) /\ Until(nums[id]) = 0 /\ table.ids[nums[id] + 1] = id
    BY <1>1, <1>12 DEF NumbersFit, Numbered
  <2>3. nums[id] = w.old => id = w.id
    BY <1>2, <1>10, OwnNumber DEF NumbersFit
  <2>4. Until(nums[id])' # 0 => nums[id] = w.target /\ w.target # w.num
    BY <1>1, <1>7, <1>8a, <2>1, <2>2
  <2>5. QED
    BY <1>10, <2>2, <2>3, <2>4
<1>15. Owned'
  <2> SUFFICES ASSUME NEW n \in 0..Number - 1, Current(n)', ~Pending(n)
               PROVE  nums[table.ids[n + 1]] = n
    BY <1>1, <1>6, <1>9, <1>11, <1>12 DEF Owned, Pending
  <2>1. ~Dropped(n)
    BY <1>8 DEF Current
  <2>2. CASE n = w.target
    <3>1. n = w.old
      BY <1>10, <1>12, <2>2 DEF Pending
    <3>2. QED
      BY <1>2, <1>10, <3>1 DEF NumbersFit, Numbered
  <2>3. CASE n # w.target
    <3>1. Current(n)
      BY <1>6, <1>7, <2>1, <2>3 DEF Current
    <3>2. QED
      BY <3>1 DEF NumbersFit, Owned
  <2>4. QED
    BY <2>2, <2>3
<1>16. CallFits'
  BY <1>1, <1>2, <1>6, <1>7, <1>8, <1>8a, <1>9, <1>10, <1>11, <1>12 DEF CallFits
<1>17. QED
  BY <1>13, <1>14, <1>15, <1>16 DEF NumbersFit

\* The call goes on and the numbers mean what they meant.
LEMMA NumbersOn ==
    ASSUME WriterInv, NumbersFit, nums' = nums,
           table'.ids = table.ids, table'.version = table.version,
           \A n \in Nat : Until(n)' = Until(n) /\ (Dropped(n)' <=> Dropped(n)),
           w.pc # "forget", Replacing => Replacing' /\ w'.num = w.num,
           Ending /\ w.old # NoNumber => Ending' /\ w'.id = w.id /\ w'.old # NoNumber,
           CallFits'
    PROVE  NumbersFit'
<1>1. /\ Number' = Number /\ Number \in Nat /\ nums \in [Ids -> {NoNumber} \cup 0..Number - 1]
      /\ \A n \in Nat : Current(n)' <=> Current(n)
      /\ \A id : Known(id)' = Known(id)
      /\ \A n : Pending(n) => Pending(n)'
  BY TableParts DEF WriterInv, Current, Number, Known, Pending
<1>2. Unused'
  BY <1>1 DEF NumbersFit, Unused
<1>3. \A id \in Ids : Known(id) => nums[id] \in Nat
  BY <1>1 DEF Known
<1>4. Numbered'
  BY <1>1, <1>3 DEF NumbersFit, Numbered
<1>5. Owned'
  BY <1>1 DEF NumbersFit, Owned
<1>6. QED
  BY <1>2, <1>4, <1>5 DEF NumbersFit

\* An order key hides no rule.
LEMMA NumbersMetaOrder ==
    ASSUME WriterInv, NumbersFit, MetaOrder
    PROVE  NumbersFit'
<1> DEFINE a == Len(table.meta)
           i == w.target + 1
           x == [table.meta[a][i] EXCEPT !.ord = w.key + 1]
<1>1. /\ w.pc = "order" /\ a # 0 /\ w.target < Len(table.meta[a])
      /\ table' = [table EXCEPT !.meta[a][i].ord = w.key + 1]
      /\ w' = [w EXCEPT !.pc = IF w.target = w.num THEN "ids" ELSE "version"]
      /\ nums' = nums
  BY DEF MetaOrder, WriterInv, WriterFits
<1>2. /\ table \in Tables /\ w \in Writers /\ w.target \in Nat /\ w.key + 1 \in Nat
      /\ w.old \in Nat /\ w.num \in Nat
  BY <1>1 DEF WriterInv, WriterFits, Writers, NumbersFit, CallFits
<1>3. /\ a \in 1..a /\ table.meta \in Seq(Seq(MetaWords)) /\ table.meta # <<>>
      /\ table.meta[a] \in Seq(MetaWords) /\ i \in 1..Len(table.meta[a])
      /\ table.meta[a][i] \in MetaWords
  BY <1>1, <1>2, TableParts
<1>4. x \in MetaWords /\ x.until = table.meta[a][i].until
  BY <1>2, <1>3 DEF MetaWords
<1>5. table' = [table EXCEPT !.meta[a][i] = x]
  <2> HIDE DEF i
  <2> QED
    BY <1>1, <1>2, <1>3 DEF Tables
<1>6. /\ table'.ids = table.ids /\ table'.removed = table.removed
      /\ table'.version = table.version
      /\ Len(table'.meta) = a /\ Len(table'.meta[a]) = Len(table.meta[a])
      /\ table'.meta[a] = [table.meta[a] EXCEPT ![i] = x]
  <2> HIDE DEF x, i
  <2> QED
    BY <1>2, <1>3, <1>4, <1>5, MetaStored
<1>7. ASSUME NEW n \in Nat PROVE Until(n)' = Until(n)
  <2>1. MetaAt(table', a, n) = IF n = w.target THEN x ELSE MetaAt(table, a, n)
    <3>1. a # 0 /\ a \in Nat /\ w.target < Len(table.meta[a])
      BY <1>1, <1>3
    <3> HIDE DEF x, a
    <3>2. QED
      BY <1>2, <1>3, <1>6, <3>1 DEF MetaAt
  <2>2. n = w.target => MetaAt(table, a, n) = table.meta[a][i]
    BY <1>1 DEF MetaAt
  <2> HIDE DEF x, i, a
  <2>3. MetaAt(table', a, n).until = MetaAt(table, a, n).until
    BY <1>4, <2>1, <2>2
  <2>4. QED
    BY <1>6, <2>3 DEF Until, a
<1>8. \A n : Dropped(n)' = Dropped(n)
  BY <1>6 DEF Dropped, BitsHas
<1>9. /\ w'.pc = IF w.target = w.num THEN "ids" ELSE "version"
      /\ w'.id = w.id /\ w'.num = w.num /\ w'.old = w.old /\ w'.v = w.v
  BY <1>1, <1>2 DEF Writers
<1>10. /\ Known(w.id)' = Known(w.id) /\ Number' = Number
  BY <1>1, <1>6 DEF Known, Number
<1> HIDE DEF a, i, x
<1>11. /\ Replacing /\ Replacing' /\ w.old # NoNumber
       /\ Ending <=> w.target # w.num
       /\ Ending' <=> w.target # w.num
  BY <1>1, <1>9 DEF Replacing, Ending, NumbersFit, CallFits
<1>12. CallFits'
  BY <1>1, <1>2, <1>6, <1>7, <1>8, <1>9, <1>10, <1>11 DEF NumbersFit, CallFits
<1>13. QED
  BY <1>1, <1>6, <1>7, <1>8, <1>9, <1>11, <1>12, NumbersOn

\* trie.insert hides no rule.
LEMMA NumbersInsert ==
    ASSUME WriterInv, NumbersFit, LowerMinKey \/ Follow \/ LinkAbsent \/ AddNumber
    PROVE  NumbersFit'
<1>1. /\ w.pc \in {"lower", "follow", "link", "rule"} /\ nums' = nums
      /\ table \in Tables /\ w \in Writers
      /\ \/ table' = table
         \/ table' = [table EXCEPT !.minKey[Here] = w.key + 1]
         \/ table' = [table EXCEPT !.hasAbsent = TRUE]
         \/ table' = [table EXCEPT !.edges = @ \cup {Child}]
         \/ table' = [table EXCEPT !.rules[Here] = @ \cup {w.num}]
  BY DEF LowerMinKey, Follow, LinkAbsent, AddNumber, WriterInv
<1>2. /\ table'.ids = table.ids /\ table'.meta = table.meta
      /\ table'.removed = table.removed /\ table'.version = table.version
  BY <1>1 DEF Tables
<1>3. /\ w'.id = w.id /\ w'.num = w.num /\ w'.old = w.old /\ w'.v = w.v
      /\ \/ w'.pc \in {"lower", "follow", "link", "rule"}
         \/ w'.pc = "span" /\ w'.target = w.old /\ w.old # NoNumber
         \/ w'.pc = "unlock" /\ w.old = NoNumber
  <2>1. CASE LowerMinKey
    BY <1>1, <2>1 DEF LowerMinKey, Writers
  <2>2. CASE Follow
    BY <1>1, <2>2 DEF Follow, Writers
  <2>3. CASE LinkAbsent
    BY <1>1, <2>3 DEF LinkAbsent, Writers
  <2>4. CASE AddNumber
    BY <1>1, <2>4 DEF AddNumber, Writers
  <2>5. QED
    BY <2>1, <2>2, <2>3, <2>4
<1>4. /\ Number' = Number
      /\ \A n : Until(n)' = Until(n) /\ Dropped(n)' = Dropped(n)
      /\ \A id : Known(id)' = Known(id)
  BY <1>1, <1>2, TableKept
<1>5. Replacing => Replacing'
  BY <1>1, <1>3 DEF Replacing
<1>6. ~Ending /\ (Ending' => w'.pc \notin {"lower", "follow", "link", "rule", "span", "unlock"})
  BY <1>1, <1>3 DEF Ending
<1>7. CallFits'
  <2>1. Replacing' => Replacing
    BY <1>1, <1>3 DEF Replacing
  <2>2. Replacing => Until(w.num)' = 0 /\ ~Dropped(w.num)'
    BY <1>3, <1>4 DEF NumbersFit, CallFits
  <2>3. QED
    BY <1>1, <1>2, <1>3, <1>4, <1>6, <2>1, <2>2 DEF NumbersFit, CallFits
<1>8. QED
  BY <1>1, <1>2, <1>3, <1>4, <1>5, <1>6, <1>7, NumbersOn

\* The number of a replacement becomes current beside the one it replaces.
LEMMA NumbersPublishId ==
    ASSUME WriterInv, NumbersFit, PublishId
    PROVE  NumbersFit'
<1>1. /\ w.pc = "ids" /\ w.id \in Ids /\ w \in Writers /\ w.num = Number
      /\ table' = [table EXCEPT !.ids = Append(@, w.id)] /\ table \in Tables
      /\ nums' = nums /\ nums \in [Ids -> {NoNumber} \cup 0..Number - 1]
      /\ w' = [w EXCEPT !.pc = "lower"]
  BY DEF PublishId, WriterInv, WriterFits, Number
<1>2. /\ table'.ids = Append(table.ids, w.id) /\ table'.meta = table.meta
      /\ table'.removed = table.removed /\ table'.version = table.version
  BY <1>1 DEF Tables
<1>3. table.ids \in Seq(Ids) /\ Number \in Nat /\ Len(table.ids) = Number
  BY <1>1, TableParts DEF Number
<1>4. /\ Number' = Number + 1 /\ table'.ids[Number + 1] = w.id
      /\ \A n \in 0..Number - 1 : table'.ids[n + 1] = table.ids[n + 1]
  BY <1>1, <1>2, <1>3 DEF Number
<1>5. \A n : Until(n)' = Until(n)
  BY <1>2 DEF Until, MetaAt
<1>6. \A n : Dropped(n)' = Dropped(n) /\ Current(n)' = Current(n)
  BY <1>2, <1>5 DEF Dropped, BitsHas, Current
<1>7. /\ w'.pc = "lower" /\ w'.id = w.id /\ w'.num = w.num /\ w'.old = w.old /\ w'.v = w.v
  BY <1>1 DEF Writers
<1>8. /\ w.old # NoNumber /\ Replacing /\ Replacing' /\ ~Ending /\ ~Ending'
      /\ \A id : Known(id)' = Known(id)
  BY <1>1, <1>7 DEF NumbersFit, CallFits, Replacing, Ending, Known
<1>9. Unused'
  BY <1>3, <1>4, <1>5, <1>6 DEF NumbersFit, Unused
<1>10. Numbered'
  <2> SUFFICES ASSUME NEW id \in Ids, Known(id)
               PROVE  table'.ids[nums[id] + 1] = id /\ ~Dropped(nums[id]) /\ Until(nums[id]) = 0
    BY <1>1, <1>5, <1>6, <1>8 DEF Numbered
  <2>1. nums[id] \in 0..Number - 1
    BY <1>1 DEF Known
  <2>2. QED
    BY <1>1, <1>4, <1>8, <2>1 DEF NumbersFit, Numbered
<1>11. Owned'
  <2> SUFFICES ASSUME NEW n \in 0..Number, Current(n), n # Number
               PROVE  nums[table'.ids[n + 1]] = n
    BY <1>1, <1>3, <1>4, <1>6, <1>7, <1>8 DEF Owned, Pending
  <2>1. n \in 0..Number - 1
    BY <1>3
  <2>2. QED
    BY <1>1, <1>4, <2>1 DEF NumbersFit, Owned, Pending
<1>12. CallFits'
  BY <1>1, <1>2, <1>4, <1>5, <1>6, <1>7, <1>8 DEF NumbersFit, CallFits
<1>13. QED
  BY <1>9, <1>10, <1>11, <1>12 DEF NumbersFit

\* The version in which a span ends is a number.
LEMMA UntilType ==
    ASSUME WriterInv, NEW n \in Nat
    PROVE  Until(n) \in Nat
<1>1. table \in Tables /\ Len(table.meta) \in 0..Len(table.meta)
  BY TableParts DEF WriterInv
<1>2. QED
  BY <1>1, MetaType DEF Until, MetaWords

\* The version ends the replaced number and no other.
LEMMA NumbersPublishVersion ==
    ASSUME WriterInv, NumbersFit, PublishVersion
    PROVE  NumbersFit'
<1>1. /\ w.pc = "version" /\ w \in Writers /\ table \in Tables /\ nums' = nums
      /\ table' = [table EXCEPT !.version = w.v]
      /\ w' = [w EXCEPT !.pc = "retire"]
      /\ nums \in [Ids -> {NoNumber} \cup 0..Number - 1]
  BY DEF PublishVersion, WriterInv, Number
<1>2. /\ table'.ids = table.ids /\ table'.meta = table.meta
      /\ table'.removed = table.removed /\ table'.version = w.v
  BY <1>1 DEF Tables
<1>3. Number' = Number /\ Number \in Nat /\ table.version \in Nat
  BY <1>1, <1>2, TableParts DEF Number
<1>4. \A n : Until(n)' = Until(n)
  BY <1>2 DEF Until, MetaAt
<1>5. \A n : Dropped(n)' = Dropped(n)
  BY <1>2 DEF Dropped, BitsHas
<1>6. /\ w'.pc = "retire" /\ w'.id = w.id /\ w'.num = w.num /\ w'.old = w.old /\ w'.v = w.v
  BY <1>1 DEF Writers
<1>7. /\ w.old # NoNumber /\ Replacing /\ Replacing' /\ Ending /\ Ending'
      /\ \A id : Known(id)' = Known(id) /\ \A n : Pending(n)' = Pending(n)
  BY <1>1, <1>6 DEF NumbersFit, CallFits, Replacing, Ending, Known, Pending
<1>8. w.v = table.version + 1
  BY <1>1, <1>7 DEF NumbersFit, CallFits
<1>9. \A n \in Nat : Current(n)' => Current(n)
  <2> SUFFICES ASSUME NEW n \in Nat, Current(n)' PROVE Current(n)
    OBVIOUS
  <2>1. Until(n) \in Nat
    BY UntilType
  <2>2. QED
    BY <1>2, <1>3, <1>4, <1>5, <1>8, <2>1 DEF Current
<1>10. Unused'
  BY <1>3, <1>4, <1>5 DEF NumbersFit, Unused
<1>11. Numbered'
  BY <1>1, <1>2, <1>4, <1>5, <1>6, <1>7 DEF NumbersFit, Numbered
<1>12. Owned'
  BY <1>1, <1>2, <1>3, <1>7, <1>9 DEF NumbersFit, Owned
<1>13. CallFits'
  BY <1>1, <1>2, <1>3, <1>4, <1>5, <1>6, <1>7, <1>8 DEF NumbersFit, CallFits
<1>14. QED
  BY <1>10, <1>11, <1>12, <1>13 DEF NumbersFit

\* The call is over, or compact follows: CallFits asks nothing any more.
LEMMA CallOver ==
    ASSUME w' = IdleWriter \/ w' = [w EXCEPT !.pc = "compact"], w \in Writers
    PROVE  CallFits' /\ ~Replacing' /\ ~Ending' /\ w'.pc # "forget"
<1>1. w'.pc \in {"idle", "compact"}
  BY DEF IdleWriter, Writers
<1>2. QED
  BY <1>1 DEF CallFits, Replacing, Ending

\* h.nums moves to the replacement, the only current number of its identifier.
LEMMA NumbersRetire ==
    ASSUME WriterInv, NumbersFit, Retire
    PROVE  NumbersFit'
<1>1. /\ w.pc = "retire" /\ w.id \in Ids /\ w \in Writers /\ UNCHANGED table
      /\ nums' = [nums EXCEPT ![w.id] = w.num] /\ w.num \in 0..Number - 1
      /\ w' = IdleWriter \/ w' = [w EXCEPT !.pc = "compact"]
      /\ nums \in [Ids -> {NoNumber} \cup 0..Number - 1]
  BY DEF Retire, CountDead, Return, WriterInv, WriterFits, Number
<1>2. /\ Number' = Number /\ Number \in Nat /\ table.ids \in Seq(Ids) /\ Len(table.ids) = Number
  BY <1>1, TableParts DEF Number, WriterInv
<1>3. /\ \A n : Until(n)' = Until(n)
      /\ \A n : Dropped(n)' = Dropped(n) /\ Current(n)' = Current(n)
  BY <1>1 DEF Until, Dropped, Current
<1>4. CallFits' /\ ~Replacing'
  BY <1>1, CallOver
<1>5. /\ Known(w.id) /\ w.old = nums[w.id] /\ ~Dropped(w.num) /\ Until(w.num) = 0
      /\ table.ids[w.num + 1] = w.id /\ Until(w.old) = table.version /\ table.version # 0
  BY <1>1, <1>2 DEF NumbersFit, CallFits, Replacing, Ending
<1>6. Unused'
  BY <1>2, <1>3 DEF NumbersFit, Unused
<1>7. Numbered'
  <2> SUFFICES ASSUME NEW id \in Ids, Known(id)'
               PROVE  /\ table.ids[nums'[id] + 1] = id /\ ~Dropped(nums'[id])
                      /\ Until(nums'[id]) = 0
    BY <1>1, <1>3 DEF Numbered
  <2>1. CASE id = w.id
    BY <1>1, <1>5, <2>1
  <2>2. CASE id # w.id
    <3>1. nums'[id] = nums[id] /\ Known(id)
      BY <1>1, <2>2 DEF Known
    <3>2. QED
      BY <1>1, <2>2, <3>1 DEF NumbersFit, Numbered
  <2>3. QED
    BY <2>1, <2>2
<1>8. Owned'
  <2> SUFFICES ASSUME NEW n \in 0..Number - 1, Current(n) PROVE nums'[table.ids[n + 1]] = n
    BY <1>1, <1>2, <1>3 DEF Owned
  <2>1. table.ids[n + 1] \in Ids
    BY <1>2
  <2>2. CASE n = w.num
    BY <1>1, <1>5, <2>2
  <2>3. CASE n # w.num
    <3>1. nums[table.ids[n + 1]] = n
      BY <2>3 DEF NumbersFit, Owned, Pending
    <3>2. table.ids[n + 1] = w.id => n = w.old
      BY <1>5, <3>1
    <3>3. table.version \in Nat
      BY TableParts DEF WriterInv
    <3>4. n # w.old
      BY <1>5, <3>3 DEF Current
    <3>5. QED
      BY <1>1, <2>1, <3>1, <3>2, <3>4
  <2>4. QED
    BY <2>2, <2>3
<1>9. QED
  BY <1>4, <1>6, <1>7, <1>8 DEF NumbersFit

\* The bit drops the number of the identifier being removed and no other.
LEMMA NumbersBitSet ==
    ASSUME WriterInv, NumbersFit, BitSet
    PROVE  NumbersFit'
<1>1. /\ w.pc = "bit" /\ w.id \in Ids /\ w \in Writers /\ nums' = nums /\ w.num \in Nat
      /\ w' = [w EXCEPT !.pc = "forget"] /\ Len(table.removed) # 0
      /\ nums \in [Ids -> {NoNumber} \cup 0..Number - 1]
  BY DEF BitSet, WriterInv, WriterFits, Number
<1>2. /\ table'.ids = table.ids /\ table'.meta = table.meta /\ table'.version = table.version
      /\ Len(table'.removed) = Len(table.removed)
      /\ table'.removed[Len(table.removed)].bits
            = table.removed[Len(table.removed)].bits \cup {w.num}
  BY StepBitSet
<1>3. Number' = Number /\ Number \in Nat
  BY <1>1, <1>2, TableParts DEF Number, WriterInv
<1>4. \A n : Until(n)' = Until(n)
  BY <1>2 DEF Until, MetaAt
<1>5. \A n : Dropped(n)' <=> Dropped(n) \/ n = w.num
  BY <1>1, <1>2 DEF Dropped, BitsHas
<1>6. w'.pc = "forget" /\ w'.id = w.id /\ w'.num = w.num
  BY <1>1 DEF Writers
<1>7. Known(w.id) /\ w.num = nums[w.id] /\ w.num < Number /\ \A id : Known(id)' = Known(id)
  BY <1>1, <1>3 DEF NumbersFit, CallFits, Known
<1>8. ~Replacing' /\ ~Ending' /\ ~Replacing /\ ~Ending
  BY <1>1, <1>6 DEF Replacing, Ending
<1>9. Unused'
  BY <1>3, <1>4, <1>5, <1>7 DEF NumbersFit, Unused
<1>10. Numbered'
  <2> SUFFICES ASSUME NEW id \in Ids, Known(id)
               PROVE  /\ table.ids[nums[id] + 1] = id /\ Until(nums[id]) = 0
                      /\ Dropped(nums[id]) \/ nums[id] = w.num => id = w.id
    BY <1>1, <1>2, <1>4, <1>5, <1>6, <1>7 DEF Numbered
  <2>1. nums[id] = w.num => id = w.id
    BY <1>1, <1>7, OwnNumber DEF NumbersFit
  <2>2. QED
    BY <1>1, <1>8, <2>1 DEF NumbersFit, Numbered
<1>11. Owned'
  <2>1. \A n : Current(n)' => Current(n)
    BY <1>2, <1>4, <1>5 DEF Current
  <2>2. QED
    BY <1>1, <1>2, <1>3, <1>8, <2>1 DEF NumbersFit, Owned, Pending
<1>12. CallFits'
  BY <1>1, <1>5, <1>6, <1>7, <1>8 DEF CallFits
<1>13. QED
  BY <1>9, <1>10, <1>11, <1>12 DEF NumbersFit

\* h.nums forgets a number that the bit has dropped.
LEMMA NumbersForget ==
    ASSUME WriterInv, NumbersFit, Forget
    PROVE  NumbersFit'
<1>1. /\ w.pc = "forget" /\ w.id \in Ids /\ w \in Writers /\ UNCHANGED table
      /\ nums' = [nums EXCEPT ![w.id] = NoNumber]
      /\ w' = IdleWriter \/ w' = [w EXCEPT !.pc = "compact"]
      /\ nums \in [Ids -> {NoNumber} \cup 0..Number - 1]
  BY DEF Forget, CountDead, Return, WriterInv, WriterFits, Number
<1>2. /\ Number' = Number /\ Number \in Nat /\ table.ids \in Seq(Ids) /\ Len(table.ids) = Number
  BY <1>1, TableParts DEF Number, WriterInv
<1>3. /\ \A n : Until(n)' = Until(n)
      /\ \A n : Dropped(n)' = Dropped(n) /\ Current(n)' = Current(n)
  BY <1>1 DEF Until, Dropped, Current
<1>4. CallFits' /\ ~Replacing'
  BY <1>1, CallOver
<1>5. Known(w.id) /\ w.num = nums[w.id] /\ Dropped(w.num) /\ ~Ending /\ ~Replacing
  BY <1>1 DEF NumbersFit, CallFits, Ending, Replacing
<1>6. Unused'
  BY <1>2, <1>3 DEF NumbersFit, Unused
<1>7. Numbered'
  <2> SUFFICES ASSUME NEW id \in Ids, Known(id)'
               PROVE  /\ table.ids[nums'[id] + 1] = id /\ ~Dropped(nums'[id])
                      /\ Until(nums'[id]) = 0
    BY <1>1, <1>3 DEF Numbered
  <2>1. nums'[id] = nums[id] /\ Known(id) /\ id # w.id
    BY <1>1 DEF Known
  <2>2. QED
    BY <1>1, <1>5, <2>1 DEF NumbersFit, Numbered
<1>8. Owned'
  <2> SUFFICES ASSUME NEW n \in 0..Number - 1, Current(n) PROVE nums'[table.ids[n + 1]] = n
    BY <1>1, <1>2, <1>3 DEF Owned
  <2>1. table.ids[n + 1] \in Ids
    BY <1>2
  <2>2. nums[table.ids[n + 1]] = n
    BY <1>5 DEF NumbersFit, Owned, Pending
  <2>3. table.ids[n + 1] # w.id
    BY <1>5, <2>2 DEF Current
  <2>4. QED
    BY <1>1, <2>1, <2>2, <2>3
<1>9. QED
  BY <1>4, <1>6, <1>7, <1>8 DEF NumbersFit

-----------------------------------------------------------------------------
(* compact.                                                                *)

\* compact keeps the current numbers, a finite set with keys to sort by.
LEMMA LiveParts ==
    ASSUME WriterInv
    PROVE  /\ Live \in SUBSET Nat /\ IsFiniteSet(Live) /\ Cardinality(Live) \in Nat
           /\ \A n : n \in Live <=> n \in 0..Number - 1 /\ Current(n)
           /\ \A n \in Live : Keys[n] \in Nat
<1>1. Number \in Nat /\ table \in Tables /\ Len(table.meta) \in 0..Len(table.meta)
  BY TableParts DEF WriterInv, Number
<1>2. \A n : n \in Live <=> n \in 0..Number - 1 /\ Current(n)
  BY DEF Live, Current, Dropped, Until
<1>3. Live \in SUBSET (0..Number - 1)
  BY <1>2
<1>4. IsFiniteSet(0..Number - 1)
  <2>1. 0 \in Int /\ Number - 1 \in Int
    BY <1>1
  <2>2. QED
    BY <2>1, FS_Interval
<1>5. IsFiniteSet(Live) /\ Cardinality(Live) \in Nat
  BY <1>3, <1>4, FS_Subset, FS_CardinalityType
<1>6. ASSUME NEW n \in Live PROVE Keys[n] \in Nat
  <2>1. n \in Nat
    BY <1>3
  <2>2. Order(table, n) \in Nat
    BY <1>1, <2>1, MetaType DEF Order
  <2>3. QED
    BY <2>2 DEF Keys
<1>7. Live \in SUBSET Nat
  BY <1>3
<1>8. QED
  BY <1>2, <1>5, <1>6, <1>7

\* When no call is in the middle of it, the numbers that compact keeps are the
\* numbers of the present identifiers.
LEMMA LiveOwners ==
    ASSUME WriterInv, NumbersFit, ~Replacing, w.pc # "forget"
    PROVE  /\ \A id \in Ids : Known(id) => nums[id] \in Live /\ table.ids[nums[id] + 1] = id
           /\ \A n \in Live : table.ids[n + 1] \in Ids /\ nums[table.ids[n + 1]] = n
<1>1. /\ Live \in SUBSET Nat
      /\ \A n : n \in Live <=> n \in 0..Number - 1 /\ Current(n)
  BY LiveParts
<1>2. table.ids \in Seq(Ids) /\ Len(table.ids) = Number
  BY TableParts DEF WriterInv, Number
<1>3. ASSUME NEW n \in Live PROVE table.ids[n + 1] \in Ids /\ nums[table.ids[n + 1]] = n
  BY <1>1, <1>2 DEF NumbersFit, Owned, Pending
<1>4. Ending => w.old = NoNumber
  BY DEF Ending, Replacing
<1>5. ASSUME NEW id \in Ids, Known(id)
      PROVE  nums[id] \in Live /\ table.ids[nums[id] + 1] = id
  <2>1. /\ table.ids[nums[id] + 1] = id /\ ~Dropped(nums[id]) /\ Until(nums[id]) = 0
    BY <1>4, <1>5 DEF NumbersFit, Numbered
  <2>2. nums[id] \in 0..Number - 1
    BY <1>5 DEF WriterInv, Number, Known
  <2>3. QED
    BY <1>1, <2>1, <2>2 DEF Current
<1>6. QED
  BY <1>3, <1>5

\* The numbers that compact gives to the rules it keeps are their positions in
\* the order of the keys, and the identifiers go along.
LEMMA CompactedParts ==
    ASSUME WriterInv
    PROVE  /\ Compacted \in Tables /\ Compacted.meta = <<>> /\ Compacted.removed = <<>>
           /\ Compacted.version = 0
           /\ Len(Compacted.ids) = Cardinality(Live) /\ Cardinality(Live) \in Nat
           /\ \A n \in Live : /\ Renum(n) \in 0..Cardinality(Live) - 1
                              /\ Compacted.ids[Renum(n) + 1] = table.ids[n + 1]
           /\ \A j \in 0..Cardinality(Live) - 1 : \E n \in Live : Renum(n) = j
<1> DEFINE C == Cardinality(Live)
           ns == Sorted(Live, Keys)
           ids == [i \in 1..C |-> table.ids[ns[i] + 1]]
           at == [p \in Paths |-> {Renum(n) : n \in table.rules[p] \cap Live}]
<1>1. /\ Live \in SUBSET Nat /\ IsFiniteSet(Live) /\ C \in Nat
      /\ \A n \in Live : n \in 0..Number - 1 /\ Keys[n] \in Nat
  BY LiveParts
<1>2. table.ids \in Seq(Ids) /\ Len(table.ids) = Number /\ Number \in Nat
  BY TableParts DEF WriterInv, Number
<1>3. \A i \in 1..C : ns[i] \in Live /\ Renum(ns[i]) = i - 1
  BY <1>1, SortedInSet DEF Renum
<1>4. \A n \in Live : Renum(n) \in 0..C - 1
  BY <1>1, RankBelow DEF Renum
<1>5. \A a, b \in Live : Renum(a) = Renum(b) => a = b
  BY <1>1, RankUnique DEF Renum
<1> HIDE DEF ns, C
<1>6. ids \in Seq(Ids) /\ Len(ids) = C
  <2>1. \A n \in Live : table.ids[n + 1] \in Ids
    BY <1>1, <1>2
  <2>2. \A i \in 1..C : table.ids[ns[i] + 1] \in Ids
    BY <1>3, <2>1
  <2>3. QED
    BY <1>1, <2>2
<1>7. at \in [Paths -> SUBSET Nat]
  <2>1. \A n \in Live : Renum(n) \in Nat
    BY <1>1, <1>4
  <2>2. ASSUME NEW p \in Paths PROVE {Renum(n) : n \in table.rules[p] \cap Live} \in SUBSET Nat
    BY <2>1
  <2>3. QED
    BY <2>2
<1>8. Compacted = NewTable(ids, at)
  BY DEF Compacted, C, ns
<1>9. ASSUME NEW n \in Live PROVE ids[Renum(n) + 1] = table.ids[n + 1]
  <2>1. Renum(n) + 1 \in 1..C /\ Renum(n) \in Nat
    BY <1>1, <1>4
  <2>2. ns[Renum(n) + 1] \in Live /\ Renum(ns[Renum(n) + 1]) = Renum(n)
    BY <1>3, <2>1
  <2>3. ns[Renum(n) + 1] = n
    BY <1>5, <2>2
  <2>4. QED
    BY <2>1, <2>3
<1>10. ASSUME NEW j \in 0..C - 1 PROVE \E n \in Live : Renum(n) = j
  <2>1. j + 1 \in 1..C
    BY <1>1
  <2>2. ns[j + 1] \in Live /\ Renum(ns[j + 1]) = (j + 1) - 1
    BY <1>3, <2>1
  <2>3. QED
    BY <2>2
<1> HIDE DEF ids, at
<1>11. /\ Compacted \in Tables /\ Compacted.ids = ids
       /\ Compacted.meta = <<>> /\ Compacted.removed = <<>> /\ Compacted.version = 0
  BY <1>6, <1>7, <1>8, NewTableType DEF NewTable
<1>12. QED
  BY <1>1, <1>4, <1>6, <1>9, <1>10, <1>11 DEF C

\* compact keeps the number of every present identifier, and forgets no other.
LEMMA StepCompact ==
    ASSUME WriterInv, NumbersFit, Compact
    PROVE  WriterInv' /\ NumbersFit'
<1> DEFINE C == Cardinality(Live)
           Owns(id, n) == n \in Live /\ table.ids[n + 1] = id
<1>1. /\ w.pc = "compact" /\ table' = Compacted /\ dead' = 0 /\ w' = IdleWriter
      /\ UNCHANGED <<hasTab, count>>
      /\ nums' = [id \in Ids |->
                    IF \E n \in Live : table.ids[n + 1] = id
                    THEN Renum(CHOOSE n \in Live : table.ids[n + 1] = id)
                    ELSE nums[id]]
  BY DEF Compact, Return
<1>2. /\ Live \in SUBSET Nat
      /\ \A n : n \in Live <=> n \in 0..Number - 1 /\ Current(n)
  BY LiveParts
<1>3. /\ table' \in Tables /\ table'.meta = <<>> /\ table'.removed = <<>>
      /\ Len(table'.ids) = C /\ C \in Nat /\ Number' = C
      /\ \A n \in Live : Renum(n) \in 0..C - 1 /\ table'.ids[Renum(n) + 1] = table.ids[n + 1]
      /\ \A j \in 0..C - 1 : \E n \in Live : Renum(n) = j
  BY <1>1, CompactedParts DEF Number
<1>4. ~Replacing /\ w.pc # "forget"
  BY <1>1 DEF Replacing
<1>5. \A n \in Live : table.ids[n + 1] \in Ids /\ nums[table.ids[n + 1]] = n
  BY <1>4, LiveOwners
<1>6. ASSUME NEW id \in Ids, Known(id) PROVE Owns(id, nums[id])
  BY <1>4, <1>6, LiveOwners
<1>7. ASSUME NEW n \in Live PROVE nums'[table.ids[n + 1]] = Renum(n)
  <2> DEFINE m == CHOOSE x \in Live : table.ids[x + 1] = table.ids[n + 1]
  <2>1. m \in Live /\ table.ids[m + 1] = table.ids[n + 1]
    OBVIOUS
  <2>2. m = n
    <3> HIDE DEF m
    <3> QED
      BY <1>5, <2>1
  <2>3. nums'[table.ids[n + 1]] = Renum(m)
    BY <1>1, <1>5
  <2>4. QED
    BY <2>2, <2>3
<1>8. ASSUME NEW id \in Ids
      PROVE  nums'[id] = NoNumber \/ \E n \in Live : table.ids[n + 1] = id /\ nums'[id] = Renum(n)
  <2>1. CASE \E n \in Live : table.ids[n + 1] = id
    BY <1>7, <2>1
  <2>2. CASE ~ \E n \in Live : table.ids[n + 1] = id
    <3>1. ~Known(id)
      BY <1>6, <2>2
    <3>2. QED
      BY <1>1, <2>2, <3>1 DEF Known
  <2>3. QED
    BY <2>1, <2>2
<1>9. nums' \in [Ids -> {NoNumber} \cup 0..Len(table'.ids) - 1]
  <2>1. \A id \in Ids : nums'[id] \in {NoNumber} \cup 0..C - 1
    BY <1>3, <1>8
  <2> HIDE DEF C
  <2>2. QED
    BY <1>1, <1>3, <2>1
<1>10. IdleWriter \in Writers
  <2>1. 0 \in Nat /\ 1 \in Nat \ {0}
    OBVIOUS
  <2>2. QED
    BY <2>1 DEF IdleWriter, Writers
<1>11. WriterFits'
  BY <1>1 DEF IdleWriter, WriterFits, Inserting
<1>12. WriterInv'
  BY <1>1, <1>3, <1>9, <1>10, <1>11 DEF WriterInv
<1>13. \A n : ~Dropped(n)' /\ Until(n)' = 0
  BY <1>3 DEF Dropped, Until, BitsHas, MetaAt, NoMeta
<1>14. CallFits' /\ ~Replacing'
  BY <1>1, CallOver DEF WriterInv
<1>15. Unused'
  BY <1>13 DEF Unused
<1>16. Numbered'
  <2> SUFFICES ASSUME NEW id \in Ids, nums'[id] # NoNumber PROVE table'.ids[nums'[id] + 1] = id
    BY <1>13 DEF Numbered, Known
  <2>1. QED
    BY <1>3, <1>8
<1>17. Owned'
  <2> SUFFICES ASSUME NEW j \in 0..C - 1 PROVE nums'[table'.ids[j + 1]] = j
    BY <1>3 DEF Owned
  <2>1. QED
    BY <1>3, <1>7
<1>18. QED
  BY <1>12, <1>14, <1>15, <1>16, <1>17 DEF NumbersFit

-----------------------------------------------------------------------------
(* Readers.                                                                *)

\* The scratch and the table of one reader fit.
LEMMA ReaderParts ==
    ASSUME ReaderInv, table \in Tables, NEW r \in Readers
    PROVE  /\ rd[r] \in Scratches /\ Tab(r) \in Tables
           /\ Within(rd[r], Tab(r)) /\ ScratchFits(rd[r])
  BY DEF ReaderInv, Tab, ReadersInBounds, ReadersFit, Within

\* The writer lengthens the arrays of the table, and compact leaves the table
\* itself to the readers that have loaded it.
LEMMA WriterKeepsReaders ==
    ASSUME ReaderInv, table \in Tables, table' \in Tables, UNCHANGED <<rd, old>>, Grown
    PROVE  ReaderInv'
<1>1. ASSUME NEW r \in Readers PROVE Within(rd[r], Tab(r)')
  <2>1. rd[r] \in Scratches /\ Within(rd[r], Tab(r))
    BY ReaderParts
  <2>2. rd[r].limit \in Nat /\ rd[r].meta \in Nat /\ rd[r].removed \in Nat
    BY <2>1 DEF Scratches
  <2>3. CASE rd[r].stale
    BY <2>1, <2>3 DEF Tab
  <2>4. CASE ~rd[r].stale
    <3>1. Tab(r) = table /\ Tab(r)' = table'
      BY <2>4 DEF Tab
    <3>2. /\ Len(table.ids) \in Nat /\ Len(table.meta) \in Nat /\ Len(table.removed) \in Nat
          /\ Len(table'.ids) \in Nat /\ Len(table'.meta) \in Nat /\ Len(table'.removed) \in Nat
      BY TableParts
    <3>3. QED
      BY <2>1, <2>2, <3>1, <3>2 DEF Within, Grown
  <2>5. QED
    BY <2>3, <2>4
<1>2. ReadersInBounds'
  BY <1>1 DEF ReadersInBounds, Within
<1>3. QED
  BY <1>2 DEF ReaderInv, ReadersFit

\* A reader in the middle of a call keeps the table that compact replaces.
LEMMA CompactKeepsReaders ==
    ASSUME ReaderInv, table \in Tables, table' \in Tables, Compact
    PROVE  ReaderInv'
<1>1. /\ old' = [r \in Readers |-> IF Reading(r) /\ ~rd[r].stale THEN table ELSE old[r]]
      /\ rd' = [r \in Readers |-> [rd[r] EXCEPT !.stale = @ \/ Reading(r)]]
  BY DEF Compact
<1>2. ASSUME NEW r \in Readers
      PROVE  /\ rd'[r] \in Scratches /\ old'[r] \in Tables
             /\ Within(rd'[r], Tab(r)') /\ ScratchFits(rd'[r])
  <2>1. rd[r] \in Scratches /\ Within(rd[r], Tab(r)) /\ ScratchFits(rd[r]) /\ old[r] \in Tables
    BY ReaderParts DEF ReaderInv
  <2>2. old'[r] \in Tables
    BY <1>1, <2>1
  <2>3. rd'[r] = [rd[r] EXCEPT !.stale = @ \/ Reading(r)]
    BY <1>1
  <2>4. CASE Reading(r)
    <3>1. rd'[r] = [rd[r] EXCEPT !.stale = TRUE]
      BY <2>3, <2>4
    <3>2. /\ rd'[r] \in Scratches /\ rd'[r].stale = TRUE /\ rd'[r].pc = rd[r].pc
          /\ rd'[r].limit = rd[r].limit /\ rd'[r].meta = rd[r].meta
          /\ rd'[r].removed = rd[r].removed /\ rd'[r].kept = rd[r].kept
          /\ rd'[r].best = rd[r].best /\ rd'[r].bestKey = rd[r].bestKey
      BY <2>1, <3>1 DEF Scratches
    <3>3. Tab(r)' = Tab(r)
      BY <1>1, <2>4, <3>2 DEF Tab
    <3>4. rd[r].pc \notin {"idle", "done"}
      BY <2>4 DEF Reading
    <3>5. QED
      BY <2>1, <2>2, <3>2, <3>3, <3>4 DEF Within, ScratchFits
  <2>5. CASE ~Reading(r)
    <3>1. rd[r].pc \in {"idle", "done"}
      BY <2>5 DEF Reading
    <3>2. /\ rd'[r] \in Scratches /\ rd'[r].stale = FALSE /\ rd'[r].pc = rd[r].pc
          /\ rd'[r].limit = rd[r].limit /\ rd'[r].meta = rd[r].meta
          /\ rd'[r].removed = rd[r].removed /\ rd'[r].kept = rd[r].kept
          /\ rd'[r].best = rd[r].best /\ rd'[r].bestKey = rd[r].bestKey
      <4>1. rd'[r] = [rd[r] EXCEPT !.stale = FALSE]
        BY <2>1, <2>3, <2>5, <3>1 DEF ScratchFits
      <4>2. QED
        BY <2>1, <4>1 DEF Scratches
    <3>3. Tab(r)' = table'
      BY <3>2 DEF Tab
    <3>4. Len(table'.ids) \in Nat /\ Len(table'.meta) \in Nat /\ Len(table'.removed) \in Nat
      BY TableParts
    <3>5. Within(rd'[r], table')
      BY <2>1, <3>1, <3>2, <3>4 DEF Within, ScratchFits, NoNumber
    <3>6. ScratchFits(rd'[r])
      BY <2>1, <3>1, <3>2 DEF ScratchFits
    <3>7. QED
      BY <2>2, <3>2, <3>3, <3>5, <3>6
  <2>6. QED
    BY <2>4, <2>5
<1>3. rd' \in [Readers -> Scratches] /\ old' \in [Readers -> Tables]
  <2>1. rd' = [r \in Readers |-> rd'[r]] /\ old' = [r \in Readers |-> old'[r]]
    BY <1>1
  <2>2. QED
    BY <1>2, <2>1
<1>4. ReadersInBounds' /\ ReadersFit'
  BY <1>2 DEF ReadersInBounds, ReadersFit, Within
<1>5. QED
  BY <1>3, <1>4 DEF ReaderInv

\* A step of one reader, which leaves s in its scratch.
LEMMA OneReader ==
    ASSUME ReaderInv, table \in Tables, UNCHANGED wvars, NEW r \in Readers,
           NEW s \in Scratches, rd' = [rd EXCEPT ![r] = s], ScratchFits(s),
           \/ old' = old /\ s.stale = rd[r].stale /\ Within(s, Tab(r))
           \/ /\ old' = old \/ old' = [old EXCEPT ![r] = EmptyTable]
              /\ s.stale = FALSE /\ Within(s, table)
    PROVE  ReaderInv'
<1>1. rd \in [Readers -> Scratches] /\ old \in [Readers -> Tables] /\ EmptyTable \in Tables
  BY EmptyTableType DEF ReaderInv
<1>2. rd' \in [Readers -> Scratches] /\ old' \in [Readers -> Tables]
  BY <1>1
<1>3. table' = table
  BY DEF wvars
<1>4. ASSUME NEW q \in Readers PROVE Within(rd'[q], Tab(q)') /\ ScratchFits(rd'[q])
  <2>1. CASE q = r
    <3>1. rd'[q] = s
      BY <1>1, <2>1
    <3>2. Within(s, Tab(q)')
      BY <1>3, <2>1, <3>1 DEF Tab
    <3>3. QED
      BY <3>1, <3>2
  <2>2. CASE q # r
    <3>1. rd'[q] = rd[q] /\ old'[q] = old[q]
      BY <1>1, <2>2
    <3>2. Tab(q)' = Tab(q)
      BY <1>3, <3>1 DEF Tab
    <3>3. QED
      BY <3>1, <3>2, ReaderParts
  <2>3. QED
    BY <2>1, <2>2
<1>5. ReadersInBounds' /\ ReadersFit'
  BY <1>4 DEF ReadersInBounds, ReadersFit, Within
<1>6. QED
  BY <1>2, <1>5 DEF ReaderInv

\* A released scratch has the type.
LEMMA IdleReaderType == IdleReader \in Scratches
<1>1. MaxRules \in Nat /\ 0 \in Nat /\ <<>> \in Seq(Ids)
  BY ConstantsAssumption
<1>2. QED
  BY <1>1 DEF IdleReader, Scratches

\* A scratch that holds nothing, whatever it has returned.
LEMMA EmptyScratch ==
    ASSUME table \in Tables, NEW s \in Scratches,
           s.kept = {}, s.best = NoNumber, s.bestKey = MaxRules,
           s.stale = FALSE, s.limit = 0, s.meta = 0, s.removed = 0
    PROVE  ScratchFits(s) /\ Within(s, table)
<1>1. ScratchFits(s)
  BY DEF ScratchFits
<1>2. Within(s, table)
  BY TableParts DEF Within, NoNumber
<1>3. QED
  BY <1>1, <1>2

\* A call that starts has loaded nothing yet.
LEMMA ReadMatch ==
    ASSUME ReaderInv, table \in Tables, hasTab \in BOOLEAN, NEW r \in Readers,
           NEW e \in Events, NEW first \in Firsts, Match(r, e, first)
    PROVE  ReaderInv'
<1> DEFINE pc == IF hasTab THEN "version" ELSE "done"
           s == [IdleReader EXCEPT !.pc = pc, !.ev = e, !.first = first]
<1>1. UNCHANGED <<wvars, old>> /\ rd' = [rd EXCEPT ![r] = s]
  BY DEF Match
<1>2. /\ first \in BOOLEAN
      /\ pc \in {"idle", "version", "ids", "meta", "removed", "absent", "visit", "done"}
  BY ConstantsAssumption
<1> HIDE DEF pc
<1>3. s \in Scratches
  BY <1>2, IdleReaderType DEF Scratches
<1>4. /\ s.kept = {} /\ s.best = NoNumber /\ s.bestKey = MaxRules
      /\ s.stale = FALSE /\ s.limit = 0 /\ s.meta = 0 /\ s.removed = 0
  BY DEF IdleReader
<1> HIDE DEF s
<1>5. QED
  BY <1>1, <1>3, <1>4, EmptyScratch, OneReader

\* Nor has a reader that rests.
LEMMA ReadRest ==
    ASSUME ReaderInv, table \in Tables, NEW r \in Readers, Rest(r)
    PROVE  ReaderInv'
<1> DEFINE s == IdleReader
<1>1. UNCHANGED <<wvars, old>> /\ rd' = [rd EXCEPT ![r] = s]
  BY DEF Rest
<1>2. s \in Scratches
  BY IdleReaderType
<1>3. /\ s.kept = {} /\ s.best = NoNumber /\ s.bestKey = MaxRules
      /\ s.stale = FALSE /\ s.limit = 0 /\ s.meta = 0 /\ s.removed = 0
  BY DEF IdleReader
<1> HIDE DEF s
<1>4. QED
  BY <1>1, <1>2, <1>3, EmptyScratch, OneReader

\* begin: an array that a reader holds is never taken away, and what it has
\* found lies below the limit it loads.
LEMMA ReadLoad ==
    ASSUME ReaderInv, table \in Tables, NEW r \in Readers,
           \/ LoadVersion(r) \/ LoadIds(r) \/ LoadMeta(r) \/ LoadRemoved(r) \/ LoadAbsent(r)
    PROVE  ReaderInv'
<1>1. /\ rd[r] \in Scratches /\ Tab(r) \in Tables /\ rd \in [Readers -> Scratches]
      /\ Within(rd[r], Tab(r)) /\ ScratchFits(rd[r])
  BY ReaderParts DEF ReaderInv
<1>2. /\ Tab(r).version \in Nat /\ Len(Tab(r).ids) \in Nat /\ Len(Tab(r).meta) \in Nat
      /\ Len(Tab(r).removed) \in Nat /\ Tab(r).hasAbsent \in BOOLEAN
  BY <1>1, TableParts
<1>3. UNCHANGED <<wvars, old>>
  BY DEF LoadVersion, LoadIds, LoadMeta, LoadRemoved, LoadAbsent
<1>4. CASE LoadVersion(r)
  <2> DEFINE s == [rd[r] EXCEPT !.pc = "ids", !.version = Tab(r).version]
  <2>1. rd' = [rd EXCEPT ![r] = s]
    BY <1>1, <1>4 DEF LoadVersion
  <2>2. s \in Scratches /\ s.stale = rd[r].stale /\ ScratchFits(s) /\ Within(s, Tab(r))
    BY <1>1, <1>2 DEF Scratches, ScratchFits, Within
  <2> HIDE DEF s
  <2>3. QED
    BY <1>3, <2>1, <2>2, OneReader
<1>5. CASE LoadIds(r)
  <2> DEFINE s == [rd[r] EXCEPT !.pc = "meta", !.limit = Len(Tab(r).ids)]
  <2>1. rd' = [rd EXCEPT ![r] = s]
    BY <1>1, <1>5 DEF LoadIds
  <2>2. s \in Scratches
    BY <1>1, <1>2 DEF Scratches
  <2>3. /\ s.pc = "meta" /\ s.limit = Len(Tab(r).ids)
        /\ s.stale = rd[r].stale /\ s.meta = rd[r].meta /\ s.removed = rd[r].removed
        /\ s.kept = rd[r].kept /\ s.best = rd[r].best /\ s.bestKey = rd[r].bestKey
    BY <1>1 DEF Scratches
  <2> HIDE DEF s
  <2>4. ScratchFits(s)
    BY <1>1, <2>3 DEF ScratchFits
  <2>5. Within(s, Tab(r))
    BY <1>1, <1>2, <2>2, <2>3 DEF Within, Scratches, NoNumber
  <2>6. QED
    BY <1>3, <2>1, <2>2, <2>3, <2>4, <2>5, OneReader
<1>6. CASE LoadMeta(r)
  <2> DEFINE s == [rd[r] EXCEPT !.pc = "removed", !.meta = Len(Tab(r).meta)]
  <2>1. rd' = [rd EXCEPT ![r] = s]
    BY <1>1, <1>6 DEF LoadMeta
  <2>2. s \in Scratches
    BY <1>1, <1>2 DEF Scratches
  <2>3. /\ s.pc = "removed" /\ s.meta = Len(Tab(r).meta)
        /\ s.stale = rd[r].stale /\ s.limit = rd[r].limit /\ s.removed = rd[r].removed
        /\ s.kept = rd[r].kept /\ s.best = rd[r].best /\ s.bestKey = rd[r].bestKey
    BY <1>1 DEF Scratches
  <2> HIDE DEF s
  <2>4. ScratchFits(s)
    BY <1>1, <2>3 DEF ScratchFits
  <2>5. Within(s, Tab(r))
    BY <1>1, <1>2, <2>2, <2>3 DEF Within, Scratches, NoNumber
  <2>6. QED
    BY <1>3, <2>1, <2>2, <2>3, <2>4, <2>5, OneReader
<1>7. CASE LoadRemoved(r)
  <2> DEFINE s == [rd[r] EXCEPT !.pc = "absent", !.removed = Len(Tab(r).removed)]
  <2>1. rd' = [rd EXCEPT ![r] = s]
    BY <1>1, <1>7 DEF LoadRemoved
  <2>2. s \in Scratches
    BY <1>1, <1>2 DEF Scratches
  <2>3. /\ s.pc = "absent" /\ s.removed = Len(Tab(r).removed)
        /\ s.stale = rd[r].stale /\ s.limit = rd[r].limit /\ s.meta = rd[r].meta
        /\ s.kept = rd[r].kept /\ s.best = rd[r].best /\ s.bestKey = rd[r].bestKey
    BY <1>1 DEF Scratches
  <2> HIDE DEF s
  <2>4. ScratchFits(s)
    BY <1>1, <2>3 DEF ScratchFits
  <2>5. Within(s, Tab(r))
    BY <1>1, <1>2, <2>2, <2>3 DEF Within, Scratches, NoNumber
  <2>6. QED
    BY <1>3, <2>1, <2>2, <2>3, <2>4, <2>5, OneReader
<1>8. CASE LoadAbsent(r)
  <2> DEFINE s == [rd[r] EXCEPT !.pc = "visit", !.absent = Tab(r).hasAbsent, !.todo = {<<>>}]
  <2>1. rd' = [rd EXCEPT ![r] = s]
    BY <1>1, <1>8 DEF LoadAbsent
  <2>2. {<<>>} \in SUBSET Paths
    BY DEF Paths
  <2>3. s \in Scratches /\ s.stale = rd[r].stale /\ ScratchFits(s) /\ Within(s, Tab(r))
    BY <1>1, <1>2, <2>2 DEF Scratches, ScratchFits, Within
  <2> HIDE DEF s
  <2>4. QED
    BY <1>3, <2>1, <2>3, OneReader
<1>9. QED
  BY <1>4, <1>5, <1>6, <1>7, <1>8

\* Visiting a state collects numbers, which need not be below limit yet.
LEMMA ReadVisit ==
    ASSUME ReaderInv, table \in Tables, NEW r \in Readers, NEW p \in rd[r].todo, Visit(r, p)
    PROVE  ReaderInv'
<1> DEFINE pruned == (p # <<>> /\ p \notin Tab(r).edges) \/ Prunes(r, p)
           todo == (rd[r].todo \ {p}) \cup (IF pruned THEN {} ELSE Children(r, p))
           cand == IF pruned THEN rd[r].cand ELSE IF rd[r].first THEN Tab(r).rules[p] ELSE {}
           out == IF pruned THEN rd[r].out
                  ELSE IF rd[r].first THEN {} ELSE rd[r].out \cup Tab(r).rules[p]
           s == [rd[r] EXCEPT !.todo = todo, !.cand = cand, !.out = out]
<1>1. /\ rd[r] \in Scratches /\ Tab(r) \in Tables /\ rd \in [Readers -> Scratches]
      /\ Within(rd[r], Tab(r)) /\ ScratchFits(rd[r])
  BY ReaderParts DEF ReaderInv
<1>2. UNCHANGED <<wvars, old>>
  BY DEF Visit
<1>3. p \in Paths /\ Tab(r).rules[p] \in SUBSET Nat
  <2>1. p \in Paths
    BY <1>1 DEF Scratches
  <2>2. QED
    BY <1>1, <2>1, TableParts
<1>4. todo \in SUBSET Paths /\ cand \in SUBSET Nat /\ out \in SUBSET Nat
  <2>1. rd[r].todo \in SUBSET Paths /\ rd[r].cand \in SUBSET Nat /\ rd[r].out \in SUBSET Nat
    BY <1>1 DEF Scratches
  <2>2. Children(r, p) \in SUBSET Paths
    BY DEF Children
  <2> HIDE DEF pruned
  <2>3. QED
    BY <1>3, <2>1, <2>2
<1>5. rd' = [rd EXCEPT ![r] = s]
  <2>1. CASE pruned
    <3>1. rd' = [rd EXCEPT ![r].todo = @ \ {p}]
      BY <2>1 DEF Visit
    <3>2. todo = rd[r].todo \ {p} /\ cand = rd[r].cand /\ out = rd[r].out
      BY <2>1
    <3> HIDE DEF todo, cand, out
    <3>3. s = [rd[r] EXCEPT !.todo = rd[r].todo \ {p}]
      BY <1>1, <3>2 DEF Scratches
    <3>4. QED
      BY <1>1, <3>1, <3>3
  <2>2. CASE ~pruned
    <3>1. rd' = [rd EXCEPT
                    ![r].todo = (@ \ {p}) \cup Children(r, p),
                    ![r].cand = IF rd[r].first THEN Tab(r).rules[p] ELSE {},
                    ![r].out = IF rd[r].first THEN {} ELSE @ \cup Tab(r).rules[p]]
      BY <2>2 DEF Visit
    <3>2. /\ todo = (rd[r].todo \ {p}) \cup Children(r, p)
          /\ cand = IF rd[r].first THEN Tab(r).rules[p] ELSE {}
          /\ out = IF rd[r].first THEN {} ELSE rd[r].out \cup Tab(r).rules[p]
      BY <2>2
    <3> HIDE DEF todo, cand, out
    <3>3. QED
      BY <1>1, <3>1, <3>2
  <2>3. QED
    BY <2>1, <2>2
<1> HIDE DEF todo, cand, out
<1>6. s \in Scratches
  BY <1>1, <1>4 DEF Scratches
<1>7. /\ s.pc = rd[r].pc /\ s.stale = rd[r].stale /\ s.limit = rd[r].limit /\ s.meta = rd[r].meta
      /\ s.removed = rd[r].removed /\ s.kept = rd[r].kept /\ s.best = rd[r].best
      /\ s.bestKey = rd[r].bestKey
  BY <1>1 DEF Scratches
<1> HIDE DEF s
<1>8. ScratchFits(s) /\ Within(s, Tab(r))
  BY <1>1, <1>7 DEF ScratchFits, Within
<1>9. QED
  BY <1>2, <1>5, <1>6, <1>7, <1>8, OneReader

\* An order key is a number.
LEMMA KeyType ==
    ASSUME ReaderInv, table \in Tables, NEW r \in Readers, NEW n \in Nat
    PROVE  Key(r, n) \in Nat
<1>1. rd[r].meta \in 0..Len(Tab(r).meta) /\ Tab(r) \in Tables
  <2>1. rd[r] \in Scratches /\ Tab(r) \in Tables /\ Within(rd[r], Tab(r))
    BY ReaderParts
  <2>2. rd[r].meta \in Nat /\ rd[r].meta <= Len(Tab(r).meta)
    BY <2>1 DEF Scratches, Within
  <2>3. QED
    BY <2>1, <2>2, TableParts
<1>2. QED
  BY <1>1, MetaType DEF Key

\* MatchFirst takes a number as the best one only if it is visible, hence below
\* limit.
LEMMA ReadConsider ==
    ASSUME ReaderInv, table \in Tables, NEW r \in Readers, NEW n \in rd[r].cand, Consider(r, n)
    PROVE  ReaderInv'
<1> DEFINE better == Visible(r, n) /\ Key(r, n) < rd[r].bestKey
           best == IF better THEN n ELSE rd[r].best
           bestKey == IF better THEN Key(r, n) ELSE rd[r].bestKey
           s == [rd[r] EXCEPT !.cand = rd[r].cand \ {n}, !.best = best, !.bestKey = bestKey]
<1>1. /\ rd[r] \in Scratches /\ Tab(r) \in Tables /\ rd \in [Readers -> Scratches]
      /\ Within(rd[r], Tab(r)) /\ ScratchFits(rd[r])
  BY ReaderParts DEF ReaderInv
<1>2. /\ UNCHANGED <<wvars, old>> /\ rd[r].pc = "visit"
      /\ rd' = [rd EXCEPT
                ![r].cand = @ \ {n},
                ![r].best = IF Visible(r, n) /\ Key(r, n) < rd[r].bestKey THEN n ELSE @,
                ![r].bestKey = IF Visible(r, n) /\ Key(r, n) < @ THEN Key(r, n) ELSE @]
  BY DEF Consider
<1>3. n \in Nat /\ Key(r, n) \in Nat
  <2>1. n \in Nat
    BY <1>1 DEF Scratches
  <2>2. QED
    BY <2>1, KeyType
<1>4. rd' = [rd EXCEPT ![r] = s]
  BY <1>1, <1>2
<1>5. best \in Nat \cup {NoNumber} /\ bestKey \in Nat /\ best < rd[r].limit
  <2>1. rd[r].best \in Nat \cup {NoNumber} /\ rd[r].bestKey \in Nat /\ rd[r].best < rd[r].limit
    BY <1>1 DEF Scratches, Within
  <2>2. better => n < rd[r].limit
    BY DEF Visible
  <2> HIDE DEF better
  <2>3. QED
    BY <1>3, <2>1, <2>2
<1>6. bestKey # MaxRules => best # NoNumber
  <2>1. n # NoNumber
    BY <1>3 DEF NoNumber
  <2> HIDE DEF better
  <2>2. QED
    BY <1>1, <2>1 DEF ScratchFits
<1> HIDE DEF better, best, bestKey
<1>7. s \in Scratches
  BY <1>1, <1>5 DEF Scratches
<1>8. /\ s.pc = "visit" /\ s.stale = rd[r].stale /\ s.limit = rd[r].limit /\ s.meta = rd[r].meta
      /\ s.removed = rd[r].removed /\ s.kept = rd[r].kept /\ s.best = best
      /\ s.bestKey = bestKey
  BY <1>1, <1>2 DEF Scratches
<1> HIDE DEF s
<1>9. ScratchFits(s) /\ Within(s, Tab(r))
  BY <1>1, <1>5, <1>6, <1>8 DEF ScratchFits, Within
<1>10. QED
  BY <1>2, <1>4, <1>7, <1>8, <1>9, OneReader

\* results keeps a number only if it is visible, hence below limit.
LEMMA ReadFilter ==
    ASSUME ReaderInv, table \in Tables, NEW r \in Readers, Filter(r)
    PROVE  ReaderInv'
<1> DEFINE n == Least(rd[r].out)
           kept == IF Visible(r, n) THEN rd[r].kept \cup {n} ELSE rd[r].kept
           s == [rd[r] EXCEPT !.out = rd[r].out \ {n}, !.kept = kept]
<1>1. /\ rd[r] \in Scratches /\ Tab(r) \in Tables /\ rd \in [Readers -> Scratches]
      /\ Within(rd[r], Tab(r)) /\ ScratchFits(rd[r])
  BY ReaderParts DEF ReaderInv
<1>2. /\ UNCHANGED <<wvars, old>> /\ rd[r].pc = "visit" /\ rd[r].out # {}
      /\ rd' = [rd EXCEPT ![r].out = @ \ {n},
                          ![r].kept = IF Visible(r, n) THEN @ \cup {n} ELSE @]
  BY DEF Filter
<1>3. n \in Nat
  <2>1. rd[r].out \in SUBSET Nat
    BY <1>1 DEF Scratches
  <2>2. QED
    BY <1>2, <2>1, LeastIsLeast
<1> HIDE DEF n
<1>4. rd' = [rd EXCEPT ![r] = s]
  BY <1>1, <1>2
<1>5. kept \in SUBSET Nat /\ \A m \in kept : m < rd[r].limit
  <2>1. rd[r].kept \in SUBSET Nat /\ \A m \in rd[r].kept : m < rd[r].limit
    BY <1>1 DEF Scratches, Within
  <2>2. Visible(r, n) => n < rd[r].limit
    BY DEF Visible
  <2>3. QED
    BY <1>3, <2>1, <2>2
<1> HIDE DEF kept
<1>6. s \in Scratches
  BY <1>1, <1>5 DEF Scratches
<1>7. /\ s.pc = "visit" /\ s.stale = rd[r].stale /\ s.limit = rd[r].limit /\ s.meta = rd[r].meta
      /\ s.removed = rd[r].removed /\ s.kept = kept /\ s.best = rd[r].best
      /\ s.bestKey = rd[r].bestKey
  BY <1>1, <1>2 DEF Scratches
<1> HIDE DEF s
<1>8. ScratchFits(s) /\ Within(s, Tab(r))
  BY <1>1, <1>5, <1>7 DEF ScratchFits, Within
<1>9. QED
  BY <1>2, <1>4, <1>6, <1>7, <1>8, OneReader

\* What a call returns is made of identifiers: the numbers it has kept lie
\* below its limit, so ids has them, and they are finitely many.
LEMMA ReadReturn ==
    ASSUME ReaderInv, table \in Tables, NEW r \in Readers, ReturnFirst(r) \/ ReturnMatches(r)
    PROVE  ReaderInv'
<1>1. /\ rd[r] \in Scratches /\ Tab(r) \in Tables
      /\ Within(rd[r], Tab(r)) /\ ScratchFits(rd[r])
  BY ReaderParts
<1>2. /\ Tab(r).ids \in Seq(Ids) /\ Len(Tab(r).ids) \in Nat
      /\ rd[r].limit \in Nat /\ rd[r].limit <= Len(Tab(r).ids)
  BY <1>1, TableParts DEF Scratches, Within
<1>3. \A n \in Nat : n < rd[r].limit => Tab(r).ids[n + 1] \in Ids
  BY <1>2
<1>4. rd[r].ev \in Events \cup {{}}
  BY <1>1 DEF Scratches
<1>5. CASE ReturnFirst(r)
  <2> DEFINE result == IF rd[r].bestKey = MaxRules THEN <<>> ELSE <<Tab(r).ids[rd[r].best + 1]>>
  <2>1. rd[r].bestKey # MaxRules => rd[r].best \in Nat /\ rd[r].best < rd[r].limit
    BY <1>1 DEF Scratches, ScratchFits, Within
  <2>2. result \in Seq(Ids)
    BY <1>3, <2>1
  <2> DEFINE s == [IdleReader EXCEPT
                     !.pc = "done", !.first = TRUE, !.ev = rd[r].ev, !.result = result]
  <2>3. /\ rd' = [rd EXCEPT ![r] = s]
        /\ UNCHANGED wvars /\ old' = [old EXCEPT ![r] = EmptyTable]
    BY <1>5 DEF ReturnFirst
  <2> HIDE DEF result
  <2>4. s \in Scratches
    BY <1>4, <2>2, IdleReaderType DEF Scratches
  <2>5. /\ s.kept = {} /\ s.best = NoNumber /\ s.bestKey = MaxRules
        /\ s.stale = FALSE /\ s.limit = 0 /\ s.meta = 0 /\ s.removed = 0
    BY DEF IdleReader
  <2> HIDE DEF s
  <2>6. QED
    BY <2>3, <2>4, <2>5, EmptyScratch, OneReader
<1>6. CASE ReturnMatches(r)
  <2> DEFINE kept == rd[r].kept
             key == [n \in kept |-> Key(r, n)]
             ns == Sorted(kept, key)
             result == [i \in 1..Cardinality(kept) |-> Tab(r).ids[ns[i] + 1]]
  <2>1. kept \in SUBSET Nat /\ \A n \in kept : n < rd[r].limit
    BY <1>1 DEF Scratches, Within
  <2>2. IsFiniteSet(kept) /\ Cardinality(kept) \in Nat
    <3>1. kept \in SUBSET (0..rd[r].limit - 1)
      BY <1>2, <2>1
    <3>2. IsFiniteSet(0..rd[r].limit - 1)
      <4>1. 0 \in Int /\ rd[r].limit - 1 \in Int
        BY <1>2
      <4>2. QED
        BY <4>1, FS_Interval
    <3> HIDE DEF kept
    <3>3. QED
      BY <3>1, <3>2, FS_Subset, FS_CardinalityType
  <2>3. \A n \in kept : key[n] \in Nat
    BY <2>1, KeyType
  <2> HIDE DEF kept, key
  <2>4. \A i \in 1..Cardinality(kept) : ns[i] \in kept
    BY <2>1, <2>2, <2>3, SortedInSet
  <2> HIDE DEF ns
  <2>5. \A n \in kept : Tab(r).ids[n + 1] \in Ids
    BY <1>3, <2>1
  <2>6. \A i \in 1..Cardinality(kept) : Tab(r).ids[ns[i] + 1] \in Ids
    BY <2>4, <2>5
  <2>7. result \in Seq(Ids)
    BY <2>2, <2>6
  <2> DEFINE s == [IdleReader EXCEPT !.pc = "done", !.ev = rd[r].ev, !.result = result]
  <2>8. rd' = [rd EXCEPT ![r] = s] /\ UNCHANGED wvars /\ old' = [old EXCEPT ![r] = EmptyTable]
    BY <1>6 DEF ReturnMatches, kept, key, ns
  <2> HIDE DEF result
  <2>9. s \in Scratches
    BY <1>4, <2>7, IdleReaderType DEF Scratches
  <2>10. /\ s.kept = {} /\ s.best = NoNumber /\ s.bestKey = MaxRules
         /\ s.stale = FALSE /\ s.limit = 0 /\ s.meta = 0 /\ s.removed = 0
    BY DEF IdleReader
  <2> HIDE DEF s
  <2>11. QED
    BY <2>8, <2>9, <2>10, EmptyScratch, OneReader
<1>7. QED
  BY <1>5, <1>6

-----------------------------------------------------------------------------
(* The theorems.                                                           *)

\* The rules of Preload have their numbers, the writer and the readers are
\* idle.
LEMMA InvInit == Init => Inv
<1> SUFFICES ASSUME Init PROVE Inv
  OBVIOUS
<1> DEFINE ids == [i \in 1..Len(Preload) |-> Preload[i].id]
           at == [p \in Paths |-> {n \in 0..Len(Preload) - 1 : Preload[n + 1].body = p}]
           L == Len(Preload)
<1>1. /\ Preload \in Seq([id : Ids, body : Bodies]) /\ L \in Nat
      /\ \A i, j \in 1..L : Preload[i].id = Preload[j].id => i = j
      /\ \A i \in 1..L : Preload[i].id \in Ids
  <2>1. /\ Preload \in Seq([id : Ids, body : Bodies])
        /\ \A i, j \in 1..L : Preload[i].id = Preload[j].id => i = j
    BY ConstantsAssumption
  <2> DEFINE Rules == [id : Ids, body : Bodies]
  <2>2. L \in Nat /\ \A i \in 1..L : Preload[i] \in Rules
    <3>1. Preload \in Seq(Rules)
      BY <2>1
    <3> HIDE DEF Rules
    <3>2. QED
      BY <3>1
  <2>3. \A i \in 1..L : Preload[i].id \in Ids
    BY <2>2
  <2>4. QED
    BY <2>1, <2>2, <2>3
<1>2. table = NewTable(ids, at) /\ w = IdleWriter
  BY DEF Init, Loaded
<1>3. ids \in Seq(Ids) /\ Len(ids) = L
  BY <1>1
<1>4. at \in [Paths -> SUBSET Nat]
  BY <1>1
<1>5. \A i \in 1..L : ids[i] = Preload[i].id
  OBVIOUS
<1> HIDE DEF ids, at
<1>6. /\ table \in Tables /\ table.ids = ids /\ Number = L
      /\ table.meta = <<>> /\ table.removed = <<>> /\ table.version = 0
  BY <1>2, <1>3, <1>4, NewTableType DEF NewTable, Number
<1>7. \A n : ~Dropped(n) /\ Until(n) = 0
  BY <1>6 DEF Dropped, Until, BitsHas, MetaAt, NoMeta
<1>8. ASSUME NEW id \in Ids
      PROVE  \/ nums[id] = NoNumber /\ ~ \E i \in 1..L : Preload[i].id = id
             \/ nums[id] + 1 \in 1..L /\ nums[id] \in 0..L - 1 /\ Preload[nums[id] + 1].id = id
  <2> DEFINE i == CHOOSE i \in 1..L : Preload[i].id = id
  <2>1. CASE \E j \in 1..L : Preload[j].id = id
    <3>1. i \in 1..L /\ Preload[i].id = id
      BY <2>1
    <3>2. nums[id] = i - 1
      BY <2>1 DEF Init
    <3> HIDE DEF i
    <3>3. QED
      BY <1>1, <3>1, <3>2
  <2>2. CASE ~ \E j \in 1..L : Preload[j].id = id
    BY <2>2 DEF Init
  <2>3. QED
    BY <2>1, <2>2
<1>9. WriterInv
  <2>1. nums \in [Ids -> {NoNumber} \cup 0..L - 1]
    <3>1. nums = [id \in Ids |-> nums[id]]
      BY DEF Init
    <3>2. \A id \in Ids : nums[id] \in {NoNumber} \cup 0..L - 1
      BY <1>8
    <3> HIDE DEF L
    <3>3. QED
      BY <3>1, <3>2
  <2>2. IdleWriter \in Writers
    <3>1. 0 \in Nat /\ 1 \in Nat \ {0}
      OBVIOUS
    <3>2. QED
      BY <3>1 DEF IdleWriter, Writers
  <2>3. WriterFits
    BY <1>2 DEF IdleWriter, WriterFits, Inserting
  <2>4. hasTab \in BOOLEAN /\ dead \in Nat /\ count \in Int
    BY <1>1 DEF Init
  <2>5. QED
    BY <1>2, <1>6, <2>1, <2>2, <2>3, <2>4 DEF WriterInv, Number
<1>10. NumbersFit
  <2>1. Unused
    BY <1>7 DEF Unused
  <2>2. Numbered
    <3> SUFFICES ASSUME NEW id \in Ids, nums[id] # NoNumber PROVE table.ids[nums[id] + 1] = id
      BY <1>7 DEF Numbered, Known
    <3>1. QED
      BY <1>5, <1>6, <1>8
  <2>3. Owned
    <3> SUFFICES ASSUME NEW n \in 0..L - 1 PROVE nums[table.ids[n + 1]] = n
      BY <1>6 DEF Owned
    <3>1. n + 1 \in 1..L /\ table.ids[n + 1] = Preload[n + 1].id /\ Preload[n + 1].id \in Ids
      BY <1>1, <1>5, <1>6
    <3>2. nums[Preload[n + 1].id] + 1 = n + 1 /\ nums[Preload[n + 1].id] \in 0..L - 1
      BY <1>1, <1>8, <3>1
    <3>3. QED
      BY <1>1, <3>1, <3>2
  <2>4. CallFits
    BY <1>2 DEF CallFits, Replacing, IdleWriter
  <2>5. QED
    BY <2>1, <2>2, <2>3, <2>4 DEF NumbersFit
<1>11. ReaderInv
  <2>1. rd = [r \in Readers |-> IdleReader] /\ old = [r \in Readers |-> EmptyTable]
    BY DEF Init
  <2>2. rd \in [Readers -> Scratches] /\ old \in [Readers -> Tables]
    BY <2>1, IdleReaderType, EmptyTableType
  <2>3. ScratchFits(IdleReader) /\ Within(IdleReader, table) /\ IdleReader.stale = FALSE
    <3>1. /\ IdleReader.kept = {} /\ IdleReader.best = NoNumber /\ IdleReader.bestKey = MaxRules
          /\ IdleReader.stale = FALSE /\ IdleReader.limit = 0 /\ IdleReader.meta = 0
          /\ IdleReader.removed = 0
      BY DEF IdleReader
    <3>2. QED
      BY <1>6, <3>1, IdleReaderType, EmptyScratch
  <2>4. \A r \in Readers : Within(rd[r], Tab(r)) /\ ScratchFits(rd[r])
    BY <2>1, <2>3 DEF Tab
  <2>5. QED
    BY <2>2, <2>4 DEF ReaderInv, ReadersInBounds, ReadersFit, Within
<1>12. QED
  BY <1>9, <1>10, <1>11 DEF Inv

\* Every store of the writer preserves the inductive invariant.
LEMMA InvWriter ==
    ASSUME Inv, Writer
    PROVE  Inv'
<1>1. WriterInv /\ NumbersFit /\ ReaderInv /\ table \in Tables
  BY DEF Inv, WriterInv
<1>2. ASSUME WriterInv', Grown, NumbersFit', UNCHANGED <<rd, old>> PROVE Inv'
  <2>1. table' \in Tables
    BY <1>2 DEF WriterInv
  <2>2. QED
    BY <1>1, <1>2, <2>1, WriterKeepsReaders DEF Inv
<1>3. ASSUME NEW id \in Targets, NEW sets \in RuleSets, AddRule(id, sets) PROVE Inv'
  BY <1>1, <1>2, <1>3, StepAddRule, NumbersStart DEF AddRule
<1>4. ASSUME NEW id \in Targets, NEW sets \in RuleSets, ReplaceRule(id, sets) PROVE Inv'
  BY <1>1, <1>2, <1>4, StepReplaceRule, NumbersStart DEF ReplaceRule
<1>5. ASSUME NEW id \in Targets, RemoveRule(id) PROVE Inv'
  BY <1>1, <1>2, <1>5, StepRemoveRule, NumbersStart DEF RemoveRule
<1>6. CASE NewNumber
  BY <1>1, <1>2, <1>6, StepNewNumber, NumbersNewNumber DEF NewNumber
<1>7. CASE TooManyRules \/ Unlock
  BY <1>1, <1>2, <1>7, StepReturn, NumbersReturn DEF TooManyRules, Unlock
<1>8. CASE MetaGrow
  BY <1>1, <1>2, <1>8, StepMetaGrow, NumbersGrow DEF MetaGrow
<1>9. CASE MetaSpan
  BY <1>1, <1>2, <1>9, StepMetaSpan, NumbersMetaSpan DEF MetaSpan
<1>10. CASE MetaOrder
  BY <1>1, <1>2, <1>10, StepMetaOrder, NumbersMetaOrder DEF MetaOrder
<1>11. CASE PublishId
  BY <1>1, <1>2, <1>11, StepPublishId, NumbersPublishId DEF PublishId
<1>12. CASE LowerMinKey
  BY <1>1, <1>2, <1>12, StepLowerMinKey, NumbersInsert DEF LowerMinKey
<1>13. CASE Follow \/ LinkAbsent
  BY <1>1, <1>2, <1>13, StepFollow, NumbersInsert DEF Follow, LinkAbsent
<1>14. CASE AddNumber
  BY <1>1, <1>2, <1>14, StepAddNumber, NumbersInsert DEF AddNumber
<1>15. CASE PublishVersion
  BY <1>1, <1>2, <1>15, StepPublishVersion, NumbersPublishVersion DEF PublishVersion
<1>16. CASE Retire
  BY <1>1, <1>2, <1>16, StepReturn, NumbersRetire DEF Retire
<1>17. CASE BitGrow
  BY <1>1, <1>2, <1>17, StepBitGrow, NumbersGrow DEF BitGrow
<1>18. CASE BitSet
  BY <1>1, <1>2, <1>18, StepBitSet, NumbersBitSet DEF BitSet
<1>19. CASE Forget
  BY <1>1, <1>2, <1>19, StepReturn, NumbersForget DEF Forget
<1>20. CASE Compact
  <2>1. WriterInv' /\ NumbersFit'
    BY <1>1, <1>20, StepCompact
  <2>2. table' \in Tables
    BY <2>1 DEF WriterInv
  <2>3. QED
    BY <1>1, <1>20, <2>1, <2>2, CompactKeepsReaders DEF Inv
<1>21. QED
  BY <1>3, <1>4, <1>5, <1>6, <1>7, <1>8, <1>9, <1>10, <1>11, <1>12, <1>13, <1>14, <1>15,
     <1>16, <1>17, <1>18, <1>19, <1>20 DEF Writer

\* So does every load of a reader.
LEMMA InvReader ==
    ASSUME Inv, NEW r \in Readers,
           \/ \E e \in Events, first \in Firsts : Match(r, e, first)
           \/ Reader(r)
           \/ Rest(r)
    PROVE  Inv'
<1>1. WriterInv /\ NumbersFit /\ ReaderInv /\ table \in Tables /\ hasTab \in BOOLEAN
  BY DEF Inv, WriterInv
<1>2. ASSUME ReaderInv', UNCHANGED wvars PROVE Inv'
  <2>1. WriterInv'
    BY <1>1, <1>2 DEF wvars, WriterInv, WriterFits, Number
  <2>2. NumbersFit'
    BY <1>1, <1>2 DEF wvars, NumbersFit, Unused, Numbered, Owned, CallFits, Known, Dropped,
                      Until, Current, Ending, Pending, Replacing, Number
  <2>3. QED
    BY <1>2, <2>1, <2>2 DEF Inv
<1>3. ASSUME NEW e \in Events, NEW first \in Firsts, Match(r, e, first) PROVE Inv'
  BY <1>1, <1>2, <1>3, ReadMatch DEF Match
<1>4. CASE LoadVersion(r) \/ LoadIds(r) \/ LoadMeta(r) \/ LoadRemoved(r) \/ LoadAbsent(r)
  BY <1>1, <1>2, <1>4, ReadLoad DEF LoadVersion, LoadIds, LoadMeta, LoadRemoved, LoadAbsent
<1>5. ASSUME NEW p \in rd[r].todo, Visit(r, p) PROVE Inv'
  BY <1>1, <1>2, <1>5, ReadVisit DEF Visit
<1>6. ASSUME NEW n \in rd[r].cand, Consider(r, n) PROVE Inv'
  BY <1>1, <1>2, <1>6, ReadConsider DEF Consider
<1>7. CASE ReturnFirst(r) \/ ReturnMatches(r)
  BY <1>1, <1>2, <1>7, ReadReturn DEF ReturnFirst, ReturnMatches
<1>8. CASE Filter(r)
  BY <1>1, <1>2, <1>8, ReadFilter DEF Filter
<1>9. CASE Rest(r)
  BY <1>1, <1>2, <1>9, ReadRest DEF Rest
<1>10. QED
  BY <1>3, <1>4, <1>5, <1>6, <1>7, <1>8, <1>9 DEF Reader

\* So does every step.
LEMMA InvStep == Inv /\ [Next]_vars => Inv'
<1> SUFFICES ASSUME Inv, [Next]_vars PROVE Inv'
  OBVIOUS
<1>1. CASE Writer
  BY <1>1, InvWriter
<1>2. ASSUME NEW r \in Readers,
             \/ \E e \in Events, first \in Firsts : Match(r, e, first)
             \/ Reader(r)
             \/ Rest(r)
      PROVE  Inv'
  BY <1>2, InvReader
<1>3. CASE UNCHANGED vars
  <2>1. WriterInv'
    BY <1>3 DEF vars, Inv, WriterInv, WriterFits, Number
  <2>2. NumbersFit'
    BY <1>3 DEF vars, Inv, NumbersFit, Unused, Numbered, Owned, CallFits, Known, Dropped,
                Until, Current, Ending, Pending, Replacing, Number
  <2>3. ReaderInv'
    BY <1>3 DEF vars, Inv, ReaderInv, ReadersInBounds, ReadersFit, Tab
  <2>4. QED
    BY <2>1, <2>2, <2>3 DEF Inv
<1>4. QED
  BY <1>1, <1>2, <1>3 DEF Next

\* The inductive invariant holds in every state: whatever the interleaving of
\* the writer's stores with the readers' loads, the writer's locals fit the
\* table, h.nums fits ids, the spans and the removed bits, and every reader
\* stays within the table that it has loaded (AddRule, ReplaceRule, RemoveRule,
\* compact, begin, Match, MatchFirst).
THEOREM Inductive == Spec => []Inv
  BY InvInit, InvStep, PTL DEF Spec

\* Every variable keeps its type, and a number in h.nums always has an
\* identifier in the current table: newNumber, ReplaceRule, RemoveRule and
\* compact never leave h.nums pointing beyond tab.ids.
THEOREM TypeCorrect == Spec => []TypeOK
<1>1. Inv => TypeOK
  BY DEF Inv, WriterInv, ReaderInv, TypeOK
<1>2. QED
  BY Inductive, <1>1, PTL

\* No Match or MatchFirst call indexes ids, meta or the removed words of its
\* table out of bounds, with any number of readers and however often the writer
\* grows the arrays or compacts the table meanwhile (begin, results, improve).
THEOREM BoundsCorrect == Spec => []ReadersInBounds
<1>1. Inv => ReadersInBounds
  BY DEF Inv, ReaderInv
<1>2. QED
  BY Inductive, <1>1, PTL

-----------------------------------------------------------------------------
(***************************************************************************)
(* Theorems about the bookkeeping of HyperMatch, the order keys that       *)
(* readers sort by and the numbers that the calls of the writer leave      *)
(* behind for the next call and for compact, and about what Match returns: *)
(* an identifier that is not being removed is returned once, and           *)
(* identifiers are returned in the order in which they were added,         *)
(* whatever the writer does during the call.                               *)
(***************************************************************************)

(* Order keys.                                                             *)

\* A replacement stores, twice, the key that the replaced number has.
KeyFits == Replacing => w.key = Order(table, w.old)

StableKeys ==
    \A n \in 0..Number - 1, a \in 0..Len(table.meta) :
        OrderIn(table, a, n)' = OrderIn(table, a, n)

\* Keys live in meta only.
LEMMA MetaKept ==
    ASSUME table'.meta = table.meta
    PROVE  StableKeys
  BY DEF StableKeys, OrderIn, MetaAt

\* A grown copy has the keys of the array it replaces, which stays as it is.
LEMMA GrowKeepsKeys ==
    ASSUME WriterInv, MetaGrow
    PROVE  /\ StableKeys
           /\ \A n \in Nat : Order(table, n)' = Order(table, n)
<1> DEFINE a == Len(table.meta)
           cur == IF a = 0 THEN <<>> ELSE table.meta[a]
           len == Most(2 * Len(cur), w.target + 1)
           new == [i \in 1..len |-> IF i <= Len(cur) THEN cur[i] ELSE NoMeta]
<1>1. table' = [table EXCEPT !.meta = Append(@, new)] /\ table \in Tables
  BY DEF MetaGrow, WriterInv
<1>2. table'.meta = Append(table.meta, new) /\ table.meta \in Seq(Seq(MetaWords)) /\ a \in Nat
  <2> HIDE DEF new
  <2> QED
    BY <1>1, TableParts DEF Tables
<1>3. cur \in Seq(MetaWords) /\ w.target \in Nat
  BY <1>1, TableParts DEF MetaGrow, WriterInv, WriterFits
<1>4. len \in Nat /\ len >= Len(cur)
  <2> HIDE DEF cur
  <2> QED
    BY <1>3 DEF Most
<1>5. /\ Len(table'.meta) = a + 1 /\ table'.meta[a + 1] = new
      /\ \A b \in 1..a : table'.meta[b] = table.meta[b]
  <2> HIDE DEF new
  <2> QED
    BY <1>2
<1>6. Len(new) = len /\ \A i \in 1..len : new[i] = IF i <= Len(cur) THEN cur[i] ELSE NoMeta
  <2> HIDE DEF len, cur
  <2> QED
    BY <1>4
<1>7. StableKeys
  <2> HIDE DEF new, len, cur
  <2> SUFFICES ASSUME NEW n \in 0..Number - 1, NEW b \in 0..a
               PROVE  OrderIn(table, b, n)' = OrderIn(table, b, n)
    BY DEF StableKeys
  <2>1. b # 0 => table'.meta[b] = table.meta[b]
    BY <1>2, <1>5
  <2>2. QED
    BY <2>1 DEF OrderIn, MetaAt
<1>8. ASSUME NEW n \in Nat PROVE Order(table, n)' = Order(table, n)
  <2>1. MetaAt(table, a, n) = IF n < Len(cur) THEN cur[n + 1] ELSE NoMeta
    BY DEF MetaAt
  <2> HIDE DEF new, len, cur
  <2>2. MetaAt(table', a + 1, n) = IF n < len THEN new[n + 1] ELSE NoMeta
    BY <1>2, <1>5, <1>6 DEF MetaAt
  <2>3. n < len => new[n + 1] = IF n < Len(cur) THEN cur[n + 1] ELSE NoMeta
    BY <1>3, <1>4, <1>6
  <2>4. MetaAt(table', a + 1, n) = MetaAt(table, a, n)
    BY <1>3, <1>4, <2>1, <2>2, <2>3
  <2>5. QED
    BY <1>5, <2>4 DEF Order, OrderIn
<1>9. QED
  BY <1>7, <1>8

\* A store to one slot of the current array keeps all keys if it keeps the
\* slot's own, or if the slot is of a number that ids does not have yet.
LEMMA StoreKeepsKeys ==
    ASSUME WriterInv, table.meta # <<>>, NEW i \in 1..Len(table.meta[Len(table.meta)]),
           NEW x \in MetaWords,
           table' = [table EXCEPT !.meta[Len(table.meta)][i] = x],
           \/ i = Number + 1
           \/ (IF x.ord = 0 THEN i - 1 ELSE x.ord - 1) = Order(table, i - 1)
    PROVE  StableKeys
<1> DEFINE a == Len(table.meta)
<1>1. /\ table \in Tables /\ a \in 1..a /\ i \in Nat /\ Number \in Nat
      /\ table.meta[a] \in Seq(MetaWords)
  BY TableParts DEF WriterInv, Number
<1>2. /\ Len(table'.meta) = a /\ Len(table'.meta[a]) = Len(table.meta[a])
      /\ table'.meta[a] = [table.meta[a] EXCEPT ![i] = x]
      /\ \A b \in 1..a : b # a => table'.meta[b] = table.meta[b]
  BY <1>1, MetaStored
<1>3. SUFFICES ASSUME NEW n \in 0..Number - 1, NEW b \in 0..a
               PROVE  OrderIn(table, b, n)' = OrderIn(table, b, n)
  BY DEF StableKeys
<1>4. CASE b # a
  <2>1. b # 0 => table'.meta[b] = table.meta[b]
    BY <1>1, <1>2, <1>4
  <2>2. QED
    BY <2>1 DEF OrderIn, MetaAt
<1>5. CASE b = a
  <2> HIDE DEF a
  <2>1. MetaAt(table', a, n) = IF n = i - 1 THEN x ELSE MetaAt(table, a, n)
    BY <1>1, <1>2 DEF MetaAt
  <2>2. CASE n = i - 1
    <3>1. OrderIn(table', a, n) = IF x.ord = 0 THEN n ELSE x.ord - 1
      BY <2>1, <2>2 DEF OrderIn
    <3>2. i # Number + 1
      BY <1>1, <2>2
    <3>3. QED
      BY <1>5, <2>2, <3>1, <3>2 DEF Order, a
  <2>3. CASE n # i - 1
    BY <1>5, <2>1, <2>3 DEF OrderIn
  <2>4. QED
    BY <2>2, <2>3
<1>6. QED
  BY <1>4, <1>5

\* Storing a span keeps the key in the same slot.
LEMMA SpanKeepsKeys ==
    ASSUME WriterInv, MetaSpan
    PROVE  /\ StableKeys /\ Len(table'.meta) = Len(table.meta)
           /\ w'.key = w.key /\ w'.old = w.old
<1> DEFINE a == Len(table.meta)
           i == w.target + 1
           f == IF w.target = w.num THEN w.v ELSE w.from
           u == IF w.target = w.num THEN 0 ELSE w.v
           x == [table.meta[a][i] EXCEPT !.from = f, !.until = u]
<1>1. /\ w.pc = "span" /\ a # 0 /\ w.target < Len(table.meta[a])
      /\ table' = [table EXCEPT !.meta[a][i] = [@ EXCEPT !.from = f, !.until = u]]
      /\ w' = [w EXCEPT !.pc = "order"]
  BY DEF MetaSpan
<1>2. table \in Tables /\ w \in Writers /\ w.target \in Nat
  BY <1>1 DEF WriterInv, WriterFits
<1>3. /\ table.meta # <<>> /\ i \in 1..Len(table.meta[a]) /\ table.meta[a][i] \in MetaWords
      /\ i - 1 = w.target
  BY <1>1, <1>2, TableParts
<1>4. x \in MetaWords /\ x.ord = table.meta[a][i].ord
  <2>1. f \in Nat /\ u \in Nat
    BY <1>2 DEF Writers
  <2> HIDE DEF f, u
  <2>2. QED
    BY <1>3, <2>1 DEF MetaWords
<1>5. table' = [table EXCEPT !.meta[a][i] = x]
  BY <1>1
<1>6. MetaAt(table, a, w.target) = table.meta[a][i]
  BY <1>1 DEF MetaAt
<1>7. Order(table, w.target) = IF x.ord = 0 THEN w.target ELSE x.ord - 1
  <2> HIDE DEF x, i
  <2> QED
    BY <1>4, <1>6 DEF Order, OrderIn
<1> HIDE DEF x, i
<1>8. StableKeys
  BY <1>3, <1>4, <1>5, <1>7, StoreKeepsKeys
<1>9. Len(table'.meta) = a
  BY <1>2, <1>3, <1>4, <1>5, MetaStored
<1>10. QED
  BY <1>1, <1>2, <1>8, <1>9 DEF Writers

\* The key stored is that of a number without identifier yet, or the one it
\* had.
LEMMA OrderKeepsKeys ==
    ASSUME WriterInv, NumbersFit, KeyFits, MetaOrder
    PROVE  /\ StableKeys /\ Len(table'.meta) = Len(table.meta)
           /\ w'.key = w.key /\ w'.old = w.old
<1> DEFINE a == Len(table.meta)
           i == w.target + 1
           x == [table.meta[a][i] EXCEPT !.ord = w.key + 1]
<1>1. /\ w.pc = "order" /\ a # 0 /\ w.target < Len(table.meta[a])
      /\ table' = [table EXCEPT !.meta[a][i].ord = w.key + 1]
      /\ w' = [w EXCEPT !.pc = IF w.target = w.num THEN "ids" ELSE "version"]
  BY DEF MetaOrder, WriterInv, WriterFits
<1>2. /\ table \in Tables /\ w \in Writers /\ w.target \in Nat /\ w.key \in Nat
      /\ w.target = w.num => w.num = Number
  BY <1>1 DEF WriterInv, WriterFits, Writers
<1>3. /\ a \in 1..a /\ table.meta # <<>> /\ i \in 1..Len(table.meta[a])
      /\ table.meta[a][i] \in MetaWords /\ i - 1 = w.target
      /\ table.meta \in Seq(Seq(MetaWords)) /\ table.meta[a] \in Seq(MetaWords)
  BY <1>1, <1>2, TableParts
<1>4. x \in MetaWords /\ x.ord = w.key + 1
  <2>1. w.key + 1 \in Nat
    BY <1>2
  <2>2. table.meta[a][i] \in MetaWords
    BY <1>3
  <2>3. QED
    BY <2>1, <2>2 DEF MetaWords
<1>5. table' = [table EXCEPT !.meta[a][i] = x]
  <2> HIDE DEF i
  <2> QED
    BY <1>1, <1>2, <1>3 DEF Tables
<1>6. w.target # w.num => w.target = w.old /\ w.key = Order(table, w.old)
  BY <1>1 DEF NumbersFit, CallFits, KeyFits, Replacing
<1>7. \/ i = Number + 1
      \/ (IF x.ord = 0 THEN i - 1 ELSE x.ord - 1) = Order(table, i - 1)
  <2>1. CASE w.target = w.num
    BY <1>2, <2>1
  <2>2. CASE w.target # w.num
    <3>1. x.ord # 0 /\ x.ord - 1 = w.key
      BY <1>2, <1>4
    <3> HIDE DEF x, i
    <3>2. QED
      BY <1>3, <1>6, <2>2, <3>1
  <2>3. QED
    BY <2>1, <2>2
<1> HIDE DEF x, i
<1>8. StableKeys
  BY <1>3, <1>4, <1>5, <1>7, StoreKeepsKeys
<1>9. Len(table'.meta) = a
  BY <1>2, <1>3, <1>4, <1>5, MetaStored
<1>10. QED
  BY <1>1, <1>2, <1>8, <1>9 DEF Writers

\* No step but compact changes a key, and a replacement keeps the key to store.
LEMMA KeysStep ==
    ASSUME Inv, KeyFits, Next, w.pc # "compact"
    PROVE  StableKeys /\ KeyFits'
<1>1. WriterInv /\ NumbersFit /\ table \in Tables /\ w \in Writers
  BY DEF Inv, WriterInv
<1>2. Replacing => w.old \in 0..Number - 1 /\ w.old \in Nat
  BY <1>1 DEF NumbersFit, CallFits, Replacing, Known, WriterInv, WriterFits, Number
<1>3. ASSUME StableKeys, Len(table'.meta) = Len(table.meta),
             Replacing' => Replacing /\ w'.key = w.key /\ w'.old = w.old
      PROVE  StableKeys /\ KeyFits'
  <2> SUFFICES ASSUME Replacing' PROVE w'.key = Order(table', w'.old)
    BY <1>3 DEF KeyFits
  <2>1. /\ Replacing /\ w'.key = w.key /\ w'.old = w.old /\ w.key = Order(table, w.old)
        /\ w.old \in 0..Number - 1
    BY <1>2, <1>3 DEF KeyFits
  <2>2. Len(table.meta) \in 0..Len(table.meta)
    BY <1>1, TableParts
  <2>3. OrderIn(table', Len(table.meta), w.old) = OrderIn(table, Len(table.meta), w.old)
    BY <1>3, <2>1, <2>2 DEF StableKeys
  <2>4. QED
    BY <1>3, <2>1, <2>3 DEF Order
<1>4. ASSUME table'.meta = table.meta,
             Replacing' => Replacing /\ w'.key = w.key /\ w'.old = w.old
      PROVE  StableKeys /\ KeyFits'
  BY <1>3, <1>4, MetaKept
<1>5. ASSUME NEW id \in Targets, NEW sets \in RuleSets, AddRule(id, sets)
      PROVE  StableKeys /\ KeyFits'
  <2>1. table' = table /\ w'.old = NoNumber
    BY <1>5 DEF AddRule, Calling, IdleWriter
  <2>2. QED
    BY <1>4, <2>1 DEF Replacing
<1>6. ASSUME NEW id \in Targets, NEW sets \in RuleSets, ReplaceRule(id, sets)
      PROVE  StableKeys /\ KeyFits'
  <2>1. table' = table /\ (w'.old = NoNumber \/ w'.key = Order(table, w'.old))
    <3>1. CASE Known(id)
      <4>1. w'.old = nums[id] /\ w'.key = Order(table, nums[id])
        BY <1>6, <3>1 DEF ReplaceRule, Calling, IdleWriter
      <4>2. QED
        BY <1>6, <4>1 DEF ReplaceRule
    <3>2. CASE ~Known(id)
      BY <1>6, <3>2 DEF ReplaceRule, Calling, IdleWriter
    <3>3. QED
      BY <3>1, <3>2
  <2>2. QED
    BY <2>1, MetaKept DEF KeyFits, Replacing
<1>7. ASSUME NEW id \in Targets, RemoveRule(id) PROVE StableKeys /\ KeyFits'
  <2>1. table' = table /\ w'.old = NoNumber
    BY <1>7 DEF RemoveRule, Calling, IdleWriter
  <2>2. QED
    BY <1>4, <2>1 DEF Replacing
<1>8. CASE NewNumber
  <2>1. table'.meta = table.meta /\ w'.old = w.old /\ w.old = NoNumber
    BY <1>1, <1>8 DEF NewNumber, Tables, Writers, WriterInv, WriterFits
  <2>2. QED
    BY <1>4, <2>1 DEF Replacing
<1>9. CASE TooManyRules \/ Unlock
  <2>1. table' = table /\ w' = IdleWriter
    BY <1>9 DEF TooManyRules, Unlock, Return
  <2>2. QED
    BY <1>1, <1>4, <2>1, CallOver
<1>10. CASE MetaGrow
  <2>1. UNCHANGED w
    BY <1>10 DEF MetaGrow
  <2>2. KeyFits'
    BY <1>1, <1>2, <1>10, <2>1, GrowKeepsKeys DEF KeyFits, Replacing
  <2>3. QED
    BY <1>1, <1>10, <2>2, GrowKeepsKeys
<1>11. CASE MetaSpan
  <2>1. Replacing
    BY <1>1, <1>11 DEF MetaSpan, NumbersFit, CallFits, Replacing
  <2>2. QED
    BY <1>1, <1>3, <1>11, <2>1, SpanKeepsKeys
<1>12. CASE MetaOrder
  <2>1. Replacing
    BY <1>1, <1>12 DEF MetaOrder, NumbersFit, CallFits, Replacing
  <2>2. QED
    BY <1>1, <1>3, <1>12, <2>1, OrderKeepsKeys
<1>13. CASE PublishId \/ PublishVersion
  <2>1. table'.meta = table.meta
    BY <1>1, <1>13 DEF PublishId, PublishVersion, Tables
  <2>2. w'.key = w.key /\ w'.old = w.old /\ w.pc \in {"ids", "version"}
    BY <1>1, <1>13 DEF PublishId, PublishVersion, Writers
  <2>3. QED
    BY <1>4, <2>1, <2>2 DEF Replacing
<1>14. CASE LowerMinKey \/ Follow \/ LinkAbsent \/ AddNumber
  <2>1. table'.meta = table.meta
    BY <1>1, <1>14 DEF LowerMinKey, Follow, LinkAbsent, AddNumber, Tables
  <2>2. w'.key = w.key /\ w'.old = w.old /\ w.pc \in {"lower", "follow", "link", "rule"}
    BY <1>1, <1>14 DEF LowerMinKey, Follow, LinkAbsent, AddNumber, Writers
  <2>3. QED
    BY <1>4, <2>1, <2>2 DEF Replacing
<1>15. CASE Retire \/ Forget
  <2>1. table' = table /\ (w' = IdleWriter \/ w' = [w EXCEPT !.pc = "compact"])
    BY <1>15 DEF Retire, Forget, CountDead, Return
  <2>2. QED
    BY <1>1, <1>4, <2>1, CallOver
<1>16. CASE BitGrow \/ BitSet
  <2>1. table'.meta = table.meta
    BY <1>1, <1>16 DEF BitGrow, BitSet, Tables
  <2>2. w'.pc \in {"bit", "forget"}
    BY <1>1, <1>16 DEF BitGrow, BitSet, Writers
  <2>3. QED
    BY <1>4, <2>1, <2>2 DEF Replacing
<1>17. ASSUME UNCHANGED wvars PROVE StableKeys /\ KeyFits'
  BY <1>4, <1>17 DEF wvars, Replacing
<1>18. CASE Writer
  BY <1>5, <1>6, <1>7, <1>8, <1>9, <1>10, <1>11, <1>12, <1>13, <1>14, <1>15, <1>16, <1>18
     DEF Writer, Compact
<1>19. ASSUME NEW r \in Readers,
              \/ \E e \in Events, first \in Firsts : Match(r, e, first)
              \/ Reader(r)
              \/ Rest(r)
       PROVE  UNCHANGED wvars
  BY <1>19 DEF Match, Reader, Rest, LoadVersion, LoadIds, LoadMeta, LoadRemoved, LoadAbsent,
               Visit, Consider, ReturnFirst, Filter, ReturnMatches
<1>20. QED
  BY <1>17, <1>18, <1>19 DEF Next

-----------------------------------------------------------------------------
(* Counters.                                                               *)

Present == {id \in Ids : Known(id)}

\* 1 while ids has a replacement's number besides the one it replaces.
Surplus == IF Replacing /\ w.num < Number THEN 1 ELSE 0

\* RuleCount and h.removed, in the middle of every call.
CountsFit ==
    /\ IsFiniteSet(Present)
    /\ count = Cardinality(Present)
    /\ dead = Number - count - Surplus
    /\ w.pc # "compact" => dead * CompactFactor < Number \/ Number = 0

\* Between calls, compact would keep as many numbers as identifiers are
\* present.
LEMMA LiveCount ==
    ASSUME WriterInv, NumbersFit, ~Replacing, w.pc # "forget", IsFiniteSet(Present)
    PROVE  Cardinality(Live) = Cardinality(Present)
<1> DEFINE f == [id \in Present |-> nums[id]]
<1>1. f \in [Present -> Live]
  BY LiveOwners DEF Present
<1>2. \A a, b \in Present : f[a] = f[b] => a = b
  BY LiveOwners DEF Present
<1>3. \A n \in Live : \E id \in Present : f[id] = n
  <2> SUFFICES ASSUME NEW n \in Live PROVE \E id \in Present : f[id] = n
    OBVIOUS
  <2>1. table.ids[n + 1] \in Ids /\ nums[table.ids[n + 1]] = n /\ n # NoNumber
    BY LiveOwners, LiveParts DEF NoNumber
  <2>2. table.ids[n + 1] \in Present
    BY <2>1 DEF Present, Known
  <2>3. QED
    BY <2>1, <2>2
<1>4. f \in Bijection(Present, Live)
  <2> HIDE DEF f
  <2> QED
    BY <1>1, <1>2, <1>3, Fun_IsBij
<1>5. ExistsBijection(Present, Live)
  BY <1>4 DEF ExistsBijection
<1>6. QED
  BY <1>5, FS_Bijection

\* The counters are numbers, and an empty table has nothing dead.
LEMMA CountTypes ==
    ASSUME WriterInv, CountsFit
    PROVE  /\ count \in Nat /\ dead \in Nat /\ Number \in Nat /\ Surplus \in {0, 1}
           /\ CompactFactor \in Nat /\ (Number = 0 => dead = 0)
<1>1. count \in Nat
  BY FS_CardinalityType DEF CountsFit
<1>2. dead \in Nat /\ Number \in Nat /\ CompactFactor \in Nat
  BY TableParts, ConstantsAssumption DEF WriterInv, Number
<1>3. Surplus \in {0, 1}
  BY DEF Surplus
<1>4. QED
  BY <1>1, <1>2, <1>3 DEF CountsFit

\* A step that touches neither counters, h.nums nor ids keeps them right.
LEMMA CountsSame ==
    ASSUME CountsFit, w.pc # "compact", UNCHANGED <<nums, count, dead>>, table'.ids = table.ids,
           Replacing' /\ w'.num < Number <=> Replacing /\ w.num < Number
    PROVE  CountsFit'
  BY DEF CountsFit, Surplus, Present, Known, Number

\* newNumber counts one identifier more, with one number more.
LEMMA CountsNewNumber ==
    ASSUME WriterInv, NumbersFit, CountsFit, NewNumber
    PROVE  CountsFit'
<1>1. /\ w.pc = "number" /\ w.id \in Ids /\ w.old = NoNumber /\ w \in Writers /\ table \in Tables
      /\ table' = [table EXCEPT !.ids = Append(@, w.id)] /\ dead' = dead
      /\ nums' = [nums EXCEPT ![w.id] = Number] /\ count' = count + 1
      /\ nums \in [Ids -> {NoNumber} \cup 0..Number - 1] /\ w'.old = w.old /\ w'.pc = "lower"
  BY DEF NewNumber, WriterInv, WriterFits, Number, Writers
<1>2. Number' = Number + 1 /\ Number \in Nat
  <2>1. table'.ids = Append(table.ids, w.id) /\ table.ids \in Seq(Ids)
    BY <1>1, TableParts DEF Tables
  <2>2. QED
    BY <2>1 DEF Number
<1>3. Present' = Present \cup {w.id} /\ w.id \notin Present
  <2>1. ~Known(w.id)
    BY <1>1 DEF NumbersFit, CallFits
  <2>2. \A id \in Ids : Known(id)' <=> Known(id) \/ id = w.id
    BY <1>1, <1>2 DEF Known, NoNumber
  <2>3. QED
    BY <1>1, <2>1, <2>2 DEF Present
<1>4. IsFiniteSet(Present') /\ Cardinality(Present') = Cardinality(Present) + 1
  BY <1>3, FS_AddElement DEF CountsFit
<1>5. Surplus = 0 /\ Surplus' = 0
  BY <1>1 DEF Surplus, Replacing
<1>6. dead' * CompactFactor < Number'
  <2>1. dead * CompactFactor < Number \/ Number = 0
    BY <1>1 DEF CountsFit
  <2>2. /\ dead \in Nat /\ CompactFactor \in Nat /\ (Number = 0 => dead = 0)
        /\ dead * CompactFactor \in Nat
    BY CountTypes
  <2>3. QED
    BY <1>1, <1>2, <2>1, <2>2
<1>7. QED
  BY <1>1, <1>2, <1>4, <1>5, <1>6, CountTypes DEF CountsFit

\* A replacement has one number more, which nothing counts yet.
LEMMA CountsPublishId ==
    ASSUME WriterInv, NumbersFit, CountsFit, PublishId
    PROVE  CountsFit'
<1>1. /\ w.pc = "ids" /\ w \in Writers /\ table \in Tables /\ w.num = Number
      /\ table' = [table EXCEPT !.ids = Append(@, w.id)]
      /\ UNCHANGED <<nums, count, dead>> /\ w' = [w EXCEPT !.pc = "lower"]
  BY DEF PublishId, WriterInv, WriterFits
<1>2. Number' = Number + 1 /\ Number \in Nat
  <2>1. table'.ids = Append(table.ids, w.id) /\ table.ids \in Seq(Ids)
    BY <1>1, TableParts DEF Tables
  <2>2. QED
    BY <2>1 DEF Number
<1>3. w'.pc = "lower" /\ w'.num = Number /\ w'.old # NoNumber
  BY <1>1 DEF Writers, NumbersFit, CallFits
<1>4. Surplus = 0 /\ Surplus' = 1
  BY <1>1, <1>2, <1>3 DEF Surplus, Replacing
<1>5. Present' = Present
  BY <1>1 DEF Present, Known
<1>6. dead' * CompactFactor < Number'
  <2>1. dead * CompactFactor < Number \/ Number = 0
    BY <1>1 DEF CountsFit
  <2>2. /\ dead \in Nat /\ CompactFactor \in Nat /\ (Number = 0 => dead = 0)
        /\ dead * CompactFactor \in Nat
    BY CountTypes
  <2>3. QED
    BY <1>1, <1>2, <2>1, <2>2
<1>7. QED
  BY <1>1, <1>2, <1>4, <1>5, <1>6, CountTypes DEF CountsFit

\* h.removed++ with the test of compact: both counters fit once the call is
\* over, or compact makes them fit.
LEMMA CountsReturn ==
    ASSUME WriterInv, NumbersFit, CountsFit, Retire \/ Forget
    PROVE  CountsFit'
<1>1. /\ w \in Writers /\ table' = table /\ w.id \in Ids /\ Known(w.id)
      /\ nums \in [Ids -> {NoNumber} \cup 0..Number - 1]
  <2>1. Known(w.id)
    BY DEF Retire, Forget, NumbersFit, CallFits, Replacing
  <2>2. QED
    BY <2>1 DEF Retire, Forget, WriterInv, WriterFits, Number
<1>2. /\ dead' = dead + 1 /\ (w' = IdleWriter \/ w' = [w EXCEPT !.pc = "compact"])
      /\ w' = IdleWriter => ~(dead' * CompactFactor >= Number)
  <2>1. CountDead
    BY DEF Retire, Forget
  <2>2. CASE dead' * CompactFactor >= Number
    <3>1. w' = [w EXCEPT !.pc = "compact"]
      BY <2>1, <2>2 DEF CountDead
    <3>2. w'.pc = "compact" /\ IdleWriter.pc = "idle"
      BY <1>1, <3>1 DEF Writers, IdleWriter
    <3>3. w' # IdleWriter
      BY <3>2
    <3>4. QED
      BY <2>1, <3>1, <3>3 DEF CountDead
  <2>3. CASE ~(dead' * CompactFactor >= Number)
    BY <2>1, <2>3 DEF CountDead, Return
  <2>4. QED
    BY <2>2, <2>3
<1>3. Number' = Number /\ ~Replacing' /\ Surplus' = 0
  BY <1>1, <1>2, CallOver DEF Number, Surplus
<1>4. w'.pc # "compact" => dead' * CompactFactor < Number'
  <2>1. w'.pc # "compact" => w' = IdleWriter
    BY <1>1, <1>2 DEF Writers
  <2>2. /\ dead \in Nat /\ CompactFactor \in Nat /\ Number \in Nat
        /\ (dead + 1) * CompactFactor \in Nat
    BY CountTypes
  <2>3. QED
    BY <1>2, <1>3, <2>1, <2>2
<1>5. CASE Retire
  <2>1. nums' = [nums EXCEPT ![w.id] = w.num] /\ count' = count /\ w.num \in 0..Number - 1
    BY <1>5 DEF Retire, WriterInv, WriterFits
  <2>2. Present' = Present
    BY <1>1, <2>1 DEF Present, Known, NoNumber
  <2>3. Surplus = 1
    <3>1. w.pc = "retire" /\ w.old # NoNumber
      BY <1>5 DEF Retire, NumbersFit, CallFits
    <3>2. w.num < Number
      BY <2>1, CountTypes
    <3>3. QED
      BY <3>1, <3>2 DEF Surplus, Replacing
  <2>4. QED
    BY <1>2, <1>3, <1>4, <2>1, <2>2, <2>3, CountTypes DEF CountsFit
<1>6. CASE Forget
  <2>1. nums' = [nums EXCEPT ![w.id] = NoNumber] /\ count' = count - 1
    BY <1>6 DEF Forget
  <2>2. Present' = Present \ {w.id} /\ w.id \in Present
    BY <1>1, <2>1 DEF Present, Known
  <2>3. IsFiniteSet(Present') /\ Cardinality(Present') = Cardinality(Present) - 1
    BY <2>2, FS_RemoveElement DEF CountsFit
  <2>4. Surplus = 0
    BY <1>6 DEF Forget, Surplus, Replacing
  <2>5. QED
    BY <1>2, <1>3, <1>4, <2>1, <2>3, <2>4, CountTypes DEF CountsFit
<1>7. QED
  BY <1>5, <1>6

\* The numbers that compact keeps are counted, and nothing is dead.
LEMMA CountsCompact ==
    ASSUME WriterInv, NumbersFit, CountsFit, Compact
    PROVE  CountsFit'
<1>1. /\ w.pc = "compact" /\ table' = Compacted /\ dead' = 0 /\ w' = IdleWriter /\ count' = count
      /\ nums' = [id \in Ids |->
                    IF \E n \in Live : table.ids[n + 1] = id
                    THEN Renum(CHOOSE n \in Live : table.ids[n + 1] = id)
                    ELSE nums[id]]
  BY DEF Compact, Return
<1>2. ~Replacing /\ w.pc # "forget"
  BY <1>1 DEF Replacing
<1>3. Number' = Cardinality(Live) /\ \A n \in Live : Renum(n) \in Nat
  BY <1>1, CompactedParts DEF Number
<1>4. Cardinality(Live) = Cardinality(Present)
  BY <1>2, LiveCount DEF CountsFit
<1>5. Present' = Present
  <2> SUFFICES ASSUME NEW id \in Ids PROVE Known(id)' <=> Known(id)
    BY DEF Present
  <2> DEFINE n == CHOOSE n \in Live : table.ids[n + 1] = id
  <2>1. CASE \E m \in Live : table.ids[m + 1] = id
    <3>1. n \in Live /\ table.ids[n + 1] = id /\ nums'[id] = Renum(n)
      BY <1>1, <2>1
    <3> HIDE DEF n
    <3>2. nums[id] = n /\ n \in Nat
      BY <1>2, <3>1, LiveOwners, LiveParts
    <3>3. QED
      BY <1>3, <3>1, <3>2 DEF Known, NoNumber
  <2>2. CASE ~ \E m \in Live : table.ids[m + 1] = id
    BY <1>1, <2>2 DEF Known
  <2>3. QED
    BY <2>1, <2>2
<1>6. Surplus' = 0
  BY <1>1 DEF Surplus, Replacing, IdleWriter
<1>7. count \in Nat /\ CompactFactor \in Nat
  BY CountTypes
<1>8. Number' = 0 \/ dead' * CompactFactor < Number'
  BY <1>1, <1>3, <1>4, <1>7 DEF CountsFit
<1>9. QED
  BY <1>1, <1>3, <1>4, <1>5, <1>6, <1>7, <1>8 DEF CountsFit

\* Every step keeps the counters right.
LEMMA CountsStep ==
    ASSUME Inv, CountsFit, Next
    PROVE  CountsFit'
<1>1. WriterInv /\ NumbersFit /\ table \in Tables /\ w \in Writers /\ Number \in Nat
  BY CountTypes DEF Inv, WriterInv
<1>2. ASSUME NEW id \in Targets, NEW sets \in RuleSets, AddRule(id, sets) PROVE CountsFit'
  <2>1. w.pc = "idle" /\ UNCHANGED <<table, nums, count, dead>> /\ w'.old = NoNumber
    BY <1>2 DEF AddRule, Calling, IdleWriter
  <2>2. QED
    BY <2>1, CountsSame DEF Replacing
<1>3. ASSUME NEW id \in Targets, NEW sets \in RuleSets, ReplaceRule(id, sets) PROVE CountsFit'
  <2>1. w.pc = "idle" /\ UNCHANGED <<table, nums, count, dead>>
    BY <1>3 DEF ReplaceRule
  <2>2. w'.old = NoNumber \/ w'.num = Number
    BY <1>3 DEF ReplaceRule, Calling, IdleWriter
  <2>3. QED
    BY <1>1, <2>1, <2>2, CountsSame DEF Replacing
<1>4. ASSUME NEW id \in Targets, RemoveRule(id) PROVE CountsFit'
  <2>1. w.pc = "idle" /\ UNCHANGED <<table, nums, count, dead>> /\ w'.old = NoNumber
    BY <1>4 DEF RemoveRule, Calling, IdleWriter
  <2>2. QED
    BY <2>1, CountsSame DEF Replacing
<1>5. CASE TooManyRules \/ Unlock
  <2>1. /\ w.pc \in {"number", "unlock"} /\ UNCHANGED <<table, nums, count, dead>>
        /\ w'.pc = "idle"
    BY <1>5 DEF TooManyRules, Unlock, Return, IdleWriter
  <2>2. QED
    BY <2>1, CountsSame DEF Replacing
<1>6. CASE MetaGrow \/ MetaSpan \/ MetaOrder \/ BitGrow \/ BitSet
  <2>1. UNCHANGED <<nums, count, dead>> /\ table'.ids = table.ids
    BY <1>1, <1>6 DEF MetaGrow, MetaSpan, MetaOrder, BitGrow, BitSet, Tables
  <2>2. /\ w'.num = w.num /\ w'.old = w.old
        /\ \/ w.pc \in {"span", "order"} /\ w'.pc \in {"order", "span", "ids", "version"}
           \/ w.pc = "bit" /\ w'.pc \in {"bit", "forget"}
    BY <1>1, <1>6 DEF MetaGrow, MetaSpan, MetaOrder, BitGrow, BitSet, Writers
  <2>3. QED
    BY <2>1, <2>2, CountsSame DEF Replacing
<1>7. CASE LowerMinKey \/ Follow \/ LinkAbsent \/ AddNumber
  <2>1. UNCHANGED <<nums, count, dead>> /\ table'.ids = table.ids
    BY <1>1, <1>7 DEF LowerMinKey, Follow, LinkAbsent, AddNumber, Tables
  <2>2. /\ w'.num = w.num /\ w'.old = w.old
        /\ w.pc \in {"lower", "follow", "link", "rule"}
        /\ \/ w'.pc \in {"lower", "follow", "link", "rule", "span"}
           \/ w'.pc = "unlock" /\ w.old = NoNumber
    BY <1>1, <1>7 DEF LowerMinKey, Follow, LinkAbsent, AddNumber, Writers
  <2>3. QED
    BY <2>1, <2>2, CountsSame DEF Replacing
<1>8. CASE PublishVersion
  <2>1. UNCHANGED <<nums, count, dead>> /\ table'.ids = table.ids
    BY <1>1, <1>8 DEF PublishVersion, Tables
  <2>2. w'.num = w.num /\ w'.old = w.old /\ w.pc = "version" /\ w'.pc = "retire"
    BY <1>1, <1>8 DEF PublishVersion, Writers
  <2>3. QED
    BY <2>1, <2>2, CountsSame DEF Replacing
<1>9. CASE Writer
  BY <1>1, <1>2, <1>3, <1>4, <1>5, <1>6, <1>7, <1>8, <1>9,
     CountsNewNumber, CountsPublishId, CountsReturn, CountsCompact DEF Writer
<1>10. ASSUME UNCHANGED <<table, nums, dead, count, w>> PROVE CountsFit'
  BY <1>10 DEF CountsFit, Surplus, Present, Known, Number, Replacing
<1>11. ASSUME NEW r \in Readers,
              \/ \E e \in Events, first \in Firsts : Match(r, e, first)
              \/ Reader(r)
              \/ Rest(r)
       PROVE  UNCHANGED <<table, nums, dead, count, w>>
  BY <1>11 DEF Match, Reader, Rest, LoadVersion, LoadIds, LoadMeta, LoadRemoved, LoadAbsent,
               Visit, Consider, ReturnFirst, Filter, ReturnMatches, wvars
<1>12. QED
  BY <1>9, <1>10, <1>11 DEF Next

\* Preload has given a number to each of its rules, and none has a span or a
\* bit.
LEMMA LoadedNumbers ==
    ASSUME Init
    PROVE  /\ Len(Preload) \in Nat /\ Number = Len(Preload)
           /\ table.meta = <<>> /\ table.removed = <<>>
<1> DEFINE L == Len(Preload)
           ids == [i \in 1..L |-> Preload[i].id]
           at == [p \in Paths |-> {n \in 0..L - 1 : Preload[n + 1].body = p}]
           Rules == [id : Ids, body : Bodies]
<1>1. L \in Nat /\ \A i \in 1..L : Preload[i] \in Rules
  <2>1. Preload \in Seq(Rules)
    BY ConstantsAssumption
  <2> HIDE DEF Rules
  <2>2. QED
    BY <2>1
<1>2. \A i \in 1..L : Preload[i].id \in Ids
  BY <1>1
<1>3. ids \in Seq(Ids) /\ Len(ids) = L
  BY <1>1, <1>2
<1>4. table = NewTable(ids, at)
  BY DEF Init, Loaded
<1> HIDE DEF ids, at
<1>5. table.ids = ids /\ table.meta = <<>> /\ table.removed = <<>>
  BY <1>4 DEF NewTable
<1>6. QED
  BY <1>1, <1>3, <1>5 DEF Number

\* The rules of Preload are counted.
LEMMA CountsInit == Init => CountsFit
<1> SUFFICES ASSUME Init PROVE CountsFit
  OBVIOUS
<1> DEFINE L == Len(Preload)
           f == [n \in Live |-> table.ids[n + 1]]
<1>1. WriterInv /\ NumbersFit
  BY InvInit DEF Inv
<1>2. w.pc = "idle" /\ count = L /\ dead = 0
  BY DEF Init, IdleWriter
<1>3. Number = L /\ L \in Nat /\ table.meta = <<>> /\ table.removed = <<>>
  BY LoadedNumbers
<1>4. Live = 0..L - 1
  <2>1. \A n : ~BitsHas(table, Len(table.removed), n) /\ MetaAt(table, Len(table.meta), n).until = 0
    BY <1>3 DEF BitsHas, MetaAt, NoMeta
  <2>2. QED
    BY <1>3, <2>1 DEF Live
<1>5. IsFiniteSet(Live) /\ Cardinality(Live) = L
  <2> HIDE DEF L
  <2>1. 0 \in Int /\ L - 1 \in Int
    BY <1>3
  <2>2. /\ IsFiniteSet(0..L - 1)
        /\ Cardinality(0..L - 1) = IF 0 > L - 1 THEN 0 ELSE L - 1 - 0 + 1
    BY <2>1, FS_Interval
  <2>3. Cardinality(0..L - 1) = L
    BY <1>3, <2>2
  <2>4. QED
    BY <1>4, <2>2, <2>3
<1>6. ~Replacing
  BY <1>2 DEF Replacing
<1>7. /\ \A id \in Ids : Known(id) => nums[id] \in Live /\ table.ids[nums[id] + 1] = id
      /\ \A n \in Live : table.ids[n + 1] \in Ids /\ nums[table.ids[n + 1]] = n
  BY <1>1, <1>2, <1>6, LiveOwners
<1>8. ExistsBijection(Live, Present)
  <2>1. \A n \in Live : f[n] \in Present /\ nums[f[n]] = n
    BY <1>3, <1>4, <1>7 DEF Present, Known, NoNumber
  <2>2. \A id \in Present : nums[id] \in Live /\ f[nums[id]] = id
    BY <1>7 DEF Present
  <2>3. f \in [Live -> Present]
    BY <2>1
  <2> HIDE DEF f
  <2>4. f \in Bijection(Live, Present)
    BY <2>1, <2>2, <2>3, Fun_IsBij
  <2>5. QED
    BY <2>4 DEF ExistsBijection
<1>9. IsFiniteSet(Present) /\ Cardinality(Present) = L
  BY <1>5, <1>8, FS_Bijection
<1>10. Surplus = 0
  BY <1>6 DEF Surplus
<1>11. dead = Number - count - Surplus /\ (dead * CompactFactor < Number \/ Number = 0)
  <2> HIDE DEF L
  <2>1. CompactFactor \in Nat
    BY ConstantsAssumption
  <2>2. QED
    BY <1>2, <1>3, <1>10, <2>1
<1>12. QED
  BY <1>2, <1>9, <1>11 DEF CountsFit

-----------------------------------------------------------------------------
(* The theorems, about the specification with its history variables.       *)

BookInv == Inv /\ KeyFits /\ CountsFit

\* The invariant of the bookkeeping holds initially,
LEMMA BookInit == CallInit => BookInv
<1> SUFFICES ASSUME CallInit PROVE BookInv
  OBVIOUS
<1>1. Init /\ w.pc = "idle"
  BY DEF CallInit, Init, IdleWriter
<1>2. KeyFits
  BY <1>1 DEF KeyFits, Replacing
<1>3. QED
  BY <1>1, <1>2, InvInit, CountsInit DEF BookInv

\* and in every step.
LEMMA BookStep == BookInv /\ [CallNext]_hvars => BookInv'
<1> SUFFICES ASSUME BookInv, [CallNext]_hvars PROVE BookInv'
  OBVIOUS
<1>1. Inv'
  BY InvStep DEF BookInv, CallNext, hvars
<1>2. CASE CallNext
  <2>1. Next
    BY <1>2 DEF CallNext
  <2>2. CountsFit'
    BY <2>1, CountsStep DEF BookInv
  <2>3. KeyFits'
    <3>1. CASE w.pc = "compact"
      <4>1. CASE Writer
        <5>1. Compact
          BY <3>1, <4>1 DEF Writer, AddRule, ReplaceRule, RemoveRule, NewNumber, TooManyRules,
               MetaGrow, MetaSpan, MetaOrder, PublishId, LowerMinKey, Follow, LinkAbsent,
               AddNumber, Unlock, PublishVersion, Retire, BitGrow, BitSet, Forget
        <5>2. QED
          BY <5>1 DEF Compact, Return, IdleWriter, KeyFits, Replacing
      <4>2. ASSUME w' = w PROVE KeyFits'
        BY <3>1, <4>2 DEF KeyFits, Replacing
      <4>3. ASSUME NEW r \in Readers,
                   \/ \E e \in Events, first \in Firsts : Match(r, e, first)
                   \/ Reader(r)
                   \/ Rest(r)
            PROVE  w' = w
        BY <4>3 DEF Match, Reader, Rest, LoadVersion, LoadIds, LoadMeta, LoadRemoved, LoadAbsent,
                    Visit, Consider, ReturnFirst, Filter, ReturnMatches, wvars
      <4>4. QED
        BY <2>1, <4>1, <4>2, <4>3 DEF Next
    <3>2. CASE w.pc # "compact"
      BY <2>1, <3>2, KeysStep DEF BookInv
    <3>3. QED
      BY <3>1, <3>2
  <2>4. QED
    BY <1>1, <2>2, <2>3 DEF BookInv
<1>3. CASE UNCHANGED hvars
  <2>1. UNCHANGED <<table, nums, dead, count, w>>
    BY <1>3 DEF hvars, vars
  <2>2. KeyFits' /\ CountsFit'
    BY <2>1 DEF BookInv, KeyFits, CountsFit, Surplus, Present, Known, Number, Replacing, Order,
                OrderIn, MetaAt
  <2>3. QED
    BY <1>1, <2>2 DEF BookInv
<1>4. QED
  BY <1>2, <1>3

\* The inductive invariant of the writer's bookkeeping: the one of HyperMatch,
\* the key that a ReplaceRule in progress stores, and the counters h.count and
\* h.removed in the middle of every call.
THEOREM BookInductive == CallSpec => []BookInv
  BY BookInit, BookStep, PTL DEF CallSpec

\* Match reads order keys one by one and sorts by them (results, key): no step
\* of AddRule, ReplaceRule or RemoveRule changes the key of a number that ids
\* has, in the current array or in one that a reader still holds.
THEOREM KeysStable == CallSpec => KeysAreStable
<1>1. BookInv /\ [CallNext]_hvars =>
        [\A n \in 0..Number - 1, a \in 0..Len(table.meta) :
            w.pc # "compact" => OrderIn(table, a, n)' = OrderIn(table, a, n)]_vars
  <2> SUFFICES ASSUME BookInv, [CallNext]_hvars, w.pc # "compact", ~UNCHANGED vars
               PROVE  StableKeys
    BY DEF StableKeys
  <2>1. Next
    BY DEF CallNext, hvars
  <2>2. QED
    BY <2>1, KeysStep DEF BookInv
<1>2. QED
  BY BookInductive, <1>1, PTL DEF CallSpec, KeysAreStable

\* Between two calls of the writer h.nums, the removed bits and the spans agree
\* on which numbers are alive, RuleCount is their number, and h.removed counts
\* the others, so that compact runs when it should and drops no rule.
THEOREM NumbersExact == CallSpec => []NumbersAreExact
<1>1. BookInv => NumbersAreExact
  <2> SUFFICES ASSUME BookInv, w.pc = "idle" PROVE NumbersAreExact
    BY DEF NumbersAreExact
  <2>1. WriterInv /\ NumbersFit /\ CountsFit
    BY DEF BookInv, Inv
  <2>2. /\ \A id \in Ids : Known(id) => nums[id] \in Live /\ table.ids[nums[id] + 1] = id
        /\ \A n \in Live : table.ids[n + 1] \in Ids /\ nums[table.ids[n + 1]] = n
    BY <2>1, LiveOwners DEF Replacing
  <2>3. \A n \in Live : Known(table.ids[n + 1])
    BY <2>2, LiveParts, <2>1 DEF Known, NoNumber
  <2>4. Live = {nums[id] : id \in {x \in Ids : Known(x)}}
    BY <2>2, <2>3
  <2>5. Surplus = 0 /\ count = Cardinality({id \in Ids : Known(id)})
    BY <2>1 DEF Surplus, Replacing, CountsFit, Present
  <2>6. dead = Number - count
    BY <2>1, <2>5, CountTypes DEF CountsFit
  <2>7. dead * CompactFactor < Number \/ Number = 0
    BY <2>1 DEF CountsFit
  <2>8. QED
    BY <2>2, <2>4, <2>5, <2>6, <2>7 DEF NumbersAreExact
<1>2. QED
  BY BookInductive, <1>1, PTL

-----------------------------------------------------------------------------
(* The writer's part of the invariant.                                     *)

From(n) == MetaAt(table, Len(table.meta), n).from
Ord(n) == MetaAt(table, Len(table.meta), n).ord

\* No number has a key that is larger than itself, and numbers that are not in
\* use have none.  A replacement has the span and the key it is given before ids
\* has it, and the number it replaces keeps its own beginning.
PlaceFits ==
    /\ \A n \in Nat : n >= Number => Ord(n) = 0 \/ (Replacing /\ n = w.num)
    /\ \A n \in 0..Number - 1 : Order(table, n) <= n
    /\ Replacing =>
          /\ w.from = From(w.old)
          /\ w.num < Number \/ w.pc = "ids" => From(w.num) = w.v /\ Order(table, w.num) = w.key
          /\ w.pc = "order" /\ w.target = w.num => From(w.num) = w.v

\* Keys tell who was added earlier, and who is about to get a number comes last.
InOrder ==
    /\ \A a, b \in Ids :
          Known(a) /\ Known(b) /\ a # b /\ Order(table, nums[a]) <= Order(table, nums[b])
             => Earlier(a, b)
    /\ w.pc = "number" /\ Number < MaxRules => \A a \in Ids \ {w.id} : Earlier(a, w.id)

\* Readers in a call know of the removal in progress.
GoneFits ==
    /\ w.pc \in {"bit", "forget"} => w.op = "remove"
    /\ w.op = "remove" => w.pc # "idle"
    /\ w.op = "remove" => \A r \in Readers : rd[r].pc # "idle" => w.id \in seen[r].gone

-----------------------------------------------------------------------------
(* The readers' part: what is loaded already, and what would be loaded now.  *)

SeenVersion(r) == IF rd[r].pc = "version" THEN Tab(r).version ELSE rd[r].version
SeenLimit(r) == IF rd[r].pc \in {"version", "ids"} THEN Len(Tab(r).ids) ELSE rd[r].limit
SeenMeta(r) ==
    IF rd[r].pc \in {"version", "ids", "meta"} THEN Len(Tab(r).meta) ELSE rd[r].meta
SeenRemoved(r) ==
    IF rd[r].pc \in {"version", "ids", "meta", "removed"}
    THEN Len(Tab(r).removed) ELSE rd[r].removed

Hidden(r, n) ==
    LET m == MetaAt(Tab(r), SeenMeta(r), n)
    IN  \/ BitsHas(Tab(r), SeenRemoved(r), n)
        \/ m.from > SeenVersion(r)
        \/ m.until # 0 /\ m.until <= SeenVersion(r)

IdOf(r, n) == Tab(r).ids[n + 1]
SeenKey(r, n) == OrderIn(Tab(r), SeenMeta(r), n)

\* A number that the call may still return, or has decided to.
Alive(r, n) ==
    /\ n < SeenLimit(r)
    /\ IdOf(r, n) \notin seen[r].gone
    /\ ~Hidden(r, n) \/ n \in rd[r].kept

\* Each identifier has one such number, the one h.nums has or a replaced one
\* with the same key, and their keys are in the order of the identifiers.
AliveFits(r) ==
    /\ \A n \in 0..SeenLimit(r) - 1 : Alive(r, n) =>
          /\ Known(IdOf(r, n))
          /\ ~rd[r].stale => SeenKey(r, n) = Order(table, nums[IdOf(r, n)])
    /\ \A n, m \in 0..SeenLimit(r) - 1 : Alive(r, n) /\ Alive(r, m) /\ n # m =>
          /\ IdOf(r, n) # IdOf(r, m)
          /\ SeenKey(r, n) <= SeenKey(r, m) => Earlier(IdOf(r, n), IdOf(r, m))

\* The same of what a call has returned.
ResultFits(r) ==
    \A i, j \in 1..Len(Result(r)) :
        i < j /\ Result(r)[i] \notin seen[r].gone /\ Result(r)[j] \notin seen[r].gone =>
            /\ Known(Result(r)[i]) /\ Known(Result(r)[j])
            /\ Result(r)[i] # Result(r)[j]
            /\ Earlier(Result(r)[i], Result(r)[j])

SeenTypes ==
    \A r \in Readers :
        seen[r] \in [may : SUBSET Ids, must : SUBSET Ids, gone : SUBSET Ids, calls : Nat]

\* Before it visits the trie a call has kept nothing, and the version that a
\* reader loaded from the current table is not ahead of it.
LoadFits(r) ==
    /\ rd[r].pc # "visit" => rd[r].kept = {}
    /\ ~Reading(r) => rd[r].version = 0
    /\ ~rd[r].stale => rd[r].version <= table.version

WriterPart == BookInv /\ PlaceFits /\ InOrder /\ GoneFits /\ SeenTypes

ReaderPart(r) ==
    /\ LoadFits(r)
    /\ Reading(r) => AliveFits(r)
    /\ Done(r) => ResultFits(r)

ResultsInv == WriterPart /\ \A r \in Readers : ReaderPart(r)

-----------------------------------------------------------------------------
(* What a step of the writer but compact does to words that readers see.    *)

\* A reader that has an array keeps it, and one that has not finds the last: array
\* b of the table after the step is what array a was before it.
WordsEvolve ==
    \A n \in 0..Number - 1, a \in 0..Len(table.meta), b \in 0..Len(table.meta)' :
        a = b \/ (a = Len(table.meta) /\ b = Len(table.meta)') =>
            /\ MetaAt(table', b, n).from = MetaAt(table, a, n).from
            /\ \/ MetaAt(table', b, n).until = MetaAt(table, a, n).until
               \/ /\ MetaAt(table, a, n).until = 0
                  /\ MetaAt(table', b, n).until = table.version + 1
            /\ OrderIn(table', b, n) = OrderIn(table, a, n)

BitsEvolve ==
    \A n \in 0..Number - 1, a \in 0..Len(table.removed), b \in 0..Len(table.removed)' :
        a = b \/ (a = Len(table.removed) /\ b = Len(table.removed)') =>
            /\ BitsHas(table, a, n) => BitsHas(table', b, n)
            /\ BitsHas(table', b, n) => BitsHas(table, a, n) \/ (w.pc = "bit" /\ n = w.num)

Evolves == WordsEvolve /\ BitsEvolve

\* Nothing happens to words that no step stores.
LEMMA WordsKept ==
    ASSUME table'.meta = table.meta
    PROVE  WordsEvolve
  BY DEF WordsEvolve, MetaAt, OrderIn

\* The same for bits.
LEMMA BitsKept ==
    ASSUME table'.removed = table.removed
    PROVE  BitsEvolve
  BY DEF BitsEvolve, BitsHas

\* A grown copy of the words has the words of the array it replaces.
LEMMA GrownWords ==
    ASSUME WriterInv, MetaGrow
    PROVE  /\ Len(table'.meta) = Len(table.meta) + 1
           /\ \A n \in Nat, a \in 0..Len(table.meta) : MetaAt(table', a, n) = MetaAt(table, a, n)
           /\ \A n \in Nat : MetaAt(table', Len(table'.meta), n) = MetaAt(table, Len(table.meta), n)
<1> DEFINE a == Len(table.meta)
           cur == IF a = 0 THEN <<>> ELSE table.meta[a]
           len == Most(2 * Len(cur), w.target + 1)
           new == [i \in 1..len |-> IF i <= Len(cur) THEN cur[i] ELSE NoMeta]
<1>1. table' = [table EXCEPT !.meta = Append(@, new)] /\ table \in Tables
  BY DEF MetaGrow, WriterInv
<1>2. table'.meta = Append(table.meta, new) /\ table.meta \in Seq(Seq(MetaWords)) /\ a \in Nat
  <2> HIDE DEF new
  <2> QED
    BY <1>1, TableParts DEF Tables
<1>3. cur \in Seq(MetaWords) /\ w.target \in Nat
  BY <1>1, TableParts DEF MetaGrow, WriterInv, WriterFits
<1>4. len \in Nat /\ len >= Len(cur)
  <2> HIDE DEF cur
  <2> QED
    BY <1>3 DEF Most
<1>5. /\ Len(table'.meta) = a + 1 /\ table'.meta[a + 1] = new
      /\ \A b \in 1..a : table'.meta[b] = table.meta[b]
  <2> HIDE DEF new
  <2> QED
    BY <1>2
<1>6. Len(new) = len /\ \A i \in 1..len : new[i] = IF i <= Len(cur) THEN cur[i] ELSE NoMeta
  <2> HIDE DEF len, cur
  <2> QED
    BY <1>4
<1>7. ASSUME NEW n \in Nat, NEW b \in 0..a PROVE MetaAt(table', b, n) = MetaAt(table, b, n)
  <2> HIDE DEF new, len, cur
  <2>1. b # 0 => table'.meta[b] = table.meta[b]
    BY <1>2, <1>5
  <2>2. QED
    BY <2>1 DEF MetaAt
<1>8. ASSUME NEW n \in Nat PROVE MetaAt(table', a + 1, n) = MetaAt(table, a, n)
  <2>1. MetaAt(table, a, n) = IF n < Len(cur) THEN cur[n + 1] ELSE NoMeta
    BY DEF MetaAt
  <2> HIDE DEF new, len, cur
  <2>2. MetaAt(table', a + 1, n) = IF n < len THEN new[n + 1] ELSE NoMeta
    BY <1>2, <1>5, <1>6 DEF MetaAt
  <2>3. n < len => new[n + 1] = IF n < Len(cur) THEN cur[n + 1] ELSE NoMeta
    BY <1>3, <1>4, <1>6
  <2>4. QED
    BY <1>3, <1>4, <2>1, <2>2, <2>3
<1> HIDE DEF new, len, cur, a
<1>9. QED
  BY <1>5, <1>7, <1>8 DEF a

\* A store to one slot changes one word of the last array.
LEMMA StoredWords ==
    ASSUME WriterInv, table.meta # <<>>, NEW i \in 1..Len(table.meta[Len(table.meta)]),
           NEW x \in MetaWords,
           table' = [table EXCEPT !.meta[Len(table.meta)][i] = x]
    PROVE  /\ Len(table'.meta) = Len(table.meta)
           /\ \A n \in Nat, a \in 0..Len(table.meta) :
                MetaAt(table', a, n) =
                    IF a = Len(table.meta) /\ n = i - 1 THEN x ELSE MetaAt(table, a, n)
<1> DEFINE a == Len(table.meta)
<1>1. /\ table \in Tables /\ a \in 1..a /\ i \in Nat /\ a \in Nat
      /\ table.meta[a] \in Seq(MetaWords)
  BY TableParts DEF WriterInv
<1>2. /\ Len(table'.meta) = a /\ Len(table'.meta[a]) = Len(table.meta[a])
      /\ table'.meta[a] = [table.meta[a] EXCEPT ![i] = x]
      /\ \A b \in 1..a : b # a => table'.meta[b] = table.meta[b]
  BY <1>1, MetaStored
<1>3. ASSUME NEW n \in Nat, NEW b \in 0..a
      PROVE  MetaAt(table', b, n) = IF b = a /\ n = i - 1 THEN x ELSE MetaAt(table, b, n)
  <2>1. CASE b # a
    <3>1. b # 0 => table'.meta[b] = table.meta[b]
      BY <1>1, <1>2, <2>1
    <3>2. QED
      BY <2>1, <3>1 DEF MetaAt
  <2>2. CASE b = a
    <3> HIDE DEF a
    <3>1. QED
      BY <1>1, <1>2, <2>2 DEF MetaAt
  <2>3. QED
    BY <2>1, <2>2
<1>4. QED
  BY <1>2, <1>3

\* The two stores of ruleMeta.set, as stores of one word each.
LEMMA SpanWord ==
    ASSUME WriterInv, MetaSpan
    PROVE  /\ w.target \in Nat /\ Len(table'.meta) = Len(table.meta)
           /\ \A n \in Nat, a \in 0..Len(table.meta) :
                MetaAt(table', a, n) =
                    IF a = Len(table.meta) /\ n = w.target
                    THEN [MetaAt(table, a, n) EXCEPT
                            !.from = IF w.target = w.num THEN w.v ELSE w.from,
                            !.until = IF w.target = w.num THEN 0 ELSE w.v]
                    ELSE MetaAt(table, a, n)
<1> DEFINE a == Len(table.meta)
           i == w.target + 1
           f == IF w.target = w.num THEN w.v ELSE w.from
           u == IF w.target = w.num THEN 0 ELSE w.v
           x == [table.meta[a][i] EXCEPT !.from = f, !.until = u]
<1>1. /\ w.pc = "span" /\ a # 0 /\ w.target < Len(table.meta[a])
      /\ table' = [table EXCEPT !.meta[a][i] = [@ EXCEPT !.from = f, !.until = u]]
  BY DEF MetaSpan
<1>2. table \in Tables /\ w \in Writers /\ w.target \in Nat
  BY <1>1 DEF WriterInv, WriterFits
<1>3. /\ table.meta # <<>> /\ i \in 1..Len(table.meta[a]) /\ table.meta[a][i] \in MetaWords
      /\ i - 1 = w.target /\ a \in Nat
  BY <1>1, <1>2, TableParts
<1>4. x \in MetaWords
  <2>1. f \in Nat /\ u \in Nat
    BY <1>2 DEF Writers
  <2> HIDE DEF f, u
  <2>2. QED
    BY <1>3, <2>1 DEF MetaWords
<1>5. table' = [table EXCEPT !.meta[a][i] = x]
  BY <1>1
<1>6. MetaAt(table, a, w.target) = table.meta[a][i]
  BY <1>1 DEF MetaAt
<1>7. x = [MetaAt(table, a, w.target) EXCEPT !.from = f, !.until = u]
  BY <1>6
<1> HIDE DEF x, i, f, u
<1>8. /\ Len(table'.meta) = a
      /\ \A n \in Nat, b \in 0..a :
            MetaAt(table', b, n) = IF b = a /\ n = i - 1 THEN x ELSE MetaAt(table, b, n)
  BY <1>3, <1>4, <1>5, StoredWords
<1>9. QED
  BY <1>2, <1>3, <1>7, <1>8 DEF f, u

\* The second one.
LEMMA OrderWord ==
    ASSUME WriterInv, MetaOrder
    PROVE  /\ w.target \in Nat /\ Len(table'.meta) = Len(table.meta)
           /\ \A n \in Nat, a \in 0..Len(table.meta) :
                MetaAt(table', a, n) =
                    IF a = Len(table.meta) /\ n = w.target
                    THEN [MetaAt(table, a, n) EXCEPT !.ord = w.key + 1]
                    ELSE MetaAt(table, a, n)
<1> DEFINE a == Len(table.meta)
           i == w.target + 1
           x == [table.meta[a][i] EXCEPT !.ord = w.key + 1]
<1>1. /\ w.pc = "order" /\ a # 0 /\ w.target < Len(table.meta[a])
      /\ table' = [table EXCEPT !.meta[a][i].ord = w.key + 1]
  BY DEF MetaOrder, WriterInv, WriterFits
<1>2. table \in Tables /\ w \in Writers /\ w.target \in Nat /\ w.key \in Nat
  BY <1>1 DEF WriterInv, WriterFits, Writers
<1>3. /\ table.meta # <<>> /\ i \in 1..Len(table.meta[a]) /\ table.meta[a][i] \in MetaWords
      /\ i - 1 = w.target /\ a \in Nat
      /\ table.meta \in Seq(Seq(MetaWords)) /\ table.meta[a] \in Seq(MetaWords)
  BY <1>1, <1>2, TableParts
<1>4. x \in MetaWords
  <2>1. w.key + 1 \in Nat
    BY <1>2
  <2>2. table.meta[a][i] \in MetaWords
    BY <1>3
  <2>3. QED
    BY <2>1, <2>2 DEF MetaWords
<1>5. table' = [table EXCEPT !.meta[a][i] = x]
  <2> HIDE DEF i
  <2> QED
    BY <1>1, <1>2, <1>3 DEF Tables
<1>6. MetaAt(table, a, w.target) = table.meta[a][i]
  BY <1>1 DEF MetaAt
<1>7. x = [MetaAt(table, a, w.target) EXCEPT !.ord = w.key + 1]
  BY <1>6
<1> HIDE DEF x, i
<1>8. /\ Len(table'.meta) = a
      /\ \A n \in Nat, b \in 0..a :
            MetaAt(table', b, n) = IF b = a /\ n = i - 1 THEN x ELSE MetaAt(table, b, n)
  BY <1>3, <1>4, <1>5, StoredWords
<1>9. QED
  BY <1>2, <1>3, <1>7, <1>8

\* The span that ReplaceRule stores for the replaced number keeps its beginning
\* and ends it with the next version; the other one is of a number without
\* identifier.
LEMMA SpanEvolves ==
    ASSUME Inv, PlaceFits, MetaSpan
    PROVE  WordsEvolve
<1> DEFINE a == Len(table.meta)
<1>1. WriterInv /\ NumbersFit /\ w.pc = "span" /\ table \in Tables /\ Number \in Nat /\ a \in Nat
  BY TableParts DEF Inv, WriterInv, MetaSpan, Number
<1>2. /\ w.target \in Nat /\ Len(table'.meta) = a
      /\ \A n \in Nat, b \in 0..a :
            MetaAt(table', b, n) =
                IF b = a /\ n = w.target
                THEN [MetaAt(table, b, n) EXCEPT
                        !.from = IF w.target = w.num THEN w.v ELSE w.from,
                        !.until = IF w.target = w.num THEN 0 ELSE w.v]
                ELSE MetaAt(table, b, n)
  BY <1>1, SpanWord
<1>3. Replacing /\ w.target \in {w.old, w.num} /\ (w.target = w.num => w.num = Number)
  BY <1>1 DEF NumbersFit, CallFits, Replacing, WriterInv, WriterFits
<1>4. w.v = table.version + 1 /\ w.from = From(w.old) /\ Until(w.old) = 0
  <2>1. Known(w.id) /\ w.old = nums[w.id] /\ w.id \in Ids /\ w.v = table.version + 1
    BY <1>1, <1>3 DEF NumbersFit, CallFits, WriterInv, WriterFits
  <2>2. ~Ending
    BY <1>1 DEF Ending
  <2>3. QED
    BY <1>1, <1>3, <2>1, <2>2 DEF NumbersFit, Numbered, PlaceFits
<1>5. SUFFICES ASSUME NEW n \in 0..Number - 1, NEW b \in 0..a
      PROVE  /\ MetaAt(table', b, n).from = MetaAt(table, b, n).from
             /\ \/ MetaAt(table', b, n).until = MetaAt(table, b, n).until
                \/ /\ MetaAt(table, b, n).until = 0
                   /\ MetaAt(table', b, n).until = table.version + 1
             /\ OrderIn(table', b, n) = OrderIn(table, b, n)
  <2> HIDE DEF a
  <2> QED
    BY <1>2 DEF WordsEvolve, a
<1>6. n \in Nat /\ n # Number /\ MetaAt(table, b, n) \in MetaWords
  <2>1. n \in Nat /\ n # Number
    BY <1>1
  <2>2. QED
    BY <1>1, <2>1, MetaType
<1>7. CASE b = a /\ n = w.target
  <2>1. w.target = w.old /\ w.target # w.num
    BY <1>3, <1>6, <1>7
  <2>2. MetaAt(table', b, n) = [MetaAt(table, b, n) EXCEPT !.from = w.from, !.until = w.v]
    BY <1>2, <1>6, <1>7, <2>1
  <2>3. /\ MetaAt(table', b, n).from = w.from /\ MetaAt(table', b, n).until = w.v
        /\ MetaAt(table', b, n).ord = MetaAt(table, b, n).ord
    BY <1>6, <2>2 DEF MetaWords
  <2>4. w.from = MetaAt(table, b, n).from /\ MetaAt(table, b, n).until = 0
    BY <1>4, <1>7, <2>1 DEF From, Until
  <2>5. QED
    BY <1>4, <2>3, <2>4 DEF OrderIn
<1>8. CASE ~(b = a /\ n = w.target)
  <2>1. MetaAt(table', b, n) = MetaAt(table, b, n)
    BY <1>2, <1>6, <1>8
  <2>2. QED
    BY <2>1 DEF OrderIn
<1>9. QED
  BY <1>7, <1>8

\* The key that it stores is the one the replaced number has.
LEMMA OrderEvolves ==
    ASSUME Inv, KeyFits, MetaOrder
    PROVE  WordsEvolve
<1> DEFINE a == Len(table.meta)
<1>1. WriterInv /\ NumbersFit /\ table \in Tables /\ Number \in Nat /\ a \in Nat /\ w \in Writers
  BY TableParts DEF Inv, WriterInv, Number
<1>2. /\ w.target \in Nat /\ Len(table'.meta) = a
      /\ \A n \in Nat, b \in 0..a :
            MetaAt(table', b, n) =
                IF b = a /\ n = w.target THEN [MetaAt(table, b, n) EXCEPT !.ord = w.key + 1]
                ELSE MetaAt(table, b, n)
  BY <1>1, OrderWord
<1>3. StableKeys
  BY <1>1, OrderKeepsKeys
<1>4. SUFFICES ASSUME NEW n \in 0..Number - 1, NEW b \in 0..a
      PROVE  /\ MetaAt(table', b, n).from = MetaAt(table, b, n).from
             /\ MetaAt(table', b, n).until = MetaAt(table, b, n).until
             /\ OrderIn(table', b, n) = OrderIn(table, b, n)
  <2> HIDE DEF a
  <2> QED
    BY <1>2 DEF WordsEvolve, a
<1>5. n \in Nat /\ MetaAt(table, b, n) \in MetaWords
  BY <1>1, MetaType
<1>6. OrderIn(table', b, n) = OrderIn(table, b, n)
  <2> HIDE DEF a
  <2> QED
    BY <1>3 DEF StableKeys, a
<1>7. CASE b = a /\ n = w.target
  <2>1. MetaAt(table', b, n) = [MetaAt(table, b, n) EXCEPT !.ord = w.key + 1]
    BY <1>2, <1>5, <1>7
  <2>2. QED
    BY <1>5, <1>6, <2>1 DEF MetaWords
<1>8. CASE ~(b = a /\ n = w.target)
  BY <1>2, <1>5, <1>6, <1>8
<1>9. QED
  BY <1>7, <1>8

\* A grown copy of the bits has the bits of the array it replaces.
LEMMA GrownBits ==
    ASSUME WriterInv, BitGrow
    PROVE  BitsEvolve
<1> DEFINE a == Len(table.removed)
           cur == IF a = 0 THEN [len |-> 0, bits |-> {}] ELSE table.removed[a]
           len == Most(2 * cur.len, w.num \div WordBits + 1)
           new == [cur EXCEPT !.len = len]
<1>1. table' = [table EXCEPT !.removed = Append(@, new)] /\ table \in Tables
  BY DEF BitGrow, WriterInv
<1>2. table'.removed = Append(table.removed, new) /\ table.removed \in Seq(Bits) /\ a \in Nat
  <2> HIDE DEF new
  <2> QED
    BY <1>1, TableParts DEF Tables
<1>3. new.bits = IF a = 0 THEN {} ELSE table.removed[a].bits
  <2>1. cur \in [len : Nat, bits : SUBSET Nat]
    <3>1. CASE a = 0
      BY <3>1
    <3>2. CASE a # 0
      <4>1. table.removed[a] \in Bits
        BY <1>1, <1>2, <3>2, TableParts
      <4>2. QED
        BY <3>2, <4>1 DEF Bits
    <3>3. QED
      BY <3>1, <3>2
  <2>2. cur.bits = IF a = 0 THEN {} ELSE table.removed[a].bits
    OBVIOUS
  <2> HIDE DEF cur, len
  <2>3. new.bits = cur.bits
    BY <2>1
  <2>4. QED
    BY <2>2, <2>3
<1>4. /\ Len(table'.removed) = a + 1 /\ table'.removed[a + 1] = new
      /\ \A b \in 1..a : table'.removed[b] = table.removed[b]
  <2> HIDE DEF new
  <2> QED
    BY <1>2
<1>5. ASSUME NEW n, NEW b \in 0..a PROVE BitsHas(table', b, n) <=> BitsHas(table, b, n)
  <2> HIDE DEF new
  <2> QED
    BY <1>4 DEF BitsHas
<1>6. ASSUME NEW n PROVE BitsHas(table', a + 1, n) <=> BitsHas(table, a, n)
  <2> HIDE DEF new
  <2> QED
    BY <1>2, <1>3, <1>4 DEF BitsHas
<1> HIDE DEF a, new
<1>7. QED
  BY <1>2, <1>4, <1>5, <1>6 DEF BitsEvolve, a

\* The bit that RemoveRule sets is the only one.
LEMMA SetBits ==
    ASSUME WriterInv, BitSet
    PROVE  BitsEvolve
<1> DEFINE a == Len(table.removed)
<1>1. /\ w.pc = "bit" /\ a # 0 /\ a \in Nat
      /\ table' = [table EXCEPT !.removed[a].bits = @ \cup {w.num}]
      /\ table.removed \in Seq(Bits) /\ table \in Tables
  BY TableParts DEF BitSet, WriterInv
<1>2. /\ Len(table'.removed) = a
      /\ table'.removed[a].bits = table.removed[a].bits \cup {w.num}
  BY StepBitSet
<1>3. \A b \in 1..a : b # a => table'.removed[b] = table.removed[b]
  BY <1>1 DEF Tables
<1>4. ASSUME NEW n, NEW b \in 0..a
      PROVE  /\ BitsHas(table, b, n) => BitsHas(table', b, n)
             /\ BitsHas(table', b, n) => BitsHas(table, b, n) \/ n = w.num
  <2>1. CASE b = a
    BY <1>1, <1>2, <2>1 DEF BitsHas
  <2>2. CASE b # a
    BY <1>3, <2>2 DEF BitsHas
  <2>3. QED
    BY <2>1, <2>2
<1> HIDE DEF a
<1>5. QED
  BY <1>1, <1>2, <1>4 DEF BitsEvolve, a

\* A step of the writer that is not one of the two of ruleMeta.set, of a
\* bitset's, or compact leaves words, bits and their arrays as they are.
LEMMA QuietStep ==
    ASSUME WriterInv, Writer,
           ~(MetaGrow \/ MetaSpan \/ MetaOrder \/ BitGrow \/ BitSet \/ Compact)
    PROVE  table'.meta = table.meta /\ table'.removed = table.removed
<1>1. table \in Tables
  BY DEF WriterInv
<1>2. \/ table' = table
      \/ NewNumber \/ PublishId \/ LowerMinKey \/ Follow \/ LinkAbsent \/ AddNumber
      \/ PublishVersion
  BY DEF Writer, AddRule, ReplaceRule, RemoveRule, TooManyRules, Unlock, Retire, Forget
<1>3. CASE NewNumber \/ PublishId \/ PublishVersion
  BY <1>1, <1>3 DEF NewNumber, PublishId, PublishVersion, Tables
<1>4. CASE LowerMinKey \/ Follow \/ LinkAbsent \/ AddNumber
  BY <1>1, <1>4 DEF LowerMinKey, Follow, LinkAbsent, AddNumber, Tables
<1>5. QED
  BY <1>2, <1>3, <1>4

\* What every step of the writer but compact does to words and bits.
LEMMA EvolveStep ==
    ASSUME Inv, KeyFits, PlaceFits, Writer, w.pc # "compact"
    PROVE  Evolves
<1>1. WriterInv /\ table \in Tables /\ Number \in Nat
  BY TableParts DEF Inv, WriterInv, Number
<1>2. CASE MetaGrow
  <2>1. table'.removed = table.removed
    BY <1>1, <1>2 DEF MetaGrow, Tables
  <2>2. /\ Len(table'.meta) = Len(table.meta) + 1
        /\ \A n \in Nat, a \in 0..Len(table.meta) : MetaAt(table', a, n) = MetaAt(table, a, n)
        /\ \A n \in Nat : MetaAt(table', Len(table'.meta), n) = MetaAt(table, Len(table.meta), n)
    BY <1>1, <1>2, GrownWords
  <2>3. ASSUME NEW n \in 0..Number - 1, NEW a \in 0..Len(table.meta),
               NEW b \in 0..Len(table.meta)',
               a = b \/ (a = Len(table.meta) /\ b = Len(table.meta)')
        PROVE  MetaAt(table', b, n) = MetaAt(table, a, n)
    BY <1>1, <2>2, <2>3
  <2>4. WordsEvolve
    BY <2>3 DEF WordsEvolve, OrderIn
  <2>5. QED
    BY <2>1, <2>4, BitsKept DEF Evolves
<1>3. CASE MetaSpan \/ MetaOrder
  <2>1. table'.removed = table.removed
    BY <1>1, <1>3 DEF MetaSpan, MetaOrder, Tables
  <2>2. QED
    BY <1>3, <2>1, SpanEvolves, OrderEvolves, BitsKept DEF Evolves
<1>4. CASE BitGrow \/ BitSet
  <2>1. table'.meta = table.meta
    BY <1>1, <1>4 DEF BitGrow, BitSet, Tables
  <2>2. QED
    BY <1>1, <1>4, <2>1, GrownBits, SetBits, WordsKept DEF Evolves
<1>5. CASE ~(MetaGrow \/ MetaSpan \/ MetaOrder \/ BitGrow \/ BitSet)
  <2>1. ~Compact
    BY DEF Compact
  <2>2. QED
    BY <1>1, <1>5, <2>1, QuietStep, WordsKept, BitsKept DEF Evolves
<1>6. QED
  BY <1>2, <1>3, <1>4, <1>5

\* The words of any number, ids has it or not, in the last array: a step changes
\* those of its target only.
LEMMA LastWord ==
    ASSUME WriterInv, Writer, w.pc # "compact", NEW n \in Nat,
           ~((MetaSpan \/ MetaOrder) /\ n = w.target)
    PROVE  From(n)' = From(n) /\ Ord(n)' = Ord(n) /\ Order(table, n)' = Order(table, n)
<1>1. table \in Tables /\ Len(table.meta) \in 0..Len(table.meta)
  BY TableParts DEF WriterInv
<1>2. SUFFICES MetaAt(table', Len(table'.meta), n) = MetaAt(table, Len(table.meta), n)
  BY DEF From, Ord, Order, OrderIn
<1>3. CASE MetaGrow
  BY <1>3, GrownWords
<1>4. CASE MetaSpan
  BY <1>1, <1>4, SpanWord
<1>5. CASE MetaOrder
  BY <1>1, <1>5, OrderWord
<1>6. CASE BitGrow \/ BitSet
  BY <1>1, <1>6 DEF BitGrow, BitSet, Tables, MetaAt
<1>7. CASE ~(MetaGrow \/ MetaSpan \/ MetaOrder \/ BitGrow \/ BitSet)
  <2>1. ~Compact
    BY DEF Compact
  <2>2. QED
    BY <1>7, <2>1, QuietStep DEF MetaAt
<1>8. QED
  BY <1>3, <1>4, <1>5, <1>6, <1>7

-----------------------------------------------------------------------------
(* The writer's part is preserved.                                         *)

\* A call that starts finds the table with the keys it needs.
LEMMA PlaceStart ==
    ASSUME WriterInv, PlaceFits, NEW id \in Targets, NEW sets,
           AddRule(id, sets) \/ ReplaceRule(id, sets) \/ RemoveRule(id)
    PROVE  PlaceFits'
<1>1. UNCHANGED table /\ w.pc = "idle"
  BY DEF AddRule, ReplaceRule, RemoveRule
<1>2. /\ Number' = Number /\ \A n : From(n)' = From(n) /\ Ord(n)' = Ord(n)
      /\ \A n : Order(table, n)' = Order(table, n)
  BY <1>1 DEF Number, From, Ord, Order
<1>3. ~Replacing
  BY <1>1 DEF Replacing
<1>4. /\ \A n \in Nat : n >= Number' => Ord(n)' = 0
      /\ \A n \in 0..Number' - 1 : Order(table, n)' <= n
  BY <1>2, <1>3 DEF PlaceFits
<1>5. Replacing' => w'.from = From(w'.old) /\ w'.pc = "span" /\ w'.num = Number
  <2>1. CASE AddRule(id, sets) \/ RemoveRule(id) \/ ~Known(id)
    <3>1. w'.old = NoNumber
      BY <2>1 DEF AddRule, ReplaceRule, RemoveRule, Calling, IdleWriter
    <3>2. QED
      BY <3>1 DEF Replacing
  <2>2. CASE ReplaceRule(id, sets) /\ Known(id)
    <3>1. w' = [Calling("replace", id, sets, "span") EXCEPT
                   !.num = Number, !.target = Number, !.old = nums[id],
                   !.from = MetaAt(table, Len(table.meta), nums[id]).from,
                   !.key = Order(table, nums[id]),
                   !.v = table.version + 1]
      BY <2>2 DEF ReplaceRule
    <3>2. /\ w'.from = MetaAt(table, Len(table.meta), nums[id]).from /\ w'.old = nums[id]
          /\ w'.pc = "span" /\ w'.num = Number
      BY <3>1 DEF Calling, IdleWriter
    <3>3. QED
      BY <3>2 DEF From
  <2>3. QED
    BY <2>1, <2>2
<1>6. Number \in Nat
  BY TableParts DEF Number, WriterInv
<1>7. Replacing' =>
          /\ w'.from = From(w.old)'
          /\ ~(w'.num < Number') /\ w'.pc # "ids" /\ w'.pc # "order"
  BY <1>2, <1>5, <1>6
<1>8. QED
  BY <1>4, <1>7 DEF PlaceFits

\* One that returns, or goes on with compact, has given its number a place.
LEMMA PlaceReturn ==
    ASSUME WriterInv, PlaceFits, TooManyRules \/ Unlock \/ Retire \/ Forget
    PROVE  PlaceFits'
<1>1. /\ table' = table /\ (w' = IdleWriter \/ w' = [w EXCEPT !.pc = "compact"])
      /\ w.pc \in {"number", "unlock", "retire", "forget"}
  BY DEF TooManyRules, Unlock, Retire, Forget, CountDead, Return
<1>2. /\ Number' = Number /\ \A n : Ord(n)' = Ord(n) /\ Order(table, n)' = Order(table, n)
  BY <1>1 DEF Number, Ord, Order
<1>3. ~Replacing'
  BY <1>1, CallOver DEF WriterInv
<1>4. Number \in Nat
  BY TableParts DEF Number, WriterInv
<1>5. Replacing => w.num < Number
  <2>1. Replacing => w.pc = "retire"
    BY <1>1 DEF Replacing, WriterInv, WriterFits
  <2>2. QED
    BY <1>4, <2>1 DEF WriterInv, WriterFits
<1>6. \A n \in Nat : n >= Number => Ord(n) = 0
  <2> SUFFICES ASSUME NEW n \in Nat, n >= Number PROVE Ord(n) = 0
    OBVIOUS
  <2>1. ~(Replacing /\ n = w.num)
    <3>1. Replacing => w.num \in 0..Number - 1
      BY <1>1 DEF Replacing, WriterInv, WriterFits
    <3>2. QED
      BY <1>4, <3>1
  <2>2. QED
    BY <2>1 DEF PlaceFits
<1>7. QED
  BY <1>2, <1>3, <1>6 DEF PlaceFits

\* A new number is its own key, and larger than all keys before.
LEMMA PlaceNewNumber ==
    ASSUME WriterInv, PlaceFits, NewNumber
    PROVE  PlaceFits' /\ Order(table', Number) = Number
<1>1. /\ w.pc = "number" /\ w.old = NoNumber /\ w \in Writers /\ table \in Tables
      /\ table' = [table EXCEPT !.ids = Append(@, w.id)]
      /\ w' = [w EXCEPT !.pc = "lower", !.num = Number,
                        !.key = IF w.op = "add" THEN Order(table, Number) ELSE Number]
  BY DEF NewNumber, WriterInv, WriterFits
<1>2. /\ table'.meta = table.meta /\ table'.ids = Append(table.ids, w.id)
      /\ w'.old = NoNumber /\ Number \in Nat /\ table.ids \in Seq(Ids)
  BY <1>1, TableParts DEF Tables, Writers, Number
<1>3. Number' = Number + 1
  BY <1>2 DEF Number
<1>4. ~Replacing /\ ~Replacing'
  BY <1>1, <1>2 DEF Replacing
<1>5. \A n : Ord(n)' = Ord(n) /\ Order(table, n)' = Order(table, n)
  BY <1>2 DEF Ord, Order, OrderIn, MetaAt
<1>6. \A n \in Nat : n >= Number => Ord(n) = 0
  BY <1>4 DEF PlaceFits
<1>7. Order(table, Number) = Number
  BY <1>2, <1>6 DEF Order, OrderIn, Ord
<1>8. \A n \in 0..Number' - 1 : Order(table, n)' <= n
  <2> SUFFICES ASSUME NEW n \in 0..Number PROVE Order(table, n) <= n
    BY <1>2, <1>3, <1>5
  <2>1. CASE n = Number
    BY <1>2, <1>7, <2>1
  <2>2. CASE n # Number
    BY <1>2, <2>2 DEF PlaceFits
  <2>3. QED
    BY <2>1, <2>2
<1>9. \A n \in Nat : n >= Number' => Ord(n)' = 0
  BY <1>2, <1>3, <1>5, <1>6
<1>10. Order(table', Number) = Number
  BY <1>2, <1>7 DEF Order, OrderIn, MetaAt
<1>11. QED
  BY <1>4, <1>8, <1>9, <1>10 DEF PlaceFits

\* Steps that store neither span nor key, and give out no number.
LEMMA PlaceSame ==
    ASSUME WriterInv, PlaceFits, Writer, w.pc # "compact", ~(MetaSpan \/ MetaOrder),
           Number' = Number, w.pc = "ids" => w'.pc = "ids", w'.pc = "ids" => w.pc = "ids",
           w'.pc = "order" /\ w'.target = w'.num => w.pc = "order" /\ w.target = w.num,
           Replacing' <=> Replacing,
           Replacing => /\ w'.num = w.num /\ w'.old = w.old /\ w'.v = w.v
                        /\ w'.from = w.from /\ w'.key = w.key
    PROVE  PlaceFits'
<1>1. \A n \in Nat : From(n)' = From(n) /\ Ord(n)' = Ord(n) /\ Order(table, n)' = Order(table, n)
  BY LastWord
<1>2. Replacing => w.old \in Nat /\ w.num \in Nat
  BY DEF Replacing, WriterInv, WriterFits, Writers
<1>3. Number \in Nat
  BY TableParts DEF WriterInv, Number
<1>4. \A n \in Nat : n >= Number' => Ord(n)' = 0 \/ (Replacing' /\ n = w'.num)
  BY <1>1 DEF PlaceFits
<1>5. \A n \in 0..Number' - 1 : Order(table, n)' <= n
  BY <1>1, <1>3 DEF PlaceFits
<1>6. ASSUME Replacing'
      PROVE  /\ w'.from = From(w.old)'
             /\ w'.num < Number' \/ w'.pc = "ids"
                   => From(w.num)' = w'.v /\ Order(table, w.num)' = w'.key
             /\ w'.pc = "order" /\ w'.target = w'.num => From(w.num)' = w'.v
  BY <1>1, <1>2, <1>6 DEF PlaceFits
<1>7. QED
  BY <1>4, <1>5, <1>6 DEF PlaceFits

\* A span that is stored keeps the keys, and the beginning of the old one.
LEMMA PlaceSpan ==
    ASSUME WriterInv, NumbersFit, PlaceFits, MetaSpan
    PROVE  PlaceFits'
<1> DEFINE a == Len(table.meta)
<1>1. /\ w.pc = "span" /\ w' = [w EXCEPT !.pc = "order"] /\ table \in Tables /\ w \in Writers
      /\ table' = [table EXCEPT !.meta[a][w.target + 1] =
                        [@ EXCEPT !.from = IF w.target = w.num THEN w.v ELSE w.from,
                                  !.until = IF w.target = w.num THEN 0 ELSE w.v]]
  BY DEF MetaSpan, WriterInv
<1>2. /\ w.target \in Nat /\ Len(table'.meta) = a /\ a \in 0..a /\ Number \in Nat
      /\ \A n \in Nat, b \in 0..a :
            MetaAt(table', b, n) =
                IF b = a /\ n = w.target
                THEN [MetaAt(table, b, n) EXCEPT
                        !.from = IF w.target = w.num THEN w.v ELSE w.from,
                        !.until = IF w.target = w.num THEN 0 ELSE w.v]
                ELSE MetaAt(table, b, n)
  <2>1. a \in 0..a /\ Number \in Nat
    BY <1>1, TableParts DEF Number
  <2>2. /\ w.target \in Nat /\ Len(table'.meta) = a
        /\ \A n \in Nat, b \in 0..a :
            MetaAt(table', b, n) =
                IF b = a /\ n = w.target
                THEN [MetaAt(table, b, n) EXCEPT
                        !.from = IF w.target = w.num THEN w.v ELSE w.from,
                        !.until = IF w.target = w.num THEN 0 ELSE w.v]
                ELSE MetaAt(table, b, n)
    BY SpanWord DEF a
  <2> HIDE DEF a
  <2>3. QED
    BY <2>1, <2>2
<1>3. /\ Number' = Number /\ w'.pc = "order" /\ w'.num = w.num /\ w'.old = w.old
      /\ w'.v = w.v /\ w'.from = w.from /\ w'.key = w.key /\ w'.target = w.target
  BY <1>1 DEF Tables, Writers, Number
<1>4. /\ Replacing /\ w.target \in {w.old, w.num} /\ (w.target = w.num => w.num = Number)
      /\ w.old \in Nat /\ w.num \in Nat /\ w.old < w.num
  BY <1>1 DEF NumbersFit, CallFits, Replacing, WriterInv, WriterFits, Writers
<1>5. ASSUME NEW n \in Nat
      PROVE  /\ Ord(n)' = Ord(n) /\ Order(table, n)' = Order(table, n)
             /\ From(n)' = IF n = w.target THEN (IF w.target = w.num THEN w.v ELSE w.from)
                           ELSE From(n)
  <2>1. MetaAt(table, a, n) \in MetaWords
    BY <1>1, <1>2, MetaType
  <2>2. MetaAt(table', a, n) =
            IF n = w.target
            THEN [MetaAt(table, a, n) EXCEPT
                    !.from = IF w.target = w.num THEN w.v ELSE w.from,
                    !.until = IF w.target = w.num THEN 0 ELSE w.v]
            ELSE MetaAt(table, a, n)
    BY <1>2
  <2>3. /\ MetaAt(table', a, n).ord = MetaAt(table, a, n).ord
        /\ MetaAt(table', a, n).from =
              IF n = w.target THEN (IF w.target = w.num THEN w.v ELSE w.from)
              ELSE MetaAt(table, a, n).from
    BY <2>1, <2>2 DEF MetaWords
  <2> HIDE DEF a
  <2>4. Len(table'.meta) = a
    BY <1>2
  <2>5. QED
    BY <2>3, <2>4 DEF Ord, Order, OrderIn, From, a
<1>6. Replacing'
  BY <1>3, <1>4 DEF Replacing
<1>7. /\ \A n \in Nat : n >= Number' => Ord(n)' = 0 \/ (Replacing' /\ n = w'.num)
      /\ \A n \in 0..Number' - 1 : Order(table, n)' <= n
  <2>1. \A n \in 0..Number - 1 : n \in Nat
    OBVIOUS
  <2>2. QED
    BY <1>3, <1>4, <1>5, <1>6, <2>1 DEF PlaceFits
<1>8. w'.from = From(w.old)'
  BY <1>3, <1>4, <1>5 DEF PlaceFits
<1>9. w.num < Number => From(w.num)' = w.v /\ Order(table, w.num)' = w.key
  BY <1>2, <1>3, <1>4, <1>5 DEF PlaceFits
<1>10. w'.target = w'.num => From(w.num)' = w'.v
  BY <1>3, <1>4, <1>5
<1>11. QED
  BY <1>3, <1>7, <1>8, <1>9, <1>10 DEF PlaceFits

\* The key that is stored is the old number's.
LEMMA PlaceOrder ==
    ASSUME WriterInv, NumbersFit, KeyFits, PlaceFits, MetaOrder
    PROVE  PlaceFits'
<1> DEFINE a == Len(table.meta)
<1>1. /\ w.pc = "order" /\ w' = [w EXCEPT !.pc = IF w.target = w.num THEN "ids" ELSE "version"]
      /\ table \in Tables /\ w \in Writers
      /\ table' = [table EXCEPT !.meta[a][w.target + 1].ord = w.key + 1]
  BY DEF MetaOrder, WriterInv
<1>2. /\ w.target \in Nat /\ Len(table'.meta) = a /\ a \in 0..a /\ Number \in Nat
      /\ \A n \in Nat, b \in 0..a :
            MetaAt(table', b, n) =
                IF b = a /\ n = w.target THEN [MetaAt(table, b, n) EXCEPT !.ord = w.key + 1]
                ELSE MetaAt(table, b, n)
  <2>1. a \in 0..a /\ Number \in Nat
    BY <1>1, TableParts DEF Number
  <2>2. /\ w.target \in Nat /\ Len(table'.meta) = a
        /\ \A n \in Nat, b \in 0..a :
            MetaAt(table', b, n) =
                IF b = a /\ n = w.target THEN [MetaAt(table, b, n) EXCEPT !.ord = w.key + 1]
                ELSE MetaAt(table, b, n)
    BY OrderWord DEF a
  <2> HIDE DEF a
  <2>3. QED
    BY <2>1, <2>2
<1>3. /\ Number' = Number /\ w'.num = w.num /\ w'.old = w.old
      /\ w'.pc = IF w.target = w.num THEN "ids" ELSE "version"
      /\ w'.v = w.v /\ w'.from = w.from /\ w'.key = w.key /\ w'.target = w.target
  BY <1>1 DEF Tables, Writers, Number
<1>4. /\ Replacing /\ w.target \in {w.old, w.num} /\ (w.target = w.num => w.num = Number)
      /\ (w.target # w.num => w.num < Number)
      /\ w.old \in Nat /\ w.num \in Nat /\ w.old < w.num /\ w.key \in Nat
      /\ w.key = Order(table, w.old)
  BY <1>1 DEF NumbersFit, CallFits, Replacing, WriterInv, WriterFits, Writers, KeyFits
<1>5. ASSUME NEW n \in Nat
      PROVE  /\ Ord(n)' = IF n = w.target THEN w.key + 1 ELSE Ord(n)
             /\ Order(table, n)' = IF n = w.target THEN w.key ELSE Order(table, n)
             /\ From(n)' = From(n)
  <2>1. MetaAt(table, a, n) \in MetaWords
    BY <1>1, <1>2, MetaType
  <2>2. MetaAt(table', a, n) =
            IF n = w.target THEN [MetaAt(table, a, n) EXCEPT !.ord = w.key + 1]
            ELSE MetaAt(table, a, n)
    BY <1>2
  <2>3. /\ MetaAt(table', a, n).from = MetaAt(table, a, n).from
        /\ MetaAt(table', a, n).ord =
              IF n = w.target THEN w.key + 1 ELSE MetaAt(table, a, n).ord
    BY <2>1, <2>2 DEF MetaWords
  <2> HIDE DEF a
  <2>4. w.key + 1 # 0 /\ (w.key + 1) - 1 = w.key
    BY <1>4
  <2>5. QED
    BY <1>2, <2>3, <2>4 DEF Ord, Order, OrderIn, From, a
<1>6. Replacing'
  BY <1>3, <1>4 DEF Replacing
<1>7. \A n \in Nat : n >= Number' => Ord(n)' = 0 \/ (Replacing' /\ n = w'.num)
  <2> SUFFICES ASSUME NEW n \in Nat, n >= Number, n # w.num PROVE Ord(n)' = 0
    BY <1>3, <1>6
  <2>1. n # w.target
    BY <1>2, <1>4
  <2>2. QED
    BY <1>5, <2>1 DEF PlaceFits
<1>8. \A n \in 0..Number' - 1 : Order(table, n)' <= n
  <2> SUFFICES ASSUME NEW n \in 0..Number - 1 PROVE Order(table, n)' <= n
    BY <1>3
  <2>1. CASE n = w.target
    <3>1. n = w.old
      BY <1>2, <1>4, <2>1
    <3>2. QED
      BY <1>4, <1>5, <2>1, <3>1 DEF PlaceFits
  <2>2. CASE n # w.target
    BY <1>5, <2>2 DEF PlaceFits
  <2>3. QED
    BY <2>1, <2>2
<1>9. w'.from = From(w.old)'
  BY <1>3, <1>4, <1>5 DEF PlaceFits
<1>10. w.num < Number \/ w'.pc = "ids" => From(w.num)' = w.v /\ Order(table, w.num)' = w.key
  <2>1. CASE w.target = w.num
    BY <1>1, <1>2, <1>3, <1>4, <1>5, <2>1 DEF PlaceFits
  <2>2. CASE w.target # w.num
    BY <1>3, <1>4, <1>5, <2>2 DEF PlaceFits
  <2>3. QED
    BY <2>1, <2>2
<1>11. w'.pc # "order"
  BY <1>3
<1>12. QED
  BY <1>3, <1>7, <1>8, <1>9, <1>10, <1>11 DEF PlaceFits

\* ids has the number now.
LEMMA PlacePublishId ==
    ASSUME WriterInv, NumbersFit, KeyFits, PlaceFits, PublishId
    PROVE  PlaceFits'
<1>1. /\ w.pc = "ids" /\ w.num = Number /\ w \in Writers /\ table \in Tables
      /\ table' = [table EXCEPT !.ids = Append(@, w.id)] /\ w' = [w EXCEPT !.pc = "lower"]
  BY DEF PublishId, WriterInv, WriterFits
<1>2. /\ table'.meta = table.meta /\ table'.ids = Append(table.ids, w.id)
      /\ Number \in Nat /\ table.ids \in Seq(Ids)
      /\ w'.pc = "lower" /\ w'.num = w.num /\ w'.old = w.old /\ w'.v = w.v
      /\ w'.from = w.from /\ w'.key = w.key
  BY <1>1, TableParts DEF Tables, Writers, Number
<1>3. Number' = Number + 1
  BY <1>2 DEF Number
<1>4. /\ Replacing /\ w.old < Number /\ w.old \in Nat /\ w.key = Order(table, w.old)
  BY <1>1 DEF NumbersFit, CallFits, Replacing, WriterInv, WriterFits, Writers, KeyFits
<1>5. Replacing'
  BY <1>2, <1>4 DEF Replacing
<1>6. \A n : /\ Ord(n)' = Ord(n) /\ Order(table, n)' = Order(table, n)
             /\ From(n)' = From(n)
  BY <1>2 DEF Ord, Order, OrderIn, MetaAt, From
<1>7. /\ From(w.num) = w.v /\ Order(table, w.num) = w.key /\ w.from = From(w.old)
  BY <1>1, <1>4 DEF PlaceFits
<1>8. \A n \in 0..Number' - 1 : Order(table, n)' <= n
  <2> SUFFICES ASSUME NEW n \in 0..Number PROVE Order(table, n) <= n
    BY <1>2, <1>3, <1>6
  <2>1. Order(table, w.old) <= w.old /\ Order(table, w.old) \in Nat
    <3>1. w.old \in 0..Number - 1 /\ Len(table.meta) \in 0..Len(table.meta)
      BY <1>1, <1>2, <1>4, TableParts
    <3>2. Order(table, w.old) \in Nat
      BY <1>1, <1>4, <3>1, MetaType DEF Order
    <3>3. QED
      BY <3>1, <3>2 DEF PlaceFits
  <2>2. CASE n = Number
    BY <1>1, <1>2, <1>4, <1>7, <2>1, <2>2
  <2>3. CASE n # Number
    BY <1>2, <2>3 DEF PlaceFits
  <2>4. QED
    BY <2>2, <2>3
<1>9. \A n \in Nat : n >= Number' => Ord(n)' = 0 \/ (Replacing' /\ n = w'.num)
  BY <1>2, <1>3, <1>5, <1>6 DEF PlaceFits
<1>10. QED
  BY <1>2, <1>6, <1>7, <1>8, <1>9 DEF PlaceFits

\* Every step of the writer but compact keeps the keys and spans in place.
LEMMA PlaceStep ==
    ASSUME Inv, KeyFits, PlaceFits, Writer, w.pc # "compact"
    PROVE  PlaceFits'
<1>1. WriterInv /\ NumbersFit /\ table \in Tables /\ w \in Writers
  BY DEF Inv, WriterInv
<1>2. ASSUME NEW id \in Targets, NEW sets,
             AddRule(id, sets) \/ ReplaceRule(id, sets) \/ RemoveRule(id)
      PROVE  PlaceFits'
  BY <1>1, <1>2, PlaceStart
<1>3. CASE TooManyRules \/ Unlock \/ Retire \/ Forget
  BY <1>1, <1>3, PlaceReturn
<1>4. CASE NewNumber
  BY <1>1, <1>4, PlaceNewNumber
<1>5. CASE MetaSpan
  BY <1>1, <1>5, PlaceSpan
<1>6. CASE MetaOrder
  BY <1>1, <1>6, PlaceOrder
<1>7. CASE PublishId
  BY <1>1, <1>7, PlacePublishId
<1>8. CASE MetaGrow \/ BitGrow
  <2>1. UNCHANGED w /\ Number' = Number /\ w.pc \in {"span", "bit"}
    BY <1>1, <1>8 DEF MetaGrow, BitGrow, Tables, Number
  <2>2. Replacing' <=> Replacing
    BY <2>1 DEF Replacing
  <2>3. ~(MetaSpan \/ MetaOrder)
    BY <1>8, <1>1 DEF MetaGrow, BitGrow, MetaSpan, MetaOrder, WriterInv, WriterFits
  <2>4. QED
    BY <1>1, <2>1, <2>2, <2>3, PlaceSame
<1>9. CASE BitSet
  <2>1. Number' = Number /\ w.pc = "bit" /\ w'.pc = "forget"
    BY <1>1, <1>9 DEF BitSet, Tables, Writers, Number
  <2>2. (Replacing' <=> Replacing) /\ ~Replacing
    BY <2>1 DEF Replacing
  <2>3. ~(MetaSpan \/ MetaOrder) /\ w.pc # "compact"
    BY <2>1 DEF MetaSpan, MetaOrder
  <2>4. w'.pc # "ids" /\ w.pc # "ids" /\ w'.pc # "order"
    BY <2>1
  <2>5. QED
    BY <1>1, <2>1, <2>2, <2>3, <2>4, PlaceSame
<1>10. CASE LowerMinKey \/ Follow \/ LinkAbsent \/ AddNumber \/ PublishVersion
  <2>1. table'.ids = table.ids
    BY <1>1, <1>10 DEF LowerMinKey, Follow, LinkAbsent, AddNumber, PublishVersion, Tables
  <2>2. /\ w.pc \in {"lower", "follow", "link", "rule", "version"}
        /\ w'.num = w.num /\ w'.old = w.old /\ w'.v = w.v /\ w'.from = w.from /\ w'.key = w.key
        /\ \/ w'.pc \in {"lower", "follow", "link", "rule", "retire"}
           \/ w'.pc = "span" /\ w.old # NoNumber
           \/ w'.pc = "unlock" /\ w.old = NoNumber
    <3>1. CASE LowerMinKey \/ Follow
      BY <1>1, <3>1 DEF LowerMinKey, Follow, Writers
    <3>2. CASE LinkAbsent \/ PublishVersion
      BY <1>1, <3>2 DEF LinkAbsent, PublishVersion, Writers
    <3>3. CASE AddNumber
      BY <1>1, <3>3 DEF AddNumber, Writers
    <3>4. QED
      BY <1>10, <3>1, <3>2, <3>3
  <2>3. Replacing' <=> Replacing
    BY <2>1, <2>2 DEF Replacing
  <2>4. Number' = Number /\ ~(MetaSpan \/ MetaOrder)
    BY <2>1, <2>2 DEF Number, MetaSpan, MetaOrder
  <2>5. w'.pc # "ids" /\ w'.pc # "order" /\ w.pc # "ids"
    BY <2>2
  <2>6. w.pc # "compact"
    BY <2>2
  <2>7. QED
    BY <1>1, <2>2, <2>3, <2>4, <2>5, <2>6, PlaceSame
<1>11. QED
  BY <1>2, <1>3, <1>4, <1>5, <1>6, <1>7, <1>8, <1>9, <1>10 DEF Writer, Compact

\* Which identifiers have a number changes in three steps of the writer.
LEMMA KnownStep ==
    ASSUME WriterInv, NumbersFit, Writer, w.pc # "compact", NEW id \in Ids
    PROVE  /\ Known(id) => Known(id)' \/ (w.pc = "forget" /\ id = w.id)
           /\ Known(id)' => Known(id) \/ (NewNumber /\ id = w.id)
           /\ nums'[id] # nums[id] =>
                 /\ id = w.id
                 /\ \/ NewNumber /\ nums'[id] = Number /\ ~Known(id)
                    \/ Retire /\ nums'[id] = w.num /\ Known(id) /\ nums[id] = w.old
                    \/ Forget /\ nums'[id] = NoNumber
           /\ nums'[id] \in Int
<1>1. nums \in [Ids -> {NoNumber} \cup 0..Number - 1] /\ Number \in Nat
  BY TableParts DEF WriterInv, Number
<1>2. CASE NewNumber
  <2>1. nums' = [nums EXCEPT ![w.id] = Number] /\ ~Known(w.id)
    BY <1>2 DEF NewNumber, NumbersFit, CallFits
  <2>2. QED
    BY <1>1, <1>2, <2>1 DEF Known, NoNumber
<1>3. CASE Retire
  <2>1. nums' = [nums EXCEPT ![w.id] = w.num] /\ w.num \in Nat /\ w.pc = "retire"
    BY <1>3 DEF Retire, WriterInv, WriterFits
  <2>2. Known(w.id) /\ w.old = nums[w.id]
    BY <2>1 DEF NumbersFit, CallFits, Replacing
  <2>3. QED
    BY <1>1, <1>3, <2>1, <2>2 DEF Known, NoNumber
<1>4. CASE Forget
  <2>1. nums' = [nums EXCEPT ![w.id] = NoNumber] /\ w.pc = "forget"
    BY <1>4 DEF Forget
  <2>2. QED
    BY <1>1, <1>4, <2>1 DEF Known, NoNumber
<1>5. CASE ~(NewNumber \/ Retire \/ Forget)
  <2>1. nums' = nums
    BY <1>5 DEF Writer, AddRule, ReplaceRule, RemoveRule, TooManyRules, MetaGrow, MetaSpan,
         MetaOrder, PublishId, LowerMinKey, Follow, LinkAbsent, AddNumber, Unlock,
         PublishVersion, BitGrow, BitSet, Compact
  <2>2. QED
    BY <1>1, <2>1 DEF Known, NoNumber
<1>6. QED
  BY <1>2, <1>3, <1>4, <1>5

\* An identifier keeps its key, though not its number.
LEMMA KeyKept ==
    ASSUME Inv, KeyFits, PlaceFits, Writer, w.pc # "compact",
           NEW id \in Ids, Known(id), Known(id)'
    PROVE  Order(table', nums'[id]) = Order(table, nums[id])
<1>1. WriterInv /\ NumbersFit /\ table \in Tables /\ Number \in Nat
  BY TableParts DEF Inv, WriterInv, Number
<1>2. nums[id] \in 0..Number - 1
  BY <1>1 DEF WriterInv, Known, Number
<1>3. CASE nums'[id] = nums[id]
  <2>1. Len(table.meta) \in 0..Len(table.meta) /\ Len(table.meta)' \in 0..Len(table.meta)'
    <3>1. Len(table.meta) \in Nat
      BY <1>1, TableParts
    <3>2. Len(table.meta)' \in Nat
      <4>1. table' \in Tables
        BY InvWriter DEF Inv, WriterInv
      <4>2. QED
        BY <4>1, TableParts
    <3>3. QED
      BY <3>1, <3>2
  <2>2. OrderIn(table', Len(table.meta)', nums[id]) = OrderIn(table, Len(table.meta), nums[id])
    BY <1>2, <2>1, EvolveStep DEF Evolves, WordsEvolve
  <2>3. QED
    BY <1>3, <2>2 DEF Order
<1>4. CASE nums'[id] # nums[id]
  <2>1. Retire /\ nums'[id] = w.num /\ nums[id] = w.old
    BY <1>1, <1>4, KnownStep DEF Known
  <2>2. Replacing /\ w.num < Number /\ table' = table
    <3>1. w.pc = "retire" /\ table' = table
      BY <2>1 DEF Retire
    <3>2. w.num \in 0..Number - 1 /\ w.old # NoNumber
      BY <1>1, <3>1 DEF WriterInv, WriterFits, NumbersFit, CallFits
    <3>3. QED
      BY <1>1, <3>1, <3>2 DEF Replacing
  <2>3. QED
    BY <2>1, <2>2 DEF KeyFits, PlaceFits
<1>5. QED
  BY <1>3, <1>4

\* A call that starts.
LEMMA StartStep ==
    ASSUME WriterInv, Writer, w.pc = "idle"
    PROVE  /\ UNCHANGED <<table, nums>> /\ w'.id \in Ids
           /\ w'.pc \in {"lower", "number", "span", "bit"} /\ w'.old \in {NoNumber, nums[w'.id]}
           /\ w'.pc = "number" => ~Known(w'.id)
           /\ w'.pc = "bit" <=> w'.op = "remove"
<1>1. \/ \E id \in Targets, sets \in RuleSets : AddRule(id, sets)
      \/ \E id \in Targets, sets \in RuleSets : ReplaceRule(id, sets)
      \/ \E id \in Targets : RemoveRule(id)
  BY DEF Writer, NewNumber, TooManyRules, MetaGrow, MetaSpan, MetaOrder, PublishId, LowerMinKey,
     Follow, LinkAbsent, AddNumber, Unlock, PublishVersion, Retire, BitGrow, BitSet, Forget, Compact
<1>2. \A id \in Targets : id \in Ids
  BY ConstantsAssumption
<1>3. ASSUME NEW id \in Targets, NEW sets \in RuleSets, AddRule(id, sets)
      PROVE  /\ UNCHANGED <<table, nums>> /\ w'.id = id /\ w'.old = NoNumber
             /\ w'.pc = IF Known(id) THEN "lower" ELSE "number"
             /\ w'.op = "add"
  <2>1. CASE Known(id)
    BY <1>3, <2>1 DEF AddRule, Calling, IdleWriter
  <2>2. CASE ~Known(id)
    BY <1>3, <2>2 DEF AddRule, Calling, IdleWriter
  <2>3. QED
    BY <2>1, <2>2
<1>4. ASSUME NEW id \in Targets, NEW sets \in RuleSets, ReplaceRule(id, sets)
      PROVE  /\ UNCHANGED <<table, nums>> /\ w'.id = id /\ w'.old \in {NoNumber, nums[id]}
             /\ w'.pc = IF Known(id) THEN "span" ELSE "number"
             /\ w'.op = "replace"
  <2>1. CASE Known(id)
    BY <1>4, <2>1 DEF ReplaceRule, Calling, IdleWriter
  <2>2. CASE ~Known(id)
    BY <1>4, <2>2 DEF ReplaceRule, Calling, IdleWriter
  <2>3. QED
    BY <2>1, <2>2
<1>5. ASSUME NEW id \in Targets, RemoveRule(id)
      PROVE  /\ UNCHANGED <<table, nums>> /\ w'.id = id /\ w'.old = NoNumber
             /\ w'.pc = "bit" /\ w'.op = "remove"
  BY <1>5 DEF RemoveRule, Calling, IdleWriter
<1>6. QED
  BY <1>1, <1>2, <1>3, <1>4, <1>5

\* A call that goes on, or returns.
LEMMA GoOnStep ==
    ASSUME WriterInv, Writer, w.pc # "idle"
    PROVE  /\ w'.pc # "number"
           /\ w' = IdleWriter \/ (w'.op = w.op /\ w'.id = w.id /\ w'.pc # "idle")
           /\ w'.pc \in {"bit", "forget"} => w.pc \in {"bit", "forget"}
<1>1. w \in Writers
  BY DEF WriterInv
<1>2. CASE NewNumber \/ MetaSpan \/ MetaOrder \/ PublishId \/ LowerMinKey \/ Follow \/ LinkAbsent
  BY <1>1, <1>2 DEF NewNumber, MetaSpan, MetaOrder, PublishId, LowerMinKey, Follow, LinkAbsent,
                    Writers
<1>3. CASE AddNumber \/ PublishVersion \/ BitSet
  BY <1>1, <1>3 DEF AddNumber, PublishVersion, BitSet, Writers
<1>4. CASE MetaGrow \/ BitGrow
  BY <1>4 DEF MetaGrow, BitGrow
<1>5. CASE TooManyRules \/ Unlock \/ Retire \/ Forget \/ Compact
  <2>1. w' = IdleWriter \/ w' = [w EXCEPT !.pc = "compact"]
    BY <1>5 DEF TooManyRules, Unlock, Retire, Forget, Compact, CountDead, Return
  <2>2. QED
    BY <1>1, <2>1 DEF IdleWriter, Writers
<1>6. QED
  BY <1>2, <1>3, <1>4, <1>5 DEF Writer, AddRule, ReplaceRule, RemoveRule

\* Only the writer starts and ends its calls.
LEMMA ReaderStep ==
    ASSUME NEW r \in Readers,
           \/ \E e \in Events, first \in Firsts : Match(r, e, first)
           \/ Reader(r)
           \/ Rest(r)
    PROVE  UNCHANGED wvars
  BY DEF Match, Reader, Rest, LoadVersion, LoadIds, LoadMeta, LoadRemoved, LoadAbsent,
         Visit, Consider, ReturnFirst, Filter, ReturnMatches

\* A step that starts a call starts it with an identifier, and gives a number
\* to one only if it has none.
LEMMA Starting ==
    ASSUME WriterInv, Next, CallStarts
    PROVE  w'.id \in Ids /\ (w'.pc = "number" => ~Known(w'.id)) /\ Writer
<1>1. Writer
  <2>1. w' # w
    BY DEF CallStarts
  <2>2. QED
    BY <2>1, ReaderStep DEF Next, wvars
<1>2. w.pc = "idle"
  BY DEF CallStarts
<1>3. QED
  BY <1>1, <1>2, StartStep

\* Who is in the order of the identifiers keeps his place.
LEMMA EarlierKept ==
    ASSUME WriterInv, CallNext, NEW a \in Ids, NEW b \in Ids, Known(a), Known(b), Earlier(a, b)
    PROVE  Earlier(a, b)'
<1>1. Next /\ added' = IF CallStarts /\ w'.pc = "number" /\ Number < MaxRules
                       THEN AddedLast(w'.id) ELSE added
  BY DEF CallNext
<1>2. CASE CallStarts /\ w'.pc = "number" /\ Number < MaxRules
  <2>1. ~Known(w'.id)
    BY <1>1, <1>2, Starting
  <2>2. a # w'.id /\ b # w'.id
    BY <2>1
  <2>3. <<a, b>> \in {p \in added : w'.id \notin {p[1], p[2]}}
    BY <2>2 DEF Earlier
  <2>4. QED
    BY <1>1, <1>2, <2>3 DEF Earlier, AddedLast
<1>3. QED
  BY <1>1, <1>2 DEF Earlier

\* The order of the keys stays the order of the identifiers.
LEMMA InOrderStep ==
    ASSUME Inv, KeyFits, PlaceFits, InOrder, CallNext, Writer, w.pc # "compact"
    PROVE  InOrder'
<1>1. WriterInv /\ NumbersFit /\ table \in Tables /\ Number \in Nat /\ PlaceFits
      /\ nums \in [Ids -> {NoNumber} \cup 0..Number - 1]
  BY TableParts DEF Inv, WriterInv, Number
<1>2. added' = IF CallStarts /\ w'.pc = "number" /\ Number < MaxRules
               THEN AddedLast(w'.id) ELSE added
  BY DEF CallNext
<1>3. ASSUME NEW a \in Ids, NEW b \in Ids, Known(a)', Known(b)', a # b,
             Order(table', nums'[a]) <= Order(table', nums'[b])
      PROVE  Earlier(a, b)'
  <2>1. CASE Known(a) /\ Known(b)
    <3>1. Order(table, nums[a]) <= Order(table, nums[b])
      BY <1>3, <2>1, KeyKept
    <3>2. Earlier(a, b)
      BY <1>3, <2>1, <3>1 DEF InOrder
    <3>3. QED
      BY <1>1, <2>1, <3>2, EarlierKept
  <2>2. CASE ~(Known(a) /\ Known(b))
    <3>1. /\ NewNumber /\ (a = w.id \/ b = w.id) /\ ~Known(w.id)
          /\ nums'[w.id] = Number /\ w.id \in Ids
      <4>1. NewNumber /\ (a = w.id \/ b = w.id)
        BY <1>1, <1>3, <2>2, KnownStep
      <4>2. ~Known(w.id) /\ w.id \in Ids /\ nums' = [nums EXCEPT ![w.id] = Number]
        BY <1>1, <4>1 DEF NewNumber, NumbersFit, CallFits, WriterInv, WriterFits
      <4>3. QED
        BY <1>1, <4>1, <4>2
    <3>2. Order(table', Number) = Number /\ added' = added
      BY <1>1, <1>2, <3>1, PlaceNewNumber DEF NewNumber, CallStarts
    <3>3. CASE b = w.id
      <4>1. Earlier(a, w.id)
        BY <1>3, <3>1, <3>3 DEF InOrder, NewNumber
      <4>2. QED
        BY <3>2, <3>3, <4>1 DEF Earlier
    <3>4. CASE a = w.id /\ b # w.id
      <4>1. Known(b)
        BY <1>1, <1>3, <3>4, KnownStep
      <4>2. /\ Order(table', nums'[b]) = Order(table, nums[b]) /\ nums[b] \in 0..Number - 1
            /\ Len(table.meta) \in 0..Len(table.meta)
        BY <1>1, <1>3, <4>1, KeyKept, TableParts DEF Known
      <4>3. Order(table, nums[b]) <= nums[b] /\ Order(table, nums[b]) \in Nat
        <5>1. nums[b] \in Nat
          BY <4>2
        <5>2. Order(table, nums[b]) \in Nat
          BY <1>1, <4>2, <5>1, MetaType DEF Order
        <5>3. QED
          BY <4>2, <5>2 DEF PlaceFits
      <4>4. QED
        BY <1>1, <1>3, <3>1, <3>2, <3>4, <4>2, <4>3
    <3>5. QED
      BY <3>1, <3>3, <3>4
  <2>3. QED
    BY <2>1, <2>2
<1>4. ASSUME w'.pc = "number", Number' < MaxRules, NEW a \in Ids, a # w'.id
      PROVE  <<a, w'.id>> \in added'
  <2>1. w.pc = "idle"
    BY <1>1, <1>4, GoOnStep
  <2>2. CallStarts /\ Number' = Number /\ w'.id \in Ids
    BY <1>1, <1>4, <2>1, StartStep DEF CallStarts, Number
  <2>3. added' = AddedLast(w'.id)
    BY <1>2, <1>4, <2>2
  <2>4. QED
    BY <1>4, <2>3 DEF AddedLast
<1>5. QED
  BY <1>3, <1>4 DEF InOrder, Earlier

\* What seen becomes during a call, and when one starts.
LEMMA SeenStep ==
    ASSUME WriterInv, SeenTypes, CallNext, NEW r \in Readers, rd'[r].pc # "idle"
    PROVE  seen'[r].gone = IF rd[r].pc = "idle" THEN (IF w.op = "remove" THEN {w.id} ELSE {})
                           ELSE IF CallStarts THEN seen[r].gone \cup Gone ELSE seen[r].gone
<1>1. seen'[r] = NextSeen(r)
  BY DEF CallNext
<1>2. CASE rd[r].pc = "idle"
  <2>1. seen'[r] = [may  |-> Matching(before, rd'[r].ev) \cup Matching(after, rd'[r].ev),
                    must |-> Matching(before, rd'[r].ev) \cap Matching(after, rd'[r].ev),
                    gone |-> IF w.op = "remove" THEN {w.id} ELSE {},
                    calls |-> 0]
    BY <1>1, <1>2 DEF NextSeen, Reading
  <2>2. QED
    BY <1>2, <2>1
<1>3. CASE rd[r].pc = "done" /\ CallStarts
  <2>1. seen'[r] = [seen[r] EXCEPT !.gone = @ \cup Gone, !.calls = @ + 1]
    BY <1>1, <1>3 DEF NextSeen, Reading
  <2>2. QED
    BY <1>3, <2>1 DEF SeenTypes
<1>4. CASE rd[r].pc \notin {"idle", "done"} /\ CallStarts
  <2>1. seen'[r] = [may  |-> seen[r].may \cup Matching(after', rd'[r].ev),
                    must |-> seen[r].must \cap Matching(after', rd'[r].ev),
                    gone |-> seen[r].gone \cup Gone,
                    calls |-> seen[r].calls + 1]
    BY <1>1, <1>4 DEF NextSeen, Reading
  <2>2. QED
    BY <1>4, <2>1
<1>5. CASE rd[r].pc # "idle" /\ ~CallStarts
  BY <1>1, <1>5 DEF NextSeen, Reading
<1>6. QED
  BY <1>2, <1>3, <1>4, <1>5

\* Which readers are in a call is up to them, and their result too.
LEMMA WriterLeavesReaders ==
    ASSUME ReaderInv, Writer, NEW r \in Readers
    PROVE  /\ rd'[r].pc = rd[r].pc /\ rd'[r].result = rd[r].result
           /\ w.pc # "compact" => rd' = rd /\ old' = old
<1>1. rd \in [Readers -> Scratches]
  BY DEF ReaderInv
<1>2. CASE Compact
  <2>1. rd'[r] = [rd[r] EXCEPT !.stale = @ \/ Reading(r)] /\ w.pc = "compact"
    BY <1>2 DEF Compact
  <2>2. QED
    BY <1>1, <2>1 DEF Scratches
<1>3. CASE ~Compact
  <2>1. rd' = rd /\ old' = old
    BY <1>3 DEF Writer, AddRule, ReplaceRule, RemoveRule, NewNumber, TooManyRules,
         MetaGrow, MetaSpan, MetaOrder, PublishId, LowerMinKey, Follow, LinkAbsent,
         AddNumber, Unlock, PublishVersion, Retire, BitGrow, BitSet, Forget
  <2>2. QED
    BY <2>1
<1>4. QED
  BY <1>2, <1>3, <1>1 DEF Compact

\* seen keeps its type.
LEMMA SeenTypesStep ==
    ASSUME Inv, SeenTypes, GoneFits, CallNext
    PROVE  SeenTypes'
<1> DEFINE T == [may : SUBSET Ids, must : SUBSET Ids, gone : SUBSET Ids, calls : Nat]
<1> SUFFICES ASSUME NEW r \in Readers PROVE seen'[r] \in T
  BY DEF SeenTypes
<1>1. seen'[r] = NextSeen(r) /\ seen[r] \in T
  BY DEF CallNext, SeenTypes
<1>2. CallStarts => Gone \in SUBSET Ids /\ rd'[r].pc = rd[r].pc
  BY Starting, WriterLeavesReaders DEF Gone, CallNext, Inv
<1>3. \A bk, e : Matching(bk, e) \in SUBSET Ids
  BY DEF Matching
<1>4. w.op = "remove" => w.id \in Ids
  BY DEF GoneFits, Inv, WriterInv, WriterFits
<1>5. CASE rd'[r].pc = "idle"
  <2>1. seen'[r] = NothingSeen
    BY <1>1, <1>2, <1>5 DEF NextSeen, Reading
  <2>2. QED
    BY <2>1 DEF NothingSeen
<1>6. CASE rd'[r].pc # "idle" /\ rd[r].pc = "idle"
  <2>1. seen'[r] = [may  |-> Matching(before, rd'[r].ev) \cup Matching(after, rd'[r].ev),
                    must |-> Matching(before, rd'[r].ev) \cap Matching(after, rd'[r].ev),
                    gone |-> IF w.op = "remove" THEN {w.id} ELSE {},
                    calls |-> 0]
    BY <1>1, <1>6 DEF NextSeen, Reading
  <2>2. QED
    BY <1>3, <1>4, <2>1
<1>7. CASE rd'[r].pc # "idle" /\ rd[r].pc = "done" /\ CallStarts
  <2>1. seen'[r] = [seen[r] EXCEPT !.gone = @ \cup Gone, !.calls = @ + 1]
    BY <1>1, <1>7 DEF NextSeen, Reading
  <2>2. seen[r].gone \cup Gone \in SUBSET Ids /\ seen[r].calls + 1 \in Nat
    BY <1>1, <1>2, <1>7
  <2>3. QED
    BY <1>1, <2>1, <2>2
<1>8. CASE rd'[r].pc # "idle" /\ rd[r].pc \notin {"idle", "done"} /\ CallStarts
  <2>1. seen'[r] = [may  |-> seen[r].may \cup Matching(after', rd'[r].ev),
                    must |-> seen[r].must \cap Matching(after', rd'[r].ev),
                    gone |-> seen[r].gone \cup Gone,
                    calls |-> seen[r].calls + 1]
    BY <1>1, <1>8 DEF NextSeen, Reading
  <2>2. QED
    BY <1>1, <1>2, <1>3, <1>8, <2>1
<1>9. CASE rd'[r].pc # "idle" /\ rd[r].pc # "idle" /\ ~CallStarts
  BY <1>1, <1>9 DEF NextSeen, Reading
<1>10. QED
  BY <1>5, <1>6, <1>7, <1>8, <1>9

\* Every reader in a call knows of a removal as soon as it starts.
LEMMA GoneWriter ==
    ASSUME Inv, GoneFits, SeenTypes, CallNext, Writer
    PROVE  GoneFits'
<1>1. WriterInv /\ ReaderInv
  BY DEF Inv
<1>2. CASE w.pc = "idle"
  <2>1. w'.pc \in {"lower", "number", "span", "bit"} /\ (w'.pc = "bit" <=> w'.op = "remove")
    BY <1>1, <1>2, StartStep
  <2>2. CallStarts
    BY <1>2, <2>1 DEF CallStarts
  <2>3. ASSUME w'.op = "remove", NEW r \in Readers, rd'[r].pc # "idle"
        PROVE  w'.id \in seen'[r].gone
    <3>1. rd[r].pc # "idle"
      BY <1>1, <2>3, WriterLeavesReaders
    <3>2. seen'[r].gone = seen[r].gone \cup Gone
      BY <1>1, <2>2, <2>3, <3>1, SeenStep
    <3>3. QED
      BY <2>3, <3>2 DEF Gone
  <2>4. QED
    BY <2>1, <2>3 DEF GoneFits
<1>3. CASE w.pc # "idle"
  <2>1. /\ w' = IdleWriter \/ (w'.op = w.op /\ w'.id = w.id /\ w'.pc # "idle")
        /\ w'.pc \in {"bit", "forget"} => w.pc \in {"bit", "forget"}
    BY <1>1, <1>3, GoOnStep
  <2>2. ~CallStarts
    BY <1>3 DEF CallStarts
  <2>3. CASE w' = IdleWriter
    BY <2>3 DEF GoneFits, IdleWriter
  <2>4. CASE w'.op = w.op /\ w'.id = w.id /\ w'.pc # "idle"
    <3>1. ASSUME w.op = "remove", NEW r \in Readers, rd'[r].pc # "idle"
          PROVE  w.id \in seen'[r].gone
      <4>1. rd[r].pc # "idle"
        BY <1>1, <3>1, WriterLeavesReaders
      <4>2. seen'[r].gone = seen[r].gone
        BY <1>1, <2>2, <3>1, <4>1, SeenStep
      <4>3. QED
        BY <3>1, <4>1, <4>2 DEF GoneFits
    <3>2. QED
      BY <2>1, <2>4, <3>1 DEF GoneFits
  <2>5. QED
    BY <2>1, <2>3, <2>4
<1>4. QED
  BY <1>2, <1>3

\* So does one that starts its call during the removal.
LEMMA GoneReader ==
    ASSUME WriterInv, GoneFits, SeenTypes, CallNext, UNCHANGED wvars
    PROVE  GoneFits'
<1>1. w' = w /\ ~CallStarts
  BY DEF wvars, CallStarts
<1>2. ASSUME w.op = "remove", NEW r \in Readers, rd'[r].pc # "idle"
      PROVE  w.id \in seen'[r].gone
  <2>1. CASE rd[r].pc = "idle"
    BY <1>2, <2>1, SeenStep
  <2>2. CASE rd[r].pc # "idle"
    <3>1. seen'[r].gone = seen[r].gone
      BY <1>1, <1>2, <2>2, SeenStep
    <3>2. QED
      BY <1>2, <2>2, <3>1 DEF GoneFits
  <2>3. QED
    BY <2>1, <2>2
<1>3. QED
  BY <1>1, <1>2 DEF GoneFits

\* compact gives the identifiers their positions as numbers, and forgets none.
LEMMA CompactNumbers ==
    ASSUME WriterInv, NumbersFit, Compact, NEW id \in Ids
    PROVE  /\ Known(id)' <=> Known(id)
           /\ Known(id) => nums[id] \in Live /\ nums'[id] = Renum(nums[id])
<1>1. nums'[id] = IF \E n \in Live : table.ids[n + 1] = id
                  THEN Renum(CHOOSE n \in Live : table.ids[n + 1] = id)
                  ELSE nums[id]
  BY DEF Compact
<1>2. /\ \A a \in Ids : Known(a) => nums[a] \in Live /\ table.ids[nums[a] + 1] = a
      /\ \A n \in Live : table.ids[n + 1] \in Ids /\ nums[table.ids[n + 1]] = n
  BY LiveOwners DEF Compact, Replacing
<1>3. Live \in SUBSET Nat /\ \A n \in Live : Renum(n) \in Nat
  <2>1. /\ Cardinality(Live) \in Nat
        /\ \A n \in Live : Renum(n) \in 0..Cardinality(Live) - 1
    BY CompactedParts
  <2>2. Live \in SUBSET Nat
    BY LiveParts
  <2>3. QED
    BY <2>1, <2>2
<1>4. CASE Known(id)
  <2> DEFINE m == CHOOSE n \in Live : table.ids[n + 1] = id
  <2>1. nums[id] \in Live /\ table.ids[nums[id] + 1] = id
    BY <1>2, <1>4
  <2>2. m \in Live /\ table.ids[m + 1] = id
    BY <2>1
  <2>3. nums'[id] = Renum(m)
    BY <1>1, <2>1
  <2> HIDE DEF m
  <2>4. m = nums[id]
    BY <1>2, <2>2
  <2>5. nums'[id] = Renum(nums[id]) /\ nums'[id] \in Nat
    BY <1>3, <2>1, <2>3, <2>4
  <2>6. QED
    BY <1>4, <2>1, <2>5 DEF Known, NoNumber
<1>5. CASE ~Known(id)
  <2>1. ~ \E n \in Live : table.ids[n + 1] = id
    BY <1>2, <1>3, <1>5 DEF Known, NoNumber
  <2>2. QED
    BY <1>1, <1>5, <2>1 DEF Known
<1>6. QED
  BY <1>4, <1>5

\* Their order is the order of the keys before.
LEMMA CompactOrder ==
    ASSUME Inv, InOrder, CallNext, Compact
    PROVE  PlaceFits' /\ InOrder'
<1>1. WriterInv /\ NumbersFit /\ w'.pc = "idle" /\ w.pc = "compact" /\ w'.old = NoNumber
  BY DEF Inv, Compact, Return, IdleWriter
<1>2. table'.meta = <<>>
  BY <1>1, CompactedParts DEF Compact
<1>3. \A n : Ord(n)' = 0 /\ Order(table, n)' = n
  BY <1>2 DEF Ord, Order, OrderIn, MetaAt, NoMeta
<1>4. PlaceFits'
  <2>1. ~Replacing'
    BY <1>1 DEF Replacing
  <2>2. \A n \in 0..Number' - 1 : n <= n
    OBVIOUS
  <2>3. QED
    BY <1>3, <2>1, <2>2 DEF PlaceFits
<1>5. added' = added
  BY <1>1 DEF CallNext, CallStarts
<1>6. /\ Live \in SUBSET Nat /\ IsFiniteSet(Live)
      /\ \A n \in Live : Keys[n] \in Nat /\ Keys[n] = Order(table, n)
  BY <1>1, LiveParts DEF Keys
<1>7. ASSUME NEW a \in Ids, NEW b \in Ids, Known(a)', Known(b)', a # b,
             Order(table', nums'[a]) <= Order(table', nums'[b])
      PROVE  Earlier(a, b)'
  <2>1. /\ Known(a) /\ nums[a] \in Live /\ nums'[a] = Renum(nums[a])
        /\ Known(b) /\ nums[b] \in Live /\ nums'[b] = Renum(nums[b])
    BY <1>1, <1>7, CompactNumbers
  <2>2. Renum(nums[a]) <= Renum(nums[b])
    <3>1. Order(table', nums'[a]) = nums'[a] /\ Order(table', nums'[b]) = nums'[b]
      BY <1>3
    <3>2. QED
      BY <1>7, <2>1, <3>1
  <2>3. ~Before(Keys, nums[b], nums[a])
    <3> SUFFICES ASSUME Before(Keys, nums[b], nums[a]) PROVE FALSE
      OBVIOUS
    <3>1. Rank(Live, Keys, nums[b]) < Rank(Live, Keys, nums[a])
      BY <1>6, <2>1, RankInjective
    <3>2. Rank(Live, Keys, nums[b]) \in Nat /\ Rank(Live, Keys, nums[a]) \in Nat
      <4>1. Cardinality(Live) \in Nat
        BY <1>6, FS_CardinalityType
      <4>2. /\ Rank(Live, Keys, nums[b]) \in 0..Cardinality(Live) - 1
            /\ Rank(Live, Keys, nums[a]) \in 0..Cardinality(Live) - 1
        BY <1>6, <2>1, RankBelow
      <4>3. QED
        BY <4>1, <4>2
    <3>3. QED
      BY <2>2, <3>1, <3>2 DEF Renum
  <2>4. Order(table, nums[a]) <= Order(table, nums[b])
    <3>1. /\ Keys[nums[a]] = Order(table, nums[a]) /\ Keys[nums[b]] = Order(table, nums[b])
          /\ Keys[nums[a]] \in Nat /\ Keys[nums[b]] \in Nat
      BY <1>6, <2>1
    <3>2. QED
      BY <2>3, <3>1 DEF Before
  <2>5. Earlier(a, b)
    BY <1>7, <2>1, <2>4 DEF InOrder
  <2>6. QED
    BY <1>5, <2>5 DEF Earlier
<1>8. InOrder'
  BY <1>1, <1>7 DEF InOrder
<1>9. QED
  BY <1>4, <1>8

\* The writer's part is preserved by every step.
LEMMA WriterPartStep ==
    ASSUME WriterPart, CallNext
    PROVE  WriterPart'
<1>1. BookInv'
  BY BookStep DEF WriterPart
<1>2. /\ Inv /\ KeyFits /\ PlaceFits /\ InOrder /\ GoneFits /\ SeenTypes
      /\ WriterInv /\ NumbersFit /\ Next
  BY DEF WriterPart, BookInv, Inv, CallNext
<1>3. SeenTypes'
  BY <1>2, SeenTypesStep
<1>4. CASE Writer
  <2>1. GoneFits'
    BY <1>2, <1>4, GoneWriter
  <2>2. PlaceFits' /\ InOrder'
    <3>1. CASE Compact
      BY <1>2, <3>1, CompactOrder
    <3>2. CASE ~Compact
      <4>1. w.pc # "compact"
        BY <1>4, <3>2 DEF Writer, AddRule, ReplaceRule, RemoveRule, NewNumber, TooManyRules,
             MetaGrow, MetaSpan, MetaOrder, PublishId, LowerMinKey, Follow, LinkAbsent,
             AddNumber, Unlock, PublishVersion, Retire, BitGrow, BitSet, Forget
      <4>2. QED
        BY <1>2, <1>4, <4>1, PlaceStep, InOrderStep
    <3>3. QED
      BY <3>1, <3>2
  <2>3. QED
    BY <1>1, <1>3, <2>1, <2>2 DEF WriterPart
<1>5. CASE UNCHANGED wvars
  <2>1. GoneFits'
    BY <1>2, <1>5, GoneReader
  <2>2. added' = added /\ table' = table /\ nums' = nums /\ w' = w
    BY <1>5 DEF wvars, CallNext, CallStarts
  <2>3. PlaceFits' /\ InOrder'
    BY <1>2, <2>2 DEF PlaceFits, InOrder, Known, Earlier, Replacing, Ord, From, Number
  <2>4. QED
    BY <1>1, <1>3, <2>1, <2>3 DEF WriterPart
<1>6. QED
  BY <1>2, <1>4, <1>5, ReaderStep DEF Next

-----------------------------------------------------------------------------
(* The readers' part: a call that has loaded nothing yet.                  *)

\* A number that a call starting now would return belongs to the identifier it
\* stands for; between the store of the version and that of h.nums it is the
\* number that is about to.
LEMMA CurrentOwner ==
    ASSUME Inv, KeyFits, PlaceFits, NEW n \in 0..Number - 1, Current(n),
           From(n) <= table.version
    PROVE  /\ table.ids[n + 1] \in Ids /\ Known(table.ids[n + 1])
           /\ Order(table, n) = Order(table, nums[table.ids[n + 1]])
           /\ \/ nums[table.ids[n + 1]] = n
              \/ n = w.num /\ nums[table.ids[n + 1]] = w.old /\ ~Current(w.old)
<1> DEFINE id == table.ids[n + 1]
<1>1. /\ WriterInv /\ NumbersFit /\ table \in Tables /\ w \in Writers /\ Number \in Nat
      /\ table.version \in Nat
  BY TableParts DEF Inv, WriterInv, Number
<1>2. id \in Ids
  BY <1>1, TableParts DEF Number
<1>3. CASE nums[id] = n
  BY <1>2, <1>3 DEF Known, NoNumber
<1>4. CASE nums[id] # n
  <2>1. Pending(n)
    BY <1>1, <1>4 DEF NumbersFit, Owned
  <2>2. Replacing /\ n = w.num /\ w.num < Number
    BY <1>1, <2>1 DEF Pending
  <2>3. /\ id = w.id /\ Known(id) /\ w.old = nums[id] /\ From(n) = w.v
        /\ Order(table, n) = w.key /\ w.key = Order(table, w.old)
    BY <1>1, <2>2 DEF NumbersFit, CallFits, PlaceFits, KeyFits
  <2>4. w.pc = "retire"
    BY <1>1, <2>2, <2>3 DEF NumbersFit, CallFits, Writers
  <2>5. Until(w.old) # 0 /\ Until(w.old) <= table.version
    BY <1>1, <2>2, <2>4 DEF NumbersFit, CallFits, Ending
  <2>6. ~Current(w.old)
    BY <2>5 DEF Current
  <2>7. QED
    BY <1>2, <2>2, <2>3, <2>6
<1>5. QED
  BY <1>3, <1>4

Fresh(r) == rd[r].pc = "version" /\ ~rd[r].stale /\ rd[r].kept = {}
FreshFit == \A r \in Readers : Fresh(r) => AliveFits(r)

\* So the numbers it would return have different identifiers, in the order of
\* their keys.
LEMMA FreshFits == WriterPart => FreshFit
<1> SUFFICES ASSUME WriterPart, NEW r \in Readers, Fresh(r) PROVE AliveFits(r)
  BY DEF FreshFit
<1>1. /\ Inv /\ KeyFits /\ PlaceFits /\ InOrder /\ table \in Tables /\ Number \in Nat
  BY TableParts DEF WriterPart, BookInv, Inv, WriterInv, Number
<1>2. /\ Tab(r) = table /\ SeenVersion(r) = table.version /\ SeenLimit(r) = Number
      /\ SeenMeta(r) = Len(table.meta) /\ SeenRemoved(r) = Len(table.removed)
  BY DEF Fresh, Tab, SeenVersion, SeenLimit, SeenMeta, SeenRemoved, Number
<1>3. ASSUME NEW n \in 0..Number - 1, Alive(r, n)
      PROVE  /\ Current(n) /\ From(n) <= table.version
             /\ IdOf(r, n) = table.ids[n + 1] /\ SeenKey(r, n) = Order(table, n)
  <2>1. ~Hidden(r, n)
    BY <1>3 DEF Alive, Fresh
  <2>2. ~Dropped(n) /\ ~(From(n) > table.version)
        /\ ~(Until(n) # 0 /\ Until(n) <= table.version)
    BY <1>2, <2>1 DEF Hidden, Dropped, From, Until
  <2>3. From(n) \in Nat /\ table.version \in Nat
    <3>1. Len(table.meta) \in 0..Len(table.meta) /\ n \in Nat
      BY <1>1, TableParts
    <3>2. QED
      BY <1>1, <3>1, MetaType, TableParts DEF From, MetaWords
  <2>4. QED
    BY <1>2, <2>2, <2>3 DEF Current, IdOf, SeenKey, Order
<1>4. ASSUME NEW n \in 0..Number - 1, Alive(r, n)
      PROVE  /\ IdOf(r, n) \in Ids /\ Known(IdOf(r, n))
             /\ SeenKey(r, n) = Order(table, nums[IdOf(r, n)])
             /\ Current(n) /\ (nums[IdOf(r, n)] = n
                               \/ (n = w.num /\ nums[IdOf(r, n)] = w.old /\ ~Current(w.old)))
  BY <1>1, <1>3, <1>4, CurrentOwner
<1>5. ASSUME NEW n \in 0..Number - 1, NEW m \in 0..Number - 1,
             Alive(r, n), Alive(r, m), n # m
      PROVE  /\ IdOf(r, n) # IdOf(r, m)
             /\ SeenKey(r, n) <= SeenKey(r, m) => Earlier(IdOf(r, n), IdOf(r, m))
  <2>1. IdOf(r, n) # IdOf(r, m)
    BY <1>4, <1>5
  <2>2. QED
    BY <1>1, <1>4, <1>5, <2>1 DEF InOrder
<1>6. QED
  BY <1>2, <1>4, <1>5 DEF AliveFits

-----------------------------------------------------------------------------
(* A call in progress.                                                     *)

\* What the call has loaded, or would load, lies within its table.
LEMMA SeenBounds ==
    ASSUME Inv, NEW r \in Readers
    PROVE  /\ Tab(r) \in Tables
           /\ SeenLimit(r) \in 0..Len(Tab(r).ids)
           /\ SeenMeta(r) \in 0..Len(Tab(r).meta)
           /\ SeenRemoved(r) \in 0..Len(Tab(r).removed)
           /\ SeenVersion(r) \in Nat
           /\ \A n \in 0..SeenLimit(r) - 1 : IdOf(r, n) \in Ids
<1>1. rd[r] \in Scratches /\ Tab(r) \in Tables /\ Within(rd[r], Tab(r))
  BY ReaderParts DEF Inv, WriterInv
<1>2. /\ rd[r].limit \in Nat /\ rd[r].meta \in Nat /\ rd[r].removed \in Nat /\ rd[r].version \in Nat
      /\ rd[r].limit <= Len(Tab(r).ids) /\ rd[r].meta <= Len(Tab(r).meta)
      /\ rd[r].removed <= Len(Tab(r).removed)
  BY <1>1 DEF Scratches, Within
<1>3. /\ Len(Tab(r).ids) \in Nat /\ Len(Tab(r).meta) \in Nat /\ Len(Tab(r).removed) \in Nat
      /\ Tab(r).ids \in Seq(Ids) /\ Tab(r).version \in Nat
  BY <1>1, TableParts
<1>4. SeenLimit(r) \in 0..Len(Tab(r).ids)
  BY <1>2, <1>3 DEF SeenLimit
<1>5. /\ SeenMeta(r) \in 0..Len(Tab(r).meta) /\ SeenRemoved(r) \in 0..Len(Tab(r).removed)
      /\ SeenVersion(r) \in Nat
  BY <1>2, <1>3 DEF SeenMeta, SeenRemoved, SeenVersion
<1>6. \A n \in 0..SeenLimit(r) - 1 : IdOf(r, n) \in Ids
  BY <1>3, <1>4 DEF IdOf
<1>7. QED
  BY <1>1, <1>4, <1>5, <1>6

\* If a step gives the call no new number to return, and takes neither number
\* nor place from the identifiers of the others, they fit as before.
LEMMA AliveLess ==
    ASSUME Inv, CallNext, NEW r \in Readers, AliveFits(r), SeenLimit(r)' \in Nat,
           \A n \in 0..SeenLimit(r)' - 1 : Alive(r, n)' =>
              /\ n < SeenLimit(r) /\ Alive(r, n)
              /\ IdOf(r, n)' = IdOf(r, n) /\ SeenKey(r, n)' = SeenKey(r, n),
           \A id \in Ids : Known(id) /\ id \notin seen'[r].gone =>
              /\ Known(id)'
              /\ ~rd'[r].stale => /\ ~rd[r].stale
                                  /\ Order(table', nums'[id]) = Order(table, nums[id])
    PROVE  AliveFits(r)'
<1>1. /\ SeenLimit(r) \in Nat /\ WriterInv
      /\ \A n \in 0..SeenLimit(r) - 1 : IdOf(r, n) \in Ids
  BY SeenBounds DEF Inv
<1>2. ASSUME NEW n \in 0..SeenLimit(r)' - 1, Alive(r, n)'
      PROVE  /\ n \in 0..SeenLimit(r) - 1 /\ Alive(r, n)
             /\ IdOf(r, n)' = IdOf(r, n) /\ SeenKey(r, n)' = SeenKey(r, n)
             /\ IdOf(r, n) \in Ids /\ IdOf(r, n) \notin seen'[r].gone
             /\ Known(IdOf(r, n))
             /\ ~rd[r].stale => SeenKey(r, n) = Order(table, nums[IdOf(r, n)])
  <2>1. /\ n \in 0..SeenLimit(r) - 1 /\ Alive(r, n)
        /\ IdOf(r, n)' = IdOf(r, n) /\ SeenKey(r, n)' = SeenKey(r, n)
    BY <1>1, <1>2
  <2>2. IdOf(r, n)' \notin seen'[r].gone
    BY <1>2 DEF Alive
  <2>3. QED
    BY <1>1, <2>1, <2>2 DEF AliveFits
<1>3. ASSUME NEW n \in 0..SeenLimit(r)' - 1, Alive(r, n)'
      PROVE  /\ Known(IdOf(r, n))'
             /\ ~rd'[r].stale => SeenKey(r, n)' = Order(table, nums[IdOf(r, n)])'
  <2> DEFINE id == IdOf(r, n)
  <2>1. /\ id \in Ids /\ Known(id) /\ id \notin seen'[r].gone /\ IdOf(r, n)' = id
        /\ SeenKey(r, n)' = SeenKey(r, n)
        /\ ~rd[r].stale => SeenKey(r, n) = Order(table, nums[id])
    BY <1>2, <1>3
  <2>2. /\ nums'[id] # NoNumber
        /\ ~rd'[r].stale => ~rd[r].stale /\ Order(table', nums'[id]) = Order(table, nums[id])
    BY <2>1 DEF Known
  <2> HIDE DEF id
  <2>3. QED
    BY <2>1, <2>2 DEF Known
<1>4. ASSUME NEW n \in 0..SeenLimit(r)' - 1, NEW m \in 0..SeenLimit(r)' - 1,
             Alive(r, n)', Alive(r, m)', n # m
      PROVE  /\ IdOf(r, n)' # IdOf(r, m)'
             /\ SeenKey(r, n)' <= SeenKey(r, m)' => Earlier(IdOf(r, n), IdOf(r, m))'
  <2> DEFINE a == IdOf(r, n)
             b == IdOf(r, m)
  <2>1. /\ n \in 0..SeenLimit(r) - 1 /\ Alive(r, n) /\ IdOf(r, n)' = a /\ a \in Ids /\ Known(a)
        /\ m \in 0..SeenLimit(r) - 1 /\ Alive(r, m) /\ IdOf(r, m)' = b /\ b \in Ids /\ Known(b)
        /\ SeenKey(r, n)' = SeenKey(r, n) /\ SeenKey(r, m)' = SeenKey(r, m)
    BY <1>2, <1>4
  <2>2. /\ a # b
        /\ SeenKey(r, n) <= SeenKey(r, m) => Earlier(a, b)
    BY <1>4, <2>1 DEF AliveFits
  <2> HIDE DEF a, b
  <2>3. Earlier(a, b) => <<a, b>> \in added'
    BY <1>1, <2>1, EarlierKept DEF Earlier
  <2>4. QED
    BY <2>1, <2>2, <2>3 DEF Earlier
<1>5. QED
  BY <1>3, <1>4 DEF AliveFits

\* During the writer's step a call keeps all it has loaded, and forgets no
\* identifier that it knows to be gone.
LEMMA GoneGrows ==
    ASSUME Inv, SeenTypes, CallNext, Writer, NEW r \in Readers, rd[r].pc # "idle"
    PROVE  seen[r].gone \subseteq seen'[r].gone
<1>1. WriterInv /\ ReaderInv
  BY DEF Inv
<1>2. rd'[r].pc # "idle"
  BY <1>1, WriterLeavesReaders
<1>3. QED
  BY <1>1, <1>2, SeenStep

\* Who is known stays so, but for the identifier that is removed, of which the
\* call knows.
LEMMA KnownOrGone ==
    ASSUME Inv, GoneFits, SeenTypes, CallNext, Writer, NEW r \in Readers, rd[r].pc # "idle",
           NEW id \in Ids, Known(id), id \notin seen'[r].gone
    PROVE  Known(id)'
<1>1. WriterInv /\ NumbersFit /\ id \notin seen[r].gone
  BY GoneGrows DEF Inv
<1>2. CASE w.pc = "compact"
  <2>1. Compact
    BY <1>2 DEF Writer, AddRule, ReplaceRule, RemoveRule, NewNumber, TooManyRules,
       MetaGrow, MetaSpan, MetaOrder, PublishId, LowerMinKey, Follow, LinkAbsent,
       AddNumber, Unlock, PublishVersion, Retire, BitGrow, BitSet, Forget
  <2>2. QED
    BY <1>1, <2>1, CompactNumbers
<1>3. CASE w.pc # "compact"
  <2>1. ~(w.pc = "forget" /\ id = w.id)
    BY <1>1 DEF GoneFits
  <2>2. QED
    BY <1>1, <1>3, <2>1, KnownStep
<1>4. QED
  BY <1>2, <1>3

\* A call that reads a table which compact has replaced.
LEMMA StaleFits ==
    ASSUME Inv, GoneFits, SeenTypes, CallNext, Writer, w.pc # "compact", NEW r \in Readers,
           Reading(r), rd[r].stale, AliveFits(r)
    PROVE  AliveFits(r)'
<1>1. WriterInv /\ ReaderInv /\ rd[r].pc # "idle"
  BY DEF Inv, Reading
<1>2. rd' = rd /\ old' = old
  BY <1>1, WriterLeavesReaders
<1>3. Tab(r)' = Tab(r)
  BY <1>2 DEF Tab
<1>4. /\ SeenLimit(r)' = SeenLimit(r) /\ SeenMeta(r)' = SeenMeta(r)
      /\ SeenRemoved(r)' = SeenRemoved(r) /\ SeenVersion(r)' = SeenVersion(r)
  BY <1>2, <1>3 DEF SeenLimit, SeenMeta, SeenRemoved, SeenVersion
<1>5. \A n : /\ IdOf(r, n)' = IdOf(r, n) /\ SeenKey(r, n)' = SeenKey(r, n)
             /\ Hidden(r, n)' <=> Hidden(r, n)
  BY <1>3, <1>4 DEF IdOf, SeenKey, Hidden
<1>6. \A n \in 0..SeenLimit(r)' - 1 : Alive(r, n)' => n < SeenLimit(r) /\ Alive(r, n)
  BY <1>1, <1>2, <1>4, <1>5, GoneGrows DEF Alive
<1>7. SeenLimit(r)' \in Nat
  BY <1>4, SeenBounds
<1>8. rd'[r].stale
  BY <1>2
<1>9. \A id \in Ids : Known(id) /\ id \notin seen'[r].gone => Known(id)'
  BY <1>1, KnownOrGone
<1>10. QED
  BY <1>5, <1>6, <1>7, <1>8, <1>9, AliveLess

\* What compact replaces is left to the calls in progress.
LEMMA CompactFits ==
    ASSUME Inv, GoneFits, SeenTypes, CallNext, Compact, NEW r \in Readers,
           Reading(r), AliveFits(r)
    PROVE  AliveFits(r)'
<1>1. WriterInv /\ ReaderInv /\ rd[r].pc # "idle" /\ rd[r] \in Scratches /\ Writer
  BY DEF Inv, Reading, ReaderInv, Writer
<1>2. /\ rd'[r] = [rd[r] EXCEPT !.stale = TRUE]
      /\ old'[r] = IF rd[r].stale THEN old[r] ELSE table
  <2>1. /\ old' = [q \in Readers |-> IF Reading(q) /\ ~rd[q].stale THEN table ELSE old[q]]
        /\ rd' = [q \in Readers |-> [rd[q] EXCEPT !.stale = @ \/ Reading(q)]]
    BY DEF Compact
  <2>2. QED
    BY <2>1
<1>3. /\ rd'[r].stale /\ rd'[r].pc = rd[r].pc /\ rd'[r].version = rd[r].version
      /\ rd'[r].limit = rd[r].limit /\ rd'[r].meta = rd[r].meta
      /\ rd'[r].removed = rd[r].removed /\ rd'[r].kept = rd[r].kept
  BY <1>1, <1>2 DEF Scratches
<1>4. Tab(r)' = Tab(r)
  BY <1>2, <1>3 DEF Tab
<1>5. /\ SeenLimit(r)' = SeenLimit(r) /\ SeenMeta(r)' = SeenMeta(r)
      /\ SeenRemoved(r)' = SeenRemoved(r) /\ SeenVersion(r)' = SeenVersion(r)
  BY <1>3, <1>4 DEF SeenLimit, SeenMeta, SeenRemoved, SeenVersion
<1>6. \A n : /\ IdOf(r, n)' = IdOf(r, n) /\ SeenKey(r, n)' = SeenKey(r, n)
             /\ Hidden(r, n)' <=> Hidden(r, n)
  BY <1>4, <1>5 DEF IdOf, SeenKey, Hidden
<1>7. \A n \in 0..SeenLimit(r)' - 1 : Alive(r, n)' => n < SeenLimit(r) /\ Alive(r, n)
  BY <1>1, <1>3, <1>5, <1>6, GoneGrows DEF Alive
<1>8. SeenLimit(r)' \in Nat
  BY <1>5, SeenBounds
<1>9. \A id \in Ids : Known(id) /\ id \notin seen'[r].gone => Known(id)'
  BY <1>1, KnownOrGone
<1>10. QED
  BY <1>3, <1>6, <1>7, <1>8, <1>9, AliveLess

\* The writer appends to ids, and publishes one version after the other.
LEMMA IdsStep ==
    ASSUME Inv, Writer, w.pc # "compact"
    PROVE  /\ \/ table'.ids = table.ids
              \/ (NewNumber \/ PublishId) /\ table'.ids = Append(table.ids, w.id)
           /\ table'.version \in Nat /\ table'.version >= table.version
<1>1. WriterInv /\ NumbersFit /\ table \in Tables /\ table.version \in Nat
  BY TableParts DEF Inv, WriterInv
<1>2. CASE NewNumber \/ PublishId
  <2>1. table' = [table EXCEPT !.ids = Append(@, w.id)]
    BY <1>2 DEF NewNumber, PublishId
  <2>2. QED
    BY <1>1, <1>2, <2>1 DEF Tables
<1>3. CASE PublishVersion
  <2>1. table' = [table EXCEPT !.version = w.v] /\ w.pc = "version"
    BY <1>3 DEF PublishVersion
  <2>2. w.v = table.version + 1
    BY <1>1, <2>1 DEF NumbersFit, CallFits, Replacing
  <2>3. QED
    BY <1>1, <2>1, <2>2 DEF Tables
<1>4. CASE MetaGrow \/ MetaSpan \/ MetaOrder \/ BitGrow \/ BitSet
  <2>1. table'.ids = table.ids /\ table'.version = table.version
    BY <1>1, <1>4 DEF MetaGrow, MetaSpan, MetaOrder, BitGrow, BitSet, Tables
  <2>2. QED
    BY <1>1, <2>1
<1>5. CASE LowerMinKey \/ Follow \/ LinkAbsent \/ AddNumber
  <2>1. table'.ids = table.ids /\ table'.version = table.version
    BY <1>1, <1>5 DEF LowerMinKey, Follow, LinkAbsent, AddNumber, Tables
  <2>2. QED
    BY <1>1, <2>1
<1>6. CASE UNCHANGED table
  BY <1>1, <1>6
<1>7. QED
  BY <1>2, <1>3, <1>4, <1>5, <1>6 DEF Writer, AddRule, ReplaceRule, RemoveRule,
     TooManyRules, Unlock, Retire, Forget, Compact

\* What a call that reads the current table would return stays what it was; a
\* number whose slot of ids it has passed stays hidden if it was.
LEMMA SteadyNumbers ==
    ASSUME Inv, KeyFits, PlaceFits, Writer, w.pc # "compact", NEW r \in Readers,
           Reading(r), ~rd[r].stale, rd[r].pc # "version", NEW n \in 0..Number - 1
    PROVE  /\ IdOf(r, n)' = IdOf(r, n) /\ SeenKey(r, n)' = SeenKey(r, n)
           /\ Hidden(r, n) => Hidden(r, n)'
<1>1. /\ WriterInv /\ ReaderInv /\ table \in Tables /\ Number \in Nat
      /\ table.ids \in Seq(Ids) /\ Len(table.ids) = Number
  BY TableParts DEF Inv, WriterInv, Number
<1>2. rd' = rd /\ Tab(r) = table /\ Tab(r)' = table'
  BY <1>1, WriterLeavesReaders DEF Tab
<1>3. IdOf(r, n)' = IdOf(r, n)
  BY <1>1, <1>2, IdsStep DEF IdOf
<1>4. /\ WordsEvolve /\ BitsEvolve /\ Inv'
  BY EvolveStep, InvWriter DEF Evolves
<1> DEFINE a == SeenMeta(r)
           b == SeenMeta(r)'
           c == SeenRemoved(r)
           d == SeenRemoved(r)'
<1>5. a \in 0..Len(table.meta) /\ c \in 0..Len(table.removed)
  BY <1>2, SeenBounds
<1>6. /\ a = b \/ (a = Len(table.meta) /\ b = Len(table.meta)')
      /\ c = d \/ (c = Len(table.removed) /\ d = Len(table.removed)')
  BY <1>2 DEF SeenMeta, SeenRemoved
<1>7. b \in 0..Len(table.meta)' /\ d \in 0..Len(table.removed)'
  <2>1. /\ rd'[r] \in Scratches /\ Within(rd'[r], Tab(r)')
        /\ table' \in Tables
    <3>1. ReaderInv' /\ table' \in Tables
      BY <1>4 DEF Inv, WriterInv
    <3>2. QED
      BY <3>1 DEF ReaderInv, ReadersInBounds, Within
  <2>2. /\ rd'[r].meta \in Nat /\ rd'[r].removed \in Nat
        /\ rd'[r].meta <= Len(table'.meta) /\ rd'[r].removed <= Len(table'.removed)
    BY <1>2, <2>1 DEF Scratches, Within
  <2>3. Len(table'.meta) \in Nat /\ Len(table'.removed) \in Nat
    BY <2>1, TableParts
  <2>4. QED
    BY <1>2, <2>2, <2>3 DEF SeenMeta, SeenRemoved
<1> HIDE DEF a, b, c, d
<1>8. /\ MetaAt(table', b, n).from = MetaAt(table, a, n).from
      /\ \/ MetaAt(table', b, n).until = MetaAt(table, a, n).until
         \/ MetaAt(table, a, n).until = 0
      /\ OrderIn(table', b, n) = OrderIn(table, a, n)
  BY <1>4, <1>5, <1>6, <1>7 DEF WordsEvolve
<1>9. BitsHas(table, c, n) => BitsHas(table', d, n)
  BY <1>4, <1>5, <1>6, <1>7 DEF BitsEvolve
<1>10. SeenVersion(r)' = SeenVersion(r)
  BY <1>2 DEF SeenVersion
<1>11. SeenKey(r, n)' = SeenKey(r, n)
  BY <1>2, <1>8 DEF SeenKey, a, b
<1>12. Hidden(r, n) => Hidden(r, n)'
  BY <1>2, <1>8, <1>9, <1>10 DEF Hidden, a, b, c, d
<1>13. QED
  BY <1>3, <1>11, <1>12

\* A call that reads the current table and has loaded its version.  ids may have
\* a number more when the call loads it: that of an identifier which is new, or
\* a replacement that the version hides.
LEMMA SteadyFits ==
    ASSUME WriterPart, InOrder', CallNext, Writer, w.pc # "compact", NEW r \in Readers,
           Reading(r), ~rd[r].stale, rd[r].pc # "version", LoadFits(r), AliveFits(r)
    PROVE  AliveFits(r)'
<1>1. /\ Inv /\ KeyFits /\ PlaceFits /\ GoneFits /\ SeenTypes /\ WriterInv /\ NumbersFit
      /\ ReaderInv /\ table \in Tables /\ Number \in Nat /\ rd[r].pc # "idle"
      /\ table.ids \in Seq(Ids) /\ Len(table.ids) = Number /\ rd[r] \in Scratches
  BY TableParts DEF WriterPart, BookInv, Inv, WriterInv, Number, Reading, ReaderInv
<1>2. rd' = rd /\ Tab(r) = table /\ Tab(r)' = table'
  BY <1>1, WriterLeavesReaders DEF Tab
<1>3. SeenLimit(r) \in 0..Number /\ \A n \in 0..SeenLimit(r) - 1 : IdOf(r, n) \in Ids
  BY <1>1, <1>2, SeenBounds
<1>4. /\ table'.ids = table.ids
         \/ ((NewNumber \/ PublishId) /\ table'.ids = Append(table.ids, w.id))
      /\ Number' \in {Number, Number + 1}
      /\ Number' # Number => (NewNumber \/ PublishId) /\ table'.ids[Number + 1] = w.id
  BY <1>1, IdsStep DEF Number
<1>5. \/ SeenLimit(r)' = SeenLimit(r)
      \/ rd[r].pc = "ids" /\ SeenLimit(r) = Number /\ SeenLimit(r)' = Number'
  BY <1>2 DEF SeenLimit, Number
<1>6. ASSUME NEW n \in 0..SeenLimit(r)' - 1, Alive(r, n)'
      PROVE  \/ /\ n \in 0..SeenLimit(r) - 1 /\ Alive(r, n)
                /\ IdOf(r, n)' = IdOf(r, n) /\ SeenKey(r, n)' = SeenKey(r, n)
                /\ IdOf(r, n) \notin seen'[r].gone
             \/ /\ NewNumber /\ n = Number
                /\ IdOf(r, n)' = w.id /\ SeenKey(r, n)' = Order(table', Number)
  <2>1. CASE n < SeenLimit(r)
    <3>1. n \in 0..SeenLimit(r) - 1 /\ n \in 0..Number - 1
      BY <1>3, <1>5, <1>4, <1>1, <2>1
    <3>2. /\ IdOf(r, n)' = IdOf(r, n) /\ SeenKey(r, n)' = SeenKey(r, n)
          /\ Hidden(r, n) => Hidden(r, n)'
      BY <1>1, <3>1, SteadyNumbers
    <3>3. Alive(r, n) /\ IdOf(r, n) \notin seen'[r].gone
      BY <1>1, <1>2, <1>6, <2>1, <3>2, GoneGrows DEF Alive
    <3>4. QED
      BY <3>1, <3>2, <3>3
  <2>2. CASE ~(n < SeenLimit(r))
    <3>1. /\ rd[r].pc = "ids" /\ SeenLimit(r)' = Number + 1 /\ n = Number /\ Number' # Number
      BY <1>1, <1>3, <1>4, <1>5, <2>2
    <3>2. SeenMeta(r)' = Len(table'.meta) /\ SeenVersion(r)' = rd[r].version /\ rd'[r].kept = {}
      BY <1>2, <3>1 DEF SeenMeta, SeenVersion, LoadFits
    <3>3. IdOf(r, n)' = w.id
      BY <1>2, <1>4, <3>1 DEF IdOf
    <3>4. SeenKey(r, n)' = Order(table', Number)
      BY <1>2, <3>1, <3>2 DEF SeenKey, Order
    <3>5. ~PublishId
      <4> SUFFICES ASSUME PublishId PROVE FALSE
        OBVIOUS
      <4>1. w.pc = "ids" /\ w.num = Number
        BY <1>1 DEF PublishId, WriterInv, WriterFits
      <4>2. Replacing
        BY <1>1, <4>1 DEF NumbersFit, CallFits, Replacing
      <4>2a. w.v = table.version + 1 /\ From(w.num) = w.v
        BY <1>1, <4>1, <4>2 DEF NumbersFit, CallFits, PlaceFits
      <4>3. n \in Nat /\ n = w.num /\ ~(MetaSpan \/ MetaOrder)
        BY <1>1, <3>1, <4>1 DEF MetaSpan, MetaOrder
      <4>3a. From(n)' = From(n)
        BY <1>1, <4>3, LastWord
      <4>4. MetaAt(table', Len(table'.meta), n).from = table.version + 1
        BY <4>2a, <4>3, <4>3a DEF From
      <4>5. rd[r].version \in Nat /\ table.version \in Nat /\ rd[r].version <= table.version
        BY <1>1, TableParts DEF Scratches, LoadFits
      <4>6. table.version + 1 > rd[r].version
        BY <4>5
      <4>7. Hidden(r, n)'
        BY <1>2, <3>2, <4>4, <4>6 DEF Hidden
      <4>8. QED
        BY <1>6, <3>2, <4>7 DEF Alive
    <3>6. QED
      BY <1>4, <3>1, <3>3, <3>4, <3>5
  <2>3. QED
    BY <2>1, <2>2
<1>7. ASSUME NewNumber
      PROVE  /\ w.id \in Ids /\ ~Known(w.id)
             /\ nums'[w.id] = Number /\ nums'[w.id] # NoNumber
  <2>1. nums' = [nums EXCEPT ![w.id] = Number] /\ w.pc = "number"
    BY <1>7 DEF NewNumber
  <2>2. w.id \in Ids /\ ~Known(w.id) /\ nums \in [Ids -> {NoNumber} \cup 0..Number - 1]
    BY <1>1, <2>1 DEF WriterInv, WriterFits, NumbersFit, CallFits, Number
  <2>3. nums'[w.id] = Number
    BY <2>1, <2>2
  <2>4. QED
    BY <1>1, <2>2, <2>3 DEF NoNumber
<1>7a. ASSUME NEW id \in Ids, Known(id), id \notin seen'[r].gone
       PROVE  nums'[id] # NoNumber /\ Order(table', nums'[id]) = Order(table, nums[id])
  <2>1. Known(id)'
    BY <1>1, <1>7a, KnownOrGone
  <2>2. QED
    BY <1>1, <1>7a, <2>1, KeyKept DEF Known
<1>8. ASSUME NEW n \in 0..SeenLimit(r)' - 1, Alive(r, n)'
      PROVE  /\ IdOf(r, n)' \in Ids /\ Known(IdOf(r, n))'
             /\ SeenKey(r, n)' = Order(table, nums[IdOf(r, n)])'
             /\ Known(IdOf(r, n)') \/ (NewNumber /\ n = Number /\ IdOf(r, n)' = w.id)
             /\ Known(IdOf(r, n)') => /\ n \in 0..SeenLimit(r) - 1 /\ Alive(r, n)
                                      /\ IdOf(r, n)' = IdOf(r, n)
  <2>1. CASE /\ n \in 0..SeenLimit(r) - 1 /\ Alive(r, n)
             /\ IdOf(r, n)' = IdOf(r, n) /\ SeenKey(r, n)' = SeenKey(r, n)
             /\ IdOf(r, n) \notin seen'[r].gone
    <3> DEFINE id == IdOf(r, n)
    <3>1. id \in Ids /\ Known(id) /\ SeenKey(r, n) = Order(table, nums[id])
      BY <1>3, <2>1 DEF AliveFits
    <3>2. IdOf(r, n)' = id
      BY <2>1
    <3>3. id \notin seen'[r].gone
      BY <2>1
    <3> HIDE DEF id
    <3>4. nums'[id] # NoNumber /\ Order(table', nums'[id]) = Order(table, nums[id])
      BY <1>7a, <3>1, <3>3
    <3>5. SeenKey(r, n)' = Order(table', nums'[id])
      BY <2>1, <3>1, <3>4
    <3>6. QED
      BY <2>1, <3>1, <3>2, <3>4, <3>5 DEF Known
  <2>2. CASE /\ NewNumber /\ n = Number
             /\ IdOf(r, n)' = w.id /\ SeenKey(r, n)' = Order(table', Number)
    <3>1. w.id \in Ids /\ ~Known(w.id) /\ nums'[w.id] # NoNumber /\ nums'[w.id] = Number
      BY <1>7, <2>2
    <3>2. QED
      BY <2>2, <3>1 DEF Known
  <2>3. QED
    BY <1>6, <1>8, <2>1, <2>2
<1>9. ASSUME NEW n \in 0..SeenLimit(r)' - 1, NEW m \in 0..SeenLimit(r)' - 1,
             Alive(r, n)', Alive(r, m)', n # m
      PROVE  /\ IdOf(r, n)' # IdOf(r, m)'
             /\ SeenKey(r, n)' <= SeenKey(r, m)' => Earlier(IdOf(r, n), IdOf(r, m))'
  <2>1. IdOf(r, n)' # IdOf(r, m)'
    <3>1. CASE Known(IdOf(r, n)') /\ Known(IdOf(r, m)')
      BY <1>8, <1>9, <3>1 DEF AliveFits
    <3>2. CASE ~Known(IdOf(r, n)') /\ ~Known(IdOf(r, m)')
      BY <1>8, <1>9, <3>2
    <3>3. CASE Known(IdOf(r, n)') # Known(IdOf(r, m)')
      BY <3>3
    <3>4. QED
      BY <3>1, <3>2, <3>3 DEF Known
  <2>2. ASSUME NEW a \in Ids, NEW b \in Ids, a # b, Known(a)', Known(b)',
               Order(table', nums'[a]) <= Order(table', nums'[b])
        PROVE  <<a, b>> \in added'
    BY <2>2 DEF InOrder, Earlier
  <2>3. /\ IdOf(r, n)' \in Ids /\ nums'[IdOf(r, n)'] # NoNumber
        /\ SeenKey(r, n)' = Order(table', nums'[IdOf(r, n)'])
        /\ IdOf(r, m)' \in Ids /\ nums'[IdOf(r, m)'] # NoNumber
        /\ SeenKey(r, m)' = Order(table', nums'[IdOf(r, m)'])
    BY <1>8, <1>9 DEF Known
  <2>4. QED
    BY <2>1, <2>2, <2>3 DEF Earlier, Known
<1>10. QED
  BY <1>8, <1>9 DEF AliveFits

\* What a call has returned stays what it was.
LEMMA ReturnedFits ==
    ASSUME WriterPart, CallNext, NEW r \in Readers,
           rd'[r].pc = "done", rd'[r].result = rd[r].result,
           rd[r].result \in Seq(Ids), ResultFits(r), seen[r].gone \subseteq seen'[r].gone,
           \A id \in Ids : Known(id) /\ id \notin seen'[r].gone => nums'[id] # NoNumber
    PROVE  ResultFits(r)'
<1> DEFINE s == rd[r].result
<1>1. rd'[r].result = s /\ s \in Seq(Ids) /\ Len(s) \in Nat
  OBVIOUS
<1>2. WriterInv
  BY DEF WriterPart, BookInv, Inv
<1>3. \A a, b \in Ids : Known(a) /\ Known(b) /\ <<a, b>> \in added => <<a, b>> \in added'
  BY <1>2, EarlierKept DEF Earlier
<1>4. ASSUME NEW i \in 1..Len(s), NEW j \in 1..Len(s), i < j,
             s[i] \notin seen'[r].gone, s[j] \notin seen'[r].gone
      PROVE  /\ nums'[s[i]] # NoNumber /\ nums'[s[j]] # NoNumber /\ s[i] # s[j]
             /\ <<s[i], s[j]>> \in added'
  <2>1. s[i] \notin seen[r].gone /\ s[j] \notin seen[r].gone /\ s[i] \in Ids /\ s[j] \in Ids
    BY <1>1, <1>4
  <2>2. Known(s[i]) /\ Known(s[j]) /\ s[i] # s[j] /\ <<s[i], s[j]>> \in added
    BY <1>4, <2>1 DEF ResultFits, Result, Earlier
  <2> HIDE DEF s
  <2>3. QED
    BY <1>3, <1>4, <2>1, <2>2
<1> HIDE DEF s
<1>5. QED
  BY <1>1, <1>4 DEF ResultFits, Result, Known, Earlier

\* The readers' part is preserved by the writer.
LEMMA ReadersOfWriter ==
    ASSUME WriterPart, WriterPart', FreshFit', CallNext, Writer, NEW r \in Readers, ReaderPart(r)
    PROVE  ReaderPart(r)'
<1>1. /\ Inv /\ GoneFits /\ SeenTypes /\ WriterInv /\ ReaderInv /\ InOrder'
      /\ rd[r] \in Scratches /\ ScratchFits(rd[r])
  BY ReaderParts DEF WriterPart, BookInv, Inv, WriterInv
<1>2. rd'[r].pc = rd[r].pc /\ rd'[r].result = rd[r].result
  BY <1>1, WriterLeavesReaders
<1>3. Done(r)' => ResultFits(r)'
  <2> SUFFICES ASSUME rd'[r].pc = "done" PROVE ResultFits(r)'
    BY DEF Done
  <2>1. rd[r].pc = "done" /\ ResultFits(r) /\ rd[r].result \in Seq(Ids)
    BY <1>1, <1>2 DEF Done, ReaderPart, Scratches
  <2>2. seen[r].gone \subseteq seen'[r].gone
    BY <1>1, <2>1, GoneGrows
  <2>3. \A id \in Ids : Known(id) /\ id \notin seen'[r].gone => nums'[id] # NoNumber
    BY <1>1, <2>1, KnownOrGone DEF Known
  <2>4. QED
    BY <1>2, <2>1, <2>2, <2>3, ReturnedFits
<1>4. CASE Compact
  <2>1. rd'[r] = [rd[r] EXCEPT !.stale = @ \/ Reading(r)]
    BY <1>4 DEF Compact
  <2>2. /\ rd'[r].kept = rd[r].kept /\ rd'[r].version = rd[r].version
        /\ Reading(r) => rd'[r].stale
    BY <1>1, <2>1 DEF Scratches
  <2>3. table' \in Tables /\ table'.version \in Nat
    BY TableParts DEF WriterPart, BookInv, Inv, WriterInv
  <2>4. LoadFits(r)'
    BY <1>2, <2>2, <2>3 DEF ReaderPart, LoadFits, Reading
  <2>5. Reading(r)' => AliveFits(r)'
    BY <1>1, <1>2, <1>4, CompactFits DEF Reading, ReaderPart
  <2>6. QED
    BY <1>3, <2>4, <2>5 DEF ReaderPart
<1>5. CASE ~Compact
  <2>1. w.pc # "compact"
    BY <1>5 DEF Writer, AddRule, ReplaceRule, RemoveRule, NewNumber, TooManyRules,
       MetaGrow, MetaSpan, MetaOrder, PublishId, LowerMinKey, Follow, LinkAbsent,
       AddNumber, Unlock, PublishVersion, Retire, BitGrow, BitSet, Forget
  <2>2. rd' = rd
    BY <1>1, <2>1, WriterLeavesReaders
  <2>3. LoadFits(r)'
    <3>1. table'.version \in Nat /\ table'.version >= table.version
      BY <1>1, <2>1, IdsStep
    <3>2. table.version \in Nat /\ rd[r].version \in Nat
      BY <1>1, TableParts DEF WriterInv, Scratches
    <3>3. QED
      BY <2>2, <3>1, <3>2 DEF ReaderPart, LoadFits, Reading
  <2>4. ASSUME Reading(r) PROVE AliveFits(r)'
    <3>1. LoadFits(r) /\ AliveFits(r)
      BY <2>4 DEF ReaderPart
    <3>2. CASE rd[r].stale
      BY <1>1, <2>1, <2>4, <3>1, <3>2, StaleFits
    <3>3. CASE ~rd[r].stale /\ rd[r].pc = "version"
      BY <2>2, <3>1, <3>3 DEF Fresh, FreshFit, LoadFits
    <3>4. CASE ~rd[r].stale /\ rd[r].pc # "version"
      BY <1>1, <2>1, <2>4, <3>1, <3>4, SteadyFits
    <3>5. QED
      BY <3>2, <3>3, <3>4
  <2>5. Reading(r)' => Reading(r)
    BY <2>2 DEF Reading
  <2>6. QED
    BY <1>3, <2>3, <2>4, <2>5 DEF ReaderPart
<1>6. QED
  BY <1>4, <1>5

-----------------------------------------------------------------------------
(* The readers' part is preserved by the readers.                          *)

\* What a step of a reader leaves alone.
LEMMA ReaderLeaves ==
    ASSUME WriterPart, CallNext, UNCHANGED wvars
    PROVE  /\ added' = added /\ table' = table /\ nums' = nums
           /\ \A r \in Readers : rd[r].pc # "idle" /\ rd'[r].pc # "idle" =>
                 seen'[r].gone = seen[r].gone
<1>1. w' = w /\ ~CallStarts
  BY DEF wvars, CallStarts
<1>2. WriterInv /\ SeenTypes
  BY DEF WriterPart, BookInv, Inv
<1>3. ASSUME NEW r \in Readers, rd[r].pc # "idle", rd'[r].pc # "idle"
      PROVE  seen'[r].gone = seen[r].gone
  BY <1>1, <1>2, <1>3, SeenStep
<1>4. QED
  BY <1>1, <1>3 DEF wvars, CallNext

\* A reader that takes no step.
LEMMA OtherReader ==
    ASSUME WriterPart, CallNext, UNCHANGED wvars, NEW r \in Readers,
           rd'[r] = rd[r], old'[r] = old[r], ReaderPart(r)
    PROVE  ReaderPart(r)'
<1>1. /\ added' = added /\ table' = table /\ nums' = nums
      /\ rd[r].pc # "idle" => seen'[r].gone = seen[r].gone
  BY ReaderLeaves
<1>2. Tab(r)' = Tab(r)
  BY <1>1 DEF Tab
<1>3. LoadFits(r)'
  BY <1>1 DEF ReaderPart, LoadFits, Reading
<1>4. /\ SeenLimit(r)' = SeenLimit(r) /\ SeenMeta(r)' = SeenMeta(r)
      /\ SeenRemoved(r)' = SeenRemoved(r) /\ SeenVersion(r)' = SeenVersion(r)
  BY <1>2 DEF SeenLimit, SeenMeta, SeenRemoved, SeenVersion
<1>5. \A n : /\ IdOf(r, n)' = IdOf(r, n) /\ SeenKey(r, n)' = SeenKey(r, n)
             /\ Hidden(r, n)' <=> Hidden(r, n)
  BY <1>2, <1>4 DEF IdOf, SeenKey, Hidden
<1>6. ASSUME Reading(r) PROVE AliveFits(r)'
  <2>1. seen'[r].gone = seen[r].gone /\ AliveFits(r)
    BY <1>1, <1>6 DEF Reading, ReaderPart
  <2>2. \A n : Alive(r, n)' <=> Alive(r, n)
    BY <1>4, <1>5, <2>1 DEF Alive
  <2>3. \A n : /\ Known(IdOf(r, n))' <=> Known(IdOf(r, n))
               /\ Order(table, nums[IdOf(r, n)])' = Order(table, nums[IdOf(r, n)])
    BY <1>1, <1>5 DEF Known
  <2>4. \A n, m : Earlier(IdOf(r, n), IdOf(r, m))' <=> Earlier(IdOf(r, n), IdOf(r, m))
    BY <1>1, <1>5 DEF Earlier
  <2>5. QED
    BY <1>4, <1>5, <2>1, <2>2, <2>3, <2>4 DEF AliveFits
<1>7. ASSUME Done(r) PROVE ResultFits(r)'
  <2>1. seen'[r].gone = seen[r].gone /\ ResultFits(r)
    BY <1>1, <1>7 DEF Done, ReaderPart
  <2>2. QED
    BY <1>1, <2>1 DEF ResultFits, Result, Known, Earlier
<1>8. QED
  BY <1>3, <1>6, <1>7 DEF ReaderPart, Reading, Done

\* A step within a call that loads what it would have loaded, and keeps only
\* numbers that it sees.
LEMMA GoingOn ==
    ASSUME WriterPart, CallNext, UNCHANGED wvars, NEW r \in Readers, ReaderPart(r),
           Reading(r), rd'[r].pc \notin {"idle", "done"}, old' = old,
           rd'[r].stale = rd[r].stale,
           \A n \in rd'[r].kept : n \in rd[r].kept \/ ~Hidden(r, n),
           SeenLimit(r)' = SeenLimit(r), SeenMeta(r)' = SeenMeta(r),
           SeenRemoved(r)' = SeenRemoved(r), SeenVersion(r)' = SeenVersion(r),
           rd'[r].pc # "visit" => rd'[r].kept = {},
           ~rd[r].stale => rd'[r].version <= table.version
    PROVE  ReaderPart(r)'
<1>1. /\ added' = added /\ table' = table /\ nums' = nums
      /\ seen'[r].gone = seen[r].gone /\ AliveFits(r) /\ Inv
  BY ReaderLeaves DEF Reading, ReaderPart, WriterPart, BookInv
<1>2. Tab(r)' = Tab(r)
  BY <1>1 DEF Tab
<1>3. LoadFits(r)'
  BY <1>1 DEF LoadFits, Reading
<1>4. \A n : /\ IdOf(r, n)' = IdOf(r, n) /\ SeenKey(r, n)' = SeenKey(r, n)
             /\ Hidden(r, n)' <=> Hidden(r, n)
  BY <1>2 DEF IdOf, SeenKey, Hidden
<1>5. \A n : Alive(r, n)' => n < SeenLimit(r) /\ Alive(r, n)
  BY <1>1, <1>4 DEF Alive
<1>6. SeenLimit(r)' \in Nat
  BY <1>1, SeenBounds
<1>7. \A id \in Ids : Known(id) => Known(id)'
  BY <1>1 DEF Known
<1>8. AliveFits(r)'
  BY <1>1, <1>4, <1>5, <1>6, <1>7, AliveLess
<1>9. QED
  BY <1>3, <1>8 DEF ReaderPart, Done, Reading

\* begin: what the call loads is what it would have loaded.
LEMMA LoadStep ==
    ASSUME WriterPart, CallNext, NEW r \in Readers, ReaderPart(r),
           \/ LoadVersion(r) \/ LoadIds(r) \/ LoadMeta(r) \/ LoadRemoved(r) \/ LoadAbsent(r)
    PROVE  ReaderPart(r)'
<1>1. /\ Inv /\ rd \in [Readers -> Scratches] /\ rd[r] \in Scratches
      /\ table \in Tables /\ table.version \in Nat
  BY TableParts DEF WriterPart, BookInv, Inv, ReaderInv, WriterInv
<1>2. UNCHANGED wvars /\ old' = old /\ Reading(r) /\ rd[r].kept = {}
  BY DEF LoadVersion, LoadIds, LoadMeta, LoadRemoved, LoadAbsent, Reading, ReaderPart, LoadFits
<1>3. ~rd[r].stale => rd[r].version <= table.version /\ Tab(r) = table
  BY DEF ReaderPart, LoadFits, Tab
<1>4. CASE LoadVersion(r)
  <2>1. rd'[r] = [rd[r] EXCEPT !.pc = "ids", !.version = Tab(r).version] /\ rd[r].pc = "version"
    BY <1>1, <1>4 DEF LoadVersion
  <2>2. /\ rd'[r].pc = "ids" /\ rd'[r].version = Tab(r).version /\ rd'[r].kept = rd[r].kept
        /\ rd'[r].stale = rd[r].stale
    BY <1>1, <2>1 DEF Scratches
  <2>3. Tab(r)' = Tab(r)
    BY <1>2, <2>2 DEF Tab, wvars
  <2>4. /\ SeenLimit(r)' = SeenLimit(r) /\ SeenMeta(r)' = SeenMeta(r)
        /\ SeenRemoved(r)' = SeenRemoved(r) /\ SeenVersion(r)' = SeenVersion(r)
    BY <2>1, <2>2, <2>3 DEF SeenLimit, SeenMeta, SeenRemoved, SeenVersion
  <2>5. QED
    BY <1>1, <1>2, <1>3, <2>2, <2>4, GoingOn
<1>5. CASE LoadIds(r)
  <2>1. rd'[r] = [rd[r] EXCEPT !.pc = "meta", !.limit = Len(Tab(r).ids)] /\ rd[r].pc = "ids"
    BY <1>1, <1>5 DEF LoadIds
  <2>2. /\ rd'[r].pc = "meta" /\ rd'[r].limit = Len(Tab(r).ids) /\ rd'[r].kept = rd[r].kept
        /\ rd'[r].stale = rd[r].stale /\ rd'[r].version = rd[r].version
    BY <1>1, <2>1 DEF Scratches
  <2>3. Tab(r)' = Tab(r)
    BY <1>2, <2>2 DEF Tab, wvars
  <2>4. /\ SeenLimit(r)' = SeenLimit(r) /\ SeenMeta(r)' = SeenMeta(r)
        /\ SeenRemoved(r)' = SeenRemoved(r) /\ SeenVersion(r)' = SeenVersion(r)
    BY <2>1, <2>2, <2>3 DEF SeenLimit, SeenMeta, SeenRemoved, SeenVersion
  <2>5. QED
    BY <1>2, <1>3, <2>2, <2>4, GoingOn
<1>6. CASE LoadMeta(r)
  <2>1. rd'[r] = [rd[r] EXCEPT !.pc = "removed", !.meta = Len(Tab(r).meta)] /\ rd[r].pc = "meta"
    BY <1>1, <1>6 DEF LoadMeta
  <2>2. /\ rd'[r].pc = "removed" /\ rd'[r].meta = Len(Tab(r).meta) /\ rd'[r].kept = rd[r].kept
        /\ rd'[r].stale = rd[r].stale /\ rd'[r].version = rd[r].version
        /\ rd'[r].limit = rd[r].limit
    BY <1>1, <2>1 DEF Scratches
  <2>3. Tab(r)' = Tab(r)
    BY <1>2, <2>2 DEF Tab, wvars
  <2>4. /\ SeenLimit(r)' = SeenLimit(r) /\ SeenMeta(r)' = SeenMeta(r)
        /\ SeenRemoved(r)' = SeenRemoved(r) /\ SeenVersion(r)' = SeenVersion(r)
    BY <2>1, <2>2, <2>3 DEF SeenLimit, SeenMeta, SeenRemoved, SeenVersion
  <2>5. QED
    BY <1>2, <1>3, <2>2, <2>4, GoingOn
<1>7. CASE LoadRemoved(r) \/ LoadAbsent(r)
  <2>1. \/ /\ rd[r].pc = "removed"
           /\ rd'[r] = [rd[r] EXCEPT !.pc = "absent", !.removed = Len(Tab(r).removed)]
        \/ /\ rd[r].pc = "absent"
           /\ rd'[r] = [rd[r] EXCEPT !.pc = "visit", !.absent = Tab(r).hasAbsent, !.todo = {<<>>}]
    BY <1>1, <1>7 DEF LoadRemoved, LoadAbsent
  <2>2. /\ \/ /\ rd[r].pc = "removed" /\ rd'[r].pc = "absent"
              /\ rd'[r].removed = Len(Tab(r).removed)
           \/ /\ rd[r].pc = "absent" /\ rd'[r].pc = "visit" /\ rd'[r].removed = rd[r].removed
        /\ rd'[r].kept = rd[r].kept
        /\ rd'[r].stale = rd[r].stale /\ rd'[r].version = rd[r].version
        /\ rd'[r].limit = rd[r].limit /\ rd'[r].meta = rd[r].meta
    BY <1>1, <2>1 DEF Scratches
  <2>3. Tab(r)' = Tab(r)
    BY <1>2, <2>2 DEF Tab, wvars
  <2>4. /\ SeenLimit(r)' = SeenLimit(r) /\ SeenMeta(r)' = SeenMeta(r)
        /\ SeenRemoved(r)' = SeenRemoved(r) /\ SeenVersion(r)' = SeenVersion(r)
    BY <2>2, <2>3 DEF SeenLimit, SeenMeta, SeenRemoved, SeenVersion
  <2>5. QED
    BY <1>2, <1>3, <2>2, <2>4, GoingOn
<1>8. QED
  BY <1>4, <1>5, <1>6, <1>7

\* A number that a call sees is not hidden from it.
LEMMA VisibleSeen ==
    ASSUME Inv, NEW r \in Readers, rd[r].pc = "visit", NEW n \in Nat, Visible(r, n)
    PROVE  ~Hidden(r, n)
<1>1. /\ SeenMeta(r) = rd[r].meta /\ SeenRemoved(r) = rd[r].removed
      /\ SeenVersion(r) = rd[r].version
  BY DEF SeenMeta, SeenRemoved, SeenVersion
<1>2. /\ MetaAt(Tab(r), rd[r].meta, n) \in MetaWords /\ rd[r].version \in Nat
  BY <1>1, SeenBounds, MetaType
<1>3. QED
  BY <1>1, <1>2 DEF Hidden, Visible, MetaWords

\* visit, improve and the first half of results.
LEMMA VisitStep ==
    ASSUME WriterPart, CallNext, NEW r \in Readers, ReaderPart(r),
           \/ \E p \in rd[r].todo : Visit(r, p)
           \/ \E n \in rd[r].cand : Consider(r, n)
           \/ Filter(r)
    PROVE  ReaderPart(r)'
<1>1. Inv /\ rd \in [Readers -> Scratches] /\ rd[r] \in Scratches
  BY DEF WriterPart, BookInv, Inv, ReaderInv
<1>2. UNCHANGED wvars /\ old' = old /\ Reading(r) /\ rd[r].pc = "visit"
  BY DEF Visit, Consider, Filter, Reading
<1>3. ~rd[r].stale => rd[r].version <= table.version
  BY DEF ReaderPart, LoadFits
<1>4. /\ rd'[r].pc = "visit" /\ rd'[r].stale = rd[r].stale /\ rd'[r].version = rd[r].version
      /\ rd'[r].limit = rd[r].limit /\ rd'[r].meta = rd[r].meta
      /\ rd'[r].removed = rd[r].removed
      /\ \A n \in rd'[r].kept : n \in rd[r].kept \/ ~Hidden(r, n)
  <2>1. ASSUME NEW p \in rd[r].todo, Visit(r, p)
        PROVE  \E a, b, c : rd'[r] = [rd[r] EXCEPT !.todo = a, !.cand = b, !.out = c]
    <3>1. CASE (p # <<>> /\ p \notin Tab(r).edges) \/ Prunes(r, p)
      <4>1. rd'[r] = [rd[r] EXCEPT !.todo = rd[r].todo \ {p}]
        BY <1>1, <2>1, <3>1 DEF Visit
      <4>2. rd'[r] = [rd[r] EXCEPT !.todo = rd[r].todo \ {p}, !.cand = rd[r].cand,
                                   !.out = rd[r].out]
        BY <1>1, <4>1 DEF Scratches
      <4>3. QED
        BY <4>2
    <3>2. CASE ~((p # <<>> /\ p \notin Tab(r).edges) \/ Prunes(r, p))
      <4> DEFINE a == (rd[r].todo \ {p}) \cup Children(r, p)
                 b == IF rd[r].first THEN Tab(r).rules[p] ELSE {}
                 c == IF rd[r].first THEN {} ELSE rd[r].out \cup Tab(r).rules[p]
      <4>1. rd'[r] = [rd[r] EXCEPT !.todo = a, !.cand = b, !.out = c]
        BY <1>1, <2>1, <3>2 DEF Visit
      <4>2. QED
        BY <4>1
    <3>3. QED
      BY <3>1, <3>2
  <2>2. ASSUME NEW n \in rd[r].cand, Consider(r, n)
        PROVE  \E a, b, c : rd'[r] = [rd[r] EXCEPT !.cand = a, !.best = b, !.bestKey = c]
    BY <1>1, <2>2 DEF Consider
  <2>3. CASE Filter(r)
    <3> DEFINE n == Least(rd[r].out)
    <3>1. n \in Nat
      <4>1. rd[r].out \in SUBSET Nat /\ rd[r].out # {}
        BY <1>1, <2>3 DEF Scratches, Filter
      <4>2. QED
        BY <4>1, LeastIsLeast
    <3>2. rd'[r] = [rd[r] EXCEPT !.out = @ \ {n},
                                 !.kept = IF Visible(r, n) THEN @ \cup {n} ELSE @]
      BY <1>1, <2>3 DEF Filter
    <3> HIDE DEF n
    <3>3. Visible(r, n) => ~Hidden(r, n)
      BY <1>1, <1>2, <3>1, VisibleSeen
    <3>4. /\ rd'[r].pc = rd[r].pc /\ rd'[r].stale = rd[r].stale /\ rd'[r].version = rd[r].version
          /\ rd'[r].limit = rd[r].limit /\ rd'[r].meta = rd[r].meta
          /\ rd'[r].removed = rd[r].removed
          /\ rd'[r].kept = IF Visible(r, n) THEN rd[r].kept \cup {n} ELSE rd[r].kept
      BY <1>1, <3>2 DEF Scratches
    <3>5. QED
      BY <1>2, <3>3, <3>4
  <2>4. CASE ~Filter(r)
    <3>1. /\ rd'[r].pc = rd[r].pc /\ rd'[r].stale = rd[r].stale /\ rd'[r].version = rd[r].version
          /\ rd'[r].limit = rd[r].limit /\ rd'[r].meta = rd[r].meta
          /\ rd'[r].removed = rd[r].removed /\ rd'[r].kept = rd[r].kept
      BY <1>1, <2>1, <2>2, <2>4 DEF Scratches
    <3>2. QED
      BY <1>2, <3>1
  <2>5. QED
    BY <2>3, <2>4
<1>5. Tab(r)' = Tab(r)
  BY <1>2, <1>4 DEF Tab, wvars
<1>6. /\ SeenLimit(r)' = SeenLimit(r) /\ SeenMeta(r)' = SeenMeta(r)
      /\ SeenRemoved(r)' = SeenRemoved(r) /\ SeenVersion(r)' = SeenVersion(r)
  BY <1>2, <1>4, <1>5 DEF SeenLimit, SeenMeta, SeenRemoved, SeenVersion
<1>7. QED
  BY <1>2, <1>3, <1>4, <1>6, GoingOn

\* A call that starts has loaded nothing, and one that returns holds nothing.
LEMMA EdgeStep ==
    ASSUME WriterPart, FreshFit', CallNext, NEW r \in Readers, ReaderPart(r),
           \/ \E e \in Events, first \in Firsts : Match(r, e, first)
           \/ ReturnFirst(r)
           \/ Rest(r)
    PROVE  ReaderPart(r)'
<1>1. rd \in [Readers -> Scratches] /\ table \in Tables /\ table.version \in Nat /\ table' = table
  <2>1. rd \in [Readers -> Scratches] /\ table \in Tables
    BY DEF WriterPart, BookInv, Inv, ReaderInv, WriterInv
  <2>2. table' = table
    BY DEF Match, ReturnFirst, Rest, wvars
  <2>3. QED
    BY <2>1, <2>2, TableParts
<1>2. /\ rd'[r].kept = {} /\ rd'[r].stale = FALSE /\ rd'[r].version = 0
      /\ rd'[r].pc \in {"idle", "version", "done"}
      /\ Len(rd'[r].result) = 0 \/ Len(rd'[r].result) = 1
  <2>1. ASSUME NEW e \in Events, NEW first \in Firsts, Match(r, e, first)
        PROVE  /\ rd'[r].kept = {} /\ rd'[r].stale = FALSE /\ rd'[r].version = 0
               /\ rd'[r].pc \in {"idle", "version", "done"} /\ Len(rd'[r].result) = 0
    <3>1. rd'[r] = [IdleReader EXCEPT !.pc = IF hasTab THEN "version" ELSE "done",
                                      !.ev = e, !.first = first]
      BY <1>1, <2>1 DEF Match
    <3>2. /\ rd'[r].kept = {} /\ rd'[r].stale = FALSE /\ rd'[r].version = 0
          /\ rd'[r].pc \in {"idle", "version", "done"} /\ rd'[r].result = <<>>
      BY <3>1 DEF IdleReader
    <3>3. QED
      BY <3>2
  <2>2. CASE Rest(r)
    <3>1. rd'[r] = IdleReader
      BY <1>1, <2>2 DEF Rest
    <3>2. /\ rd'[r].kept = {} /\ rd'[r].stale = FALSE /\ rd'[r].version = 0
          /\ rd'[r].pc = "idle" /\ rd'[r].result = <<>>
      BY <3>1 DEF IdleReader
    <3>3. QED
      BY <3>2
  <2>3. CASE ReturnFirst(r)
    <3> DEFINE s == IF rd[r].bestKey = MaxRules THEN <<>> ELSE <<Tab(r).ids[rd[r].best + 1]>>
    <3>1. rd'[r] = [IdleReader EXCEPT !.pc = "done", !.first = TRUE, !.ev = rd[r].ev, !.result = s]
      BY <1>1, <2>3 DEF ReturnFirst
    <3>2. Len(s) = 0 \/ Len(s) = 1
      OBVIOUS
    <3> HIDE DEF s
    <3>3. /\ rd'[r].kept = {} /\ rd'[r].stale = FALSE /\ rd'[r].version = 0
          /\ rd'[r].pc = "done" /\ rd'[r].result = s
      BY <3>1 DEF IdleReader
    <3>4. QED
      BY <3>2, <3>3
  <2>4. QED
    BY <2>1, <2>2, <2>3
<1>3. LoadFits(r)'
  BY <1>1, <1>2 DEF LoadFits
<1>4. Reading(r)' => Fresh(r)'
  BY <1>2 DEF Reading, Fresh
<1>5. Done(r)' => ResultFits(r)'
  <2> DEFINE n == Len(rd'[r].result)
  <2>1. n = 0 \/ n = 1
    BY <1>2
  <2> HIDE DEF n
  <2>2. \A i, j \in 1..n : ~(i < j)
    BY <2>1
  <2>3. QED
    BY <2>2 DEF n, ResultFits, Result
<1>6. QED
  BY <1>3, <1>4, <1>5 DEF ReaderPart, FreshFit

\* The second half of results: the numbers that the call has kept are sorted by
\* keys that are in the order of their identifiers.
LEMMA ReturnStep ==
    ASSUME WriterPart, CallNext, NEW r \in Readers, ReaderPart(r), ReturnMatches(r)
    PROVE  ReaderPart(r)'
<1> DEFINE kept == rd[r].kept
           key == [n \in kept |-> Key(r, n)]
           ns == Sorted(kept, key)
           result == [i \in 1..Cardinality(kept) |-> Tab(r).ids[ns[i] + 1]]
<1>1. /\ Inv /\ ReaderInv /\ rd \in [Readers -> Scratches] /\ rd[r] \in Scratches
      /\ Within(rd[r], Tab(r)) /\ table \in Tables
  BY ReaderParts DEF WriterPart, BookInv, Inv, ReaderInv, WriterInv
<1>2. UNCHANGED wvars /\ Reading(r) /\ rd[r].pc = "visit" /\ AliveFits(r)
  BY DEF ReturnMatches, Reading, ReaderPart
<1>3. rd'[r] = [IdleReader EXCEPT !.pc = "done", !.ev = rd[r].ev, !.result = result]
  BY <1>1 DEF ReturnMatches
<1>4. /\ kept \in SUBSET Nat /\ rd[r].limit \in Nat /\ \A n \in kept : n < rd[r].limit
      /\ SeenLimit(r) = rd[r].limit /\ SeenMeta(r) = rd[r].meta
  BY <1>1, <1>2 DEF Scratches, Within, SeenLimit, SeenMeta
<1>5. IsFiniteSet(kept) /\ Cardinality(kept) \in Nat
  <2>1. kept \in SUBSET (0..rd[r].limit - 1)
    BY <1>4
  <2>2. IsFiniteSet(0..rd[r].limit - 1)
    <3>1. 0 \in Int /\ rd[r].limit - 1 \in Int
      BY <1>4
    <3>2. QED
      BY <3>1, FS_Interval
  <2> HIDE DEF kept
  <2>3. QED
    BY <2>1, <2>2, FS_Subset, FS_CardinalityType
<1>6. \A n \in kept : key[n] \in Nat /\ key[n] = SeenKey(r, n)
  BY <1>1, <1>4, KeyType DEF Key, SeenKey
<1>7. \A n \in kept : /\ n \in 0..SeenLimit(r) - 1
                      /\ IdOf(r, n) \notin seen[r].gone => Alive(r, n)
  BY <1>4 DEF Alive
<1> HIDE DEF kept, key
<1>8. ASSUME NEW i \in 1..Cardinality(kept), NEW j \in 1..Cardinality(kept), i < j
      PROVE  /\ ns[i] \in kept /\ ns[j] \in kept /\ ns[i] # ns[j]
             /\ SeenKey(r, ns[i]) <= SeenKey(r, ns[j])
  <2>1. /\ ns[i] \in kept /\ Rank(kept, key, ns[i]) = i - 1
        /\ ns[j] \in kept /\ Rank(kept, key, ns[j]) = j - 1
    BY <1>4, <1>5, <1>6, SortedInSet
  <2> HIDE DEF ns
  <2>2. ns[i] # ns[j]
    BY <1>8, <2>1
  <2>3. ~Before(key, ns[j], ns[i])
    <3> SUFFICES ASSUME Before(key, ns[j], ns[i]) PROVE FALSE
      OBVIOUS
    <3>1. Rank(kept, key, ns[j]) < Rank(kept, key, ns[i])
      BY <1>4, <1>5, <1>6, <2>1, RankInjective
    <3>2. QED
      BY <1>5, <1>8, <2>1, <3>1
  <2>4. key[ns[i]] \in Nat /\ key[ns[j]] \in Nat
    BY <1>6, <2>1
  <2>5. key[ns[i]] <= key[ns[j]]
    BY <2>3, <2>4 DEF Before
  <2>6. QED
    BY <1>6, <2>1, <2>2, <2>5
<1>9. Len(result) = Cardinality(kept)
      /\ \A i \in 1..Cardinality(kept) : result[i] = IdOf(r, ns[i])
  <2> HIDE DEF ns
  <2> QED
    BY <1>5 DEF IdOf
<1> HIDE DEF ns
<1>10. ASSUME NEW i \in 1..Len(result), NEW j \in 1..Len(result), i < j,
              result[i] \notin seen[r].gone, result[j] \notin seen[r].gone
       PROVE  /\ Known(result[i]) /\ Known(result[j]) /\ result[i] # result[j]
              /\ <<result[i], result[j]>> \in added
  <2>1. /\ ns[i] \in kept /\ ns[j] \in kept /\ ns[i] # ns[j]
        /\ SeenKey(r, ns[i]) <= SeenKey(r, ns[j])
        /\ result[i] = IdOf(r, ns[i]) /\ result[j] = IdOf(r, ns[j])
    BY <1>8, <1>9, <1>10
  <2> HIDE DEF result
  <2>2. /\ Alive(r, ns[i]) /\ ns[i] \in 0..SeenLimit(r) - 1
        /\ Alive(r, ns[j]) /\ ns[j] \in 0..SeenLimit(r) - 1
    BY <1>7, <1>10, <2>1
  <2>3. QED
    BY <1>2, <2>1, <2>2 DEF AliveFits, Earlier
<1> HIDE DEF result
<1>11. /\ rd'[r].kept = {} /\ rd'[r].stale = FALSE /\ rd'[r].version = 0
       /\ rd'[r].pc = "done" /\ rd'[r].result = result
  BY <1>3 DEF IdleReader
<1>12. /\ added' = added /\ table' = table /\ nums' = nums
       /\ seen'[r].gone = seen[r].gone
  BY <1>2, <1>11, ReaderLeaves
<1>13. LoadFits(r)'
  <2>1. table.version \in Nat
    BY <1>1, TableParts
  <2>2. QED
    BY <1>11, <1>12, <2>1 DEF LoadFits
<1>14. ResultFits(r)'
  BY <1>10, <1>11, <1>12 DEF ResultFits, Result, Known, Earlier
<1>15. QED
  BY <1>11, <1>13, <1>14 DEF ReaderPart, Reading

\* The readers' part is preserved by every step.
LEMMA ReaderPartStep ==
    ASSUME WriterPart, WriterPart', FreshFit', CallNext, \A r \in Readers : ReaderPart(r)
    PROVE  \A r \in Readers : ReaderPart(r)'
<1>1. Next /\ rd \in [Readers -> Scratches] /\ old \in [Readers -> Tables]
  BY DEF CallNext, WriterPart, BookInv, Inv, ReaderInv
<1>2. CASE Writer
  BY <1>2, ReadersOfWriter
<1>3. ASSUME NEW q \in Readers,
             \/ \E e \in Events, first \in Firsts : Match(q, e, first)
             \/ Reader(q)
             \/ Rest(q)
      PROVE  \A r \in Readers : ReaderPart(r)'
  <2>1. UNCHANGED wvars
    BY <1>3, ReaderStep
  <2>2. ReaderPart(q)'
    BY <1>3, LoadStep, VisitStep, EdgeStep, ReturnStep DEF Reader
  <2>3. ASSUME NEW r \in Readers, r # q PROVE rd'[r] = rd[r] /\ old'[r] = old[r]
    BY <1>1, <1>3, <2>3 DEF Match, Rest, Reader, LoadVersion, LoadIds, LoadMeta, LoadRemoved,
       LoadAbsent, Visit, Consider, ReturnFirst, Filter, ReturnMatches
  <2>4. QED
    BY <2>1, <2>2, <2>3, OtherReader
<1>4. QED
  BY <1>1, <1>2, <1>3 DEF Next

-----------------------------------------------------------------------------
(* The theorems.                                                           *)

\* Preload has given the identifiers their numbers in the order of its rules.
LEMMA OrderInit == CallInit => PlaceFits /\ InOrder
<1> SUFFICES ASSUME CallInit PROVE PlaceFits /\ InOrder
  OBVIOUS
<1> DEFINE L == Len(Preload)
<1>1. /\ Init /\ L \in Nat /\ Number = L /\ table.meta = <<>> /\ w.pc = "idle"
  BY LoadedNumbers DEF CallInit, Init, IdleWriter
<1>2. \A n : Ord(n) = 0 /\ Order(table, n) = n
  BY <1>1 DEF Ord, Order, OrderIn, MetaAt, NoMeta
<1>3. PlaceFits
  <2>1. \A n \in 0..Number - 1 : n <= n
    OBVIOUS
  <2>2. QED
    BY <1>1, <1>2, <2>1 DEF PlaceFits, Replacing
<1>4. ASSUME NEW id \in Ids, Known(id)
      PROVE  nums[id] + 1 \in 1..L /\ nums[id] \in Int /\ Preload[nums[id] + 1].id = id
  <2> DEFINE i == CHOOSE i \in 1..L : Preload[i].id = id
  <2>1. \E j \in 1..L : Preload[j].id = id
    BY <1>1, <1>4 DEF Init, Known
  <2>2. i \in 1..L /\ Preload[i].id = id
    BY <2>1
  <2>3. nums[id] = i - 1
    BY <1>1, <2>1 DEF Init
  <2> HIDE DEF i
  <2>4. QED
    BY <1>1, <2>2, <2>3
<1>5. \A i, j \in 1..L : i < j => <<Preload[i].id, Preload[j].id>> \in added
  <2> SUFFICES ASSUME NEW i \in 1..L, NEW j \in 1..L, i < j
               PROVE  <<Preload[i].id, Preload[j].id>> \in added
    OBVIOUS
  <2> DEFINE p == <<i, j>>
  <2>1. p \in {q \in (1..L) \X (1..L) : q[1] < q[2]}
    OBVIOUS
  <2>2. <<Preload[p[1]].id, Preload[p[2]].id>> \in added
    <3> HIDE DEF p
    <3> QED
      BY <2>1 DEF CallInit
  <2>3. QED
    BY <2>2
<1>6. ASSUME NEW a \in Ids, NEW b \in Ids, Known(a), Known(b), a # b, nums[a] <= nums[b]
      PROVE  Earlier(a, b)
  <2>1. /\ nums[a] + 1 \in 1..L /\ nums[a] \in Int /\ Preload[nums[a] + 1].id = a
        /\ nums[b] + 1 \in 1..L /\ nums[b] \in Int /\ Preload[nums[b] + 1].id = b
    BY <1>4, <1>6
  <2>2. nums[a] + 1 < nums[b] + 1
    <3>1. nums[a] # nums[b]
      BY <1>6, <2>1
    <3>2. QED
      BY <1>6, <2>1, <3>1
  <2>3. QED
    BY <1>5, <2>1, <2>2 DEF Earlier
<1>7. QED
  BY <1>1, <1>2, <1>3, <1>6 DEF InOrder

\* The writer's part holds initially, and
LEMMA WriterPartInit == CallInit => WriterPart
<1> SUFFICES ASSUME CallInit PROVE WriterPart
  OBVIOUS
<1>1. Init /\ w = IdleWriter /\ seen = [r \in Readers |-> NothingSeen]
  BY DEF CallInit, Init
<1>2. GoneFits
  BY <1>1 DEF GoneFits, IdleWriter
<1>3. NothingSeen \in [may : SUBSET Ids, must : SUBSET Ids, gone : SUBSET Ids, calls : Nat]
  BY DEF NothingSeen
<1>4. SeenTypes
  BY <1>1, <1>3 DEF SeenTypes
<1>5. QED
  BY <1>2, <1>4, BookInit, OrderInit DEF WriterPart

\* so does the readers'.
LEMMA ReaderPartInit == CallInit => \A r \in Readers : ReaderPart(r)
<1> SUFFICES ASSUME CallInit, NEW r \in Readers PROVE ReaderPart(r)
  OBVIOUS
<1>1. rd[r] = IdleReader /\ table.version \in Nat
  <2>1. Inv
    BY BookInit DEF BookInv
  <2>2. QED
    BY <2>1, TableParts DEF CallInit, Init, Inv, WriterInv
<1>2. rd[r].pc = "idle" /\ rd[r].kept = {} /\ rd[r].version = 0
  BY <1>1 DEF IdleReader
<1>3. QED
  BY <1>1, <1>2 DEF ReaderPart, LoadFits, Reading, Done

\* Nothing happens in a step that changes no variable.
LEMMA ResultsStutter ==
    ASSUME UNCHANGED hvars
    PROVE  /\ WriterPart => WriterPart'
           /\ (\A r \in Readers : ReaderPart(r)) => (\A r \in Readers : ReaderPart(r))'
<1>1. /\ hasTab' = hasTab /\ table' = table /\ nums' = nums /\ dead' = dead /\ count' = count
      /\ w' = w /\ rd' = rd /\ old' = old /\ added' = added /\ seen' = seen
  BY DEF hvars, vars
<1>2. BookInv => BookInv'
  BY BookStep
<1>3. PlaceFits => PlaceFits'
  BY <1>1 DEF PlaceFits, Replacing, Ord, From, Number
<1>4. (InOrder => InOrder') /\ (GoneFits => GoneFits') /\ (SeenTypes => SeenTypes')
  BY <1>1 DEF InOrder, Known, Earlier, Number, GoneFits, SeenTypes
<1>5. ASSUME NEW r \in Readers, ReaderPart(r) PROVE ReaderPart(r)'
  <2>1. Tab(r)' = Tab(r)
    BY <1>1 DEF Tab
  <2>2. /\ SeenLimit(r)' = SeenLimit(r) /\ SeenMeta(r)' = SeenMeta(r)
        /\ SeenRemoved(r)' = SeenRemoved(r) /\ SeenVersion(r)' = SeenVersion(r)
    BY <1>1, <2>1 DEF SeenLimit, SeenMeta, SeenRemoved, SeenVersion
  <2>3. \A n : /\ IdOf(r, n)' = IdOf(r, n) /\ SeenKey(r, n)' = SeenKey(r, n)
               /\ Alive(r, n)' <=> Alive(r, n)
    BY <1>1, <2>1, <2>2 DEF IdOf, SeenKey, Hidden, Alive
  <2>4. AliveFits(r) => AliveFits(r)'
    BY <1>1, <2>2, <2>3 DEF AliveFits, Known, Earlier
  <2>5. QED
    BY <1>1, <1>5, <2>4 DEF ReaderPart, LoadFits, Reading, Done, ResultFits, Result, Known, Earlier
<1>6. QED
  BY <1>2, <1>3, <1>4, <1>5 DEF WriterPart

\* The invariant behind both results: the keys of the table tell in which order
\* the identifiers were added, in the middle of every call of the writer, and
\* the numbers that a call in progress may still return have identifiers of
\* their own in that order, whatever the writer has done since the call loaded
\* the version, ids, meta and removed (AddRule, ReplaceRule, RemoveRule, compact,
\* begin, visible, results).
THEOREM ResultsInductive == CallSpec => []ResultsInv
<1> DEFINE ReadersPart == \A r \in Readers : ReaderPart(r)
<1>1. CallInit => WriterPart /\ ReadersPart
  BY WriterPartInit, ReaderPartInit
<1>2. WriterPart /\ [CallNext]_hvars => WriterPart'
  BY WriterPartStep, ResultsStutter
<1>3. WriterPart /\ WriterPart' /\ FreshFit' /\ ReadersPart /\ [CallNext]_hvars => ReadersPart'
  BY ReaderPartStep, ResultsStutter
<1>4. WriterPart => FreshFit
  BY FreshFits
<1>5. ResultsInv <=> WriterPart /\ ReadersPart
  BY DEF ResultsInv
<1> HIDE DEF ReadersPart
<1>6. QED
  BY <1>1, <1>2, <1>3, <1>4, <1>5, PTL DEF CallSpec

\* Two positions of what a call returns, the earlier one first.
LEMMA ResultPairs ==
    ASSUME ResultsInv, NEW r \in Readers, Done(r),
           NEW i \in 1..Len(Result(r)), NEW j \in 1..Len(Result(r)), i < j,
           Result(r)[i] \notin seen[r].gone, Result(r)[j] \notin seen[r].gone
    PROVE  Result(r)[i] # Result(r)[j] /\ Earlier(Result(r)[i], Result(r)[j])
  BY DEF ResultsInv, ReaderPart, ResultFits

\* Neither Match nor MatchFirst returns an identifier twice, unless RemoveRule
\* is called for it meanwhile: a call that sees a replacement does not see what
\* it replaces, and the other way round (ReplaceRule, visible).
THEOREM OnceIfKept == CallSpec => []ReportedOnceIfKept
<1>1. ResultsInv => ReportedOnceIfKept
  <2> SUFFICES ASSUME ResultsInv, NEW r \in Readers, Done(r),
                      NEW i \in 1..Len(Result(r)), NEW j \in 1..Len(Result(r)),
                      Result(r)[i] = Result(r)[j], Result(r)[i] \notin seen[r].gone
               PROVE  i = j
    BY DEF ReportedOnceIfKept
  <2>1. ~(i < j) /\ ~(j < i)
    BY ResultPairs
  <2>2. QED
    BY <2>1
<1>2. QED
  BY ResultsInductive, <1>1, PTL

\* Match returns identifiers in the order in which they were added, also those
\* that ReplaceRule gives new numbers or that compact renumbers during the call.
THEOREM InAddedOrder == CallSpec => []ResultsInOrder
<1>1. ResultsInv => ResultsInOrder
  <2> SUFFICES ASSUME ResultsInv, NEW r \in Readers, Done(r),
                      NEW i \in 1..Len(Result(r)), NEW j \in 1..Len(Result(r)), i < j,
                      {Result(r)[i], Result(r)[j]} \cap seen[r].gone = {}
               PROVE  Earlier(Result(r)[i], Result(r)[j])
    BY DEF ResultsInOrder
  <2>1. Result(r)[i] \notin seen[r].gone /\ Result(r)[j] \notin seen[r].gone
    OBVIOUS
  <2>2. QED
    BY <2>1, ResultPairs
<1>2. QED
  BY ResultsInductive, <1>1, PTL

===============================================================================
