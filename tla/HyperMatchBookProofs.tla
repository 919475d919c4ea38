------------------------ MODULE HyperMatchBookProofs --------------------------
(***************************************************************************)
(* Theorems about HyperMatch and the rule book, in two parts: which        *)
(* identifiers Match and MatchFirst return, and that every step of HyperMatch *)
(* is a step of the rule book or changes nothing of it.                    *)
(***************************************************************************)
EXTENDS HyperMatchProofs

-----------------------------------------------------------------------------
(***************************************************************************)
(* Theorems about which identifiers Match and MatchFirst return: those     *)
(* that an event matches throughout the call, none that it matches at no   *)
(* instant of it, and the first of them, whatever the writer does          *)
(* meanwhile.  The invariant ties the trie to the rule book.               *)
(***************************************************************************)

(* The writer's part of the invariant.                                     *)

Inside == {"lower", "follow", "link", "rule"}  \* trie.insert

BodiesOf(tb, n) == {b \in Paths : n \in tb.rules[b]}
Inserted == {w.sets[j] : j \in 1..w.i - 1}     \* what the call has inserted

\* In the table tb all edges along b exist, and no minKey on the way is above key.
Leads(tb, b, key) ==
    /\ \A j \in 1..Len(b) : SubSeq(b, 1, j) \in tb.edges
    /\ \A j \in 0..Len(b) : tb.minKey[SubSeq(b, 1, j)] \in 1..key + 1

AbsentKnown(tb) == \A q \in tb.edges : q[Len(q)] \in AbsentConds => tb.hasAbsent

\* The trie leads to every rule number, and the insertion in progress has done
\* the same as far as it got.
TrieFits ==
    /\ AbsentKnown(table)
    /\ \A b \in Paths : \A n \in table.rules[b] :
          b \in Bodies /\ n < Number /\ Leads(table, b, Order(table, n))
    /\ w.pc \in Inside =>
          /\ w.key = Order(table, w.num)
          /\ \A j \in 1..w.k : SubSeq(Body, 1, j) \in table.edges
          /\ \A j \in 0..w.k : j < w.k \/ w.pc # "lower" =>
                table.minKey[SubSeq(Body, 1, j)] \in 1..w.key + 1
    /\ w.pc = "rule" => w.k = Len(Body)
    /\ w.pc = "link" => table.hasAbsent
    /\ w.pc \in {"number", "ids"} \/ (w.pc \in {"span", "order"} /\ w.target = w.num) =>
          w.i = 1 /\ w.k = 0

\* The number of an identifier without a call has the bodies of the rule book.
OthersFit ==
    \A id \in Ids : w.pc = "idle" \/ id # w.id =>
        /\ after[id] = before[id]
        /\ before[id] = IF Known(id) THEN BodiesOf(table, nums[id]) ELSE {}

\* What the numbers of the call's identifier have depends on how far the call is.
CallBook ==
    /\ w.pc = "number" =>
          /\ before[w.id] = {}
          /\ after[w.id] = IF Number < MaxRules THEN Elems(w.sets) ELSE {}
    /\ w.pc \in Inside /\ w.old = NoNumber =>
          /\ Known(w.id) /\ nums[w.id] = w.num
          /\ BodiesOf(table, w.num) = before[w.id] \cup Inserted
          /\ after[w.id] = before[w.id] \cup Elems(w.sets)
    /\ Replacing =>
          /\ BodiesOf(table, w.old) = before[w.id]
          /\ after[w.id] = Elems(w.sets)
          /\ w.pc \in Inside => BodiesOf(table, w.num) = Inserted
          /\ w.pc \in {"version", "retire"} \/ (w.pc \in {"span", "order"} /\ w.target # w.num) =>
                BodiesOf(table, w.num) = after[w.id]
    /\ w.pc = "unlock" =>
          /\ Known(w.id) /\ BodiesOf(table, nums[w.id]) = after[w.id]
          /\ before[w.id] \subseteq after[w.id]
    /\ w.pc \in {"bit", "forget"} => BodiesOf(table, w.num) = before[w.id] /\ after[w.id] = {}
    /\ w.pc = "compact" => after[w.id] = IF Known(w.id) THEN BodiesOf(table, nums[w.id]) ELSE {}

BookFits ==
    /\ before \in [Ids -> SUBSET Bodies] /\ after \in [Ids -> SUBSET Bodies]
    /\ OthersFit
    /\ CallBook

\* Numbers are below MaxRules, the span of each has begun, numbers that are not
\* in use have none, and without a table there is no rule.
LimitFits ==
    /\ Number <= MaxRules
    /\ Replacing /\ w.num >= Number => Number < MaxRules
    /\ \A id \in Ids : Known(id) => From(nums[id]) <= table.version
    /\ \A n \in Nat : n >= Number => From(n) = 0 \/ (Replacing /\ n = w.num)
    /\ ~hasTab => w.pc = "idle" /\ \A id \in Ids : ~Known(id)

\* A removal leaves its identifier nothing.
RemovalFits == w.op = "remove" => after[w.id] = {}

RegularWriter == TrieFits /\ BookFits /\ LimitFits /\ RemovalFits

-----------------------------------------------------------------------------
(* The readers' part.                                                      *)

\* What a call may and must report follows the rule book.
SeenBook(r) ==
    LET e == rd[r].ev
    IN  /\ Matching(before, e) \cup Matching(after, e) \subseteq seen[r].may
        /\ seen[r].must \subseteq Matching(before, e) \cap Matching(after, e)
        /\ seen[r].must \cap seen[r].gone = {}

\* A number that the call sees at a place where the event leads is of an
\* identifier that it may report.
MayFits(r) ==
    \A n \in 0..SeenLimit(r) - 1, p \in Paths :
        ~Hidden(r, n) /\ n \in Tab(r).rules[p] /\ Holds(p, rd[r].ev) => IdOf(r, n) \in seen[r].may

SeenAbsent(r) == IF rd[r].pc = "visit" THEN rd[r].absent ELSE Tab(r).hasAbsent

\* The call has n, or a better one, or is on the way to it.
Ahead(r, n, b) ==
    \/ \E k \in 0..Len(b) : SubSeq(b, 1, k) \in rd[r].todo
    \/ ~rd[r].first /\ n \in rd[r].out \cup rd[r].kept
    \/ rd[r].first /\ (n \in rd[r].cand \/ rd[r].bestKey <= SeenKey(r, n))

\* Number n, a rule with body b, will make a call report its identifier.
Witnesses(r, n, b) ==
    /\ ~Hidden(r, n) /\ n \in Tab(r).rules[b] /\ Holds(b, rd[r].ev)
    /\ Leads(Tab(r), b, SeenKey(r, n)) /\ SeenKey(r, n) < MaxRules
    /\ \A j \in 1..Len(b) : b[j] \in AbsentConds => SeenAbsent(r)
    /\ rd[r].pc = "visit" => Ahead(r, n, b)

MustFits(r) ==
    \A id \in seen[r].must : \E n \in 0..SeenLimit(r) - 1, b \in Bodies :
        IdOf(r, n) = id /\ Witnesses(r, n, b)

\* Wherever the call is or was, the event leads there, and it holds nothing that
\* it must not report.
OnTheWay(r) ==
    /\ \A p \in rd[r].todo : Holds(p, rd[r].ev)
    /\ \A n \in rd[r].out \cup rd[r].cand :
          \E p \in Paths : n \in Tab(r).rules[p] /\ Holds(p, rd[r].ev)
    /\ \A n \in rd[r].kept : IdOf(r, n) \in seen[r].may
    /\ rd[r].best # NoNumber =>
          /\ IdOf(r, rd[r].best) \in seen[r].may
          /\ rd[r].bestKey = SeenKey(r, rd[r].best)
          /\ IdOf(r, rd[r].best) \in seen[r].gone \/ ~Hidden(r, rd[r].best)
    /\ rd[r].pc # "visit" => rd[r].out = {} /\ rd[r].cand = {} /\ rd[r].best = NoNumber

\* What a call has returned is right, and what MatchFirst has returned is first.
ReturnFits(r) ==
    /\ Elems(Result(r)) \subseteq seen[r].may
    /\ ~rd[r].first => seen[r].must \subseteq Elems(Result(r))
    /\ rd[r].first =>
          /\ seen[r].must # {} => Result(r) # <<>>
          /\ \A f \in Elems(Result(r)) \ seen[r].gone :
                Known(f) /\ \A id \in seen[r].must : f = id \/ Earlier(f, id)

RegularReader(r) ==
    /\ Reading(r) => SeenBook(r) /\ MayFits(r) /\ MustFits(r) /\ OnTheWay(r)
    /\ Done(r) => ReturnFits(r)

RegularInv == ResultsInv /\ RegularWriter /\ \A r \in Readers : RegularReader(r)

-----------------------------------------------------------------------------
(* Paths, and the tries that compact and Preload build.                     *)

\* The states on the way along b, and their elements.
LEMMA PathParts ==
    ASSUME NEW b \in Paths
    PROVE  /\ b \in Seq(Conditions) /\ Len(b) \in Nat
           /\ SubSeq(b, 1, 0) = <<>> /\ SubSeq(b, 1, Len(b)) = b
           /\ \A j \in 0..Len(b) :
                /\ SubSeq(b, 1, j) \in Paths /\ Len(SubSeq(b, 1, j)) = j
                /\ \A i \in 1..j : SubSeq(b, 1, j)[i] = b[i]
                /\ \A i \in 0..j : SubSeq(SubSeq(b, 1, j), 1, i) = SubSeq(b, 1, i)
<1>1. \A c \in Bodies : c \in Seq(Conditions) /\ Len(c) \in Nat
  BY ConstantsAssumption
<1>2. b = <<>> \/ \E c \in Bodies : \E k \in 0..Len(c) : b = SubSeq(c, 1, k)
  BY DEF Paths, Prefixes
<1>3. b \in Seq(Conditions) /\ Len(b) \in Nat
  <2>1. CASE b = <<>>
    BY <2>1
  <2>2. ASSUME NEW c \in Bodies, NEW k \in 0..Len(c), b = SubSeq(c, 1, k)
        PROVE  b \in Seq(Conditions) /\ Len(b) \in Nat
    BY <1>1, <2>2
  <2>3. QED
    BY <1>2, <2>1, <2>2
<1>4. /\ SubSeq(b, 1, 0) = <<>> /\ SubSeq(b, 1, Len(b)) = b
      /\ \A j \in 0..Len(b) :
           /\ SubSeq(b, 1, j) \in Seq(Conditions) /\ Len(SubSeq(b, 1, j)) = j
           /\ \A i \in 1..j : SubSeq(b, 1, j)[i] = b[i]
  BY <1>3
<1>5. ASSUME NEW j \in 0..Len(b), NEW i \in 0..j
      PROVE  SubSeq(SubSeq(b, 1, j), 1, i) = SubSeq(b, 1, i)
  BY <1>3, <1>4
<1>6. ASSUME NEW j \in 0..Len(b) PROVE SubSeq(b, 1, j) \in Paths
  <2>1. CASE b = <<>>
    <3>1. SubSeq(b, 1, j) = <<>>
      BY <2>1
    <3>2. QED
      BY <3>1 DEF Paths
  <2>2. ASSUME NEW c \in Bodies, NEW k \in 0..Len(c), b = SubSeq(c, 1, k)
        PROVE  SubSeq(b, 1, j) \in Paths
    <3>1. Len(b) = k /\ j \in 0..k /\ j \in 0..Len(c)
      BY <1>1, <2>2
    <3>2. SubSeq(b, 1, j) = SubSeq(c, 1, j)
      BY <1>1, <2>2, <3>1
    <3>3. QED
      BY <3>1, <3>2 DEF Paths, Prefixes
  <2>3. QED
    BY <1>2, <2>1, <2>2
<1>7. QED
  BY <1>3, <1>4, <1>5, <1>6

\* Bodies are paths.
LEMMA BodyPath == \A b \in Bodies : b \in Paths
<1>1. SUFFICES ASSUME NEW b \in Bodies PROVE b \in Paths
  OBVIOUS
<1>2. b \in Seq(Conditions) /\ Len(b) \in Nat
  BY ConstantsAssumption
<1>3. b = SubSeq(b, 1, Len(b)) /\ Len(b) \in 0..Len(b)
  BY <1>2
<1>4. b \in Prefixes(b)
  BY <1>3 DEF Prefixes
<1>5. QED
  BY <1>4 DEF Paths

\* An event that makes the conditions of b true leads to all states on the way.
LEMMA HoldsOnTheWay ==
    ASSUME NEW b \in Paths, NEW e, Holds(b, e), NEW j \in 0..Len(b)
    PROVE  Holds(SubSeq(b, 1, j), e)
  BY PathParts DEF Holds

\* A trie that is built from its rules leads to each of them, and no minKey is
\* above the number of a rule behind it.
LEMMA TrieLeads ==
    ASSUME NEW ids \in Seq(Ids), NEW at \in [Paths -> SUBSET Nat]
    PROVE  /\ NewTable(ids, at).rules = at /\ NewTable(ids, at).meta = <<>>
           /\ NewTable(ids, at).version = 0
           /\ AbsentKnown(NewTable(ids, at))
           /\ \A b \in Paths : \A n \in at[b] : Leads(NewTable(ids, at), b, n)
<1> DEFINE below(p) == UNION {at[q] : q \in Subtree(p)}
           live == {p \in Paths \ {<<>>} : below(p) # {}}
           tb == NewTable(ids, at)
<1>1. /\ tb.rules = at /\ tb.edges = live /\ tb.meta = <<>> /\ tb.version = 0
      /\ tb.hasAbsent = \E p \in live : p[Len(p)] \in AbsentConds
      /\ tb.minKey = [p \in Paths |-> IF below(p) = {} THEN 0 ELSE 1 + Least(below(p))]
  BY DEF NewTable, TrieOf
<1> HIDE DEF tb
<1>2. AbsentKnown(tb)
  BY <1>1 DEF AbsentKnown
<1>3. ASSUME NEW b \in Paths, NEW n \in at[b] PROVE Leads(tb, b, n)
  <2>1. ASSUME NEW j \in 0..Len(b)
        PROVE  SubSeq(b, 1, j) \in Paths /\ n \in below(SubSeq(b, 1, j))
               /\ (j # 0 => SubSeq(b, 1, j) # <<>>)
    <3>1. /\ SubSeq(b, 1, j) \in Paths /\ Len(SubSeq(b, 1, j)) = j /\ j <= Len(b)
          /\ j \in Nat /\ Len(b) \in Nat
      BY PathParts
    <3>2. b \in Subtree(SubSeq(b, 1, j))
      BY <3>1 DEF Subtree
    <3>3. QED
      BY <3>1, <3>2
  <2>2. ASSUME NEW j \in 0..Len(b)
        PROVE  tb.minKey[SubSeq(b, 1, j)] \in 1..n + 1
    <3> DEFINE p == SubSeq(b, 1, j)
    <3>1. p \in Paths /\ n \in below(p)
      BY <2>1
    <3>2. below(p) \in SUBSET Nat /\ below(p) # {}
      <4>1. \A q \in Subtree(p) : at[q] \in SUBSET Nat
        BY DEF Subtree
      <4>2. QED
        BY <3>1, <4>1
    <3>3. tb.minKey[p] = 1 + Least(below(p))
      BY <1>1, <3>1, <3>2
    <3> HIDE DEF below, p
    <3>4. Least(below(p)) \in Nat /\ Least(below(p)) <= n /\ n \in Nat
      BY <3>1, <3>2, LeastIsLeast
    <3>5. tb.minKey[p] \in 1..n + 1
      <4> HIDE DEF Least
      <4> DEFINE l == Least(below(p))
      <4>1. l \in Nat /\ l <= n /\ n \in Nat /\ tb.minKey[p] = 1 + l
        BY <3>3, <3>4
      <4> HIDE DEF l
      <4>2. QED
        BY <4>1
    <3>6. QED
      BY <3>5 DEF p
  <2>3. ASSUME NEW j \in 1..Len(b) PROVE SubSeq(b, 1, j) \in tb.edges
    <3>1. j \in 0..Len(b) /\ j # 0
      BY PathParts
    <3>2. QED
      BY <1>1, <2>1, <3>1
  <2>4. QED
    BY <2>2, <2>3 DEF Leads
<1>4. QED
  BY <1>1, <1>2, <1>3 DEF tb

-----------------------------------------------------------------------------
(* The trie.                                                               *)

\* From tb to tb2 nothing is taken away that leads to a rule.
Grows(tb, tb2) ==
    /\ tb.edges \subseteq tb2.edges
    /\ tb.hasAbsent => tb2.hasAbsent
    /\ \A p \in Paths : /\ tb.rules[p] \subseteq tb2.rules[p]
                        /\ tb.minKey[p] # 0 => tb2.minKey[p] \in 1..tb.minKey[p]

\* What leads to a rule goes on doing so.
LEMMA LeadsOn ==
    ASSUME NEW tb \in Tables, NEW tb2 \in Tables, Grows(tb, tb2),
           NEW b \in Paths, NEW key \in Nat, Leads(tb, b, key)
    PROVE  Leads(tb2, b, key)
<1>1. \A j \in 1..Len(b) : SubSeq(b, 1, j) \in tb2.edges
  BY DEF Leads, Grows
<1>2. ASSUME NEW j \in 0..Len(b) PROVE tb2.minKey[SubSeq(b, 1, j)] \in 1..key + 1
  <2> DEFINE p == SubSeq(b, 1, j)
  <2>1. p \in Paths /\ tb.minKey[p] \in 1..key + 1
    BY PathParts DEF Leads
  <2> HIDE DEF p
  <2>2. tb.minKey[p] \in Nat /\ tb2.minKey[p] \in Nat
    BY <2>1, TableParts
  <2>3. tb2.minKey[p] \in 1..tb.minKey[p]
    BY <2>1, <2>2 DEF Grows
  <2>4. tb2.minKey[p] \in 1..key + 1
    BY <2>1, <2>2, <2>3
  <2>5. QED
    BY <2>4 DEF p
<1>3. QED
  BY <1>1, <1>2 DEF Leads

\* A table that keeps its trie.
SameTrie(tb, tb2) ==
    /\ tb2.rules = tb.rules /\ tb2.edges = tb.edges /\ tb2.minKey = tb.minKey
    /\ tb2.hasAbsent = tb.hasAbsent

\* Only the steps of insert, and compact, touch the trie.
LEMMA TrieKept ==
    ASSUME WriterInv, Writer, w.pc \notin Inside, w.pc # "compact"
    PROVE  SameTrie(table, table')
<1>1. table \in Tables
  BY DEF WriterInv
<1>2. ~LowerMinKey /\ ~Follow /\ ~LinkAbsent /\ ~AddNumber /\ ~Compact
  BY DEF LowerMinKey, Follow, LinkAbsent, AddNumber, Compact, Inside
<1>3. \/ table' = table
      \/ NewNumber \/ PublishId \/ PublishVersion
      \/ MetaGrow \/ MetaSpan \/ MetaOrder \/ BitGrow \/ BitSet
  BY <1>2 DEF Writer, AddRule, ReplaceRule, RemoveRule, TooManyRules, Unlock, Retire, Forget
<1>4. CASE table' = table
  BY <1>4 DEF SameTrie
<1>5. CASE NewNumber \/ PublishId \/ PublishVersion
  BY <1>1, <1>5 DEF NewNumber, PublishId, PublishVersion, Tables, SameTrie
<1>6. CASE MetaGrow
  BY <1>1, <1>6 DEF MetaGrow, Tables, SameTrie
<1>7. CASE MetaSpan \/ MetaOrder
  BY <1>1, <1>7 DEF MetaSpan, MetaOrder, Tables, SameTrie
<1>8. CASE BitGrow \/ BitSet
  BY <1>1, <1>8 DEF BitGrow, BitSet, Tables, SameTrie
<1>9. QED
  BY <1>3, <1>4, <1>5, <1>6, <1>7, <1>8

\* A table that keeps its trie takes nothing away.
LEMMA SameGrows ==
    ASSUME NEW tb \in Tables, NEW tb2, SameTrie(tb, tb2)
    PROVE  Grows(tb, tb2)
<1>1. \A p \in Paths : tb.minKey[p] \in Nat
  BY TableParts
<1>2. QED
  BY <1>1 DEF SameTrie, Grows

\* lowerMinKey lowers one minKey, or leaves it.
LEMMA LowerEffect ==
    ASSUME WriterInv, LowerMinKey
    PROVE  /\ Here \in Paths /\ w.key \in Nat
           /\ table'.rules = table.rules /\ table'.edges = table.edges
           /\ table'.hasAbsent = table.hasAbsent /\ table'.ids = table.ids
           /\ table'.minKey[Here] \in 1..w.key + 1
           /\ \A p \in Paths : /\ p # Here => table'.minKey[p] = table.minKey[p]
                               /\ table.minKey[p] # 0 => table'.minKey[p] \in 1..table.minKey[p]
           /\ w' = [w EXCEPT !.pc = IF w.k = Len(Body) THEN "rule" ELSE "follow"]
<1>1. table \in Tables /\ w \in Writers /\ w.pc = "lower" /\ w.key \in Nat
  BY DEF WriterInv, LowerMinKey, Writers
<1>2. Here \in Paths /\ table.minKey \in [Paths -> Nat]
  BY <1>1, InsertedBody, TableParts DEF Inserting
<1>3. w' = [w EXCEPT !.pc = IF w.k = Len(Body) THEN "rule" ELSE "follow"]
  BY DEF LowerMinKey
<1> DEFINE h == Here
<1>4. h \in Paths
  BY <1>2
<1> HIDE DEF h
<1>5. CASE table.minKey[h] = 0 \/ w.key + 1 < table.minKey[h]
  <2>1. table' = [table EXCEPT !.minKey[h] = w.key + 1]
    BY <1>5 DEF LowerMinKey, h
  <2>2. /\ table'.rules = table.rules /\ table'.edges = table.edges
        /\ table'.hasAbsent = table.hasAbsent /\ table'.ids = table.ids
        /\ table'.minKey = [table.minKey EXCEPT ![h] = w.key + 1]
    BY <1>1, <2>1 DEF Tables
  <2>3. \A p \in Paths : table'.minKey[p] = IF p = h THEN w.key + 1 ELSE table.minKey[p]
    BY <1>2, <2>2
  <2>4. ASSUME NEW p \in Paths
        PROVE  /\ p # h => table'.minKey[p] = table.minKey[p]
               /\ table.minKey[p] # 0 => table'.minKey[p] \in 1..table.minKey[p]
    <3>1. table.minKey[p] \in Nat
      BY <1>2
    <3>2. QED
      BY <1>1, <1>5, <2>3, <3>1
  <2>5. table'.minKey[h] \in 1..w.key + 1
    BY <1>1, <1>4, <2>3
  <2>6. QED
    BY <1>1, <1>2, <1>3, <2>2, <2>4, <2>5 DEF h
<1>6. CASE ~(table.minKey[h] = 0 \/ w.key + 1 < table.minKey[h])
  <2>1. table' = table
    BY <1>6 DEF LowerMinKey, h
  <2>2. table.minKey[h] \in 1..w.key + 1
    BY <1>1, <1>2, <1>4, <1>6
  <2>3. \A p \in Paths : table.minKey[p] # 0 => table.minKey[p] \in 1..table.minKey[p]
    BY <1>2
  <2>4. QED
    BY <1>1, <1>2, <1>3, <2>1, <2>2, <2>3 DEF h
<1>7. QED
  BY <1>5, <1>6

\* follow makes sure that the edge exists, and an absent one is announced first.
LEMMA FollowEffect ==
    ASSUME WriterInv, Follow \/ LinkAbsent
    PROVE  /\ w.k < Len(Body) /\ Child \in Paths
           /\ table'.rules = table.rules /\ table'.minKey = table.minKey
           /\ table'.ids = table.ids
           /\ \/ /\ Follow /\ Child \in table.edges /\ table' = table
                 /\ w' = [w EXCEPT !.pc = "lower", !.k = @ + 1]
              \/ /\ Follow /\ Body[w.k + 1] \in AbsentConds /\ table'.edges = table.edges
                 /\ table'.hasAbsent = TRUE /\ w' = [w EXCEPT !.pc = "link"]
              \/ /\ (Follow /\ Body[w.k + 1] \notin AbsentConds) \/ LinkAbsent
                 /\ table'.edges = table.edges \cup {Child} /\ table'.hasAbsent = table.hasAbsent
                 /\ w' = [w EXCEPT !.pc = "lower", !.k = @ + 1]
<1>1. table \in Tables /\ w \in Writers /\ w.pc \in {"follow", "link"}
  BY DEF WriterInv, Follow, LinkAbsent
<1>2. w.k < Len(Body) /\ Child \in Paths
  BY <1>1, InsertedBody DEF Inserting, WriterInv, WriterFits, Body
<1>3. CASE LinkAbsent
  <2>1. table' = [table EXCEPT !.edges = @ \cup {Child}] /\ w' = [w EXCEPT !.pc = "lower", !.k = @ + 1]
    BY <1>3 DEF LinkAbsent
  <2>2. QED
    BY <1>1, <1>2, <1>3, <2>1 DEF Tables
<1>4. CASE Follow /\ Child \in table.edges
  BY <1>1, <1>2, <1>4 DEF Follow
<1>5. CASE Follow /\ Child \notin table.edges /\ Body[w.k + 1] \in AbsentConds
  <2>1. table' = [table EXCEPT !.hasAbsent = TRUE] /\ w' = [w EXCEPT !.pc = "link"]
    BY <1>5 DEF Follow
  <2>2. QED
    BY <1>1, <1>2, <1>5, <2>1 DEF Tables
<1>6. CASE Follow /\ Child \notin table.edges /\ Body[w.k + 1] \notin AbsentConds
  <2>1. table' = [table EXCEPT !.edges = @ \cup {Child}] /\ w' = [w EXCEPT !.pc = "lower", !.k = @ + 1]
    BY <1>6 DEF Follow
  <2>2. QED
    BY <1>1, <1>2, <1>6, <2>1 DEF Tables
<1>7. QED
  BY <1>3, <1>4, <1>5, <1>6

\* addRule adds the call's number to the state that the whole body leads to.
LEMMA AddEffect ==
    ASSUME WriterInv, TrieFits, AddNumber
    PROVE  /\ Here = Body /\ Body \in Bodies /\ Body \in Paths /\ w.num \in 0..Number - 1
           /\ table'.edges = table.edges /\ table'.minKey = table.minKey
           /\ table'.hasAbsent = table.hasAbsent /\ table'.ids = table.ids
           /\ \A p \in Paths : table'.rules[p] =
                 IF p = Body THEN table.rules[p] \cup {w.num} ELSE table.rules[p]
           /\ \/ w.i < Len(w.sets) /\ w' = [w EXCEPT !.pc = "lower", !.i = @ + 1, !.k = 0]
              \/ /\ w.i = Len(w.sets) /\ w.old # NoNumber
                 /\ w' = [w EXCEPT !.pc = "span", !.target = w.old]
              \/ w.i = Len(w.sets) /\ w.old = NoNumber /\ w' = [w EXCEPT !.pc = "unlock"]
<1>1. table \in Tables /\ w.pc = "rule" /\ w.num \in 0..Number - 1
  BY DEF WriterInv, WriterFits, AddNumber
<1>2. /\ Body \in Bodies /\ Body \in Paths /\ w.k = Len(Body)
      /\ w.i \in 1..Len(w.sets) /\ Len(w.sets) \in Nat
  BY <1>1, InsertedBody, BodyPath DEF Inserting, TrieFits, WriterInv, WriterFits
<1>3. Here = Body
  BY <1>2, PathParts DEF Here
<1>4. table' = [table EXCEPT !.rules[Here] = @ \cup {w.num}]
  BY DEF AddNumber
<1>5. /\ table'.edges = table.edges /\ table'.minKey = table.minKey
      /\ table'.hasAbsent = table.hasAbsent /\ table'.ids = table.ids
      /\ table'.rules = [table.rules EXCEPT ![Here] = @ \cup {w.num}]
  BY <1>1, <1>4 DEF Tables
<1>6. \A p \in Paths : table'.rules[p] =
          IF p = Body THEN table.rules[p] \cup {w.num} ELSE table.rules[p]
  BY <1>1, <1>2, <1>3, <1>5, TableParts
<1>7. w.i < Len(w.sets) \/ w.i = Len(w.sets)
  BY <1>2
<1>8. QED
  BY <1>1, <1>2, <1>3, <1>5, <1>6, <1>7 DEF AddNumber

\* Keys stay what they are.
LEMMA OrderKept ==
    ASSUME Inv, KeyFits, PlaceFits, Writer, w.pc # "compact", NEW n \in 0..Number - 1
    PROVE  Order(table', n) = Order(table, n) /\ Order(table, n) \in Nat
<1>1. table \in Tables /\ table' \in Tables
  BY InvStep DEF Inv, WriterInv, Next
<1>2. Len(table.meta) \in 0..Len(table.meta) /\ Len(table'.meta) \in 0..Len(table'.meta)
  BY <1>1, TableParts
<1>3. WordsEvolve
  BY EvolveStep DEF Evolves
<1>4. OrderIn(table', Len(table'.meta), n) = OrderIn(table, Len(table.meta), n)
  BY <1>2, <1>3 DEF WordsEvolve
<1>5. n \in Nat
  BY <1>1, TableParts DEF Number
<1>6. QED
  BY <1>1, <1>2, <1>4, <1>5, MetaType DEF Order

\* What a step outside insert makes of the call's locals.
LEMMA LocalsOutside ==
    ASSUME WriterPart, TrieFits, Writer, w.pc \notin Inside, w.pc # "compact"
    PROVE  /\ w'.pc \in Inside =>
                 w'.pc = "lower" /\ w'.k = 0 /\ w'.key = Order(table', w'.num)
           /\ w'.pc \in {"number", "ids"} \/ (w'.pc \in {"span", "order"} /\ w'.target = w'.num) =>
                 w'.i = 1 /\ w'.k = 0
           /\ w'.pc = "lower" => w'.i = 1
<1>1. /\ Inv /\ KeyFits /\ PlaceFits /\ WriterInv /\ NumbersFit
      /\ w \in Writers /\ table \in Tables /\ Number \in Nat
  BY TableParts DEF WriterPart, BookInv, Inv, WriterInv, Number
<1>2. ~LowerMinKey /\ ~Follow /\ ~LinkAbsent /\ ~AddNumber /\ ~Compact
  BY DEF LowerMinKey, Follow, LinkAbsent, AddNumber, Compact, Inside
<1>3. ASSUME NEW id \in Targets, NEW sets,
             AddRule(id, sets) \/ ReplaceRule(id, sets) \/ RemoveRule(id)
      PROVE  /\ w'.i = 1 /\ w'.k = 0
             /\ w'.pc \in {"number", "span", "bit"}
                \/ (w'.pc = "lower" /\ w'.key = Order(table', w'.num))
  <2>1. CASE AddRule(id, sets)
    <3>1. table' = table
      BY <2>1 DEF AddRule
    <3>2. CASE Known(id)
      BY <2>1, <3>1, <3>2 DEF AddRule, Calling, IdleWriter
    <3>3. CASE ~Known(id)
      BY <2>1, <3>3 DEF AddRule, Calling, IdleWriter
    <3>4. QED
      BY <3>2, <3>3
  <2>2. CASE ReplaceRule(id, sets)
    <3>1. CASE Known(id)
      BY <2>2, <3>1 DEF ReplaceRule, Calling, IdleWriter
    <3>2. CASE ~Known(id)
      BY <2>2, <3>2 DEF ReplaceRule, Calling, IdleWriter
    <3>3. QED
      BY <3>1, <3>2
  <2>3. CASE RemoveRule(id)
    BY <2>3 DEF RemoveRule, Calling, IdleWriter
  <2>4. QED
    BY <1>3, <2>1, <2>2, <2>3
<1>4. CASE NewNumber
  <2>1. w'.pc = "lower" /\ w'.k = w.k /\ w'.i = w.i /\ w'.num = Number
        /\ w'.key = IF w.op = "add" THEN Order(table, Number) ELSE Number
    BY <1>1, <1>4 DEF NewNumber, Writers
  <2>2. w.pc = "number" /\ w.k = 0 /\ w.i = 1 /\ ~Replacing
    BY <1>4 DEF NewNumber, TrieFits, Replacing
  <2>3. Order(table', Number) = Number
    BY <1>1, <1>4, PlaceNewNumber
  <2>4. Order(table, Number) = Number
    BY <1>1, <2>2 DEF PlaceFits, Order, OrderIn, Ord
  <2>5. w'.key = Order(table', w'.num)
    BY <2>1, <2>3, <2>4
  <2>6. QED
    BY <2>1, <2>2, <2>5
<1>5. CASE PublishId
  <2>1. /\ w.pc = "ids" /\ w' = [w EXCEPT !.pc = "lower"]
        /\ table' = [table EXCEPT !.ids = Append(@, w.id)]
    BY <1>5 DEF PublishId
  <2>2. /\ w'.pc = "lower" /\ w'.k = w.k /\ w'.i = w.i /\ w'.num = w.num /\ w'.key = w.key
    BY <1>1, <2>1 DEF Writers
  <2>3. w.k = 0 /\ w.i = 1
    BY <2>1 DEF TrieFits
  <2>4. Replacing
    BY <1>1, <2>1 DEF NumbersFit, CallFits, Replacing
  <2>5. Order(table, w.num) = w.key
    BY <2>1, <2>4 DEF PlaceFits, WriterPart
  <2>6. table'.meta = table.meta
    BY <1>1, <2>1 DEF Tables
  <2>7. Order(table', w.num) = Order(table, w.num)
    BY <2>6 DEF Order, OrderIn, MetaAt
  <2>8. QED
    BY <2>2, <2>3, <2>5, <2>7
<1>6. CASE TooManyRules \/ Unlock
  BY <1>6 DEF TooManyRules, Unlock, Return, IdleWriter, Inside
<1>7. CASE Retire \/ Forget
  <2>1. w' = IdleWriter \/ w' = [w EXCEPT !.pc = "compact"]
    BY <1>7 DEF Retire, Forget, CountDead, Return
  <2>2. w'.pc \in {"idle", "compact"}
    BY <1>1, <2>1 DEF IdleWriter, Writers
  <2>3. QED
    BY <2>2 DEF Inside
<1>8. CASE MetaGrow \/ BitGrow
  <2>1. w' = w
    BY <1>8 DEF MetaGrow, BitGrow
  <2>2. w.pc \in {"span", "bit"}
    BY <1>8 DEF MetaGrow, BitGrow
  <2>3. QED
    BY <2>1, <2>2 DEF TrieFits, Inside
<1>9. CASE MetaSpan
  <2>1. w.pc = "span" /\ w' = [w EXCEPT !.pc = "order"]
    BY <1>9 DEF MetaSpan
  <2>2. /\ w'.pc = "order" /\ w'.i = w.i /\ w'.k = w.k /\ w'.target = w.target /\ w'.num = w.num
    BY <1>1, <2>1 DEF Writers
  <2>3. QED
    BY <2>1, <2>2 DEF TrieFits, Inside
<1>10. CASE MetaOrder
  <2>1. w.pc = "order" /\ w' = [w EXCEPT !.pc = IF w.target = w.num THEN "ids" ELSE "version"]
    BY <1>10 DEF MetaOrder
  <2>2. /\ w'.pc = IF w.target = w.num THEN "ids" ELSE "version"
        /\ w'.i = w.i /\ w'.k = w.k
    BY <1>1, <2>1 DEF Writers
  <2>3. QED
    BY <2>1, <2>2 DEF TrieFits, Inside
<1>11. CASE PublishVersion \/ BitSet
  <2>1. w'.pc \in {"retire", "forget"}
    BY <1>1, <1>11 DEF PublishVersion, BitSet, Writers
  <2>2. QED
    BY <2>1 DEF Inside
<1>12. QED
  <2>1. \/ \E id \in Targets, sets \in RuleSets :
              AddRule(id, sets) \/ ReplaceRule(id, sets) \/ RemoveRule(id)
        \/ \E id \in Targets : RemoveRule(id)
        \/ NewNumber \/ PublishId \/ TooManyRules \/ Unlock \/ Retire \/ Forget
        \/ MetaGrow \/ BitGrow \/ MetaSpan \/ MetaOrder \/ PublishVersion \/ BitSet
    BY <1>2 DEF Writer
  <2>2. CASE \E id \in Targets, sets \in RuleSets :
              AddRule(id, sets) \/ ReplaceRule(id, sets) \/ RemoveRule(id)
    <3>1. /\ w'.i = 1 /\ w'.k = 0
          /\ w'.pc \in {"number", "span", "bit"}
             \/ (w'.pc = "lower" /\ w'.key = Order(table', w'.num))
      BY <1>3, <2>2
    <3>2. QED
      BY <3>1 DEF Inside
  <2>3. CASE \E id \in Targets : RemoveRule(id)
    <3>1. /\ w'.i = 1 /\ w'.k = 0
          /\ w'.pc \in {"number", "span", "bit"}
             \/ (w'.pc = "lower" /\ w'.key = Order(table', w'.num))
      BY <1>3, <2>3
    <3>2. QED
      BY <3>1 DEF Inside
  <2>4. QED
    BY <1>4, <1>5, <1>6, <1>7, <1>8, <1>9, <1>10, <1>11, <2>1, <2>2, <2>3

\* A step outside insert keeps the trie fitting the rule numbers.
LEMMA TrieOutside ==
    ASSUME WriterPart, TrieFits, Writer, w.pc \notin Inside, w.pc # "compact"
    PROVE  TrieFits'
<1>1. /\ Inv /\ KeyFits /\ PlaceFits /\ WriterInv /\ table \in Tables /\ Number \in Nat
  BY TableParts DEF WriterPart, BookInv, Inv, WriterInv, Number
<1>2. SameTrie(table, table')
  BY <1>1, TrieKept
<1>3. Number' \in Nat /\ Number' >= Number
  <2>1. table'.ids = table.ids \/ table'.ids = Append(table.ids, w.id)
    BY <1>1, IdsStep
  <2>2. table'.ids \in Seq(Ids) /\ table.ids \in Seq(Ids)
    BY <1>1, InvStep, TableParts DEF Inv, WriterInv, Next
  <2>3. QED
    BY <2>1, <2>2 DEF Number
<1>4. AbsentKnown(table')
  BY <1>2 DEF AbsentKnown, SameTrie, TrieFits
<1>5. ASSUME NEW b \in Paths, NEW n \in table'.rules[b]
      PROVE  b \in Bodies /\ n < Number' /\ Leads(table', b, Order(table', n))
  <2>1. n \in table.rules[b] /\ n \in Nat
    BY <1>1, <1>2, TableParts DEF SameTrie
  <2>2. b \in Bodies /\ n < Number /\ Leads(table, b, Order(table, n))
    BY <2>1 DEF TrieFits
  <2>3. Order(table', n) = Order(table, n)
    BY <1>1, <2>1, <2>2, OrderKept
  <2>4. QED
    BY <1>1, <1>2, <1>3, <2>1, <2>2, <2>3 DEF SameTrie, Leads
<1>6. /\ w'.pc \in Inside => w'.pc = "lower" /\ w'.k = 0 /\ w'.key = Order(table', w'.num)
      /\ w'.pc \in {"number", "ids"} \/ (w'.pc \in {"span", "order"} /\ w'.target = w'.num) =>
            w'.i = 1 /\ w'.k = 0
  BY LocalsOutside
<1>7. QED
  BY <1>4, <1>5, <1>6 DEF TrieFits, Inside

\* insert goes on along the body, and leaves all it passed behind it.
LEMMA TrieInside ==
    ASSUME WriterPart, TrieFits, LowerMinKey \/ Follow \/ LinkAbsent \/ AddNumber
    PROVE  TrieFits' /\ Grows(table, table')
<1>1. /\ Inv /\ KeyFits /\ PlaceFits /\ WriterInv /\ table \in Tables /\ Number \in Nat
      /\ w \in Writers /\ Writer /\ w.pc \in Inside /\ w.pc # "compact" /\ table' \in Tables
  <2>1. Writer
    BY DEF Writer
  <2>2. w.pc \in Inside
    BY DEF LowerMinKey, Follow, LinkAbsent, AddNumber, Inside
  <2>3. QED
    BY <2>1, <2>2, TableParts, InvStep
       DEF WriterPart, BookInv, Inv, WriterInv, Number, Next, Inside
<1>2. /\ Body \in Paths /\ Len(Body) \in Nat /\ w.k \in 0..Len(Body) /\ w.num \in 0..Number - 1
      /\ w.i \in 1..Len(w.sets)
  BY <1>1, InsertedBody, BodyPath DEF Inserting, Inside, WriterInv, WriterFits, Body
<1>3. /\ w.key = Order(table, w.num)
      /\ \A j \in 1..w.k : SubSeq(Body, 1, j) \in table.edges
      /\ \A j \in 0..w.k : j < w.k \/ w.pc # "lower" =>
            table.minKey[SubSeq(Body, 1, j)] \in 1..w.key + 1
  BY <1>1 DEF TrieFits
<1>4. \A n \in 0..Number - 1 : Order(table', n) = Order(table, n) /\ Order(table, n) \in Nat
  BY <1>1, OrderKept
<1>5. w.key = Order(table', w.num) /\ w.key \in Nat /\ w.num \in Nat
  BY <1>1, <1>2, <1>3, <1>4
<1>6. \A p \in Paths : table.minKey[p] \in Nat /\ table.rules[p] \in SUBSET Nat
  BY <1>1, TableParts
<1>7. ASSUME Grows(table, table'), Number' = Number, NEW b \in Paths, NEW n \in table.rules[b]
      PROVE  b \in Bodies /\ n < Number' /\ Leads(table', b, Order(table', n))
  <2>1. b \in Bodies /\ n < Number /\ Leads(table, b, Order(table, n)) /\ n \in Nat
    BY <1>6 DEF TrieFits
  <2>2. Order(table', n) = Order(table, n) /\ Order(table, n) \in Nat
    BY <1>1, <1>4, <2>1
  <2>3. QED
    BY <1>1, <1>7, <2>1, <2>2, LeadsOn
<1>8. CASE LowerMinKey
  <2>1. /\ Here \in Paths
        /\ table'.rules = table.rules /\ table'.edges = table.edges
        /\ table'.hasAbsent = table.hasAbsent /\ table'.ids = table.ids
        /\ table'.minKey[Here] \in 1..w.key + 1
        /\ \A p \in Paths : /\ p # Here => table'.minKey[p] = table.minKey[p]
                            /\ table.minKey[p] # 0 => table'.minKey[p] \in 1..table.minKey[p]
        /\ w' = [w EXCEPT !.pc = IF w.k = Len(Body) THEN "rule" ELSE "follow"]
    BY <1>1, <1>8, LowerEffect
  <2>2. Grows(table, table') /\ Number' = Number
    BY <2>1 DEF Grows, Number
  <2>3. /\ w'.pc \in {"rule", "follow"} /\ w'.k = w.k /\ w'.key = w.key /\ w'.num = w.num
        /\ w'.sets = w.sets /\ w'.i = w.i
        /\ w'.pc = "rule" => w.k = Len(Body)
    BY <1>1, <2>1 DEF Writers
  <2>4. Body' = Body
    BY <2>3 DEF Body
  <2>5. ASSUME NEW j \in 0..w.k PROVE table'.minKey[SubSeq(Body, 1, j)] \in 1..w.key + 1
    <3>1. CASE j = w.k
      BY <2>1, <3>1 DEF Here
    <3>2. CASE j < w.k
      <4> DEFINE p == SubSeq(Body, 1, j)
      <4>1. p \in Paths /\ table.minKey[p] \in 1..w.key + 1
        BY <1>2, <1>3, <3>2, PathParts
      <4> HIDE DEF p
      <4>2. table'.minKey[p] \in 1..table.minKey[p] /\ table.minKey[p] \in Nat
        BY <1>6, <2>1, <4>1
      <4>3. table'.minKey[p] \in 1..w.key + 1
        BY <1>5, <4>1, <4>2
      <4>4. QED
        BY <4>3 DEF p
    <3>3. QED
      BY <1>2, <3>1, <3>2
  <2>6. AbsentKnown(table')
    BY <2>1 DEF AbsentKnown, TrieFits
  <2>7. \A b \in Paths : \A n \in table'.rules[b] :
            b \in Bodies /\ n < Number' /\ Leads(table', b, Order(table', n))
    BY <1>7, <2>1, <2>2
  <2>8. /\ w'.key = Order(table', w'.num)
        /\ \A j \in 1..w'.k : SubSeq(Body', 1, j) \in table'.edges
        /\ \A j \in 0..w'.k : table'.minKey[SubSeq(Body', 1, j)] \in 1..w'.key + 1
        /\ w'.pc = "rule" => w'.k = Len(Body')
    BY <1>3, <1>5, <2>1, <2>3, <2>4, <2>5
  <2>9. TrieFits'
    BY <2>3, <2>6, <2>7, <2>8 DEF TrieFits
  <2>10. QED
    BY <2>2, <2>9
<1>9. CASE Follow \/ LinkAbsent
  <2>1. /\ w.k < Len(Body) /\ Child \in Paths
        /\ table'.rules = table.rules /\ table'.minKey = table.minKey
        /\ table'.ids = table.ids
        /\ \/ /\ Follow /\ Child \in table.edges /\ table' = table
              /\ w' = [w EXCEPT !.pc = "lower", !.k = @ + 1]
           \/ /\ Follow /\ Body[w.k + 1] \in AbsentConds /\ table'.edges = table.edges
              /\ table'.hasAbsent = TRUE /\ w' = [w EXCEPT !.pc = "link"]
           \/ /\ (Follow /\ Body[w.k + 1] \notin AbsentConds) \/ LinkAbsent
              /\ table'.edges = table.edges \cup {Child} /\ table'.hasAbsent = table.hasAbsent
              /\ w' = [w EXCEPT !.pc = "lower", !.k = @ + 1]
    BY <1>1, <1>9, FollowEffect
  <2>2. Grows(table, table') /\ Number' = Number
    <3>1. table.edges \subseteq table'.edges /\ (table.hasAbsent => table'.hasAbsent)
      BY <2>1
    <3>2. QED
      BY <1>6, <2>1, <3>1 DEF Grows, Number
  <2>3. /\ w'.key = w.key /\ w'.num = w.num /\ w'.sets = w.sets /\ w'.i = w.i
        /\ \/ w'.pc = "lower" /\ w'.k = w.k + 1 /\ Child \in table'.edges
           \/ w'.pc = "link" /\ w'.k = w.k /\ table'.hasAbsent
    BY <1>1, <2>1 DEF Writers
  <2>4. Body' = Body
    BY <2>3 DEF Body
  <2>5. Child[Len(Child)] = Body[w.k + 1]
    <3>1. w.k + 1 \in 0..Len(Body) /\ w.k + 1 \in 1..w.k + 1
      BY <1>2, <2>1
    <3>2. /\ Len(SubSeq(Body, 1, w.k + 1)) = w.k + 1
          /\ SubSeq(Body, 1, w.k + 1)[w.k + 1] = Body[w.k + 1]
      BY <1>2, <3>1, PathParts
    <3>3. QED
      BY <3>2 DEF Child
  <2>6. AbsentKnown(table')
    <3>1. LinkAbsent => table.hasAbsent
      BY DEF LinkAbsent, TrieFits
    <3>2. AbsentKnown(table)
      BY DEF TrieFits
    <3>3. QED
      BY <2>1, <2>5, <3>1, <3>2 DEF AbsentKnown
  <2>7. \A b \in Paths : \A n \in table'.rules[b] :
            b \in Bodies /\ n < Number' /\ Leads(table', b, Order(table', n))
    BY <1>7, <2>1, <2>2
  <2>8. w.pc # "lower"
    BY <1>9 DEF Follow, LinkAbsent
  <2>9. \A j \in 0..w.k : table'.minKey[SubSeq(Body, 1, j)] \in 1..w.key + 1
    BY <1>3, <2>1, <2>8
  <2>10. \A j \in 1..w.k : SubSeq(Body, 1, j) \in table'.edges
    BY <1>3, <2>2 DEF Grows
  <2>11. \A j \in 1..w'.k : SubSeq(Body', 1, j) \in table'.edges
    <3>1. SUFFICES ASSUME NEW j \in 1..w'.k, j # w.k + 1 PROVE j \in 1..w.k
      BY <1>2, <2>3, <2>4, <2>10 DEF Child
    <3>2. QED
      BY <1>2, <2>3, <3>1
  <2>12. \A j \in 0..w'.k : j < w'.k \/ w'.pc # "lower" =>
            table'.minKey[SubSeq(Body', 1, j)] \in 1..w'.key + 1
    <3>1. SUFFICES ASSUME NEW j \in 0..w'.k, j < w'.k \/ w'.pc # "lower" PROVE j \in 0..w.k
      BY <2>3, <2>4, <2>9
    <3>2. QED
      BY <1>2, <2>3, <3>1
  <2>13. TrieFits'
    BY <1>5, <2>3, <2>6, <2>7, <2>11, <2>12 DEF TrieFits
  <2>14. QED
    BY <2>2, <2>13
<1>10. CASE AddNumber
  <2>1. /\ Here = Body /\ Body \in Bodies
        /\ table'.edges = table.edges /\ table'.minKey = table.minKey
        /\ table'.hasAbsent = table.hasAbsent /\ table'.ids = table.ids
        /\ \A p \in Paths : table'.rules[p] =
              IF p = Body THEN table.rules[p] \cup {w.num} ELSE table.rules[p]
        /\ \/ w.i < Len(w.sets) /\ w' = [w EXCEPT !.pc = "lower", !.i = @ + 1, !.k = 0]
           \/ /\ w.i = Len(w.sets) /\ w.old # NoNumber
              /\ w' = [w EXCEPT !.pc = "span", !.target = w.old]
           \/ w.i = Len(w.sets) /\ w.old = NoNumber /\ w' = [w EXCEPT !.pc = "unlock"]
    BY <1>1, <1>10, AddEffect
  <2>2. Grows(table, table') /\ Number' = Number
    <3>1. \A p \in Paths : table.rules[p] \subseteq table'.rules[p]
      BY <2>1
    <3>2. \A p \in Paths : table.minKey[p] # 0 => table'.minKey[p] \in 1..table.minKey[p]
      BY <1>6, <2>1
    <3>3. QED
      BY <2>1, <3>1, <3>2 DEF Grows, Number
  <2>3. w.pc = "rule" /\ w.k = Len(Body)
    BY <1>10 DEF AddNumber, TrieFits
  <2>4. Leads(table', Body, w.key)
    BY <1>3, <2>1, <2>3 DEF Leads
  <2>5. ASSUME NEW b \in Paths, NEW n \in table'.rules[b]
        PROVE  b \in Bodies /\ n < Number' /\ Leads(table', b, Order(table', n))
    <3>1. CASE n \in table.rules[b]
      BY <1>7, <2>2, <3>1
    <3>2. CASE n = w.num /\ b = Body
      BY <1>1, <1>2, <1>5, <2>1, <2>2, <2>4, <3>2
    <3>3. QED
      BY <2>1, <3>1, <3>2
  <2>6. AbsentKnown(table')
    BY <2>1 DEF AbsentKnown, TrieFits
  <2>7. w.old # NoNumber => w.old # w.num
    BY <1>1, <1>5, <2>3 DEF WriterInv, WriterFits, Writers
  <2>8. \/ w'.pc = "lower" /\ w'.k = 0 /\ w'.key = w.key /\ w'.num = w.num
        \/ w'.pc = "span" /\ w'.target # w'.num
        \/ w'.pc = "unlock"
    BY <1>1, <2>1, <2>7 DEF Writers
  <2>9. TrieFits'
    BY <1>5, <2>5, <2>6, <2>8 DEF TrieFits, Inside
  <2>10. QED
    BY <2>2, <2>9
<1>11. QED
  BY <1>8, <1>9, <1>10

\* compact builds its trie from the rules that it keeps.
LEMMA CompactTrie ==
    ASSUME WriterInv
    PROVE  /\ Compacted.rules = [p \in Paths |-> {Renum(n) : n \in table.rules[p] \cap Live}]
           /\ AbsentKnown(Compacted)
           /\ \A b \in Paths : \A n \in Compacted.rules[b] : Leads(Compacted, b, n)
<1> DEFINE ids == [i \in 1..Cardinality(Live) |-> table.ids[Sorted(Live, Keys)[i] + 1]]
           at == [p \in Paths |-> {Renum(n) : n \in table.rules[p] \cap Live}]
<1>1. Compacted = NewTable(ids, at)
  BY DEF Compacted
<1>2. at \in [Paths -> SUBSET Nat]
  <2>1. Cardinality(Live) \in Nat /\ \A n \in Live : Renum(n) \in 0..Cardinality(Live) - 1
    BY CompactedParts
  <2>2. \A n \in Live : Renum(n) \in Nat
    BY <2>1
  <2>3. ASSUME NEW p \in Paths PROVE {Renum(n) : n \in table.rules[p] \cap Live} \in SUBSET Nat
    BY <2>2
  <2>4. QED
    BY <2>3
<1>3. ids \in Seq(Ids)
  <2>1. Compacted.ids = ids
    BY <1>1 DEF NewTable
  <2>2. Compacted \in Tables
    BY CompactedParts
  <2> HIDE DEF ids
  <2>3. QED
    BY <2>1, <2>2, TableParts
<1> HIDE DEF ids, at
<1>4. /\ Compacted.rules = at /\ AbsentKnown(Compacted)
      /\ \A b \in Paths : \A n \in at[b] : Leads(Compacted, b, n)
  BY <1>1, <1>2, <1>3, TrieLeads
<1>5. QED
  BY <1>4 DEF at

\* A table without keys has each number for its own.
LEMMA KeylessOrder ==
    ASSUME NEW tb, tb.meta = <<>>, NEW n
    PROVE  /\ Order(tb, n) = n
           /\ MetaAt(tb, Len(tb.meta), n).from = 0 /\ MetaAt(tb, Len(tb.meta), n).until = 0
<1>1. Len(tb.meta) = 0
  OBVIOUS
<1>2. QED
  BY <1>1 DEF Order, OrderIn, MetaAt, NoMeta

\* So the table that compact publishes has a trie that fits its numbers.
LEMMA TrieCompact ==
    ASSUME WriterPart, TrieFits, Compact
    PROVE  TrieFits'
<1>1. WriterInv /\ table \in Tables
  BY DEF WriterPart, BookInv, Inv, WriterInv
<1>2. table' = Compacted /\ w' = IdleWriter
  BY DEF Compact, Return
<1>3. w'.pc = "idle"
  BY <1>2 DEF IdleWriter
<1>4. AbsentKnown(table')
  BY <1>1, <1>2, CompactTrie
<1>5. ASSUME NEW b \in Paths, NEW n \in table'.rules[b]
      PROVE  b \in Bodies /\ n < Number' /\ Leads(table', b, Order(table', n))
  <2>1. n \in {Renum(m) : m \in table.rules[b] \cap Live} /\ Leads(table', b, n)
    BY <1>1, <1>2, CompactTrie
  <2>2. PICK m \in table.rules[b] \cap Live : n = Renum(m)
    BY <2>1
  <2>3. b \in Bodies
    BY <2>2 DEF TrieFits
  <2>4. /\ Number' = Cardinality(Live) /\ Cardinality(Live) \in Nat
        /\ Renum(m) \in 0..Cardinality(Live) - 1 /\ table'.meta = <<>>
    BY <1>1, <1>2, <2>2, CompactedParts DEF Number
  <2>5. Order(table', n) = n
    BY <2>4, KeylessOrder
  <2>6. QED
    BY <2>1, <2>2, <2>3, <2>4, <2>5
<1>6. QED
  BY <1>3, <1>4, <1>5 DEF TrieFits, Inside

\* The number that compact gives an identifier has the bodies of the one before.
LEMMA CompactBodies ==
    ASSUME WriterInv, NEW n \in Live
    PROVE  BodiesOf(Compacted, Renum(n)) = BodiesOf(table, n)
<1>1. Live \in SUBSET Nat /\ IsFiniteSet(Live) /\ \A m \in Live : Keys[m] \in Nat
  BY LiveParts
<1>2. \A m \in Live : Renum(m) = Renum(n) => m = n
  BY <1>1, RankUnique DEF Renum
<1>3. Compacted.rules = [p \in Paths |-> {Renum(m) : m \in table.rules[p] \cap Live}]
  BY CompactTrie
<1>4. ASSUME NEW b \in Paths PROVE Renum(n) \in Compacted.rules[b] <=> n \in table.rules[b]
  BY <1>2, <1>3
<1>5. QED
  BY <1>4 DEF BodiesOf

\* What Preload has added is in a trie that fits its numbers.
LEMMA TrieInit == Init => TrieFits
<1> SUFFICES ASSUME Init PROVE TrieFits
  OBVIOUS
<1> DEFINE L == Len(Preload)
           ids == [i \in 1..L |-> Preload[i].id]
           at == [p \in Paths |-> {n \in 0..L - 1 : Preload[n + 1].body = p}]
           Rules == [id : Ids, body : Bodies]
<1>1. L \in Nat /\ \A i \in 1..L : Preload[i] \in Rules
  <2>1. Preload \in Seq(Rules)
    BY ConstantsAssumption
  <2> HIDE DEF Rules
  <2>2. QED
    BY <2>1
<1>2. \A i \in 1..L : Preload[i].id \in Ids /\ Preload[i].body \in Bodies
  BY <1>1
<1>3. ids \in Seq(Ids) /\ at \in [Paths -> SUBSET Nat]
  BY <1>1, <1>2
<1>4. table = NewTable(ids, at) /\ Number = L /\ w.pc = "idle"
  BY LoadedNumbers DEF Init, Loaded, IdleWriter
<1>5. ASSUME NEW b \in Paths, NEW n \in at[b] PROVE b \in Bodies /\ n < Number
  BY <1>1, <1>2, <1>4, <1>5
<1> HIDE DEF ids, at
<1>6. /\ table.rules = at /\ table.meta = <<>> /\ AbsentKnown(table)
      /\ \A b \in Paths : \A n \in at[b] : Leads(table, b, n)
  BY <1>3, <1>4, TrieLeads
<1>7. \A n : Order(table, n) = n
  BY <1>6, KeylessOrder
<1>8. QED
  BY <1>4, <1>5, <1>6, <1>7 DEF TrieFits, Inside

\* Nothing is taken from the trie but by compact, and it goes on fitting.
LEMMA TrieStep ==
    ASSUME WriterPart, TrieFits, Writer
    PROVE  TrieFits' /\ (w.pc # "compact" => Grows(table, table'))
<1>1. WriterInv /\ table \in Tables
  BY DEF WriterPart, BookInv, Inv, WriterInv
<1>2. CASE w.pc = "compact"
  <2>1. Compact
    BY <1>2 DEF Writer, AddRule, ReplaceRule, RemoveRule, NewNumber, TooManyRules, MetaGrow,
       MetaSpan, MetaOrder, PublishId, LowerMinKey, Follow, LinkAbsent, AddNumber, Unlock,
       PublishVersion, Retire, BitGrow, BitSet, Forget
  <2>2. QED
    BY <1>2, <2>1, TrieCompact
<1>3. CASE w.pc \in Inside
  <2>1. LowerMinKey \/ Follow \/ LinkAbsent \/ AddNumber
    BY <1>3 DEF Inside, Writer, AddRule, ReplaceRule, RemoveRule, NewNumber, TooManyRules,
       MetaGrow, MetaSpan, MetaOrder, PublishId, Unlock, PublishVersion, Retire, BitGrow,
       BitSet, Forget, Compact
  <2>2. QED
    BY <1>3, <2>1, TrieInside DEF Inside
<1>4. CASE w.pc \notin Inside /\ w.pc # "compact"
  BY <1>1, <1>4, TrieOutside, TrieKept, SameGrows
<1>5. QED
  BY <1>2, <1>3, <1>4

-----------------------------------------------------------------------------
(* The rule book.                                                          *)

\* A call that starts, and what it knows of its identifier.
LEMMA CallBegins ==
    ASSUME WriterInv, Writer, w.pc = "idle"
    PROVE  /\ w'.i = 1 /\ w'.k = 0 /\ w'.pc # "idle" /\ w'.id \in Targets
           /\ \/ /\ w'.op = "add" /\ w'.pc = "lower" /\ w'.old = NoNumber
                 /\ Known(w'.id) /\ w'.num = nums[w'.id] /\ w'.sets \in RuleSets /\ hasTab'
              \/ /\ w'.op \in {"add", "replace"} /\ w'.pc = "number" /\ w'.old = NoNumber
                 /\ ~Known(w'.id) /\ w'.sets \in RuleSets /\ hasTab'
              \/ /\ w'.op = "replace" /\ w'.pc = "span" /\ Known(w'.id) /\ w'.old = nums[w'.id]
                 /\ w'.num = Number /\ w'.target = Number /\ Number < MaxRules
                 /\ w'.sets \in RuleSets /\ hasTab'
              \/ /\ w'.op = "remove" /\ w'.pc = "bit" /\ w'.old = NoNumber
                 /\ Known(w'.id) /\ w'.num = nums[w'.id] /\ hasTab' = hasTab
<1>1. \/ \E id \in Targets, sets \in RuleSets : AddRule(id, sets)
      \/ \E id \in Targets, sets \in RuleSets : ReplaceRule(id, sets)
      \/ \E id \in Targets : RemoveRule(id)
  BY DEF Writer, NewNumber, TooManyRules, MetaGrow, MetaSpan, MetaOrder, PublishId, LowerMinKey,
     Follow, LinkAbsent, AddNumber, Unlock, PublishVersion, Retire, BitGrow, BitSet, Forget, Compact
<1>2. ASSUME NEW id \in Targets, NEW sets \in RuleSets, AddRule(id, sets), Known(id)
      PROVE  /\ w'.op = "add" /\ w'.pc = "lower" /\ w'.old = NoNumber /\ w'.id = id
             /\ w'.num = nums[id] /\ w'.sets = sets /\ hasTab' /\ w'.i = 1 /\ w'.k = 0
  BY <1>2 DEF AddRule, Calling, IdleWriter
<1>3. ASSUME NEW id \in Targets, NEW sets \in RuleSets, ~Known(id),
             AddRule(id, sets) \/ ReplaceRule(id, sets)
      PROVE  /\ w'.op \in {"add", "replace"} /\ w'.pc = "number" /\ w'.old = NoNumber
             /\ w'.id = id /\ w'.sets = sets /\ hasTab' /\ w'.i = 1 /\ w'.k = 0
  <2>1. hasTab'
    BY <1>3 DEF AddRule, ReplaceRule
  <2>2. w' = Calling("add", id, sets, "number") \/ w' = Calling("replace", id, sets, "number")
    BY <1>3 DEF AddRule, ReplaceRule
  <2>3. QED
    BY <2>1, <2>2 DEF Calling, IdleWriter
<1>4. ASSUME NEW id \in Targets, NEW sets \in RuleSets, ReplaceRule(id, sets), Known(id)
      PROVE  /\ w'.op = "replace" /\ w'.pc = "span" /\ w'.old = nums[id] /\ w'.id = id
             /\ w'.num = Number /\ w'.target = Number /\ Number < MaxRules
             /\ w'.sets = sets /\ hasTab' /\ w'.i = 1 /\ w'.k = 0
  BY <1>4 DEF ReplaceRule, Calling, IdleWriter
<1>5. ASSUME NEW id \in Targets, RemoveRule(id)
      PROVE  /\ w'.op = "remove" /\ w'.pc = "bit" /\ w'.old = NoNumber /\ w'.id = id
             /\ Known(id) /\ w'.num = nums[id] /\ hasTab' = hasTab /\ w'.i = 1 /\ w'.k = 0
  BY <1>5 DEF RemoveRule, Calling, IdleWriter
<1>6. ASSUME NEW id \in Targets, NEW sets \in RuleSets, AddRule(id, sets)
      PROVE  /\ w'.i = 1 /\ w'.k = 0 /\ w'.pc # "idle" /\ w'.id \in Targets
             /\ \/ /\ w'.op = "add" /\ w'.pc = "lower" /\ w'.old = NoNumber
                   /\ Known(w'.id) /\ w'.num = nums[w'.id] /\ w'.sets \in RuleSets /\ hasTab'
                \/ /\ w'.op \in {"add", "replace"} /\ w'.pc = "number" /\ w'.old = NoNumber
                   /\ ~Known(w'.id) /\ w'.sets \in RuleSets /\ hasTab'
  <2>1. CASE Known(id)
    BY <1>2, <1>6, <2>1
  <2>2. CASE ~Known(id)
    BY <1>3, <1>6, <2>2
  <2>3. QED
    BY <2>1, <2>2
<1>7. ASSUME NEW id \in Targets, NEW sets \in RuleSets, ReplaceRule(id, sets)
      PROVE  /\ w'.i = 1 /\ w'.k = 0 /\ w'.pc # "idle" /\ w'.id \in Targets
             /\ \/ /\ w'.op \in {"add", "replace"} /\ w'.pc = "number" /\ w'.old = NoNumber
                   /\ ~Known(w'.id) /\ w'.sets \in RuleSets /\ hasTab'
                \/ /\ w'.op = "replace" /\ w'.pc = "span" /\ Known(w'.id) /\ w'.old = nums[w'.id]
                   /\ w'.num = Number /\ w'.target = Number /\ Number < MaxRules
                   /\ w'.sets \in RuleSets /\ hasTab'
  <2>1. CASE Known(id)
    BY <1>4, <1>7, <2>1
  <2>2. CASE ~Known(id)
    BY <1>3, <1>7, <2>2
  <2>3. QED
    BY <2>1, <2>2
<1>8. QED
  BY <1>1, <1>5, <1>6, <1>7

\* The bodies that one call passes.
LEMMA SetsOfBodies ==
    ASSUME NEW sets \in RuleSets
    PROVE  Elems(sets) \in SUBSET Bodies
  BY RuleSetParts DEF Elems

\* A call that starts: the rule book before it is what the numbers say.
LEMMA BookStart ==
    ASSUME WriterPart, BookFits, LimitFits, CallNext, Writer, w.pc = "idle"
    PROVE  BookFits'
<1>1. WriterInv /\ w \in Writers /\ Number \in Nat /\ MaxRules \in Nat
  BY TableParts, ConstantsAssumption DEF WriterPart, BookInv, Inv, WriterInv, Number
<1>2. /\ w'.i = 1 /\ w'.k = 0 /\ w'.pc # "idle" /\ w'.id \in Ids
      /\ table' = table /\ nums' = nums
  BY <1>1, CallBegins, StartStep
<1>3. CallStarts /\ ~CallEnds
  BY <1>2 DEF CallStarts, CallEnds
<1>4. before' = before /\ after' = [after EXCEPT ![w'.id] = Outcome]
  BY <1>3 DEF CallNext
<1>5. /\ before \in [Ids -> SUBSET Bodies] /\ after \in [Ids -> SUBSET Bodies]
      /\ \A id \in Ids : /\ after[id] = before[id]
                         /\ before[id] = IF Known(id) THEN BodiesOf(table, nums[id]) ELSE {}
  BY DEF BookFits, OthersFit
<1>6. \A id \in Ids : after'[id] = IF id = w'.id THEN Outcome ELSE after[id]
  BY <1>4, <1>5
<1>7. Number' = Number /\ \A id \in Ids : Known(id)' <=> Known(id)
  BY <1>2 DEF Number, Known
<1>8. OthersFit'
  BY <1>2, <1>4, <1>5, <1>6, <1>7 DEF OthersFit, Known
<1>9. CASE /\ w'.op = "add" /\ w'.pc = "lower" /\ w'.old = NoNumber
           /\ Known(w'.id) /\ w'.num = nums[w'.id] /\ w'.sets \in RuleSets
  <2>1. Outcome = before[w'.id] \cup Elems(w'.sets)
    BY <1>9 DEF Outcome
  <2>2. after'[w'.id] = before[w'.id] \cup Elems(w'.sets)
    BY <1>2, <1>6, <2>1
  <2>3. Outcome \in SUBSET Bodies
    BY <1>2, <1>5, <1>9, <2>1, SetsOfBodies
  <2>4. after' \in [Ids -> SUBSET Bodies]
    BY <1>2, <1>4, <1>5, <2>3
  <2>5. Inserted' = {}
    BY <1>2 DEF Inserted
  <2>6. BodiesOf(table', w'.num) = before'[w'.id] \cup Inserted'
    BY <1>2, <1>4, <1>5, <1>9, <2>5
  <2>7. CallBook'
    BY <1>2, <1>4, <1>9, <2>2, <2>6 DEF CallBook, Inside, Replacing, Known
  <2>8. QED
    BY <1>4, <1>5, <1>8, <2>4, <2>7 DEF BookFits
<1>10. CASE /\ w'.op \in {"add", "replace"} /\ w'.pc = "number" /\ w'.old = NoNumber
            /\ ~Known(w'.id) /\ w'.sets \in RuleSets
  <2>1. before[w'.id] = {}
    BY <1>2, <1>5, <1>10
  <2>2. Number < MaxRules \/ Number = MaxRules
    BY <1>1 DEF LimitFits
  <2>3. Outcome = IF Number < MaxRules THEN Elems(w'.sets) ELSE {}
    <3>1. CASE Number = MaxRules
      BY <1>1, <1>10, <2>1, <3>1 DEF Outcome
    <3>2. CASE Number # MaxRules
      BY <1>1, <1>10, <2>1, <2>2, <3>2 DEF Outcome
    <3>3. QED
      BY <3>1, <3>2
  <2>4. Outcome \in SUBSET Bodies
    BY <1>10, <2>3, SetsOfBodies
  <2>5. after' \in [Ids -> SUBSET Bodies]
    BY <1>2, <1>4, <1>5, <2>4
  <2>6. CallBook'
    BY <1>2, <1>4, <1>6, <1>7, <1>10, <2>1, <2>3 DEF CallBook, Inside, Replacing
  <2>7. QED
    BY <1>4, <1>5, <1>8, <2>5, <2>6 DEF BookFits
<1>11. CASE /\ w'.op = "replace" /\ w'.pc = "span" /\ Known(w'.id) /\ w'.old = nums[w'.id]
            /\ w'.num = Number /\ w'.target = Number /\ w'.sets \in RuleSets
  <2>1. Outcome = Elems(w'.sets)
    BY <1>11 DEF Outcome
  <2>2. Outcome \in SUBSET Bodies
    BY <1>11, <2>1, SetsOfBodies
  <2>3. after' \in [Ids -> SUBSET Bodies]
    BY <1>2, <1>4, <1>5, <2>2
  <2>4. BodiesOf(table', w'.old) = before'[w'.id]
    BY <1>2, <1>4, <1>5, <1>11
  <2>5. CallBook'
    BY <1>2, <1>6, <1>11, <2>1, <2>4 DEF CallBook, Inside, Replacing
  <2>6. QED
    BY <1>4, <1>5, <1>8, <2>3, <2>5 DEF BookFits
<1>12. CASE /\ w'.op = "remove" /\ w'.pc = "bit" /\ w'.old = NoNumber
            /\ Known(w'.id) /\ w'.num = nums[w'.id]
  <2>1. Outcome = {}
    BY <1>12 DEF Outcome
  <2>2. after' \in [Ids -> SUBSET Bodies]
    BY <1>2, <1>4, <1>5, <2>1
  <2>3. BodiesOf(table', w'.num) = before'[w'.id]
    BY <1>2, <1>4, <1>5, <1>12
  <2>4. CallBook'
    BY <1>2, <1>6, <1>12, <2>1, <2>3 DEF CallBook, Inside, Replacing
  <2>5. QED
    BY <1>4, <1>5, <1>8, <2>2, <2>4 DEF BookFits
<1>13. QED
  BY <1>1, <1>9, <1>10, <1>11, <1>12, CallBegins

\* Which bodies a number has changes in one step of the writer, but for compact.
LEMMA BodiesStep ==
    ASSUME WriterInv, TrieFits, Writer, w.pc # "compact"
    PROVE  /\ \A n : w.pc # "rule" \/ n # w.num => BodiesOf(table', n) = BodiesOf(table, n)
           /\ w.pc = "rule" => BodiesOf(table', w.num) = BodiesOf(table, w.num) \cup {Body}
<1>1. CASE w.pc \notin Inside
  <2>1. table'.rules = table.rules
    BY <1>1, TrieKept DEF SameTrie
  <2>2. QED
    BY <1>1, <2>1 DEF BodiesOf, Inside
<1>2. CASE w.pc \in Inside
  <2>1. LowerMinKey \/ Follow \/ LinkAbsent \/ AddNumber
    BY <1>2 DEF Inside, Writer, AddRule, ReplaceRule, RemoveRule, NewNumber, TooManyRules,
       MetaGrow, MetaSpan, MetaOrder, PublishId, Unlock, PublishVersion, Retire, BitGrow,
       BitSet, Forget, Compact
  <2>2. CASE LowerMinKey \/ Follow \/ LinkAbsent
    <3>1. table'.rules = table.rules
      BY <2>2, LowerEffect, FollowEffect
    <3>2. w.pc # "rule"
      BY <2>2 DEF LowerMinKey, Follow, LinkAbsent
    <3>3. QED
      BY <3>1, <3>2 DEF BodiesOf
  <2>3. CASE AddNumber
    <3>1. /\ Body \in Paths
          /\ \A p \in Paths : table'.rules[p] =
                IF p = Body THEN table.rules[p] \cup {w.num} ELSE table.rules[p]
      BY <2>3, AddEffect
    <3>2. ASSUME NEW n, n # w.num PROVE BodiesOf(table', n) = BodiesOf(table, n)
      <4>1. \A p \in Paths : n \in table'.rules[p] <=> n \in table.rules[p]
        BY <3>1, <3>2
      <4>2. QED
        BY <4>1 DEF BodiesOf
    <3>3. BodiesOf(table', w.num) = BodiesOf(table, w.num) \cup {Body}
      <4>1. \A p \in Paths : w.num \in table'.rules[p] <=> w.num \in table.rules[p] \/ p = Body
        BY <3>1
      <4>2. QED
        BY <3>1, <4>1 DEF BodiesOf
    <3>4. w.pc = "rule"
      BY <2>3 DEF AddNumber
    <3>5. QED
      BY <3>2, <3>3, <3>4
  <2>4. QED
    BY <2>1, <2>2, <2>3
<1>3. QED
  BY <1>1, <1>2

\* A number that has not been given out has no bodies.
LEMMA FreshBodies ==
    ASSUME TrieFits, NEW n \in Int, n >= Number, Number \in Nat
    PROVE  BodiesOf(table, n) = {}
  BY DEF TrieFits, BodiesOf

\* The call's number is not that of another identifier.
LEMMA OthersNumber ==
    ASSUME WriterInv, NumbersFit, BookFits, w.pc = "rule", NEW id \in Ids, id # w.id, Known(id)
    PROVE  nums[id] # w.num
<1>1. table.ids[nums[id] + 1] = id
  BY DEF NumbersFit, Numbered
<1>2. w.num \in 0..Number - 1 /\ w.id \in Ids
  BY DEF WriterInv, WriterFits
<1>3. CASE w.old = NoNumber
  <2>1. Known(w.id) /\ nums[w.id] = w.num
    BY <1>3 DEF BookFits, CallBook, Inside
  <2>2. QED
    BY <1>1, <1>2, <2>1 DEF NumbersFit, Numbered
<1>4. CASE w.old # NoNumber
  <2>1. Replacing
    BY <1>4 DEF Replacing
  <2>2. w.num < Number
    <3>1. Number \in Nat
      BY TableParts DEF WriterInv, Number
    <3>2. QED
      BY <1>2, <3>1
  <2>3. table.ids[w.num + 1] = w.id
    BY <2>1, <2>2 DEF NumbersFit, CallFits
  <2>4. QED
    BY <1>1, <2>3
<1>5. QED
  BY <1>3, <1>4

\* A step of a call but its first leaves the other identifiers alone.
LEMMA BookGoesOn ==
    ASSUME WriterPart, TrieFits, BookFits, CallNext, Writer, w.pc # "idle", w.pc # "compact"
    PROVE  /\ after' = after /\ before' = IF w'.pc = "idle" THEN after ELSE before
           /\ before' \in [Ids -> SUBSET Bodies] /\ after' \in [Ids -> SUBSET Bodies]
           /\ \A id \in Ids : id # w.id =>
                /\ after'[id] = before'[id]
                /\ before'[id] = IF Known(id)' THEN BodiesOf(table', nums'[id]) ELSE {}
           /\ w'.pc # "idle" => w'.id = w.id
<1>1. WriterInv /\ NumbersFit
  BY DEF WriterPart, BookInv, Inv
<1>2. w' = IdleWriter \/ (w'.id = w.id /\ w'.pc # "idle")
  BY <1>1, GoOnStep
<1>3. w'.pc # "idle" => w'.id = w.id
  BY <1>2 DEF IdleWriter
<1>4. after' = after /\ before' = IF w'.pc = "idle" THEN after ELSE before
  BY DEF CallNext, CallStarts, CallEnds
<1>5. before \in [Ids -> SUBSET Bodies] /\ after \in [Ids -> SUBSET Bodies]
  BY DEF BookFits
<1>6. ASSUME NEW id \in Ids, id # w.id
      PROVE  /\ after'[id] = before'[id]
             /\ before'[id] = IF Known(id)' THEN BodiesOf(table', nums'[id]) ELSE {}
  <2>1. /\ after[id] = before[id]
        /\ before[id] = IF Known(id) THEN BodiesOf(table, nums[id]) ELSE {}
    BY <1>6 DEF BookFits, OthersFit
  <2>2. nums'[id] = nums[id]
    BY <1>1, <1>6, KnownStep
  <2>3. Known(id)' <=> Known(id)
    BY <2>2 DEF Known
  <2>4. Known(id) => BodiesOf(table', nums[id]) = BodiesOf(table, nums[id])
    <3>1. Known(id) => w.pc # "rule" \/ nums[id] # w.num
      BY <1>1, <1>6, OthersNumber
    <3>2. QED
      BY <1>1, <3>1, BodiesStep
  <2>5. QED
    BY <1>4, <2>1, <2>2, <2>3, <2>4
<1>7. QED
  BY <1>3, <1>4, <1>5, <1>6

\* What a call that goes on, or returns, makes of its identifier's numbers, when
\* the step stores neither a number nor a rule.
LEMMA BookQuiet ==
    ASSUME WriterPart, TrieFits, BookFits, Writer, w.pc # "idle", w.pc # "compact",
           after' = after, before' = before, nums' = nums, w.pc # "rule",
           w'.id = w.id, w'.sets = w.sets, w'.old = w.old, w'.num = w.num, w'.i = w.i,
           w'.pc \in Inside => w.pc \in Inside \/ (w.pc = "ids" /\ w.i = 1 /\ w.num = Number),
           w'.pc \in {"number", "unlock", "compact"} => w'.pc = w.pc /\ w'.pc # "number",
           w'.pc \in {"bit", "forget"} => w.pc \in {"bit", "forget"},
           Replacing' => Replacing,
           w'.pc \in {"version", "retire"} \/ (w'.pc \in {"span", "order"} /\ w'.target # w'.num)
              => w.pc \in {"version", "retire"} \/ (w.pc \in {"span", "order"} /\ w.target # w.num)
    PROVE  CallBook'
<1>1. WriterInv /\ NumbersFit /\ Number \in Nat
  BY TableParts DEF WriterPart, BookInv, Inv, WriterInv, Number
<1>2. \A n : BodiesOf(table', n) = BodiesOf(table, n)
  BY <1>1, BodiesStep
<1>3. Inserted' = Inserted
  BY DEF Inserted
<1>4. w.pc = "ids" /\ w.i = 1 /\ w.num = Number => BodiesOf(table, w.num) = {} /\ Inserted = {}
  BY <1>1, FreshBodies DEF Inserted
<1>5. w.pc = "ids" => w.old # NoNumber
  BY <1>1 DEF NumbersFit, CallFits
<1>6. w'.pc \in Inside => BodiesOf(table', w.num) = BodiesOf(table, w.num)
  BY <1>2
<1>7. w'.pc \in Inside /\ w'.old = NoNumber => w.pc \in Inside /\ w.old = NoNumber
  BY <1>5
<1>8. Replacing' =>
          /\ BodiesOf(table', w'.old) = before'[w'.id]
          /\ after'[w'.id] = Elems(w'.sets)
          /\ w'.pc \in Inside => BodiesOf(table', w'.num) = Inserted'
          /\ w'.pc \in {"version", "retire"} \/ (w'.pc \in {"span", "order"} /\ w'.target # w'.num) =>
                BodiesOf(table', w'.num) = after'[w'.id]
  <2> SUFFICES ASSUME Replacing' PROVE
          /\ BodiesOf(table', w'.old) = before'[w'.id]
          /\ after'[w'.id] = Elems(w'.sets)
          /\ w'.pc \in Inside => BodiesOf(table', w'.num) = Inserted'
          /\ w'.pc \in {"version", "retire"} \/ (w'.pc \in {"span", "order"} /\ w'.target # w'.num) =>
                BodiesOf(table', w'.num) = after'[w'.id]
    OBVIOUS
  <2>1. Replacing
    OBVIOUS
  <2>2. /\ BodiesOf(table, w.old) = before[w.id]
        /\ after[w.id] = Elems(w.sets)
        /\ w.pc \in Inside => BodiesOf(table, w.num) = Inserted
        /\ w.pc \in {"version", "retire"} \/ (w.pc \in {"span", "order"} /\ w.target # w.num) =>
              BodiesOf(table, w.num) = after[w.id]
    BY <2>1 DEF BookFits, CallBook
  <2>3. QED
    BY <1>2, <1>3, <1>4, <2>2
<1>9. w'.pc \in Inside /\ w'.old = NoNumber =>
          /\ Known(w.id)' /\ nums'[w'.id] = w'.num
          /\ BodiesOf(table', w'.num) = before'[w'.id] \cup Inserted'
          /\ after'[w'.id] = before'[w'.id] \cup Elems(w'.sets)
  BY <1>2, <1>3, <1>7 DEF BookFits, CallBook, Known
<1>10. w'.pc = "unlock" =>
          /\ nums'[w'.id] # NoNumber /\ BodiesOf(table', nums'[w'.id]) = after'[w'.id]
          /\ before'[w'.id] \subseteq after'[w'.id]
  BY <1>2 DEF BookFits, CallBook, Known
<1>11. w'.pc \in {"bit", "forget"} =>
          BodiesOf(table', w'.num) = before'[w'.id] /\ after'[w'.id] = {}
  BY <1>2 DEF BookFits, CallBook
<1>12. QED
  BY <1>8, <1>9, <1>10, <1>11 DEF CallBook, Known

\* The writer's steps that do nothing but go on.
LEMMA CallGoesOn ==
    ASSUME WriterPart, TrieFits, BookFits, CallNext,
           \/ MetaGrow \/ MetaSpan \/ MetaOrder \/ PublishId
           \/ LowerMinKey \/ Follow \/ LinkAbsent
           \/ PublishVersion \/ BitGrow \/ BitSet
    PROVE  CallBook' /\ w'.pc # "idle"
<1>1. WriterInv /\ NumbersFit /\ w \in Writers /\ Writer
  BY DEF WriterPart, BookInv, Inv, WriterInv, Writer
<1>2. /\ w.pc \in {"span", "order", "ids", "lower", "follow", "link", "version", "bit"}
      /\ nums' = nums
  BY DEF MetaGrow, MetaSpan, MetaOrder, PublishId, LowerMinKey, Follow, LinkAbsent,
     PublishVersion, BitGrow, BitSet
<1>3. /\ w'.id = w.id /\ w'.sets = w.sets /\ w'.old = w.old /\ w'.num = w.num /\ w'.i = w.i
      /\ w'.target = w.target
      /\ \/ w'.pc = w.pc /\ w.pc \in {"span", "bit"}
         \/ w.pc = "span" /\ w'.pc = "order"
         \/ w.pc = "order" /\ w'.pc = IF w.target = w.num THEN "ids" ELSE "version"
         \/ w.pc = "ids" /\ w'.pc = "lower"
         \/ w.pc \in {"lower", "follow", "link"} /\ w'.pc \in {"rule", "follow", "link", "lower"}
         \/ w.pc = "version" /\ w'.pc = "retire"
         \/ w.pc = "bit" /\ w'.pc = "forget"
  <2>1. CASE MetaGrow \/ BitGrow
    BY <2>1 DEF MetaGrow, BitGrow
  <2>2. CASE MetaSpan
    BY <1>1, <2>2 DEF MetaSpan, Writers
  <2>3. CASE MetaOrder
    BY <1>1, <2>3 DEF MetaOrder, Writers
  <2>4. CASE PublishId \/ LowerMinKey \/ LinkAbsent
    BY <1>1, <2>4 DEF PublishId, LowerMinKey, LinkAbsent, Writers
  <2>5. CASE Follow
    BY <1>1, <2>5 DEF Follow, Writers
  <2>6. CASE PublishVersion \/ BitSet
    BY <1>1, <2>6 DEF PublishVersion, BitSet, Writers
  <2>7. QED
    BY <2>1, <2>2, <2>3, <2>4, <2>5, <2>6
<1>4. w'.pc # "idle" /\ after' = after /\ before' = before
  <2>1. w'.pc # "idle"
    BY <1>2, <1>3
  <2>2. QED
    BY <1>2, <2>1 DEF CallNext, CallStarts, CallEnds
<1>5. w.pc = "ids" => w.i = 1 /\ w.num = Number
  BY <1>1 DEF TrieFits, WriterInv, WriterFits
<1>6. Replacing' => Replacing
  BY <1>2, <1>3 DEF Replacing
<1>7. w'.pc \in Inside => w.pc \in Inside \/ (w.pc = "ids" /\ w.i = 1 /\ w.num = Number)
  BY <1>2, <1>3, <1>5 DEF Inside
<1>8. /\ w.pc # "idle" /\ w.pc # "compact" /\ w.pc # "rule"
      /\ w'.pc \in {"number", "unlock", "compact"} => w'.pc = w.pc /\ w'.pc # "number"
      /\ w'.pc \in {"bit", "forget"} => w.pc \in {"bit", "forget"}
      /\ w'.pc \in {"version", "retire"} \/ (w'.pc \in {"span", "order"} /\ w'.target # w'.num)
            => w.pc \in {"version", "retire"} \/ (w.pc \in {"span", "order"} /\ w.target # w.num)
  BY <1>2, <1>3
<1>9. QED
  BY <1>1, <1>2, <1>3, <1>4, <1>6, <1>7, <1>8, BookQuiet

\* A call that gets a number: it has no bodies yet.
LEMMA CallNewNumber ==
    ASSUME WriterPart, TrieFits, BookFits, CallNext, NewNumber
    PROVE  CallBook' /\ w'.pc # "idle"
<1>1. /\ WriterInv /\ w \in Writers /\ Writer /\ Number \in Nat /\ w.id \in Ids
      /\ w.pc = "number" /\ w.old = NoNumber /\ Number < MaxRules
      /\ nums \in [Ids -> {NoNumber} \cup 0..Number - 1]
  BY TableParts
     DEF WriterPart, BookInv, Inv, WriterInv, WriterFits, Writer, Number, NewNumber
<1>2. /\ w'.pc = "lower" /\ w'.id = w.id /\ w'.sets = w.sets /\ w'.old = NoNumber
      /\ w'.num = Number /\ w'.i = w.i
  BY <1>1 DEF NewNumber, Writers
<1>3. nums'[w.id] = Number
  BY <1>1 DEF NewNumber
<1>4. after' = after /\ before' = before
  BY <1>1, <1>2 DEF CallNext, CallStarts, CallEnds
<1>5. before[w.id] = {} /\ after[w.id] = Elems(w.sets)
  BY <1>1 DEF BookFits, CallBook
<1>6. BodiesOf(table', Number) = {}
  BY <1>1, FreshBodies, BodiesStep
<1>7. Inserted' = {}
  BY <1>1, <1>2 DEF TrieFits, Inserted
<1>8. nums'[w.id] # NoNumber
  BY <1>1, <1>3 DEF NoNumber
<1>9. QED
  BY <1>2, <1>3, <1>4, <1>5, <1>6, <1>7, <1>8 DEF CallBook, Inside, Replacing, Known

\* A call that has inserted one more body.
LEMMA CallAddNumber ==
    ASSUME WriterPart, TrieFits, BookFits, CallNext, AddNumber
    PROVE  CallBook' /\ w'.pc # "idle"
<1>1. /\ WriterInv /\ NumbersFit /\ w \in Writers /\ Writer /\ Number \in Nat /\ w.id \in Ids
      /\ w.pc = "rule" /\ w.i \in 1..Len(w.sets) /\ w.num \in 0..Number - 1
      /\ Len(w.sets) \in Nat
  BY TableParts, InsertedBody DEF WriterPart, BookInv, Inv, WriterInv, WriterFits, Writer, Number,
     AddNumber, Inserting
<1>2. /\ \/ w.i < Len(w.sets) /\ w' = [w EXCEPT !.pc = "lower", !.i = @ + 1, !.k = 0]
         \/ /\ w.i = Len(w.sets) /\ w.old # NoNumber
            /\ w' = [w EXCEPT !.pc = "span", !.target = w.old]
         \/ w.i = Len(w.sets) /\ w.old = NoNumber /\ w' = [w EXCEPT !.pc = "unlock"]
      /\ nums' = nums
  BY <1>1, AddEffect DEF AddNumber
<1>3. /\ w'.id = w.id /\ w'.sets = w.sets /\ w'.old = w.old /\ w'.num = w.num
      /\ \/ w.i < Len(w.sets) /\ w'.pc = "lower" /\ w'.i = w.i + 1
         \/ /\ w.i = Len(w.sets) /\ w.old # NoNumber /\ w'.pc = "span" /\ w'.target = w.old
         \/ w.i = Len(w.sets) /\ w.old = NoNumber /\ w'.pc = "unlock"
  BY <1>1, <1>2 DEF Writers
<1>4. after' = after /\ before' = before /\ w'.pc # "idle"
  BY <1>1, <1>3 DEF CallNext, CallStarts, CallEnds
<1>5. /\ BodiesOf(table', w.num) = BodiesOf(table, w.num) \cup {Body}
      /\ \A n : n # w.num => BodiesOf(table', n) = BodiesOf(table, n)
  BY <1>1, BodiesStep
<1>6. w'.pc = "lower" => Inserted' = Inserted \cup {Body}
  <2> SUFFICES ASSUME w'.pc = "lower" PROVE Inserted' = Inserted \cup {Body}
    OBVIOUS
  <2>1. w'.i = w.i + 1 /\ w'.sets = w.sets /\ w.i \in Nat \ {0}
    BY <1>1, <1>3
  <2>2. 1..w'.i - 1 = (1..w.i - 1) \cup {w.i}
    BY <2>1
  <2>3. Inserted' = {w.sets[j] : j \in (1..w.i - 1) \cup {w.i}}
    BY <2>1, <2>2 DEF Inserted
  <2>4. QED
    BY <2>3 DEF Inserted, Body
<1>7. w.i = Len(w.sets) => Elems(w.sets) = Inserted \cup {Body}
  <2> SUFFICES ASSUME w.i = Len(w.sets) PROVE Elems(w.sets) = Inserted \cup {Body}
    OBVIOUS
  <2>1. 1..Len(w.sets) = (1..w.i - 1) \cup {w.i}
    BY <1>1
  <2>2. QED
    BY <2>1 DEF Elems, Inserted, Body
<1>8. CASE w.old = NoNumber
  <2>1. /\ Known(w.id) /\ nums[w.id] = w.num
        /\ BodiesOf(table, w.num) = before[w.id] \cup Inserted
        /\ after[w.id] = before[w.id] \cup Elems(w.sets)
    BY <1>1, <1>8 DEF BookFits, CallBook, Inside
  <2>2. CASE w'.pc = "lower"
    <3>1. BodiesOf(table', w.num) = before[w.id] \cup Inserted'
      BY <1>5, <1>6, <2>1, <2>2
    <3>2. QED
      BY <1>2, <1>3, <1>4, <1>8, <2>1, <2>2, <3>1 DEF CallBook, Replacing, Known
  <2>3. CASE w'.pc = "unlock"
    <3>1. BodiesOf(table', w.num) = after[w.id] /\ before[w.id] \subseteq after[w.id]
      BY <1>3, <1>5, <1>7, <2>1, <2>3
    <3>2. QED
      BY <1>2, <1>3, <1>4, <1>8, <2>1, <2>3, <3>1 DEF CallBook, Inside, Replacing, Known
  <2>4. QED
    BY <1>3, <1>8, <2>2, <2>3
<1>9. CASE w.old # NoNumber
  <2>1. Replacing
    BY <1>1, <1>9 DEF Replacing
  <2>2. /\ BodiesOf(table, w.old) = before[w.id] /\ after[w.id] = Elems(w.sets)
        /\ BodiesOf(table, w.num) = Inserted
    BY <1>1, <2>1 DEF BookFits, CallBook, Inside
  <2>3. w.old < w.num /\ w.old \in Nat /\ w.num \in Nat
    BY <1>1, <1>9 DEF WriterInv, WriterFits, Writers
  <2>4. w.old # w.num
    BY <2>3
  <2>5. BodiesOf(table', w.old) = before[w.id]
    BY <1>5, <2>2, <2>4
  <2>6. CASE w'.pc = "lower"
    <3>1. BodiesOf(table', w.num) = Inserted'
      BY <1>5, <1>6, <2>2, <2>6
    <3>2. QED
      BY <1>3, <1>4, <1>9, <2>2, <2>5, <2>6, <3>1 DEF CallBook, Replacing
  <2>7. CASE w'.pc = "span"
    <3>1. BodiesOf(table', w.num) = after[w.id]
      BY <1>3, <1>5, <1>7, <2>2, <2>7
    <3>2. QED
      BY <1>3, <1>4, <1>9, <2>2, <2>5, <2>7, <3>1 DEF CallBook, Inside, Replacing
  <2>8. QED
    BY <1>3, <1>9, <2>6, <2>7
<1>10. QED
  BY <1>4, <1>8, <1>9

\* A call that returns, or goes on with compact: its identifier has its new bodies.
LEMMA CallReturns ==
    ASSUME WriterPart, TrieFits, BookFits, LimitFits, CallNext,
           TooManyRules \/ Unlock \/ Retire \/ Forget
    PROVE  /\ after'[w.id] = IF nums'[w.id] # NoNumber THEN BodiesOf(table', nums'[w.id]) ELSE {}
           /\ w'.pc = "idle" \/ (w'.pc = "compact" /\ w'.id = w.id)
<1>1. /\ WriterInv /\ NumbersFit /\ w \in Writers /\ Writer /\ Number \in Nat /\ w.id \in Ids
      /\ nums \in [Ids -> {NoNumber} \cup 0..Number - 1] /\ MaxRules \in Nat
      /\ w.pc \in {"number", "unlock", "retire", "forget"}
  BY TableParts, ConstantsAssumption DEF WriterPart, BookInv, Inv, WriterInv, WriterFits,
     Writer, Number, TooManyRules, Unlock, Retire, Forget
<1>2. w' = IdleWriter \/ w' = [w EXCEPT !.pc = "compact"]
  BY DEF TooManyRules, Unlock, Retire, Forget, CountDead, Return
<1>3. w'.pc = "idle" \/ (w'.pc = "compact" /\ w'.id = w.id)
  BY <1>1, <1>2 DEF IdleWriter, Writers
<1>4. after' = after
  BY <1>1 DEF CallNext, CallStarts
<1>5. \A n : BodiesOf(table', n) = BodiesOf(table, n)
  BY <1>1, BodiesStep
<1>6. CASE TooManyRules
  <2>1. nums' = nums /\ after[w.id] = {} /\ ~Known(w.id)
    BY <1>1, <1>6 DEF TooManyRules, BookFits, CallBook, NumbersFit, CallFits
  <2>2. QED
    BY <1>3, <1>4, <2>1 DEF Known
<1>7. CASE Unlock
  <2>1. nums' = nums /\ after[w.id] = BodiesOf(table, nums[w.id]) /\ Known(w.id)
    BY <1>7 DEF Unlock, BookFits, CallBook
  <2>2. QED
    BY <1>3, <1>4, <1>5, <2>1 DEF Known
<1>8. CASE Retire
  <2>1. w.pc = "retire" /\ nums'[w.id] = w.num /\ w.num \in 0..Number - 1
    BY <1>1, <1>8 DEF Retire, WriterInv, WriterFits
  <2>2. Replacing
    BY <1>1, <2>1 DEF NumbersFit, CallFits, Replacing
  <2>3. BodiesOf(table, w.num) = after[w.id]
    BY <2>1, <2>2 DEF BookFits, CallBook
  <2>4. nums'[w.id] # NoNumber
    BY <1>1, <2>1 DEF NoNumber
  <2>5. QED
    BY <1>3, <1>4, <1>5, <2>1, <2>3, <2>4 DEF Known
<1>9. CASE Forget
  <2>1. nums'[w.id] = NoNumber /\ after[w.id] = {}
    BY <1>1, <1>9 DEF Forget, BookFits, CallBook
  <2>2. QED
    BY <1>3, <1>4, <2>1 DEF Known
<1>10. QED
  BY <1>6, <1>7, <1>8, <1>9

\* Every step of a call but its first, and compact.
LEMMA BookOn ==
    ASSUME WriterPart, TrieFits, BookFits, LimitFits, CallNext, Writer,
           w.pc # "idle", w.pc # "compact"
    PROVE  BookFits'
<1>1. /\ after' = after /\ before' = IF w'.pc = "idle" THEN after ELSE before
      /\ before' \in [Ids -> SUBSET Bodies] /\ after' \in [Ids -> SUBSET Bodies]
      /\ \A id \in Ids : id # w.id =>
           /\ after'[id] = before'[id]
           /\ before'[id] = IF Known(id)' THEN BodiesOf(table', nums'[id]) ELSE {}
      /\ w'.pc # "idle" => w'.id = w.id
  BY BookGoesOn
<1>2. CASE TooManyRules \/ Unlock \/ Retire \/ Forget
  <2>1. /\ after'[w.id] = IF nums'[w.id] # NoNumber THEN BodiesOf(table', nums'[w.id]) ELSE {}
        /\ w'.pc = "idle" \/ (w'.pc = "compact" /\ w'.id = w.id)
    BY <1>2, CallReturns
  <2>2. OthersFit'
    BY <1>1, <2>1 DEF OthersFit, Known
  <2>3. CallBook'
    BY <2>1 DEF CallBook, Inside, Replacing, Known
  <2>4. QED
    BY <1>1, <2>2, <2>3 DEF BookFits
<1>3. CASE ~(TooManyRules \/ Unlock \/ Retire \/ Forget)
  <2>1. \/ MetaGrow \/ MetaSpan \/ MetaOrder \/ PublishId
        \/ LowerMinKey \/ Follow \/ LinkAbsent
        \/ PublishVersion \/ BitGrow \/ BitSet \/ NewNumber \/ AddNumber
    BY <1>3 DEF Writer, AddRule, ReplaceRule, RemoveRule, Compact
  <2>2. CallBook' /\ w'.pc # "idle"
    BY <2>1, CallGoesOn, CallNewNumber, CallAddNumber
  <2>3. OthersFit'
    BY <1>1, <2>2 DEF OthersFit, Known
  <2>4. QED
    BY <1>1, <2>2, <2>3 DEF BookFits
<1>4. QED
  BY <1>2, <1>3

\* compact ends the call: its identifier's bodies are those of the rule book, and
\* all identifiers keep theirs.
LEMMA BookCompact ==
    ASSUME WriterPart, BookFits, CallNext, Compact
    PROVE  BookFits'
<1>1. WriterInv /\ NumbersFit /\ w.pc = "compact" /\ table' = Compacted /\ w' = IdleWriter
  BY DEF WriterPart, BookInv, Inv, Compact, Return
<1>2. w'.pc = "idle" /\ after' = after /\ before' = after
  BY <1>1 DEF CallNext, CallStarts, CallEnds, IdleWriter
<1>3. after \in [Ids -> SUBSET Bodies]
  BY DEF BookFits
<1>4. ASSUME NEW id \in Ids
      PROVE  after[id] = IF nums'[id] # NoNumber THEN BodiesOf(table', nums'[id]) ELSE {}
  <2>1. after[id] = IF Known(id) THEN BodiesOf(table, nums[id]) ELSE {}
    <3>1. CASE id = w.id
      BY <1>1, <3>1 DEF BookFits, CallBook
    <3>2. CASE id # w.id
      BY <3>2 DEF BookFits, OthersFit
    <3>3. QED
      BY <3>1, <3>2
  <2>2. /\ nums'[id] # NoNumber <=> Known(id)
        /\ Known(id) => nums[id] \in Live /\ nums'[id] = Renum(nums[id])
    BY <1>1, CompactNumbers DEF Known
  <2>3. Known(id) => BodiesOf(table', nums'[id]) = BodiesOf(table, nums[id])
    BY <1>1, <2>2, CompactBodies
  <2>4. QED
    BY <2>1, <2>2, <2>3
<1>5. OthersFit'
  BY <1>2, <1>4 DEF OthersFit, Known
<1>6. CallBook'
  BY <1>2 DEF CallBook, Inside, Replacing
<1>7. QED
  BY <1>2, <1>3, <1>5, <1>6 DEF BookFits

\* The rule book and the numbers agree after every step of the writer.
LEMMA RuleBookStep ==
    ASSUME WriterPart, TrieFits, BookFits, LimitFits, CallNext, Writer
    PROVE  BookFits'
<1>1. CASE w.pc = "idle"
  BY <1>1, BookStart
<1>2. CASE w.pc = "compact"
  <2>1. Compact
    BY <1>2 DEF Writer, AddRule, ReplaceRule, RemoveRule, NewNumber, TooManyRules, MetaGrow,
       MetaSpan, MetaOrder, PublishId, LowerMinKey, Follow, LinkAbsent, AddNumber, Unlock,
       PublishVersion, Retire, BitGrow, BitSet, Forget
  <2>2. QED
    BY <2>1, BookCompact
<1>3. CASE w.pc # "idle" /\ w.pc # "compact"
  BY <1>3, BookOn
<1>4. QED
  BY <1>1, <1>2, <1>3

\* They agree on the rules of Preload.
LEMMA RuleBookInit == CallInit => BookFits
<1> SUFFICES ASSUME CallInit PROVE BookFits
  OBVIOUS
<1> DEFINE L == Len(Preload)
           ids == [i \in 1..L |-> Preload[i].id]
           at == [p \in Paths |-> {n \in 0..L - 1 : Preload[n + 1].body = p}]
           Rules == [id : Ids, body : Bodies]
<1>1. L \in Nat /\ \A i \in 1..L : Preload[i] \in Rules
  <2>1. Preload \in Seq(Rules)
    BY ConstantsAssumption
  <2> HIDE DEF Rules
  <2>2. QED
    BY <2>1
<1>2. \A i \in 1..L : Preload[i].id \in Ids /\ Preload[i].body \in Bodies
  BY <1>1
<1>3. ids \in Seq(Ids) /\ at \in [Paths -> SUBSET Nat]
  BY <1>1, <1>2
<1>4. table = NewTable(ids, at) /\ w.pc = "idle"
  BY DEF CallInit, Init, Loaded, IdleWriter
<1>5. table.rules = at
  BY <1>3, <1>4, TrieLeads
<1>6. \A n : BodiesOf(table, n) = {p \in Paths : n \in 0..L - 1 /\ Preload[n + 1].body = p}
  BY <1>5 DEF BodiesOf
<1>7. ASSUME NEW id \in Ids
      PROVE  /\ before[id] \in SUBSET Bodies /\ after[id] = before[id]
             /\ before[id] = IF Known(id) THEN BodiesOf(table, nums[id]) ELSE {}
  <2>1. before[id] = {x.body : x \in {y \in Elems(Preload) : y.id = id}} /\ after = before
    BY DEF CallInit
  <2>2. \A b : b \in before[id] <=> \E i \in 1..L : Preload[i].id = id /\ b = Preload[i].body
    BY <2>1 DEF Elems
  <2>3. CASE \E i \in 1..L : Preload[i].id = id
    <3>1. PICK i \in 1..L : Preload[i].id = id /\ nums[id] = i - 1
      BY <2>3 DEF CallInit, Init
    <3>2. \A j \in 1..L : Preload[j].id = id => j = i
      BY <3>1, ConstantsAssumption
    <3>3. before[id] = {Preload[i].body}
      BY <2>2, <3>1, <3>2
    <3>4. i - 1 \in 0..L - 1 /\ Known(id) /\ (i - 1) + 1 = i
      BY <1>1, <3>1 DEF Known, NoNumber
    <3>5. Preload[i].body \in Bodies /\ Preload[i].body \in Paths
      BY <1>2, BodyPath
    <3>6. BodiesOf(table, nums[id]) = {Preload[i].body}
      BY <1>6, <3>1, <3>4, <3>5
    <3>7. QED
      BY <2>1, <3>3, <3>4, <3>5, <3>6
  <2>4. CASE ~\E i \in 1..L : Preload[i].id = id
    <3>1. ~Known(id)
      BY <2>4 DEF CallInit, Init, Known
    <3>2. before[id] = {}
      BY <2>2, <2>4
    <3>3. QED
      BY <2>1, <3>1, <3>2
  <2>5. QED
    BY <2>3, <2>4
<1>8. before \in [Ids -> SUBSET Bodies] /\ after \in [Ids -> SUBSET Bodies]
  <2>1. before = [id \in Ids |-> {x.body : x \in {y \in Elems(Preload) : y.id = id}}]
        /\ after = before
    BY DEF CallInit
  <2>2. QED
    BY <1>7, <2>1
<1>9. OthersFit
  BY <1>7 DEF OthersFit
<1>10. CallBook
  BY <1>4 DEF CallBook, Inside, Replacing
<1>11. QED
  BY <1>8, <1>9, <1>10 DEF BookFits

\* A replacement in progress stays the one it is.
LEMMA ReplacingOn ==
    ASSUME WriterPart, Writer, w.pc # "idle", Replacing'
    PROVE  Replacing /\ w'.num = w.num /\ w'.old = w.old
<1>1. w \in Writers /\ (w.pc = "number" => w.old = NoNumber) /\ w.pc # "compact"
  <2>1. w \in Writers
    BY DEF WriterPart, BookInv, Inv, WriterInv
  <2>2. w.pc = "number" => w.old = NoNumber
    BY DEF WriterPart, BookInv, Inv, WriterInv, WriterFits
  <2>3. ~Compact
    BY DEF Compact, Return, IdleWriter, Replacing
  <2>4. QED
    BY <2>1, <2>2, <2>3
       DEF Writer, AddRule, ReplaceRule, RemoveRule, NewNumber, TooManyRules, MetaGrow,
       MetaSpan, MetaOrder, PublishId, LowerMinKey, Follow, LinkAbsent, AddNumber, Unlock,
       PublishVersion, Retire, BitGrow, BitSet, Forget
<1>2. CASE TooManyRules \/ Unlock \/ Retire \/ Forget
  <2>1. w' = IdleWriter \/ w' = [w EXCEPT !.pc = "compact"]
    BY <1>2 DEF TooManyRules, Unlock, Retire, Forget, CountDead, Return
  <2>2. w'.pc \in {"idle", "compact"}
    BY <1>1, <2>1 DEF IdleWriter, Writers
  <2>3. QED
    BY <2>2 DEF Replacing
<1>3. CASE NewNumber
  <2>1. w.pc = "number" /\ w'.old = w.old
    BY <1>1, <1>3 DEF NewNumber, Writers
  <2>2. QED
    BY <1>1, <2>1 DEF Replacing
<1>4. CASE MetaGrow \/ BitGrow
  BY <1>4 DEF MetaGrow, BitGrow, Replacing
<1>5. CASE \/ PublishId \/ LowerMinKey \/ Follow \/ LinkAbsent
           \/ MetaSpan \/ MetaOrder \/ PublishVersion \/ BitSet \/ AddNumber
  <2>1. w'.old = w.old /\ w'.num = w.num
    BY <1>1, <1>5 DEF PublishId, LowerMinKey, Follow, LinkAbsent, MetaSpan, MetaOrder,
       PublishVersion, BitSet, AddNumber, Writers
  <2>2. w.pc \in {"ids", "lower", "follow", "link", "span", "order", "version", "rule"}
        \/ w'.pc = "forget"
    BY <1>1, <1>5 DEF PublishId, LowerMinKey, Follow, LinkAbsent, MetaSpan, MetaOrder,
       PublishVersion, BitSet, AddNumber, Writers
  <2>3. QED
    BY <2>1, <2>2 DEF Replacing
<1>6. QED
  BY <1>1, <1>2, <1>3, <1>4, <1>5 DEF Writer, AddRule, ReplaceRule, RemoveRule, Compact

\* No step of the writer but compact gives out a number above MaxRules, or shows
\* one whose span has not begun.
LEMMA LimitOn ==
    ASSUME WriterPart, LimitFits, Writer, w.pc # "compact"
    PROVE  LimitFits'
<1>1. /\ Inv /\ KeyFits /\ PlaceFits /\ WriterInv /\ NumbersFit /\ Number \in Nat
      /\ MaxRules \in Nat /\ table \in Tables /\ table.version \in Nat
      /\ nums \in [Ids -> {NoNumber} \cup 0..Number - 1] /\ Number' \in Nat
  <2>1. WriterInv'
    BY InvWriter DEF WriterPart, BookInv, Inv
  <2>2. Number' \in Nat
    BY <2>1, TableParts DEF WriterInv, Number
  <2>3. QED
    BY <2>2, TableParts, ConstantsAssumption DEF WriterPart, BookInv, Inv, WriterInv, Number
<1>2. /\ \/ Number' = Number
         \/ (NewNumber \/ PublishId) /\ Number' = Number + 1
      /\ table'.version \in Nat /\ table'.version >= table.version
  BY <1>1, IdsStep DEF Number, Tables
<1>3. PublishId => Replacing /\ w.num = Number /\ w.pc = "ids"
  BY <1>1 DEF PublishId, WriterInv, WriterFits, NumbersFit, CallFits, Replacing
<1>4. PublishId => Number' = Number + 1
  BY <1>1, TableParts DEF PublishId, Number, Tables
<1>5. NewNumber => w.pc = "number" /\ Number < MaxRules /\ ~Replacing
  BY DEF NewNumber, Replacing
<1>6. Number' <= MaxRules
  <2>1. CASE PublishId
    BY <1>1, <1>2, <1>3, <2>1 DEF LimitFits
  <2>2. CASE ~PublishId
    BY <1>1, <1>2, <1>5, <2>2 DEF LimitFits
  <2>3. QED
    BY <2>1, <2>2
<1>7. Replacing' /\ w'.num >= Number' => Number' < MaxRules
  <2> SUFFICES ASSUME Replacing', w'.num >= Number' PROVE Number' < MaxRules
    OBVIOUS
  <2>1. CASE w.pc = "idle"
    <3>1. Number' = Number
      BY <1>1, <2>1, StartStep DEF Number
    <3>2. w'.pc = "span" => Number < MaxRules
      BY <1>1, <2>1, CallBegins
    <3>3. w'.pc = "span"
      BY <1>1, <2>1, CallBegins DEF Replacing
    <3>4. QED
      BY <3>1, <3>2, <3>3
  <2>2. CASE w.pc # "idle"
    <3>1. Replacing /\ w'.num = w.num
      BY <2>2, ReplacingOn
    <3>2. ~PublishId
      BY <1>1, <1>3, <1>4, <3>1
    <3>3. Number' = Number
      BY <1>2, <1>5, <3>1, <3>2
    <3>4. QED
      BY <3>1, <3>3 DEF LimitFits
  <2>3. QED
    BY <2>1, <2>2
<1>8. ASSUME NEW id \in Ids, NEW n \in Nat, nums'[id] = n
      PROVE  From(n)' <= table'.version
  <2>1. CASE nums[id] = n
    <3>1. Known(id) /\ n \in 0..Number - 1
      BY <1>1, <2>1 DEF Known, NoNumber
    <3>2. From(n)' = From(n)
      <4>1. /\ Len(table.meta) \in 0..Len(table.meta)
            /\ Len(table'.meta) \in 0..Len(table'.meta)
        <5>1. table' \in Tables
          BY <1>1, InvWriter DEF Inv, WriterInv
        <5>2. QED
          BY <1>1, <5>1, TableParts
      <4>2. WordsEvolve
        BY <1>1, EvolveStep DEF Evolves
      <4>3. QED
        BY <3>1, <4>1, <4>2 DEF WordsEvolve, From
    <3>3. From(n) \in Nat
      <4>1. Len(table.meta) \in 0..Len(table.meta)
        BY <1>1, TableParts
      <4>2. MetaAt(table, Len(table.meta), n) \in MetaWords
        BY <1>1, <4>1, MetaType
      <4>3. QED
        BY <4>2 DEF From, MetaWords
    <3>4. From(n) <= table.version
      BY <2>1, <3>1 DEF LimitFits
    <3>5. QED
      BY <1>1, <1>2, <3>2, <3>3, <3>4
  <2>2. CASE NewNumber /\ n = Number
    <3>1. ~((MetaSpan \/ MetaOrder) /\ n = w.target)
      BY <1>5, <2>2 DEF MetaSpan, MetaOrder
    <3>2. From(n) = 0
      BY <1>1, <1>5, <2>2 DEF LimitFits
    <3>3. From(n)' = From(n)
      BY <1>1, <3>1, LastWord
    <3>4. QED
      BY <1>2, <3>2, <3>3
  <2>3. CASE Retire /\ n = w.num
    <3>1. w.pc = "retire" /\ table' = table
      BY <2>3 DEF Retire
    <3>2. Replacing /\ w.num \in 0..Number - 1
      BY <1>1, <3>1 DEF WriterInv, WriterFits, NumbersFit, CallFits, Replacing
    <3>3. From(w.num) = w.v /\ w.v = table.version
      BY <1>1, <3>1, <3>2 DEF PlaceFits, NumbersFit, CallFits
    <3>4. From(n)' = From(n)
      BY <3>1 DEF From
    <3>5. QED
      BY <1>1, <2>3, <3>1, <3>3, <3>4
  <2>4. n # NoNumber
    BY DEF NoNumber
  <2>5. QED
    BY <1>1, <1>8, <2>1, <2>2, <2>3, <2>4, KnownStep
<1>9. ASSUME NEW n \in Nat, n >= Number'
      PROVE  From(n)' = 0 \/ (Replacing' /\ n = w'.num)
  <2>1. n >= Number
    BY <1>1, <1>2, <1>9
  <2>2. ASSUME n = w.num, w.pc \in {"span", "order"}, Replacing
        PROVE  Replacing' /\ n = w'.num
    <3>1. MetaGrow \/ MetaSpan \/ MetaOrder
      BY <2>2 DEF Writer, AddRule, ReplaceRule, RemoveRule, NewNumber, TooManyRules,
         PublishId, LowerMinKey, Follow, LinkAbsent, AddNumber, Unlock,
         PublishVersion, Retire, BitGrow, BitSet, Forget, Compact
    <3>2. w \in Writers
      BY <1>1 DEF WriterInv
    <3>3. w'.num = w.num /\ w'.old = w.old /\ w'.pc \in {"span", "order", "ids", "version"}
      BY <2>2, <3>1, <3>2 DEF MetaGrow, MetaSpan, MetaOrder, Writers
    <3>4. QED
      BY <2>2, <3>3 DEF Replacing
  <2>3. CASE (MetaSpan \/ MetaOrder) /\ n = w.target
    <3>1. w.pc \in {"span", "order"}
      BY <2>3 DEF MetaSpan, MetaOrder
    <3>2. Replacing /\ w.target \in {w.old, w.num}
      BY <1>1, <3>1 DEF NumbersFit, CallFits, Replacing
    <3>6. w.id \in Ids /\ nums[w.id] \in {NoNumber} \cup 0..Number - 1
      BY <1>1, <3>1 DEF WriterInv, WriterFits
    <3>3. w.old = nums[w.id] /\ nums[w.id] # NoNumber
      BY <1>1, <3>2 DEF NumbersFit, CallFits, Known
    <3>4. w.old \in Int /\ w.old < Number
      BY <1>1, <3>3, <3>6
    <3>5. n = w.num
      BY <1>1, <2>1, <2>3, <3>2, <3>4
    <3>7. QED
      BY <2>2, <3>1, <3>2, <3>5
  <2>4. CASE ~((MetaSpan \/ MetaOrder) /\ n = w.target)
    <3>1. From(n)' = From(n)
      BY <1>1, <2>4, LastWord
    <3>2. CASE From(n) = 0
      BY <3>1, <3>2
    <3>3. CASE From(n) # 0
      <4>1. Replacing /\ n = w.num
        BY <2>1, <3>3 DEF LimitFits
      <4>2. w.pc \in {"span", "order", "ids"}
        BY <1>1, <2>1, <4>1 DEF Replacing, WriterInv, WriterFits
      <4>3. w.pc # "ids"
        <5> SUFFICES ASSUME w.pc = "ids" PROVE FALSE
          OBVIOUS
        <5>1. PublishId
          BY DEF Writer, AddRule, ReplaceRule, RemoveRule, NewNumber, TooManyRules, MetaGrow,
             MetaSpan, MetaOrder, LowerMinKey, Follow, LinkAbsent, AddNumber, Unlock,
             PublishVersion, Retire, BitGrow, BitSet, Forget, Compact
        <5>2. Number' = Number + 1
          BY <1>1, <5>1, TableParts DEF PublishId, Number, Tables
        <5>3. QED
          BY <1>1, <1>3, <1>9, <4>1, <5>1, <5>2
      <4>4. QED
        BY <2>2, <4>1, <4>2, <4>3
    <3>4. QED
      BY <3>2, <3>3
  <2>5. QED
    BY <2>3, <2>4
<1>10. ~hasTab' => w'.pc = "idle" /\ \A id \in Ids : nums'[id] = NoNumber
  <2>1. CASE w.pc = "idle"
    <3>1. hasTab'
      <4> SUFFICES ASSUME ~hasTab' PROVE FALSE
        OBVIOUS
      <4>1. w'.id \in Targets /\ nums[w'.id] # NoNumber /\ hasTab' = hasTab
        BY <1>1, <2>1, CallBegins DEF Known
      <4>2. w'.id \in Ids
        BY <4>1, ConstantsAssumption
      <4>3. QED
        BY <4>1, <4>2 DEF LimitFits, Known
    <3>2. QED
      BY <3>1
  <2>2. CASE w.pc # "idle"
    <3>1. hasTab' = hasTab
      BY <2>2 DEF Writer, AddRule, ReplaceRule, RemoveRule, NewNumber, TooManyRules, MetaGrow,
         MetaSpan, MetaOrder, PublishId, LowerMinKey, Follow, LinkAbsent, AddNumber, Unlock,
         PublishVersion, Retire, BitGrow, BitSet, Forget, Compact
    <3>2. hasTab
      BY <2>2 DEF LimitFits
    <3>3. QED
      BY <3>1, <3>2
  <2>3. QED
    BY <2>1, <2>2
<1>11. \A id \in Ids : Known(id)' => nums'[id] \in Nat
  <2>1. nums' \in [Ids -> {NoNumber} \cup 0..Number' - 1]
    BY <1>1, InvWriter DEF Inv, WriterInv, Number
  <2>2. QED
    BY <1>1, <2>1 DEF Known
<1>12. \A id \in Ids : Known(id)' => From(nums[id])' <= table'.version
  BY <1>8, <1>11
<1>13. QED
  BY <1>6, <1>7, <1>9, <1>10, <1>12 DEF LimitFits, Known

\* compact gives out no number above those it drops, and all spans begin anew.
LEMMA LimitCompact ==
    ASSUME WriterPart, LimitFits, Compact
    PROVE  LimitFits'
<1>1. /\ WriterInv /\ NumbersFit /\ Number \in Nat /\ MaxRules \in Nat /\ w.pc = "compact"
  BY TableParts, ConstantsAssumption DEF WriterPart, BookInv, Inv, WriterInv, Number, Compact
<1>2. /\ table'.meta = <<>> /\ table'.version = 0 /\ Number' = Cardinality(Live)
      /\ Cardinality(Live) \in Nat
  BY <1>1, CompactedParts DEF Compact, Number
<1>3. Cardinality(Live) <= Number
  <2>1. IsFiniteSet(0..Number - 1) /\ Cardinality(0..Number - 1) = Number
    BY <1>1, FS_Interval
  <2>2. Live \subseteq 0..Number - 1
    BY DEF Live
  <2>3. QED
    BY <2>1, <2>2, FS_Subset
<1>4. \A n : From(n)' = 0
  BY <1>2 DEF From, MetaAt, NoMeta
<1>5. w'.pc = "idle" /\ hasTab' = hasTab /\ hasTab
  BY <1>1 DEF Compact, Return, IdleWriter, LimitFits
<1>6. Number' <= MaxRules
  BY <1>1, <1>2, <1>3 DEF LimitFits
<1>7. ~Replacing'
  BY <1>5 DEF Replacing
<1>8. \A id \in Ids : Known(id)' => From(nums[id])' <= table'.version
  BY <1>2, <1>4
<1>9. QED
  BY <1>4, <1>5, <1>6, <1>7, <1>8 DEF LimitFits

\* Preload has its numbers, without spans.
LEMMA LimitInit == Init => LimitFits
<1> SUFFICES ASSUME Init PROVE LimitFits
  OBVIOUS
<1>1. /\ Len(Preload) \in Nat /\ Number = Len(Preload) /\ table.meta = <<>> /\ w.pc = "idle"
      /\ Len(Preload) <= MaxRules
  BY LoadedNumbers, ConstantsAssumption DEF Init, IdleWriter
<1>2. \A n : From(n) = 0
  BY <1>1 DEF From, MetaAt, NoMeta
<1>3. table.version = 0
  BY DEF Init, Loaded, NewTable
<1>4. ~hasTab => \A id \in Ids : ~Known(id)
  <2> SUFFICES ASSUME ~hasTab, NEW id \in Ids PROVE ~Known(id)
    OBVIOUS
  <2>1. Preload = <<>>
    BY DEF Init
  <2>2. 1..Len(Preload) = {}
    BY <2>1
  <2>3. nums[id] = NoNumber
    BY <2>2 DEF Init
  <2>4. QED
    BY <2>3 DEF Known
<1>5. QED
  BY <1>1, <1>2, <1>3, <1>4 DEF LimitFits, Replacing

\* A removal stays one until it returns, compact included.
LEMMA RemovalStep ==
    ASSUME WriterPart, BookFits, RemovalFits, CallNext, Writer
    PROVE  RemovalFits'
<1> SUFFICES ASSUME w'.op = "remove" PROVE after'[w'.id] = {}
  BY DEF RemovalFits
<1>1. WriterInv
  BY DEF WriterPart, BookInv, Inv
<1>2. CASE w.pc = "idle"
  <2>1. CallStarts /\ w'.id \in Ids
    BY <1>1, <1>2, StartStep DEF CallStarts
  <2>2. after' = [after EXCEPT ![w'.id] = {}]
    BY <2>1 DEF CallNext, Outcome
  <2>3. QED
    BY <2>1, <2>2 DEF BookFits
<1>3. CASE w.pc # "idle"
  <2>1. w'.op = w.op /\ w'.id = w.id
    BY <1>1, <1>3, GoOnStep DEF IdleWriter
  <2>2. after' = after
    BY <1>3 DEF CallNext, CallStarts
  <2>3. QED
    BY <2>1, <2>2 DEF RemovalFits
<1>4. QED
  BY <1>2, <1>3

\* The writer's part is preserved by its own steps,
LEMMA RegularWriterStep ==
    ASSUME WriterPart, RegularWriter, CallNext, Writer
    PROVE  RegularWriter'
<1>1. TrieFits'
  BY TrieStep DEF RegularWriter
<1>2. BookFits'
  BY RuleBookStep DEF RegularWriter
<1>3. LimitFits'
  <2>1. CASE w.pc # "compact"
    BY <2>1, LimitOn DEF RegularWriter
  <2>2. CASE w.pc = "compact"
    <3>1. Compact
      BY <2>2 DEF Writer, AddRule, ReplaceRule, RemoveRule, NewNumber, TooManyRules, MetaGrow,
         MetaSpan, MetaOrder, PublishId, LowerMinKey, Follow, LinkAbsent, AddNumber, Unlock,
         PublishVersion, Retire, BitGrow, BitSet, Forget
    <3>2. QED
      BY <3>1, LimitCompact DEF RegularWriter
  <2>3. QED
    BY <2>1, <2>2
<1>4. RemovalFits'
  BY RemovalStep DEF RegularWriter
<1>5. QED
  BY <1>1, <1>2, <1>3, <1>4 DEF RegularWriter

\* by those that leave it alone,
LEMMA RegularWriterSame ==
    ASSUME RegularWriter, UNCHANGED <<wvars, before, after>>
    PROVE  RegularWriter'
<1>1. UNCHANGED <<hasTab, table, nums, w, before, after>>
  BY DEF wvars
<1>2. TrieFits'
  BY <1>1 DEF RegularWriter, TrieFits, Number, Order, OrderIn, MetaAt, Body, AbsentKnown, Leads
<1>3. BookFits'
  <2>1. OthersFit'
    BY <1>1 DEF RegularWriter, BookFits, OthersFit, BodiesOf, Known
  <2>2. CallBook'
    BY <1>1 DEF RegularWriter, BookFits, CallBook, BodiesOf, Known, Inserted, Replacing, Number
  <2>3. QED
    BY <1>1, <2>1, <2>2 DEF RegularWriter, BookFits
<1>4. LimitFits'
  BY <1>1 DEF RegularWriter, LimitFits, Number, Replacing, Known, From
<1>5. RemovalFits'
  BY <1>1 DEF RegularWriter, RemovalFits
<1>6. QED
  BY <1>2, <1>3, <1>4, <1>5 DEF RegularWriter

\* and it holds initially.
LEMMA RegularWriterInit == CallInit => RegularWriter
<1>1. CallInit => RemovalFits
  BY DEF CallInit, Init, IdleWriter, RemovalFits
<1>2. QED
  BY <1>1, TrieInit, RuleBookInit, LimitInit DEF CallInit, RegularWriter

-----------------------------------------------------------------------------
(* The readers' part: a call that has loaded nothing yet.                  *)

\* The number that stands for an identifier that a call starting now must report:
\* between the store of the version and that of h.nums it is the new one.
Standing(id) == IF w.pc = "retire" /\ id = w.id THEN w.num ELSE nums[id]

\* A number that a call starting now would return has bodies of the rule book
\* before the writer's call, or after it.
LEMMA ShownBodies ==
    ASSUME WriterPart, RegularWriter, NEW n \in 0..Number - 1, Current(n), From(n) <= table.version
    PROVE  /\ table.ids[n + 1] \in Ids
           /\ \/ BodiesOf(table, n) \subseteq before[table.ids[n + 1]]
              \/ BodiesOf(table, n) \subseteq after[table.ids[n + 1]]
<1> DEFINE id == table.ids[n + 1]
<1>1. /\ Inv /\ WriterInv /\ NumbersFit /\ PlaceFits /\ table \in Tables /\ w \in Writers
      /\ Number \in Nat /\ table.version \in Nat /\ OthersFit /\ CallBook
  BY TableParts DEF WriterPart, BookInv, Inv, WriterInv, Number, RegularWriter, BookFits
<1>2. id \in Ids
  BY <1>1, TableParts DEF Number
<1>3. nums[id] = n \/ (Replacing /\ n = w.num)
  BY <1>1 DEF NumbersFit, Owned, Pending
<1> HIDE DEF id
<1>4. CASE nums[id] # n
  <2>1. Replacing /\ n = w.num /\ w.num < Number
    BY <1>1, <1>3, <1>4
  <2>2. id = w.id /\ From(n) = w.v
    BY <1>1, <2>1 DEF NumbersFit, CallFits, PlaceFits, id
  <2>3. w.pc = "retire"
    BY <1>1, <2>1, <2>2 DEF NumbersFit, CallFits, Writers
  <2>4. BodiesOf(table, n) = after[id]
    BY <1>1, <2>1, <2>2, <2>3 DEF CallBook
  <2>5. QED
    BY <1>2, <2>4 DEF id
<1>5. CASE nums[id] = n
  <2>1. Known(id)
    BY <1>1, <1>5 DEF Known, NoNumber
  <2>2. CASE w.pc = "idle" \/ id # w.id
    <3>1. BodiesOf(table, n) = before[id]
      BY <1>1, <1>2, <1>5, <2>1, <2>2 DEF OthersFit
    <3>2. QED
      BY <1>2, <3>1 DEF id
  <2>3. CASE w.pc # "idle" /\ id = w.id
    <3>1. CASE Replacing
      <4>1. n = w.old /\ BodiesOf(table, w.old) = before[id]
        BY <1>1, <1>5, <2>3, <3>1 DEF NumbersFit, CallFits, CallBook
      <4>2. QED
        BY <1>2, <4>1 DEF id
    <3>2. CASE w.pc \in Inside /\ w.old = NoNumber
      <4>1. /\ BodiesOf(table, n) = before[id] \cup Inserted
            /\ after[id] = before[id] \cup Elems(w.sets)
        BY <1>1, <1>5, <2>3, <3>2 DEF CallBook
      <4>2. Inserted \subseteq Elems(w.sets)
        <5>1. w.i - 1 \in Nat /\ w.i - 1 <= Len(w.sets) /\ Len(w.sets) \in Nat
          BY <1>1, <3>2, InsertedBody DEF WriterInv, WriterFits, Inside, Inserting
        <5>2. QED
          BY <5>1 DEF Inserted, Elems
      <4>3. QED
        BY <1>2, <4>1, <4>2 DEF id
    <3>3. CASE w.pc = "unlock"
      <4>1. BodiesOf(table, n) = after[id]
        BY <1>1, <1>5, <2>3, <3>3 DEF CallBook
      <4>2. QED
        BY <1>2, <4>1 DEF id
    <3>4. CASE w.pc \in {"bit", "forget"}
      <4>1. n = w.num /\ BodiesOf(table, w.num) = before[id]
        BY <1>1, <1>5, <2>3, <3>4 DEF NumbersFit, CallFits, CallBook
      <4>2. QED
        BY <1>2, <4>1 DEF id
    <3>5. CASE w.pc = "compact"
      <4>1. BodiesOf(table, n) = after[id]
        BY <1>1, <1>5, <2>1, <2>3, <3>5 DEF CallBook
      <4>2. QED
        BY <1>2, <4>1 DEF id
    <3>6. w.pc # "number"
      BY <1>1, <2>1, <2>3 DEF NumbersFit, CallFits
    <3>7. w.pc \in {"span", "order", "ids", "version", "retire"} => Replacing
      BY <1>1 DEF NumbersFit, CallFits, Replacing
    <3>8. w.pc \in Inside /\ w.old # NoNumber => Replacing
      BY DEF Inside, Replacing
    <3>9. QED
      BY <1>1, <2>3, <3>1, <3>2, <3>3, <3>4, <3>5, <3>6, <3>7, <3>8 DEF Writers, Inside
  <2>4. QED
    BY <2>2, <2>3
<1>6. QED
  BY <1>4, <1>5

\* An identifier that an event matches before the writer's call and after it has
\* one standing number with a body that the event makes true.
LEMMA StandingBodies ==
    ASSUME WriterPart, RegularWriter, NEW e, NEW id \in Ids,
           id \in Matching(before, e) \cap Matching(after, e)
    PROVE  /\ Known(id) /\ ~(w.pc \in {"bit", "forget"} /\ id = w.id)
           /\ \E b \in Bodies : b \in BodiesOf(table, Standing(id)) /\ Holds(b, e)
<1>1. /\ Inv /\ WriterInv /\ NumbersFit /\ w \in Writers /\ OthersFit /\ CallBook /\ TrieFits
      /\ before \in [Ids -> SUBSET Bodies] /\ after \in [Ids -> SUBSET Bodies]
  BY DEF WriterPart, BookInv, Inv, WriterInv, RegularWriter, BookFits
<1>2. PICK b1 \in before[id] : Holds(b1, e)
  BY DEF Matching
<1>3. PICK b2 \in after[id] : Holds(b2, e)
  BY DEF Matching
<1>4. b1 \in Bodies /\ b2 \in Bodies
  BY <1>1
<1>5. CASE w.pc = "idle" \/ id # w.id
  <2>1. Known(id) /\ before[id] = BodiesOf(table, nums[id])
    BY <1>1, <1>2, <1>5 DEF OthersFit
  <2>2. Standing(id) = nums[id]
    BY <1>5 DEF Standing
  <2>3. b1 \in BodiesOf(table, Standing(id))
    BY <2>1, <2>2
  <2>4. QED
    BY <1>2, <1>4, <1>5, <2>1, <2>3
<1>6. CASE w.pc # "idle" /\ id = w.id
  <2>1. w.pc \notin {"number", "bit", "forget"}
    BY <1>1, <1>2, <1>3, <1>6 DEF CallBook
  <2>2. CASE w.pc = "retire"
    <3>1. Replacing
      BY <1>1, <2>2 DEF NumbersFit, CallFits, Replacing
    <3>2. Known(id) /\ BodiesOf(table, Standing(id)) = after[id]
      BY <1>1, <1>6, <2>2, <3>1 DEF NumbersFit, CallFits, CallBook, Standing
    <3>3. QED
      BY <1>3, <1>4, <2>1, <3>2
  <2>3. CASE w.pc # "retire" /\ Replacing
    <3>1. Known(id) /\ BodiesOf(table, Standing(id)) = before[id]
      BY <1>1, <1>6, <2>3 DEF NumbersFit, CallFits, CallBook, Standing
    <3>2. QED
      BY <1>2, <1>4, <2>1, <3>1
  <2>4. CASE w.pc \in Inside /\ w.old = NoNumber
    <3>1. Known(id) /\ before[id] \subseteq BodiesOf(table, Standing(id))
      BY <1>1, <1>6, <2>4 DEF CallBook, Standing, Inside
    <3>2. QED
      BY <1>2, <1>4, <2>1, <3>1
  <2>5. CASE w.pc = "unlock"
    <3>1. Known(id) /\ BodiesOf(table, Standing(id)) = after[id]
      BY <1>1, <1>6, <2>5 DEF CallBook, Standing
    <3>2. QED
      BY <1>3, <1>4, <2>1, <3>1
  <2>6. CASE w.pc = "compact"
    <3>1. Known(id) /\ BodiesOf(table, Standing(id)) = after[id]
      BY <1>1, <1>3, <1>6, <2>6 DEF CallBook, Standing
    <3>2. QED
      BY <1>3, <1>4, <2>1, <3>1
  <2>7. w.pc \in {"span", "order", "ids", "version", "retire"} => Replacing
    BY <1>1 DEF NumbersFit, CallFits, Replacing
  <2>8. w.pc \in Inside /\ w.old # NoNumber => Replacing
    BY DEF Inside, Replacing
  <2>9. QED
    BY <1>1, <1>6, <2>1, <2>2, <2>3, <2>4, <2>5, <2>6, <2>7, <2>8 DEF Writers, Inside
<1>7. QED
  BY <1>5, <1>6

\* A call starting now would see that number.
LEMMA StandingShown ==
    ASSUME WriterPart, RegularWriter, NEW id \in Ids, Known(id),
           ~(w.pc = "forget" /\ id = w.id)
    PROVE  LET n == Standing(id)
           IN  /\ n \in 0..Number - 1 /\ table.ids[n + 1] = id
               /\ ~Dropped(n) /\ From(n) <= table.version
               /\ ~(Until(n) # 0 /\ Until(n) <= table.version)
<1>1. /\ Inv /\ WriterInv /\ NumbersFit /\ PlaceFits /\ w \in Writers /\ LimitFits
      /\ table \in Tables /\ Number \in Nat /\ table.version \in Nat
      /\ nums \in [Ids -> {NoNumber} \cup 0..Number - 1]
  BY TableParts DEF WriterPart, BookInv, Inv, WriterInv, RegularWriter, Number
<1>2. CASE w.pc = "retire" /\ id = w.id
  <2>1. Standing(id) = w.num /\ w.num \in 0..Number - 1
    BY <1>1, <1>2 DEF Standing, WriterInv, WriterFits
  <2>2. Replacing
    BY <1>1, <1>2 DEF NumbersFit, CallFits, Replacing
  <2>3. /\ table.ids[w.num + 1] = id /\ ~Dropped(w.num) /\ Until(w.num) = 0
        /\ w.v = table.version
    BY <1>1, <1>2, <2>1, <2>2 DEF NumbersFit, CallFits
  <2>4. From(w.num) = w.v
    BY <1>1, <2>1, <2>2 DEF PlaceFits
  <2>5. QED
    BY <1>1, <2>1, <2>3, <2>4
<1>3. CASE ~(w.pc = "retire" /\ id = w.id)
  <2>1. Standing(id) = nums[id] /\ nums[id] \in 0..Number - 1
    BY <1>1, <1>3 DEF Standing, Known
  <2>2. /\ table.ids[nums[id] + 1] = id
        /\ ~Dropped(nums[id])
    BY <1>1 DEF NumbersFit, Numbered
  <2>3. From(nums[id]) <= table.version
    BY <1>1 DEF LimitFits
  <2>4. ~(Until(nums[id]) # 0 /\ Until(nums[id]) <= table.version)
    <3> SUFFICES ASSUME Until(nums[id]) # 0 PROVE ~(Until(nums[id]) <= table.version)
      OBVIOUS
    <3>1. Ending /\ w.id = id /\ w.old # NoNumber
      BY <1>1 DEF NumbersFit, Numbered
    <3>2. Replacing /\ w.pc # "retire"
      BY <1>3, <3>1 DEF Ending, Replacing
    <3>3. w.old = nums[id] /\ w.v = table.version + 1 /\ Until(w.old) = w.v
      BY <1>1, <3>1, <3>2 DEF NumbersFit, CallFits
    <3>4. Until(nums[id]) = table.version + 1
      BY <3>3
    <3>5. QED
      BY <1>1, <3>4
  <2>5. QED
    BY <2>1, <2>2, <2>3, <2>4
<1>4. QED
  BY <1>2, <1>3

\* What a call has not loaded yet is what it would load from the current table.
Starts(r) == rd[r].pc = "version" /\ ~rd[r].stale
StartRegular == \A r \in Readers : Starts(r) /\ SeenBook(r) => MayFits(r) /\ MustFits(r)

\* What a call that has loaded nothing yet would see.
LEMMA StartSees ==
    ASSUME Inv, NEW r \in Readers, Starts(r), NEW n \in 0..Number - 1
    PROVE  /\ Tab(r) = table /\ SeenLimit(r) = Number
           /\ IdOf(r, n) = table.ids[n + 1] /\ SeenKey(r, n) = Order(table, n)
           /\ ~Hidden(r, n) <=> /\ ~Dropped(n) /\ From(n) <= table.version
                                /\ ~(Until(n) # 0 /\ Until(n) <= table.version)
<1>1. /\ Tab(r) = table /\ SeenVersion(r) = table.version /\ SeenLimit(r) = Number
      /\ SeenMeta(r) = Len(table.meta) /\ SeenRemoved(r) = Len(table.removed)
  BY DEF Starts, Tab, SeenVersion, SeenLimit, SeenMeta, SeenRemoved, Number
<1>2. From(n) \in Nat /\ table.version \in Nat
  <2>1. table \in Tables /\ Number \in Nat
    BY TableParts DEF Inv, WriterInv, Number
  <2>2. Len(table.meta) \in 0..Len(table.meta) /\ n \in Nat
    BY <2>1, TableParts
  <2>3. QED
    BY <2>1, <2>2, MetaType, TableParts DEF From, MetaWords
<1>3. Hidden(r, n) <=> \/ Dropped(n)
                       \/ From(n) > table.version
                       \/ Until(n) # 0 /\ Until(n) <= table.version
  BY <1>1 DEF Hidden, Dropped, From, Until
<1>4. QED
  BY <1>1, <1>2, <1>3 DEF IdOf, SeenKey, Order

\* A call that starts now finds what it must report, and nothing that it must not.
LEMMA StartFits == WriterPart /\ RegularWriter => StartRegular
<1> SUFFICES ASSUME WriterPart, RegularWriter, NEW r \in Readers, Starts(r), SeenBook(r)
             PROVE  MayFits(r) /\ MustFits(r)
  BY DEF StartRegular
<1> DEFINE e == rd[r].ev
<1>1. /\ Inv /\ PlaceFits /\ TrieFits /\ LimitFits /\ SeenTypes /\ table \in Tables
      /\ Number \in Nat /\ MaxRules \in Nat
  BY TableParts, ConstantsAssumption
     DEF WriterPart, BookInv, Inv, WriterInv, Number, RegularWriter
<1>2. Tab(r) = table /\ SeenLimit(r) = Number /\ rd[r].pc = "version"
  BY DEF Starts, Tab, SeenLimit, Number
<1>3. /\ Matching(before, e) \cup Matching(after, e) \subseteq seen[r].may
      /\ seen[r].must \subseteq Matching(before, e) \cap Matching(after, e)
  BY DEF SeenBook
<1> HIDE DEF e
<1>4. ASSUME NEW n \in 0..Number - 1, NEW p \in Paths, ~Hidden(r, n), n \in table.rules[p],
             Holds(p, e)
      PROVE  IdOf(r, n) \in seen[r].may
  <2>1. Current(n) /\ From(n) <= table.version /\ IdOf(r, n) = table.ids[n + 1]
    BY <1>1, <1>4, StartSees DEF Current
  <2>2. p \in BodiesOf(table, n)
    BY <1>4 DEF BodiesOf
  <2>3. /\ table.ids[n + 1] \in Ids
        /\ p \in before[table.ids[n + 1]] \/ p \in after[table.ids[n + 1]]
    BY <2>1, <2>2, ShownBodies
  <2>4. table.ids[n + 1] \in Matching(before, e) \cup Matching(after, e)
    BY <1>4, <2>3 DEF Matching
  <2>5. QED
    BY <1>3, <2>1, <2>4
<1>5. MayFits(r)
  BY <1>2, <1>4 DEF MayFits, e
<1>6. ASSUME NEW id \in seen[r].must
      PROVE  \E n \in 0..SeenLimit(r) - 1, b \in Bodies : IdOf(r, n) = id /\ Witnesses(r, n, b)
  <2> DEFINE n == Standing(id)
  <2>1. id \in Ids /\ id \in Matching(before, e) \cap Matching(after, e)
    BY <1>1, <1>3 DEF SeenTypes
  <2>2. PICK b \in Bodies : b \in BodiesOf(table, n) /\ Holds(b, e)
    BY <2>1, StandingBodies
  <2>3. /\ n \in 0..Number - 1 /\ table.ids[n + 1] = id
        /\ ~Dropped(n) /\ From(n) <= table.version
        /\ ~(Until(n) # 0 /\ Until(n) <= table.version)
    BY <2>1, StandingBodies, StandingShown
  <2> HIDE DEF n
  <2>4. ~Hidden(r, n) /\ IdOf(r, n) = id /\ SeenKey(r, n) = Order(table, n)
    BY <1>1, <2>3, StartSees
  <2>5. b \in Paths /\ n \in table.rules[b]
    BY <2>2 DEF BodiesOf
  <2>6. Leads(table, b, Order(table, n))
    BY <1>1, <2>5 DEF TrieFits
  <2>7. Order(table, n) < MaxRules
    <3>1. Order(table, n) <= n /\ Number <= MaxRules
      BY <1>1, <2>3 DEF PlaceFits, LimitFits
    <3>2. Order(table, n) \in Nat
      <4>1. Len(table.meta) \in 0..Len(table.meta) /\ n \in Nat
        BY <1>1, <2>3, TableParts
      <4>2. QED
        BY <1>1, <4>1, MetaType DEF Order
    <3>3. QED
      BY <1>1, <2>3, <3>1, <3>2
  <2>8. ASSUME NEW j \in 1..Len(b), b[j] \in AbsentConds PROVE SeenAbsent(r)
    <3>1. /\ Len(b) \in Nat /\ j \in 0..Len(b) /\ j \in 1..j
          /\ Len(SubSeq(b, 1, j)) = j /\ SubSeq(b, 1, j)[j] = b[j]
      BY <2>5, PathParts
    <3>2. SubSeq(b, 1, j) \in table.edges
      BY <2>6 DEF Leads
    <3>3. table.hasAbsent
      BY <1>1, <2>8, <3>1, <3>2 DEF TrieFits, AbsentKnown
    <3>4. QED
      BY <1>2, <3>3 DEF SeenAbsent
  <2>9. Witnesses(r, n, b)
    BY <1>2, <2>2, <2>4, <2>5, <2>6, <2>7, <2>8 DEF Witnesses, e
  <2>10. QED
    BY <1>2, <2>3, <2>4, <2>9
<1>7. QED
  BY <1>5, <1>6 DEF MustFits

-----------------------------------------------------------------------------
(* The readers' part: what seen tells of the rule book.                    *)

\* What a call may report never shrinks, and what it must never grows; both are
\* fixed when it has returned.
LEMMA BoundsMove ==
    ASSUME Inv, SeenTypes, CallNext, NEW r \in Readers, rd[r].pc # "idle", rd'[r].pc # "idle"
    PROVE  /\ seen[r].may \subseteq seen'[r].may /\ seen'[r].must \subseteq seen[r].must
           /\ seen[r].gone \subseteq seen'[r].gone
           /\ Done(r) => seen'[r].may = seen[r].may /\ seen'[r].must = seen[r].must
           /\ Reading(r) /\ CallStarts =>
                /\ seen'[r].may = seen[r].may \cup Matching(after', rd'[r].ev)
                /\ seen'[r].must = seen[r].must \cap Matching(after', rd'[r].ev)
                /\ seen'[r].gone = seen[r].gone \cup Gone
           /\ ~CallStarts => seen'[r] = seen[r]
<1>1. /\ seen'[r] = NextSeen(r)
      /\ seen[r] \in [may : SUBSET Ids, must : SUBSET Ids, gone : SUBSET Ids, calls : Nat]
  BY DEF CallNext, SeenTypes
<1>2. CASE rd[r].pc = "done" /\ CallStarts
  <2>1. seen'[r] = [seen[r] EXCEPT !.gone = @ \cup Gone, !.calls = @ + 1]
    BY <1>1, <1>2 DEF NextSeen, Reading
  <2>2. /\ seen'[r].may = seen[r].may /\ seen'[r].must = seen[r].must
        /\ seen'[r].gone = seen[r].gone \cup Gone
    BY <1>1, <2>1
  <2>3. QED
    BY <1>2, <2>2 DEF Done, Reading
<1>3. CASE rd[r].pc \notin {"idle", "done"} /\ CallStarts
  <2>1. seen'[r] = [may  |-> seen[r].may \cup Matching(after', rd'[r].ev),
                    must |-> seen[r].must \cap Matching(after', rd'[r].ev),
                    gone |-> seen[r].gone \cup Gone,
                    calls |-> seen[r].calls + 1]
    BY <1>1, <1>3 DEF NextSeen, Reading
  <2>2. QED
    BY <1>3, <2>1 DEF Done, Reading
<1>4. CASE ~CallStarts
  <2>1. seen'[r] = seen[r]
    BY <1>1, <1>4 DEF NextSeen, Reading
  <2>2. QED
    BY <1>4, <2>1
<1>5. QED
  BY <1>2, <1>3, <1>4

\* What a call may and must report follows the rule book, whatever calls of the
\* writer start and end meanwhile.
LEMMA SeenBookOn ==
    ASSUME Inv, SeenTypes, BookFits, CallNext, NEW r \in Readers, Reading(r),
           rd'[r].pc # "idle", rd'[r].ev = rd[r].ev, SeenBook(r)
    PROVE  SeenBook(r)'
<1> DEFINE e == rd[r].ev
<1>1. /\ rd[r].pc # "idle" /\ WriterInv
      /\ before \in [Ids -> SUBSET Bodies] /\ after \in [Ids -> SUBSET Bodies]
  BY DEF Reading, Inv, BookFits
<1>2. /\ Matching(before, e) \cup Matching(after, e) \subseteq seen[r].may
      /\ seen[r].must \subseteq Matching(before, e) \cap Matching(after, e)
      /\ seen[r].must \cap seen[r].gone = {}
  BY DEF SeenBook
<1> HIDE DEF e
<1>3. CASE CallStarts
  <2>1. /\ seen'[r].may = seen[r].may \cup Matching(after', e)
        /\ seen'[r].must = seen[r].must \cap Matching(after', e)
        /\ seen'[r].gone = seen[r].gone \cup Gone
    BY <1>1, <1>3, BoundsMove DEF e
  <2>2. before' = before
    BY <1>3 DEF CallNext, CallStarts, CallEnds
  <2>3. w'.op = "remove" => w'.id \notin Matching(after', e)
    <3> SUFFICES ASSUME w'.op = "remove" PROVE after'[w'.id] = {}
      BY DEF Matching
    <3>1. after' = [after EXCEPT ![w'.id] = {}]
      BY <1>3 DEF CallNext, Outcome
    <3>2. w'.id \in Ids
      BY <1>1, <1>3, Starting DEF CallNext
    <3>3. QED
      BY <1>1, <3>1, <3>2
  <2>4. seen'[r].must \cap seen'[r].gone = {}
    BY <1>2, <2>1, <2>3 DEF Gone
  <2>5. /\ Matching(before', e) \cup Matching(after', e) \subseteq seen'[r].may
        /\ seen'[r].must \subseteq Matching(before', e) \cap Matching(after', e)
    BY <1>2, <2>1, <2>2
  <2>6. QED
    BY <2>4, <2>5 DEF SeenBook, e
<1>4. CASE ~CallStarts
  <2>1. seen'[r] = seen[r] /\ after' = after /\ before' \in {before, after}
    BY <1>1, <1>4, BoundsMove DEF CallNext
  <2>2. /\ Matching(before', e) \cup Matching(after', e) \subseteq seen[r].may
        /\ seen[r].must \subseteq Matching(before', e) \cap Matching(after', e)
    BY <1>2, <2>1
  <2>3. QED
    BY <1>2, <2>1, <2>2 DEF SeenBook, e
<1>5. QED
  BY <1>3, <1>4

\* A call that starts may report what the rule book holds before the writer's call
\* or after it, and must report what it holds before and after.
LEMMA SeenBookBegins ==
    ASSUME RemovalFits, CallNext, UNCHANGED wvars, NEW r \in Readers,
           rd[r].pc = "idle", rd'[r].pc # "idle"
    PROVE  SeenBook(r)'
<1> DEFINE e == rd'[r].ev
<1>1. seen'[r] = [may  |-> Matching(before, e) \cup Matching(after, e),
                  must |-> Matching(before, e) \cap Matching(after, e),
                  gone |-> IF w.op = "remove" THEN {w.id} ELSE {},
                  calls |-> 0]
  BY DEF CallNext, NextSeen, Reading
<1>2. before' = before /\ after' = after
  BY DEF CallNext, CallStarts, CallEnds, wvars
<1> HIDE DEF e
<1>3. w.op = "remove" => w.id \notin Matching(after, e)
  BY DEF RemovalFits, Matching
<1>4. QED
  BY <1>1, <1>2, <1>3 DEF SeenBook, e

-----------------------------------------------------------------------------
(* The readers' part: steps of the writer during a call.                   *)

\* What a call holds, but for whether its table is still the current one.
Holding(r) ==
    LET s == rd[r]
    IN  <<s.pc, s.ev, s.first, s.version, s.limit, s.meta, s.removed, s.absent,
          s.todo, s.cand, s.out, s.kept, s.best, s.bestKey, s.result>>

\* The key that a call sees is a number.
LEMMA SeenKeyType ==
    ASSUME Inv, NEW r \in Readers, NEW n \in Nat
    PROVE  SeenKey(r, n) \in Nat
  BY SeenBounds, MetaType DEF SeenKey

\* What a call has found lies below the limit that it has loaded.
LEMMA FoundBelow ==
    ASSUME Inv, NEW r \in Readers, LoadFits(r), OnTheWay(r), Reading(r)
    PROVE  /\ \A n \in rd[r].kept : n \in 0..SeenLimit(r) - 1
           /\ rd[r].best # NoNumber => rd[r].best \in 0..SeenLimit(r) - 1
<1>1. /\ rd[r] \in Scratches /\ Within(rd[r], Tab(r))
  BY ReaderParts DEF Inv, WriterInv
<1>2. CASE rd[r].pc = "visit"
  <2>1. SeenLimit(r) = rd[r].limit
    BY <1>2 DEF SeenLimit
  <2>2. /\ rd[r].kept \in SUBSET Nat /\ rd[r].best \in Nat \cup {NoNumber} /\ rd[r].limit \in Nat
        /\ \A n \in rd[r].kept : n < rd[r].limit
        /\ rd[r].best < rd[r].limit
    BY <1>1 DEF Scratches, Within
  <2>3. QED
    BY <2>1, <2>2
<1>3. CASE rd[r].pc # "visit"
  BY <1>3 DEF LoadFits, OnTheWay
<1>4. QED
  BY <1>2, <1>3

\* If a step hides no number of an identifier that the call must report, shows none
\* of one that it must not, and takes nothing away that leads to a rule, the call
\* goes on as before.
LEMMA RegularKept ==
    ASSUME Inv, NEW r \in Readers, Reading(r), LoadFits(r), MayFits(r), MustFits(r), OnTheWay(r),
           Holding(r)' = Holding(r),
           seen[r].may \subseteq seen'[r].may, seen'[r].must \subseteq seen[r].must,
           seen[r].gone \subseteq seen'[r].gone, seen'[r].must \cap seen'[r].gone = {},
           SeenLimit(r)' \in Nat, SeenLimit(r) <= SeenLimit(r)',
           \A n \in 0..SeenLimit(r) - 1 :
              /\ IdOf(r, n)' = IdOf(r, n) /\ SeenKey(r, n)' = SeenKey(r, n)
              /\ Hidden(r, n) => Hidden(r, n)'
              /\ Hidden(r, n)' => Hidden(r, n) \/ IdOf(r, n) \in seen'[r].gone,
           \A p \in Paths : Tab(r).rules[p] \subseteq Tab(r)'.rules[p],
           Tab(r).hasAbsent => Tab(r)'.hasAbsent,
           \A b \in Paths, key \in Nat : Leads(Tab(r), b, key) => Leads(Tab(r)', b, key),
           \A n \in 0..SeenLimit(r)' - 1, p \in Paths :
              ~Hidden(r, n)' /\ n \in Tab(r)'.rules[p] /\ Holds(p, rd[r].ev) =>
                  \/ IdOf(r, n)' \in seen'[r].may
                  \/ n \in 0..SeenLimit(r) - 1 /\ n \in Tab(r).rules[p]
    PROVE  MayFits(r)' /\ MustFits(r)' /\ OnTheWay(r)'
<1>1. /\ rd'[r].pc = rd[r].pc /\ rd'[r].ev = rd[r].ev /\ rd'[r].first = rd[r].first
      /\ rd'[r].absent = rd[r].absent /\ rd'[r].todo = rd[r].todo /\ rd'[r].cand = rd[r].cand
      /\ rd'[r].out = rd[r].out /\ rd'[r].kept = rd[r].kept /\ rd'[r].best = rd[r].best
      /\ rd'[r].bestKey = rd[r].bestKey
  BY DEF Holding
<1>2. SeenLimit(r) \in Nat /\ \A n \in 0..SeenLimit(r) - 1 : n \in 0..SeenLimit(r)' - 1
  BY SeenBounds
<1>3. SeenAbsent(r) => SeenAbsent(r)'
  BY <1>1 DEF SeenAbsent
<1>4. MayFits(r)'
  <2> SUFFICES ASSUME NEW n \in 0..SeenLimit(r)' - 1, NEW p \in Paths,
                      ~Hidden(r, n)', n \in Tab(r)'.rules[p], Holds(p, rd[r].ev)
               PROVE  IdOf(r, n)' \in seen'[r].may
    BY <1>1 DEF MayFits
  <2>1. CASE n \in 0..SeenLimit(r) - 1 /\ n \in Tab(r).rules[p]
    <3>1. ~Hidden(r, n) /\ IdOf(r, n)' = IdOf(r, n)
      BY <2>1
    <3>2. QED
      BY <2>1, <3>1 DEF MayFits
  <2>2. QED
    BY <2>1
<1>5. MustFits(r)'
  <2> SUFFICES ASSUME NEW id \in seen'[r].must
               PROVE  \E n \in 0..SeenLimit(r)' - 1, b \in Bodies :
                         IdOf(r, n)' = id /\ Witnesses(r, n, b)'
    BY DEF MustFits
  <2>1. PICK n \in 0..SeenLimit(r) - 1, b \in Bodies : IdOf(r, n) = id /\ Witnesses(r, n, b)
    BY DEF MustFits
  <2>2. /\ n \in Nat /\ b \in Paths /\ SeenKey(r, n) \in Nat
    BY <1>2, BodyPath, SeenKeyType
  <2>3. /\ IdOf(r, n)' = id /\ SeenKey(r, n)' = SeenKey(r, n) /\ ~Hidden(r, n)'
    BY <2>1 DEF Witnesses
  <2>4. /\ n \in Tab(r)'.rules[b] /\ Holds(b, rd'[r].ev)
        /\ Leads(Tab(r)', b, SeenKey(r, n)') /\ SeenKey(r, n)' < MaxRules
        /\ \A j \in 1..Len(b) : b[j] \in AbsentConds => SeenAbsent(r)'
    BY <1>1, <1>3, <2>1, <2>2, <2>3 DEF Witnesses
  <2>5. rd'[r].pc = "visit" => Ahead(r, n, b)'
    BY <1>1, <2>1, <2>3 DEF Witnesses, Ahead
  <2>6. Witnesses(r, n, b)'
    BY <2>3, <2>4, <2>5 DEF Witnesses
  <2>7. QED
    BY <1>2, <2>1, <2>3, <2>6
<1>6. OnTheWay(r)'
  <2>1. \A p \in rd'[r].todo : Holds(p, rd'[r].ev)
    BY <1>1 DEF OnTheWay
  <2>2. \A n \in rd'[r].out \cup rd'[r].cand :
           \E p \in Paths : n \in Tab(r)'.rules[p] /\ Holds(p, rd'[r].ev)
    BY <1>1 DEF OnTheWay
  <2>3. \A n \in rd'[r].kept : IdOf(r, n)' \in seen'[r].may
    BY <1>1, FoundBelow DEF OnTheWay
  <2>4. ASSUME NEW n, n = rd'[r].best, n # NoNumber
        PROVE  /\ IdOf(r, n)' \in seen'[r].may
               /\ rd'[r].bestKey = SeenKey(r, n)'
               /\ IdOf(r, n)' \in seen'[r].gone \/ ~Hidden(r, n)'
    <3>1. n \in 0..SeenLimit(r) - 1
      BY <1>1, <2>4, FoundBelow
    <3>2. /\ IdOf(r, n) \in seen[r].may /\ rd[r].bestKey = SeenKey(r, n)
          /\ IdOf(r, n) \in seen[r].gone \/ ~Hidden(r, n)
      BY <1>1, <2>4 DEF OnTheWay
    <3>3. /\ IdOf(r, n)' = IdOf(r, n) /\ SeenKey(r, n)' = SeenKey(r, n)
          /\ Hidden(r, n)' => Hidden(r, n) \/ IdOf(r, n) \in seen'[r].gone
      BY <3>1
    <3>4. QED
      BY <1>1, <3>2, <3>3
  <2>5. rd'[r].pc # "visit" => rd'[r].out = {} /\ rd'[r].cand = {} /\ rd'[r].best = NoNumber
    BY <1>1 DEF OnTheWay
  <2>6. QED
    BY <2>1, <2>2, <2>3, <2>4, <2>5 DEF OnTheWay
<1>7. QED
  BY <1>4, <1>5, <1>6

\* Only the bit of a removal hides a number that a call sees, and the call knows
\* of the removal.
LEMMA HiddenStep ==
    ASSUME WriterPart, Writer, w.pc # "compact", NEW r \in Readers, LoadFits(r),
           Reading(r), ~rd[r].stale, rd[r].pc # "version", NEW n \in 0..Number - 1,
           Hidden(r, n)', ~Hidden(r, n)
    PROVE  IdOf(r, n) \in seen[r].gone
<1>1. /\ Inv /\ KeyFits /\ PlaceFits /\ GoneFits /\ WriterInv /\ ReaderInv /\ NumbersFit
      /\ table \in Tables /\ Number \in Nat /\ rd[r] \in Scratches /\ table.version \in Nat
  BY TableParts DEF WriterPart, BookInv, Inv, WriterInv, ReaderInv, Number
<1>2. rd' = rd /\ Tab(r) = table /\ Tab(r)' = table'
  BY <1>1, WriterLeavesReaders DEF Tab
<1>4. /\ WordsEvolve /\ BitsEvolve /\ Inv'
  BY <1>1, EvolveStep, InvWriter DEF Evolves
<1> DEFINE a == SeenMeta(r)
           b == SeenMeta(r)'
           c == SeenRemoved(r)
           d == SeenRemoved(r)'
<1>5. a \in 0..Len(table.meta) /\ c \in 0..Len(table.removed)
  BY <1>1, <1>2, SeenBounds
<1>6. /\ a = b \/ (a = Len(table.meta) /\ b = Len(table.meta)')
      /\ c = d \/ (c = Len(table.removed) /\ d = Len(table.removed)')
  BY <1>2 DEF SeenMeta, SeenRemoved
<1>7. b \in 0..Len(table.meta)' /\ d \in 0..Len(table.removed)'
  <2>1. /\ rd'[r] \in Scratches /\ Within(rd'[r], Tab(r)')
        /\ table' \in Tables
    <3>1. ReaderInv' /\ table' \in Tables
      BY <1>4 DEF Inv, WriterInv
    <3>2. QED
      BY <3>1 DEF ReaderInv, ReadersInBounds, Within
  <2>2. /\ rd'[r].meta \in Nat /\ rd'[r].removed \in Nat
        /\ rd'[r].meta <= Len(table'.meta) /\ rd'[r].removed <= Len(table'.removed)
    BY <1>2, <2>1 DEF Scratches, Within
  <2>3. Len(table'.meta) \in Nat /\ Len(table'.removed) \in Nat
    BY <2>1, TableParts
  <2>4. QED
    BY <1>2, <2>2, <2>3 DEF SeenMeta, SeenRemoved
<1>8. SeenVersion(r)' = SeenVersion(r) /\ SeenVersion(r) \in Nat /\ SeenVersion(r) <= table.version
  BY <1>1, <1>2 DEF SeenVersion, LoadFits, Scratches
<1> HIDE DEF a, b, c, d
<1>9. /\ MetaAt(table', b, n).from = MetaAt(table, a, n).from
      /\ \/ MetaAt(table', b, n).until = MetaAt(table, a, n).until
         \/ MetaAt(table', b, n).until = table.version + 1
  BY <1>4, <1>5, <1>6, <1>7 DEF WordsEvolve
<1>10. BitsHas(table', d, n) => BitsHas(table, c, n) \/ (w.pc = "bit" /\ n = w.num)
  BY <1>4, <1>5, <1>6, <1>7 DEF BitsEvolve
<1>11. BitsHas(table', d, n) /\ ~BitsHas(table, c, n)
  <2>1. \/ BitsHas(table', d, n)
        \/ MetaAt(table', b, n).from > SeenVersion(r)
        \/ MetaAt(table', b, n).until # 0 /\ MetaAt(table', b, n).until <= SeenVersion(r)
    BY <1>2, <1>8 DEF Hidden, b, d
  <2>2. /\ ~BitsHas(table, c, n)
        /\ ~(MetaAt(table, a, n).from > SeenVersion(r))
        /\ ~(MetaAt(table, a, n).until # 0 /\ MetaAt(table, a, n).until <= SeenVersion(r))
    BY <1>2 DEF Hidden, a, c
  <2>3. ~(table.version + 1 <= SeenVersion(r))
    BY <1>1, <1>8
  <2>4. QED
    BY <1>9, <2>1, <2>2, <2>3
<1>12. w.pc = "bit" /\ n = w.num
  BY <1>10, <1>11
<1>13. w.id \in Ids /\ Known(w.id) /\ w.num = nums[w.id] /\ table.ids[w.num + 1] = w.id
  BY <1>1, <1>12 DEF NumbersFit, CallFits, Numbered, WriterInv, WriterFits
<1>14. w.id \in seen[r].gone
  BY <1>1, <1>12 DEF GoneFits, Reading
<1>15. QED
  BY <1>2, <1>12, <1>13, <1>14 DEF IdOf

\* The rule that a step adds is of an identifier that calls in progress may report.
LEMMA NewRule ==
    ASSUME WriterPart, RegularWriter, Writer, w.pc # "compact", NEW n \in Nat, n <= Number,
           NEW p \in Paths, n \in table'.rules[p], n \notin table.rules[p]
    PROVE  n < Number /\ table.ids[n + 1] = w.id /\ w.id \in Ids /\ p \in after[w.id]
<1>1. /\ Inv /\ WriterInv /\ NumbersFit /\ w \in Writers /\ Number \in Nat
      /\ TrieFits /\ CallBook
  BY TableParts DEF WriterPart, BookInv, Inv, WriterInv, Number, RegularWriter, BookFits
<1>2. p \in BodiesOf(table', n) /\ p \notin BodiesOf(table, n)
  BY DEF BodiesOf
<1>3. w.pc = "rule" /\ n = w.num /\ p = Body
  BY <1>1, <1>2, BodiesStep
<1>4. w.num \in 0..Number - 1 /\ w.id \in Ids /\ w.i \in 1..Len(w.sets)
  BY <1>1, <1>3 DEF WriterInv, WriterFits, Inserting
<1>5. Body \in Elems(w.sets)
  BY <1>4 DEF Body, Elems
<1>6. CASE w.old = NoNumber
  <2>1. Known(w.id) /\ nums[w.id] = w.num /\ after[w.id] = before[w.id] \cup Elems(w.sets)
    BY <1>1, <1>3, <1>6 DEF CallBook, Inside
  <2>2. table.ids[w.num + 1] = w.id
    BY <1>1, <1>4, <2>1 DEF NumbersFit, Numbered
  <2>3. QED
    BY <1>1, <1>3, <1>4, <1>5, <2>1, <2>2
<1>7. CASE w.old # NoNumber
  <2>1. Replacing
    BY <1>3, <1>7 DEF Replacing
  <2>2. after[w.id] = Elems(w.sets) /\ table.ids[w.num + 1] = w.id
    BY <1>1, <1>4, <2>1 DEF CallBook, NumbersFit, CallFits
  <2>3. QED
    BY <1>1, <1>3, <1>4, <1>5, <2>2
<1>8. QED
  BY <1>6, <1>7

\* A call that reads the current table and has loaded its version goes on as
\* before.
LEMMA SteadyRegular ==
    ASSUME WriterPart, RegularWriter, CallNext, Writer, w.pc # "compact", NEW r \in Readers,
           Reading(r), ~rd[r].stale, rd[r].pc # "version", LoadFits(r),
           SeenBook(r), SeenBook(r)', MayFits(r), MustFits(r), OnTheWay(r)
    PROVE  MayFits(r)' /\ MustFits(r)' /\ OnTheWay(r)'
<1>1. /\ Inv /\ Inv' /\ KeyFits /\ PlaceFits /\ SeenTypes /\ WriterInv /\ ReaderInv
      /\ table \in Tables /\ table' \in Tables /\ Number \in Nat /\ rd[r].pc # "idle"
      /\ TrieFits /\ after \in [Ids -> SUBSET Bodies]
  <2>1. Inv /\ KeyFits /\ PlaceFits /\ SeenTypes /\ WriterInv /\ ReaderInv /\ table \in Tables
        /\ Number \in Nat
    BY TableParts DEF WriterPart, BookInv, Inv, WriterInv, Number
  <2>2. Inv' /\ table' \in Tables
    BY <2>1, InvWriter DEF Inv, WriterInv
  <2>3. QED
    BY <2>1, <2>2 DEF Reading, RegularWriter, BookFits
<1>2. rd' = rd /\ Tab(r) = table /\ Tab(r)' = table'
  BY <1>1, WriterLeavesReaders DEF Tab
<1>3. Holding(r)' = Holding(r) /\ rd'[r].pc # "idle"
  BY <1>1, <1>2 DEF Holding
<1>4. /\ seen[r].may \subseteq seen'[r].may /\ seen'[r].must \subseteq seen[r].must
      /\ seen[r].gone \subseteq seen'[r].gone /\ seen'[r].must \cap seen'[r].gone = {}
  BY <1>1, <1>3, BoundsMove DEF SeenBook
<1>5. /\ Number' \in {Number, Number + 1}
      /\ table'.ids = table.ids \/ table'.ids = Append(table.ids, w.id)
  BY <1>1, IdsStep, TableParts DEF Number
<1>6. SeenLimit(r) \in 0..Number
  BY <1>1, <1>2, SeenBounds DEF Number
<1>7. \/ SeenLimit(r)' = SeenLimit(r)
      \/ rd[r].pc = "ids" /\ SeenLimit(r) = Number /\ SeenLimit(r)' = Number'
  BY <1>2 DEF SeenLimit, Number
<1>8. SeenLimit(r)' \in Nat /\ SeenLimit(r) <= SeenLimit(r)' /\ SeenLimit(r)' <= Number + 1
  BY <1>1, <1>5, <1>6, <1>7
<1>9. ASSUME NEW n \in 0..SeenLimit(r) - 1
      PROVE  /\ IdOf(r, n)' = IdOf(r, n) /\ SeenKey(r, n)' = SeenKey(r, n)
             /\ Hidden(r, n) => Hidden(r, n)'
             /\ Hidden(r, n)' => Hidden(r, n) \/ IdOf(r, n) \in seen'[r].gone
  <2>1. n \in 0..Number - 1
    BY <1>1, <1>6
  <2>2. QED
    BY <1>1, <1>4, <2>1, SteadyNumbers, HiddenStep
<1>10. Grows(table, table')
  BY <1>1, TrieStep
<1>11. \A b \in Paths, key \in Nat : Leads(table, b, key) => Leads(table', b, key)
  BY <1>1, <1>10, LeadsOn
<1>12. ASSUME NEW n \in 0..SeenLimit(r)' - 1, NEW p \in Paths,
              n \in table'.rules[p], Holds(p, rd[r].ev)
       PROVE  \/ IdOf(r, n)' \in seen'[r].may
              \/ n \in 0..SeenLimit(r) - 1 /\ n \in table.rules[p]
  <2>1. n \in Nat /\ n <= Number
    BY <1>1, <1>8
  <2>2. CASE n \notin table.rules[p]
    <3>1. n < Number /\ table.ids[n + 1] = w.id /\ w.id \in Ids /\ p \in after[w.id]
      BY <1>12, <2>1, <2>2, NewRule
    <3>2. w.id \in Matching(after, rd[r].ev)
      BY <1>12, <3>1 DEF Matching
    <3>3. w.id \in seen'[r].may
      BY <1>4, <3>2 DEF SeenBook
    <3>4. IdOf(r, n)' = table.ids[n + 1]
      <4>1. table'.ids[n + 1] = table.ids[n + 1]
        <5>1. table.ids \in Seq(Ids) /\ n + 1 \in 1..Len(table.ids)
          BY <1>1, <2>1, <3>1, TableParts DEF Number
        <5>2. QED
          BY <1>5, <3>1, <5>1
      <4>2. QED
        BY <1>2, <4>1 DEF IdOf
    <3>5. QED
      BY <3>1, <3>3, <3>4
  <2>3. CASE n \in table.rules[p]
    <3>1. n < Number
      BY <1>1, <2>3 DEF TrieFits
    <3>2. n < SeenLimit(r)
      BY <1>1, <1>6, <1>7, <1>12, <2>1, <3>1
    <3>3. QED
      BY <1>6, <2>1, <2>3, <3>2
  <2>4. QED
    BY <2>2, <2>3
<1>13. /\ \A p \in Paths : Tab(r).rules[p] \subseteq Tab(r)'.rules[p]
       /\ Tab(r).hasAbsent => Tab(r)'.hasAbsent
       /\ \A b \in Paths, key \in Nat : Leads(Tab(r), b, key) => Leads(Tab(r)', b, key)
  BY <1>2, <1>10, <1>11 DEF Grows
<1>14. \A n \in 0..SeenLimit(r)' - 1, p \in Paths :
          ~Hidden(r, n)' /\ n \in Tab(r)'.rules[p] /\ Holds(p, rd[r].ev) =>
              \/ IdOf(r, n)' \in seen'[r].may
              \/ n \in 0..SeenLimit(r) - 1 /\ n \in Tab(r).rules[p]
  BY <1>2, <1>12
<1>15. QED
  BY <1>1, <1>3, <1>4, <1>8, <1>9, <1>13, <1>14, RegularKept

\* So does a call that reads a table which compact has replaced, or is replacing.
LEMMA SameRegular ==
    ASSUME WriterPart, CallNext, NEW r \in Readers, Reading(r), LoadFits(r),
           SeenBook(r)', MayFits(r), MustFits(r), OnTheWay(r),
           Holding(r)' = Holding(r), Tab(r)' = Tab(r)
    PROVE  MayFits(r)' /\ MustFits(r)' /\ OnTheWay(r)'
<1>1. Inv /\ SeenTypes /\ rd[r].pc # "idle" /\ rd'[r].pc = rd[r].pc
  BY DEF WriterPart, BookInv, Reading, Holding
<1>2. /\ seen[r].may \subseteq seen'[r].may /\ seen'[r].must \subseteq seen[r].must
      /\ seen[r].gone \subseteq seen'[r].gone /\ seen'[r].must \cap seen'[r].gone = {}
  BY <1>1, BoundsMove DEF SeenBook
<1>3. /\ SeenLimit(r)' = SeenLimit(r) /\ SeenMeta(r)' = SeenMeta(r)
      /\ SeenRemoved(r)' = SeenRemoved(r) /\ SeenVersion(r)' = SeenVersion(r)
  BY DEF SeenLimit, SeenMeta, SeenRemoved, SeenVersion, Holding
<1>4. \A n : /\ IdOf(r, n)' = IdOf(r, n) /\ SeenKey(r, n)' = SeenKey(r, n)
             /\ Hidden(r, n)' <=> Hidden(r, n)
  BY <1>3 DEF IdOf, SeenKey, Hidden
<1>5. SeenLimit(r)' \in Nat /\ SeenLimit(r) <= SeenLimit(r)'
  BY <1>1, <1>3, SeenBounds
<1>6. /\ \A p \in Paths : Tab(r).rules[p] \subseteq Tab(r)'.rules[p]
      /\ Tab(r).hasAbsent => Tab(r)'.hasAbsent
      /\ \A b \in Paths, key \in Nat : Leads(Tab(r), b, key) => Leads(Tab(r)', b, key)
  OBVIOUS
<1>7. \A n \in 0..SeenLimit(r)' - 1, p \in Paths :
         ~Hidden(r, n)' /\ n \in Tab(r)'.rules[p] /\ Holds(p, rd[r].ev) =>
             \/ IdOf(r, n)' \in seen'[r].may
             \/ n \in 0..SeenLimit(r) - 1 /\ n \in Tab(r).rules[p]
  BY <1>3
<1>8. QED
  BY <1>1, <1>2, <1>4, <1>5, <1>6, <1>7, RegularKept

\* What a call has returned stays right: whoever is added meanwhile comes last.
LEMMA ReturnedRegular ==
    ASSUME WriterPart, CallNext, NEW r \in Readers, Done(r), ReturnFits(r),
           rd'[r].pc = "done", rd'[r].result = rd[r].result, rd'[r].first = rd[r].first,
           rd[r].result \in Seq(Ids),
           \A id \in Ids : Known(id) /\ id \notin seen'[r].gone => nums'[id] # NoNumber
    PROVE  ReturnFits(r)'
<1>1. Inv /\ WriterInv /\ SeenTypes /\ Next /\ rd[r].pc = "done"
  BY DEF WriterPart, BookInv, Inv, CallNext, Done
<1>2. /\ seen'[r].may = seen[r].may /\ seen'[r].must = seen[r].must
      /\ seen[r].gone \subseteq seen'[r].gone
  BY <1>1, BoundsMove
<1>3. Elems(Result(r))' = Elems(Result(r)) /\ Result(r)' = Result(r)
  BY DEF Elems, Result
<1>4. Elems(Result(r)) \subseteq Ids
  BY DEF Elems, Result
<1>5. ASSUME NEW f \in Ids, NEW id \in seen[r].must, Known(f), f = id \/ Earlier(f, id)
      PROVE  f = id \/ Earlier(f, id)'
  <2>1. CASE added' = added
    BY <1>5, <2>1 DEF Earlier
  <2>2. CASE added' # added
    <3>1. CallStarts /\ w'.pc = "number" /\ added' = AddedLast(w'.id)
      BY <2>2 DEF CallNext
    <3>2. ~Known(w'.id) /\ w'.id \in Ids
      BY <1>1, <3>1, Starting
    <3>3. f # w'.id
      BY <1>5, <3>2
    <3>4. CASE id = w'.id
      BY <3>1, <3>3, <3>4 DEF AddedLast, Earlier
    <3>5. CASE id # w'.id
      BY <1>5, <3>1, <3>3, <3>5 DEF AddedLast, Earlier
    <3>6. QED
      BY <3>4, <3>5
  <2>3. QED
    BY <2>1, <2>2
<1>6. ASSUME rd[r].first, NEW f \in Elems(Result(r)) \ seen'[r].gone
      PROVE  nums'[f] # NoNumber /\ \A id \in seen'[r].must : f = id \/ Earlier(f, id)'
  <2>1. f \in Ids /\ f \in Elems(Result(r)) \ seen[r].gone
    BY <1>2, <1>4, <1>6
  <2>2. Known(f) /\ \A id \in seen[r].must : f = id \/ Earlier(f, id)
    BY <1>6, <2>1 DEF ReturnFits
  <2>3. QED
    BY <1>2, <1>5, <1>6, <2>1, <2>2
<1>7. QED
  BY <1>2, <1>3, <1>6 DEF ReturnFits, Known

\* The readers' part is preserved by the writer.
LEMMA RegularOfWriter ==
    ASSUME WriterPart, WriterPart', RegularWriter, StartRegular', CallNext, Writer,
           NEW r \in Readers, ReaderPart(r), RegularReader(r)
    PROVE  RegularReader(r)'
<1>1. /\ Inv /\ GoneFits /\ SeenTypes /\ WriterInv /\ ReaderInv /\ BookFits
      /\ rd[r] \in Scratches /\ ScratchFits(rd[r])
  BY ReaderParts DEF WriterPart, BookInv, Inv, WriterInv, RegularWriter
<1>2. /\ \/ ~Compact /\ w.pc # "compact" /\ rd' = rd /\ old' = old
         \/ /\ Compact /\ rd'[r] = [rd[r] EXCEPT !.stale = @ \/ Reading(r)]
            /\ old'[r] = IF Reading(r) /\ ~rd[r].stale THEN table ELSE old[r]
  <2>1. CASE Compact
    <3>1. /\ old' = [q \in Readers |-> IF Reading(q) /\ ~rd[q].stale THEN table ELSE old[q]]
          /\ rd' = [q \in Readers |-> [rd[q] EXCEPT !.stale = @ \/ Reading(q)]]
      BY <2>1 DEF Compact
    <3>2. QED
      BY <2>1, <3>1
  <2>2. CASE ~Compact
    <3>1. w.pc # "compact"
      BY <2>2 DEF Writer, AddRule, ReplaceRule, RemoveRule, NewNumber, TooManyRules,
         MetaGrow, MetaSpan, MetaOrder, PublishId, LowerMinKey, Follow, LinkAbsent,
         AddNumber, Unlock, PublishVersion, Retire, BitGrow, BitSet, Forget
    <3>2. QED
      BY <1>1, <2>2, <3>1, WriterLeavesReaders
  <2>3. QED
    BY <2>1, <2>2
<1>3. /\ Holding(r)' = Holding(r) /\ rd'[r].pc = rd[r].pc /\ rd'[r].ev = rd[r].ev
      /\ rd'[r].result = rd[r].result /\ rd'[r].first = rd[r].first
  <2>1. CASE rd' = rd
    BY <2>1 DEF Holding
  <2>2. CASE rd'[r] = [rd[r] EXCEPT !.stale = @ \/ Reading(r)]
    BY <1>1, <2>2 DEF Holding, Scratches
  <2>3. QED
    BY <1>2, <2>1, <2>2
<1>4. Reading(r)' <=> Reading(r)
  BY <1>3 DEF Reading
<1>5. ASSUME Reading(r) PROVE SeenBook(r)' /\ MayFits(r)' /\ MustFits(r)' /\ OnTheWay(r)'
  <2>1. SeenBook(r) /\ MayFits(r) /\ MustFits(r) /\ OnTheWay(r) /\ LoadFits(r)
    BY <1>5 DEF RegularReader, ReaderPart
  <2>2. SeenBook(r)'
    BY <1>1, <1>3, <1>5, <2>1, SeenBookOn DEF Reading
  <2>3. CASE Compact \/ rd[r].stale
    <3>1. Tab(r)' = Tab(r)
      <4>1. CASE Compact
        <5>1. rd'[r].stale
          BY <1>1, <1>2, <1>5, <4>1 DEF Scratches
        <5>2. QED
          BY <1>2, <1>5, <4>1, <5>1 DEF Tab
      <4>2. CASE ~Compact
        BY <1>2, <2>3, <4>2 DEF Tab
      <4>3. QED
        BY <4>1, <4>2
    <3>2. QED
      BY <1>3, <1>5, <2>1, <2>2, <3>1, SameRegular
  <2>4. CASE ~Compact /\ ~rd[r].stale /\ rd[r].pc # "version"
    BY <1>2, <1>5, <2>1, <2>2, <2>4, SteadyRegular
  <2>5. CASE ~Compact /\ ~rd[r].stale /\ rd[r].pc = "version"
    <3>1. rd' = rd
      BY <1>2, <2>5
    <3>2. Starts(r)'
      BY <2>5, <3>1 DEF Starts
    <3>3. MayFits(r)' /\ MustFits(r)'
      BY <2>2, <3>2 DEF StartRegular
    <3>4. OnTheWay(r)'
      <4>1. rd'[r].out = {} /\ rd'[r].cand = {} /\ rd'[r].best = NoNumber /\ rd'[r].kept = {}
        BY <2>1, <2>5, <3>1 DEF OnTheWay, LoadFits
      <4>2. \A p \in rd'[r].todo : Holds(p, rd'[r].ev)
        BY <2>1, <3>1 DEF OnTheWay
      <4>3. QED
        BY <4>1, <4>2 DEF OnTheWay
    <3>5. QED
      BY <2>2, <3>3, <3>4
  <2>6. QED
    BY <2>3, <2>4, <2>5
<1>6. ASSUME Done(r)' PROVE ReturnFits(r)'
  <2>1. Done(r) /\ rd'[r].pc = "done" /\ ReturnFits(r) /\ rd[r].result \in Seq(Ids)
    BY <1>1, <1>3, <1>6 DEF Done, RegularReader, Scratches
  <2>2. \A id \in Ids : Known(id) /\ id \notin seen'[r].gone => nums'[id] # NoNumber
    BY <1>1, <2>1, KnownOrGone DEF Known, Done
  <2>3. QED
    BY <1>3, <2>1, <2>2, ReturnedRegular
<1>7. QED
  BY <1>4, <1>5, <1>6 DEF RegularReader

-----------------------------------------------------------------------------
(* The readers' part: steps of the readers.                                *)

\* A reader that takes no step.
LEMMA OtherRegular ==
    ASSUME WriterPart, BookFits, CallNext, UNCHANGED wvars, NEW r \in Readers,
           rd'[r] = rd[r], old'[r] = old[r], ReaderPart(r), RegularReader(r)
    PROVE  RegularReader(r)'
<1>1. /\ Inv /\ SeenTypes /\ added' = added /\ table' = table /\ nums' = nums
  BY ReaderLeaves DEF WriterPart, BookInv
<1>2. ~CallStarts
  BY DEF wvars, CallStarts
<1>3. Tab(r)' = Tab(r)
  BY <1>1 DEF Tab
<1>4. ASSUME Reading(r) PROVE SeenBook(r)' /\ MayFits(r)' /\ MustFits(r)' /\ OnTheWay(r)'
  <2>1. SeenBook(r) /\ MayFits(r) /\ MustFits(r) /\ OnTheWay(r) /\ LoadFits(r)
    BY <1>4 DEF RegularReader, ReaderPart
  <2>2. SeenBook(r)'
    BY <1>1, <1>4, <2>1, SeenBookOn DEF Reading
  <2>3. Holding(r)' = Holding(r)
    BY DEF Holding
  <2>4. QED
    BY <1>3, <1>4, <2>1, <2>2, <2>3, SameRegular
<1>5. ASSUME Done(r) PROVE ReturnFits(r)'
  <2>1. ReturnFits(r) /\ rd[r].pc # "idle"
    BY <1>5 DEF RegularReader, Done
  <2>2. seen'[r] = seen[r]
    BY <1>1, <1>2, <2>1, BoundsMove
  <2>3. QED
    BY <1>1, <2>1, <2>2 DEF ReturnFits, Result, Elems, Known, Earlier
<1>6. QED
  BY <1>4, <1>5 DEF RegularReader, Reading, Done

\* What a call sees of its table, and what it was called with.
View(r) ==
    <<Tab(r), SeenLimit(r), SeenMeta(r), SeenRemoved(r), SeenVersion(r), SeenAbsent(r),
      rd[r].ev, rd[r].first>>

\* A call that sees the same sees the same identifiers and keys.
LEMMA SameView ==
    ASSUME NEW r \in Readers, View(r)' = View(r)
    PROVE  /\ Tab(r)' = Tab(r) /\ SeenLimit(r)' = SeenLimit(r)
           /\ (SeenAbsent(r)' <=> SeenAbsent(r))
           /\ rd'[r].ev = rd[r].ev /\ rd'[r].first = rd[r].first
           /\ \A n : /\ IdOf(r, n)' = IdOf(r, n) /\ SeenKey(r, n)' = SeenKey(r, n)
                     /\ Hidden(r, n)' <=> Hidden(r, n)
<1>1. /\ Tab(r)' = Tab(r) /\ SeenLimit(r)' = SeenLimit(r) /\ SeenMeta(r)' = SeenMeta(r)
      /\ SeenRemoved(r)' = SeenRemoved(r) /\ SeenVersion(r)' = SeenVersion(r)
      /\ (SeenAbsent(r)' <=> SeenAbsent(r))
      /\ rd'[r].ev = rd[r].ev /\ rd'[r].first = rd[r].first
  BY DEF View
<1>2. QED
  BY <1>1 DEF IdOf, SeenKey, Hidden

\* A step within a call stays on the way to what the call must report.
LEMMA OwnStep ==
    ASSUME WriterPart, BookFits, CallNext, UNCHANGED wvars, NEW r \in Readers,
           Reading(r), RegularReader(r), rd'[r].pc \notin {"idle", "done"},
           View(r)' = View(r), seen'[r] = seen[r] => OnTheWay(r)',
           \A n \in 0..SeenLimit(r) - 1, b \in Bodies :
               Witnesses(r, n, b) /\ rd'[r].pc = "visit" => Ahead(r, n, b)'
    PROVE  RegularReader(r)'
<1>1. /\ Inv /\ SeenTypes /\ ~CallStarts /\ rd[r].pc # "idle"
      /\ SeenBook(r) /\ MayFits(r) /\ MustFits(r)
  BY DEF WriterPart, BookInv, wvars, CallStarts, Reading, RegularReader
<1>2. seen'[r] = seen[r]
  BY <1>1, BoundsMove
<1>3. /\ Tab(r)' = Tab(r) /\ SeenLimit(r)' = SeenLimit(r) /\ (SeenAbsent(r)' <=> SeenAbsent(r))
      /\ rd'[r].ev = rd[r].ev
      /\ \A n : /\ IdOf(r, n)' = IdOf(r, n) /\ SeenKey(r, n)' = SeenKey(r, n)
                /\ Hidden(r, n)' <=> Hidden(r, n)
  BY SameView
<1>4. SeenBook(r)'
  BY <1>1, <1>3, SeenBookOn
<1>5. MayFits(r)'
  BY <1>1, <1>2, <1>3 DEF MayFits
<1>6. MustFits(r)'
  <2> SUFFICES ASSUME NEW id \in seen[r].must
               PROVE  \E n \in 0..SeenLimit(r) - 1, b \in Bodies :
                         IdOf(r, n)' = id /\ Witnesses(r, n, b)'
    BY <1>2, <1>3 DEF MustFits
  <2>1. PICK n \in 0..SeenLimit(r) - 1, b \in Bodies : IdOf(r, n) = id /\ Witnesses(r, n, b)
    BY <1>1 DEF MustFits
  <2>2. Witnesses(r, n, b)'
    BY <1>3, <2>1 DEF Witnesses
  <2>3. QED
    BY <1>3, <2>1, <2>2
<1>7. QED
  BY <1>2, <1>4, <1>5, <1>6 DEF RegularReader, Reading, Done

\* Every path begins at the root.
LEMMA RootPath == <<>> \in Paths /\ \A e : Holds(<<>>, e)
<1>1. Len(<<>>) = 0 /\ <<>> \in Paths
  BY DEF Paths
<1>2. QED
  BY <1>1 DEF Holds

\* begin: a call that has loaded all it needs sets out from the root.
LEMMA LoadRegular ==
    ASSUME WriterPart, BookFits, CallNext, NEW r \in Readers, ReaderPart(r), RegularReader(r),
           \/ LoadVersion(r) \/ LoadIds(r) \/ LoadMeta(r) \/ LoadRemoved(r) \/ LoadAbsent(r)
    PROVE  RegularReader(r)'
<1>1. rd \in [Readers -> Scratches] /\ rd[r] \in Scratches
  BY DEF WriterPart, BookInv, Inv, ReaderInv
<1>2. /\ UNCHANGED wvars /\ old' = old /\ Reading(r) /\ rd[r].kept = {} /\ rd[r].pc # "visit"
      /\ OnTheWay(r)
  BY DEF LoadVersion, LoadIds, LoadMeta, LoadRemoved, LoadAbsent, Reading, ReaderPart, LoadFits,
     RegularReader
<1>3. /\ rd[r].out = {} /\ rd[r].cand = {} /\ rd[r].best = NoNumber
      /\ \A p \in rd[r].todo : Holds(p, rd[r].ev)
  BY <1>2 DEF OnTheWay
<1>4. \/ /\ rd[r].pc = "version"
         /\ rd'[r] = [rd[r] EXCEPT !.pc = "ids", !.version = Tab(r).version]
      \/ /\ rd[r].pc = "ids"
         /\ rd'[r] = [rd[r] EXCEPT !.pc = "meta", !.limit = Len(Tab(r).ids)]
      \/ /\ rd[r].pc = "meta"
         /\ rd'[r] = [rd[r] EXCEPT !.pc = "removed", !.meta = Len(Tab(r).meta)]
      \/ /\ rd[r].pc = "removed"
         /\ rd'[r] = [rd[r] EXCEPT !.pc = "absent", !.removed = Len(Tab(r).removed)]
      \/ /\ rd[r].pc = "absent"
         /\ rd'[r] = [rd[r] EXCEPT !.pc = "visit", !.absent = Tab(r).hasAbsent, !.todo = {<<>>}]
  BY <1>1 DEF LoadVersion, LoadIds, LoadMeta, LoadRemoved, LoadAbsent
<1>5. /\ rd'[r].stale = rd[r].stale /\ rd'[r].ev = rd[r].ev /\ rd'[r].first = rd[r].first
      /\ rd'[r].out = {} /\ rd'[r].cand = {} /\ rd'[r].best = NoNumber /\ rd'[r].kept = {}
      /\ rd'[r].pc \notin {"idle", "done"}
  BY <1>1, <1>2, <1>3, <1>4 DEF Scratches
<1>6. /\ rd'[r].pc # "visit" => rd'[r].todo = rd[r].todo
      /\ rd'[r].pc = "visit" => rd'[r].todo = {<<>>}
  BY <1>1, <1>4 DEF Scratches
<1>7. Tab(r)' = Tab(r)
  BY <1>2, <1>5 DEF Tab, wvars
<1>8. View(r)' = View(r)
  <2>1. SeenVersion(r)' = SeenVersion(r)
    BY <1>1, <1>4, <1>7 DEF SeenVersion, Scratches
  <2>2. SeenLimit(r)' = SeenLimit(r)
    BY <1>1, <1>4, <1>7 DEF SeenLimit, Scratches
  <2>3. SeenMeta(r)' = SeenMeta(r)
    BY <1>1, <1>4, <1>7 DEF SeenMeta, Scratches
  <2>4. SeenRemoved(r)' = SeenRemoved(r)
    BY <1>1, <1>4, <1>7 DEF SeenRemoved, Scratches
  <2>5. SeenAbsent(r)' = SeenAbsent(r)
    BY <1>1, <1>4, <1>7 DEF SeenAbsent, Scratches
  <2>6. QED
    BY <1>5, <1>7, <2>1, <2>2, <2>3, <2>4, <2>5 DEF View
<1>9. OnTheWay(r)'
  <2>1. \A p \in rd'[r].todo : Holds(p, rd'[r].ev)
    BY <1>3, <1>5, <1>6, RootPath
  <2>2. QED
    BY <1>5, <2>1 DEF OnTheWay
<1>10. ASSUME NEW n \in 0..SeenLimit(r) - 1, NEW b \in Bodies, rd'[r].pc = "visit"
       PROVE  Ahead(r, n, b)'
  <2>1. 0 \in 0..Len(b) /\ SubSeq(b, 1, 0) = <<>>
    BY BodyPath, PathParts
  <2>2. QED
    BY <1>6, <1>10, <2>1 DEF Ahead
<1>11. QED
  BY <1>2, <1>5, <1>8, <1>9, <1>10, OwnStep

\* visit: the event follows the edges to a rule that the call must report, and
\* improve goes by none of them unless the call has a better rule.
LEMMA VisitRegular ==
    ASSUME WriterPart, BookFits, CallNext, NEW r \in Readers, RegularReader(r),
           NEW p \in rd[r].todo, Visit(r, p)
    PROVE  RegularReader(r)'
<1> DEFINE cut == (p # <<>> /\ p \notin Tab(r).edges) \/ Prunes(r, p)
<1>1. /\ Inv /\ rd \in [Readers -> Scratches] /\ rd[r] \in Scratches /\ Tab(r) \in Tables
  BY ReaderParts DEF WriterPart, BookInv, Inv, ReaderInv, WriterInv
<1>2. /\ UNCHANGED wvars /\ old' = old /\ Reading(r) /\ rd[r].pc = "visit" /\ rd[r].cand = {}
      /\ OnTheWay(r)
  BY DEF Visit, Reading, RegularReader
<1>3. p \in Paths /\ Holds(p, rd[r].ev)
  BY <1>1, <1>2 DEF Scratches, OnTheWay
<1>4. cut => rd'[r] = [rd[r] EXCEPT !.todo = rd[r].todo \ {p}]
  BY <1>1 DEF Visit
<1>5. ~cut => rd'[r] = [rd[r] EXCEPT
                !.todo = (rd[r].todo \ {p}) \cup Children(r, p),
                !.cand = IF rd[r].first THEN Tab(r).rules[p] ELSE {},
                !.out = IF rd[r].first THEN {} ELSE rd[r].out \cup Tab(r).rules[p]]
  BY <1>1 DEF Visit
<1> HIDE DEF cut
<1>6. /\ rd'[r].pc = "visit" /\ rd'[r].stale = rd[r].stale /\ rd'[r].version = rd[r].version
      /\ rd'[r].limit = rd[r].limit /\ rd'[r].meta = rd[r].meta
      /\ rd'[r].removed = rd[r].removed /\ rd'[r].absent = rd[r].absent
      /\ rd'[r].ev = rd[r].ev /\ rd'[r].first = rd[r].first /\ rd'[r].kept = rd[r].kept
      /\ rd'[r].best = rd[r].best /\ rd'[r].bestKey = rd[r].bestKey
  BY <1>1, <1>2, <1>4, <1>5 DEF Scratches
<1>7. cut => rd'[r].todo = rd[r].todo \ {p} /\ rd'[r].cand = {} /\ rd'[r].out = rd[r].out
  BY <1>1, <1>2, <1>4 DEF Scratches
<1>8. ~cut => /\ rd'[r].todo = (rd[r].todo \ {p}) \cup Children(r, p)
              /\ rd'[r].cand = (IF rd[r].first THEN Tab(r).rules[p] ELSE {})
              /\ rd'[r].out = (IF rd[r].first THEN {} ELSE rd[r].out \cup Tab(r).rules[p])
  BY <1>1, <1>5 DEF Scratches
<1>9. Tab(r)' = Tab(r)
  BY <1>2, <1>6 DEF Tab, wvars
<1>10. View(r)' = View(r)
  <2>1. /\ SeenLimit(r)' = SeenLimit(r) /\ SeenMeta(r)' = SeenMeta(r)
        /\ SeenRemoved(r)' = SeenRemoved(r) /\ SeenVersion(r)' = SeenVersion(r)
        /\ SeenAbsent(r)' = SeenAbsent(r)
    BY <1>2, <1>6, <1>9 DEF SeenLimit, SeenMeta, SeenRemoved, SeenVersion, SeenAbsent
  <2>2. QED
    BY <1>6, <1>9, <2>1 DEF View
<1>11. ASSUME NEW q \in Children(r, p) PROVE Holds(q, rd[r].ev)
  <2>1. /\ q \in Paths /\ Len(q) = Len(p) + 1 /\ SubSeq(q, 1, Len(p)) = p
        /\ q[Len(q)] \in rd[r].ev
    BY DEF Children, Follows
  <2>2. Len(p) \in Nat /\ Len(p) \in 0..Len(q)
    BY <1>3, <2>1, PathParts
  <2>3. \A k \in 1..Len(p) : p[k] = q[k]
    BY <2>1, <2>2, PathParts
  <2>4. ASSUME NEW k \in 1..Len(q) PROVE q[k] \in rd[r].ev
    <3>1. CASE k = Len(q)
      BY <2>1, <3>1
    <3>2. CASE k # Len(q)
      <4>1. k \in 1..Len(p)
        BY <2>1, <2>2, <3>2
      <4>2. QED
        BY <1>3, <2>3, <4>1 DEF Holds
    <3>3. QED
      BY <3>1, <3>2
  <2>5. QED
    BY <2>4 DEF Holds
<1>12. ASSUME seen'[r] = seen[r] PROVE OnTheWay(r)'
  <2>1. \A q \in rd'[r].todo : Holds(q, rd'[r].ev)
    BY <1>2, <1>6, <1>7, <1>8, <1>11 DEF OnTheWay
  <2>2. \A n \in rd'[r].out \cup rd'[r].cand :
           \E q \in Paths : n \in Tab(r)'.rules[q] /\ Holds(q, rd'[r].ev)
    <3>1. \A n \in rd'[r].out \cup rd'[r].cand : n \in rd[r].out \/ n \in Tab(r).rules[p]
      BY <1>7, <1>8
    <3>2. QED
      BY <1>2, <1>3, <1>6, <1>9, <3>1 DEF OnTheWay
  <2>3. \A n : /\ IdOf(r, n)' = IdOf(r, n) /\ SeenKey(r, n)' = SeenKey(r, n)
               /\ Hidden(r, n)' <=> Hidden(r, n)
    BY <1>10, SameView
  <2>4. QED
    BY <1>2, <1>6, <1>12, <2>1, <2>2, <2>3 DEF OnTheWay
<1>13. ASSUME NEW n \in 0..SeenLimit(r) - 1, NEW b \in Bodies, Witnesses(r, n, b)
       PROVE  Ahead(r, n, b)'
  <2>1. /\ b \in Paths /\ n \in Nat /\ SeenKey(r, n) \in Nat /\ Len(b) \in Nat
        /\ SeenKey(r, n)' = SeenKey(r, n)
    <3>1. SeenLimit(r) \in Int
      BY <1>1, SeenBounds
    <3>2. n \in Nat
      BY <3>1
    <3>3. b \in Paths /\ Len(b) \in Nat
      BY BodyPath, PathParts
    <3>4. SeenKey(r, n) \in Nat
      BY <1>1, <3>2, SeenKeyType
    <3>5. SeenKey(r, n)' = SeenKey(r, n)
      BY <1>10, SameView
    <3>6. QED
      BY <3>2, <3>3, <3>4, <3>5
  <2>2. /\ n \in Tab(r).rules[b] /\ Holds(b, rd[r].ev) /\ Leads(Tab(r), b, SeenKey(r, n))
        /\ \A j \in 1..Len(b) : b[j] \in AbsentConds => rd[r].absent
        /\ Ahead(r, n, b)
    <3>1. SeenAbsent(r) = rd[r].absent
      BY <1>2 DEF SeenAbsent
    <3>2. QED
      BY <1>2, <1>13, <3>1 DEF Witnesses
  <2>3. ASSUME NEW k \in 0..Len(b), SubSeq(b, 1, k) = p
        PROVE  Ahead(r, n, b)'
    <3>1. /\ p = <<>> \/ p \in Tab(r).edges
          /\ Tab(r).minKey[p] \in 1..SeenKey(r, n) + 1
      <4>1. CASE k = 0
        BY <2>1, <2>2, <2>3, <4>1, PathParts DEF Leads
      <4>2. CASE k # 0
        <5>1. k \in 1..Len(b)
          BY <2>1, <4>2
        <5>2. QED
          BY <2>2, <2>3, <5>1 DEF Leads
      <4>3. QED
        BY <4>1, <4>2
    <3>2. CASE cut
      <4>1. rd[r].first /\ rd[r].bestKey <= SeenKey(r, n)
        <5>1. /\ rd[r].first
              /\ Tab(r).minKey[p] = 0 \/ Tab(r).minKey[p] - 1 >= rd[r].bestKey
          BY <3>1, <3>2 DEF cut, Prunes
        <5>2. rd[r].bestKey \in Nat
          BY <1>1 DEF Scratches
        <5>3. QED
          BY <2>1, <3>1, <5>1, <5>2
      <4>2. QED
        BY <1>6, <2>1, <4>1 DEF Ahead
    <3>3. CASE ~cut /\ k = Len(b)
      <4>1. p = b
        BY <2>1, <2>3, <3>3, PathParts
      <4>2. IF rd[r].first THEN n \in rd'[r].cand ELSE n \in rd'[r].out
        BY <1>8, <2>2, <3>3, <4>1
      <4>3. QED
        BY <1>6, <4>2 DEF Ahead
    <3>4. CASE ~cut /\ k # Len(b)
      <4> DEFINE q == SubSeq(b, 1, k + 1)
      <4>1. k + 1 \in 1..Len(b) /\ k + 1 \in 0..Len(b) /\ k \in 0..k + 1
        BY <2>1, <3>4
      <4>2. /\ q \in Paths /\ Len(q) = k + 1 /\ q[k + 1] = b[k + 1]
            /\ SubSeq(q, 1, k) = p /\ Len(p) = k
        <5>1. /\ q \in Paths /\ Len(q) = k + 1 /\ \A i \in 1..k + 1 : q[i] = b[i]
              /\ SubSeq(q, 1, k) = SubSeq(b, 1, k)
          BY <2>1, <4>1, PathParts
        <5>2. k + 1 \in 1..k + 1
          BY <4>1
        <5> HIDE DEF q
        <5>3. QED
          BY <2>1, <2>3, <5>1, <5>2, PathParts
      <4> HIDE DEF q
      <4>3. Follows(r, q[Len(q)])
        BY <2>2, <4>1, <4>2 DEF Follows, Holds
      <4>4. q \in Children(r, p)
        BY <4>2, <4>3 DEF Children
      <4>5. q \in rd'[r].todo
        BY <1>8, <3>4, <4>4
      <4>6. QED
        BY <4>1, <4>5 DEF Ahead, q
    <3>5. QED
      BY <3>2, <3>3, <3>4
  <2>4. ASSUME NEW k \in 0..Len(b), SubSeq(b, 1, k) \in rd[r].todo, SubSeq(b, 1, k) # p
        PROVE  Ahead(r, n, b)'
    <3>1. SubSeq(b, 1, k) \in rd'[r].todo
      BY <1>7, <1>8, <2>4
    <3>2. QED
      BY <3>1 DEF Ahead
  <2>5. CASE ~rd[r].first /\ n \in rd[r].out \cup rd[r].kept
    <3>1. rd[r].out \subseteq rd'[r].out
      BY <1>7, <1>8, <2>5
    <3>2. QED
      BY <1>6, <2>5, <3>1 DEF Ahead
  <2>6. CASE rd[r].first /\ rd[r].bestKey <= SeenKey(r, n)
    BY <1>6, <2>1, <2>6 DEF Ahead
  <2>7. QED
    BY <1>2, <2>2, <2>3, <2>4, <2>5, <2>6 DEF Ahead
<1>14. QED
  BY <1>2, <1>6, <1>10, <1>12, <1>13, OwnStep

\* A number that is not hidden from a call is one that it sees.
LEMMA SeenVisible ==
    ASSUME Inv, NEW r \in Readers, rd[r].pc = "visit", NEW n \in Nat,
           n < SeenLimit(r), ~Hidden(r, n)
    PROVE  Visible(r, n)
<1>1. /\ SeenMeta(r) = rd[r].meta /\ SeenRemoved(r) = rd[r].removed
      /\ SeenVersion(r) = rd[r].version /\ SeenLimit(r) = rd[r].limit
  BY DEF SeenMeta, SeenRemoved, SeenVersion, SeenLimit
<1>2. /\ MetaAt(Tab(r), rd[r].meta, n) \in MetaWords /\ rd[r].version \in Nat
  BY <1>1, SeenBounds, MetaType
<1>3. QED
  BY <1>1, <1>2 DEF Hidden, Visible, MetaWords

\* The scratch that a call uses when it visits states.
LEMMA VisitView ==
    ASSUME NEW r \in Readers, UNCHANGED wvars, old' = old, rd[r].pc = "visit", rd'[r].pc = "visit",
           rd'[r].stale = rd[r].stale, rd'[r].version = rd[r].version,
           rd'[r].limit = rd[r].limit, rd'[r].meta = rd[r].meta,
           rd'[r].removed = rd[r].removed, rd'[r].absent = rd[r].absent,
           rd'[r].ev = rd[r].ev, rd'[r].first = rd[r].first
    PROVE  View(r)' = View(r)
<1>1. Tab(r)' = Tab(r)
  BY DEF Tab, wvars
<1>2. QED
  BY <1>1 DEF View, SeenLimit, SeenMeta, SeenRemoved, SeenVersion, SeenAbsent

\* improve: the call has the number it looks at, or a better one.
LEMMA ConsiderRegular ==
    ASSUME WriterPart, BookFits, CallNext, NEW r \in Readers, RegularReader(r),
           NEW m \in rd[r].cand, Consider(r, m)
    PROVE  RegularReader(r)'
<1> DEFINE better == Visible(r, m) /\ Key(r, m) < rd[r].bestKey
<1>1. /\ Inv /\ rd \in [Readers -> Scratches] /\ rd[r] \in Scratches
  BY DEF WriterPart, BookInv, Inv, ReaderInv
<1>2. /\ UNCHANGED wvars /\ old' = old /\ Reading(r) /\ rd[r].pc = "visit"
      /\ OnTheWay(r) /\ MayFits(r)
  BY DEF Consider, Reading, RegularReader
<1>3. m \in Nat /\ rd[r].bestKey \in Nat
  BY <1>1 DEF Scratches
<1>4. SeenKey(r, m) = Key(r, m) /\ SeenKey(r, m) \in Nat
  BY <1>1, <1>2, <1>3, SeenKeyType DEF SeenKey, Key, SeenMeta
<1>5. rd'[r] = [rd[r] EXCEPT !.cand = rd[r].cand \ {m},
                             !.best = IF better THEN m ELSE rd[r].best,
                             !.bestKey = IF better THEN Key(r, m) ELSE rd[r].bestKey]
  BY <1>1 DEF Consider
<1>6. /\ better => ~Hidden(r, m) /\ m \in 0..SeenLimit(r) - 1
      /\ ~Hidden(r, m) /\ m < SeenLimit(r) /\ ~better => rd[r].bestKey <= SeenKey(r, m)
  <2>1. Visible(r, m) => ~Hidden(r, m)
    BY <1>1, <1>2, <1>3, VisibleSeen
  <2>2. ~Hidden(r, m) /\ m < SeenLimit(r) => Visible(r, m)
    BY <1>1, <1>2, <1>3, SeenVisible
  <2>3. Visible(r, m) => m < SeenLimit(r)
    BY <1>2 DEF Visible, SeenLimit
  <2>4. SeenLimit(r) \in Int
    BY <1>1, SeenBounds
  <2>5. QED
    BY <1>3, <1>4, <2>1, <2>2, <2>3, <2>4
<1>7. better => Key(r, m) < rd[r].bestKey
  OBVIOUS
<1> HIDE DEF better
<1>8. /\ rd'[r].pc = "visit" /\ rd'[r].stale = rd[r].stale /\ rd'[r].version = rd[r].version
      /\ rd'[r].limit = rd[r].limit /\ rd'[r].meta = rd[r].meta
      /\ rd'[r].removed = rd[r].removed /\ rd'[r].absent = rd[r].absent
      /\ rd'[r].ev = rd[r].ev /\ rd'[r].first = rd[r].first /\ rd'[r].kept = rd[r].kept
      /\ rd'[r].todo = rd[r].todo /\ rd'[r].out = rd[r].out
  BY <1>1, <1>2, <1>5 DEF Scratches
<1>9. /\ rd'[r].cand = rd[r].cand \ {m}
      /\ rd'[r].best = IF better THEN m ELSE rd[r].best
      /\ rd'[r].bestKey = IF better THEN Key(r, m) ELSE rd[r].bestKey
  BY <1>1, <1>5 DEF Scratches
<1>10. View(r)' = View(r)
  BY <1>2, <1>8, VisitView
<1>11. /\ Tab(r)' = Tab(r)
       /\ \A n : /\ IdOf(r, n)' = IdOf(r, n) /\ SeenKey(r, n)' = SeenKey(r, n)
                 /\ Hidden(r, n)' <=> Hidden(r, n)
  BY <1>10, SameView
<1>12. ASSUME seen'[r] = seen[r] PROVE OnTheWay(r)'
  <2>1. \A p \in rd'[r].todo : Holds(p, rd'[r].ev)
    BY <1>2, <1>8 DEF OnTheWay
  <2>2. \A n \in rd'[r].out \cup rd'[r].cand :
           \E p \in Paths : n \in Tab(r)'.rules[p] /\ Holds(p, rd'[r].ev)
    BY <1>2, <1>8, <1>9, <1>11 DEF OnTheWay
  <2>3. \A n \in rd'[r].kept : IdOf(r, n)' \in seen'[r].may
    BY <1>2, <1>8, <1>11, <1>12 DEF OnTheWay
  <2>4. ASSUME NEW n, n = rd'[r].best, n # NoNumber
        PROVE  /\ IdOf(r, n) \in seen[r].may
               /\ rd'[r].bestKey = SeenKey(r, n)
               /\ IdOf(r, n) \in seen[r].gone \/ ~Hidden(r, n)
    <3>1. CASE better
      <4>1. n = m /\ rd'[r].bestKey = SeenKey(r, m)
        BY <1>4, <1>9, <2>4, <3>1
      <4>2. \E p \in Paths : m \in Tab(r).rules[p] /\ Holds(p, rd[r].ev)
        BY <1>2 DEF OnTheWay
      <4>3. IdOf(r, m) \in seen[r].may
        BY <1>2, <1>6, <3>1, <4>2 DEF MayFits
      <4>4. QED
        BY <1>6, <3>1, <4>1, <4>3
    <3>2. CASE ~better
      BY <1>2, <1>9, <2>4, <3>2 DEF OnTheWay
    <3>3. QED
      BY <3>1, <3>2
  <2>5. QED
    BY <1>8, <1>11, <1>12, <2>1, <2>2, <2>3, <2>4 DEF OnTheWay
<1>13. ASSUME NEW n \in 0..SeenLimit(r) - 1, NEW b \in Bodies, Witnesses(r, n, b)
       PROVE  Ahead(r, n, b)'
  <2>1. n \in Nat /\ n < SeenLimit(r) /\ SeenKey(r, n) \in Nat /\ SeenKey(r, n)' = SeenKey(r, n)
    <3>1. SeenLimit(r) \in Int
      BY <1>1, SeenBounds
    <3>2. n \in Nat /\ n < SeenLimit(r)
      BY <3>1
    <3>3. QED
      BY <1>1, <1>11, <3>2, SeenKeyType
  <2>2. Ahead(r, n, b) /\ ~Hidden(r, n)
    BY <1>2, <1>13 DEF Witnesses
  <2>3. CASE \E k \in 0..Len(b) : SubSeq(b, 1, k) \in rd[r].todo
    BY <1>8, <2>3 DEF Ahead
  <2>4. CASE ~rd[r].first /\ n \in rd[r].out \cup rd[r].kept
    BY <1>8, <2>4 DEF Ahead
  <2>5. CASE rd[r].first /\ n \in rd[r].cand /\ n # m
    BY <1>8, <1>9, <2>5 DEF Ahead
  <2>6. CASE rd[r].first /\ (n = m \/ rd[r].bestKey <= SeenKey(r, n))
    <3>1. rd'[r].bestKey <= SeenKey(r, n)
      BY <1>3, <1>4, <1>6, <1>7, <1>9, <2>1, <2>2, <2>6
    <3>2. QED
      BY <1>8, <2>1, <2>6, <3>1 DEF Ahead
  <2>7. QED
    BY <2>2, <2>3, <2>4, <2>5, <2>6 DEF Ahead
<1>14. QED
  BY <1>2, <1>8, <1>10, <1>12, <1>13, OwnStep

\* results: the call keeps the numbers that it sees.
LEMMA FilterRegular ==
    ASSUME WriterPart, BookFits, CallNext, NEW r \in Readers, RegularReader(r), Filter(r)
    PROVE  RegularReader(r)'
<1> DEFINE m == Least(rd[r].out)
<1>1. /\ Inv /\ rd \in [Readers -> Scratches] /\ rd[r] \in Scratches
  BY DEF WriterPart, BookInv, Inv, ReaderInv
<1>2. /\ UNCHANGED wvars /\ old' = old /\ Reading(r) /\ rd[r].pc = "visit" /\ ~rd[r].first
      /\ OnTheWay(r) /\ MayFits(r) /\ rd[r].out # {}
  BY DEF Filter, Reading, RegularReader
<1>3. m \in rd[r].out /\ m \in Nat
  <2>1. rd[r].out \in SUBSET Nat
    BY <1>1 DEF Scratches
  <2>2. QED
    BY <1>2, <2>1, LeastIsLeast
<1>4. rd'[r] = [rd[r] EXCEPT !.out = rd[r].out \ {m},
                             !.kept = IF Visible(r, m) THEN rd[r].kept \cup {m} ELSE rd[r].kept]
  BY <1>1 DEF Filter
<1> HIDE DEF m
<1>5. /\ Visible(r, m) => ~Hidden(r, m) /\ m \in 0..SeenLimit(r) - 1
      /\ ~Hidden(r, m) /\ m < SeenLimit(r) => Visible(r, m)
  <2>1. Visible(r, m) => ~Hidden(r, m)
    BY <1>1, <1>2, <1>3, VisibleSeen
  <2>2. ~Hidden(r, m) /\ m < SeenLimit(r) => Visible(r, m)
    BY <1>1, <1>2, <1>3, SeenVisible
  <2>3. Visible(r, m) => m < SeenLimit(r)
    BY <1>2 DEF Visible, SeenLimit
  <2>4. SeenLimit(r) \in Int
    BY <1>1, SeenBounds
  <2>5. QED
    BY <1>3, <2>1, <2>2, <2>3, <2>4
<1>6. /\ rd'[r].pc = "visit" /\ rd'[r].stale = rd[r].stale /\ rd'[r].version = rd[r].version
      /\ rd'[r].limit = rd[r].limit /\ rd'[r].meta = rd[r].meta
      /\ rd'[r].removed = rd[r].removed /\ rd'[r].absent = rd[r].absent
      /\ rd'[r].ev = rd[r].ev /\ rd'[r].first = rd[r].first
      /\ rd'[r].todo = rd[r].todo /\ rd'[r].cand = rd[r].cand
      /\ rd'[r].best = rd[r].best /\ rd'[r].bestKey = rd[r].bestKey
  BY <1>1, <1>2, <1>4 DEF Scratches
<1>7. /\ rd'[r].out = rd[r].out \ {m}
      /\ rd'[r].kept = IF Visible(r, m) THEN rd[r].kept \cup {m} ELSE rd[r].kept
  BY <1>1, <1>4 DEF Scratches
<1>8. View(r)' = View(r)
  BY <1>2, <1>6, VisitView
<1>9. /\ Tab(r)' = Tab(r)
      /\ \A n : /\ IdOf(r, n)' = IdOf(r, n) /\ SeenKey(r, n)' = SeenKey(r, n)
                /\ Hidden(r, n)' <=> Hidden(r, n)
  BY <1>8, SameView
<1>10. ASSUME seen'[r] = seen[r] PROVE OnTheWay(r)'
  <2>1. \A p \in rd'[r].todo : Holds(p, rd'[r].ev)
    BY <1>2, <1>6 DEF OnTheWay
  <2>2. \A n \in rd'[r].out \cup rd'[r].cand :
           \E p \in Paths : n \in Tab(r)'.rules[p] /\ Holds(p, rd'[r].ev)
    BY <1>2, <1>6, <1>7, <1>9 DEF OnTheWay
  <2>3. Visible(r, m) => IdOf(r, m) \in seen[r].may
    <3>1. \E p \in Paths : m \in Tab(r).rules[p] /\ Holds(p, rd[r].ev)
      BY <1>2, <1>3 DEF OnTheWay
    <3>2. QED
      BY <1>2, <1>5, <3>1 DEF MayFits
  <2>4. \A n \in rd'[r].kept : IdOf(r, n)' \in seen'[r].may
    BY <1>2, <1>7, <1>9, <1>10, <2>3 DEF OnTheWay
  <2>5. QED
    BY <1>2, <1>6, <1>9, <1>10, <2>1, <2>2, <2>4 DEF OnTheWay
<1>11. ASSUME NEW n \in 0..SeenLimit(r) - 1, NEW b \in Bodies, Witnesses(r, n, b)
       PROVE  Ahead(r, n, b)'
  <2>1. n < SeenLimit(r)
    <3>1. SeenLimit(r) \in Int
      BY <1>1, SeenBounds
    <3>2. QED
      BY <3>1
  <2>2. Ahead(r, n, b) /\ ~Hidden(r, n)
    BY <1>2, <1>11 DEF Witnesses
  <2>3. CASE \E k \in 0..Len(b) : SubSeq(b, 1, k) \in rd[r].todo
    BY <1>6, <2>3 DEF Ahead
  <2>4. CASE n \in rd[r].out \cup rd[r].kept
    <3>1. n \in rd'[r].out \cup rd'[r].kept
      BY <1>5, <1>7, <2>1, <2>2, <2>4
    <3>2. QED
      BY <1>2, <1>6, <3>1 DEF Ahead
  <2>5. QED
    BY <1>2, <2>2, <2>3, <2>4 DEF Ahead
<1>12. QED
  BY <1>2, <1>6, <1>8, <1>10, <1>11, OwnStep

\* MatchFirst returns the best it has found: it has been everywhere, or has left
\* out only what has a larger key.
LEMMA ReturnFirstRegular ==
    ASSUME WriterPart, CallNext, NEW r \in Readers, ReaderPart(r), RegularReader(r),
           ReturnFirst(r)
    PROVE  RegularReader(r)'
<1> DEFINE f == IdOf(r, rd[r].best)
           result == IF rd[r].bestKey = MaxRules THEN <<>> ELSE <<f>>
<1>1. /\ Inv /\ SeenTypes /\ rd \in [Readers -> Scratches] /\ rd[r] \in Scratches
      /\ ScratchFits(rd[r])
  BY ReaderParts DEF WriterPart, BookInv, Inv, ReaderInv, WriterInv
<1>2. /\ UNCHANGED wvars /\ Reading(r) /\ rd[r].pc = "visit" /\ rd[r].first
      /\ rd[r].todo = {} /\ rd[r].cand = {}
      /\ OnTheWay(r) /\ MustFits(r) /\ SeenBook(r) /\ AliveFits(r) /\ LoadFits(r)
  BY DEF ReturnFirst, Reading, RegularReader, ReaderPart
<1>3. rd'[r] = [IdleReader EXCEPT !.pc = "done", !.first = TRUE, !.ev = rd[r].ev,
                                  !.result = result]
  BY <1>1 DEF ReturnFirst, IdOf
<1>4. /\ Elems(result) = IF rd[r].bestKey = MaxRules THEN {} ELSE {f}
      /\ rd[r].bestKey # MaxRules => result # <<>>
  BY DEF Elems
<1> HIDE DEF result
<1>5. rd'[r].pc = "done" /\ rd'[r].first /\ rd'[r].result = result
  BY <1>3 DEF IdleReader
<1>6. seen'[r] = seen[r] /\ added' = added /\ nums' = nums
  <2>1. ~CallStarts /\ rd[r].pc # "idle"
    BY <1>2 DEF CallStarts, wvars
  <2>2. QED
    BY <1>1, <1>2, <1>5, <2>1, BoundsMove, ReaderLeaves
<1>7. rd[r].bestKey # MaxRules =>
          /\ f \in seen[r].may /\ rd[r].best \in 0..SeenLimit(r) - 1
          /\ rd[r].bestKey = SeenKey(r, rd[r].best)
          /\ f \in seen[r].gone \/ ~Hidden(r, rd[r].best)
  <2>1. rd[r].bestKey # MaxRules => rd[r].best # NoNumber
    BY <1>1 DEF ScratchFits
  <2>2. QED
    BY <1>1, <1>2, <2>1, FoundBelow DEF OnTheWay
<1>8. ASSUME NEW id \in seen[r].must
      PROVE  \E n \in 0..SeenLimit(r) - 1 :
                /\ IdOf(r, n) = id /\ Alive(r, n) /\ rd[r].bestKey <= SeenKey(r, n)
                /\ rd[r].bestKey # MaxRules
  <2>1. PICK n \in 0..SeenLimit(r) - 1, b \in Bodies : IdOf(r, n) = id /\ Witnesses(r, n, b)
    BY <1>2 DEF MustFits
  <2>2. /\ ~Hidden(r, n) /\ SeenKey(r, n) < MaxRules
        /\ rd[r].bestKey <= SeenKey(r, n)
    BY <1>2, <2>1 DEF Witnesses, Ahead
  <2>3. n \in Nat /\ n < SeenLimit(r) /\ SeenKey(r, n) \in Nat
    <3>1. SeenLimit(r) \in Int
      BY <1>1, SeenBounds
    <3>2. n \in Nat /\ n < SeenLimit(r)
      BY <3>1
    <3>3. QED
      BY <1>1, <3>2, SeenKeyType
  <2>4. Alive(r, n)
    BY <1>2, <2>1, <2>2, <2>3 DEF Alive, SeenBook
  <2>5. rd[r].bestKey # MaxRules
    <3>1. MaxRules \in Nat /\ rd[r].bestKey \in Nat
      BY <1>1, ConstantsAssumption DEF Scratches
    <3>2. QED
      BY <2>2, <2>3, <3>1
  <2>6. QED
    BY <2>1, <2>2, <2>4, <2>5
<1>9. ASSUME rd[r].bestKey # MaxRules, f \notin seen[r].gone
      PROVE  Known(f) /\ \A id \in seen[r].must : f = id \/ Earlier(f, id)
  <2>1. Alive(r, rd[r].best)
    <3>1. rd[r].best < SeenLimit(r)
      <4>1. SeenLimit(r) \in Int
        BY <1>1, SeenBounds
      <4>2. QED
        BY <1>7, <1>9, <4>1
    <3>2. QED
      BY <1>7, <1>9, <3>1 DEF Alive
  <2>2. Known(f)
    BY <1>2, <1>7, <1>9, <2>1 DEF AliveFits
  <2>3. ASSUME NEW id \in seen[r].must PROVE f = id \/ Earlier(f, id)
    <3>1. PICK n \in 0..SeenLimit(r) - 1 :
             IdOf(r, n) = id /\ Alive(r, n) /\ rd[r].bestKey <= SeenKey(r, n)
      BY <1>8
    <3>2. CASE n = rd[r].best
      BY <3>1, <3>2
    <3>3. CASE n # rd[r].best
      BY <1>2, <1>7, <1>9, <2>1, <3>1, <3>3 DEF AliveFits
    <3>4. QED
      BY <3>2, <3>3
  <2>4. QED
    BY <2>2, <2>3
<1> HIDE DEF f
<1>10. ReturnFits(r)'
  <2>1. Elems(Result(r))' = Elems(result) /\ Result(r)' = result
    BY <1>5 DEF Result, Elems
  <2>2. Elems(result) \subseteq seen[r].may
    BY <1>4, <1>7
  <2>3. seen[r].must # {} => result # <<>>
    BY <1>4, <1>8
  <2>4. \A g \in Elems(result) \ seen[r].gone :
           Known(g) /\ \A id \in seen[r].must : g = id \/ Earlier(g, id)
    BY <1>4, <1>9
  <2>5. QED
    BY <1>5, <1>6, <2>1, <2>2, <2>3, <2>4 DEF ReturnFits, Known, Earlier
<1>11. QED
  BY <1>5, <1>10 DEF RegularReader, Reading

\* Every element of a finite set is at its place when the set is sorted.
LEMMA SortedHasAll ==
    ASSUME NEW S \in SUBSET Nat, IsFiniteSet(S), NEW key, \A m \in S : key[m] \in Nat,
           NEW n \in S
    PROVE  \E i \in 1..Cardinality(S) : Sorted(S, key)[i] = n
<1> DEFINE i == Rank(S, key, n) + 1
<1>1. Rank(S, key, n) \in 0..Cardinality(S) - 1 /\ Cardinality(S) \in Nat
  BY RankBelow, FS_CardinalityType
<1>2. i \in 1..Cardinality(S) /\ i - 1 = Rank(S, key, n)
  BY <1>1
<1>3. Sorted(S, key)[i] \in S /\ Rank(S, key, Sorted(S, key)[i]) = Rank(S, key, n)
  BY <1>2, SortedInSet
<1>4. Sorted(S, key)[i] = n
  BY <1>3, RankUnique
<1>5. QED
  BY <1>2, <1>4

\* Match returns all it has kept.
LEMMA ReturnMatchesRegular ==
    ASSUME WriterPart, CallNext, NEW r \in Readers, RegularReader(r), ReturnMatches(r)
    PROVE  RegularReader(r)'
<1> DEFINE kept == rd[r].kept
           key == [n \in kept |-> Key(r, n)]
           ns == Sorted(kept, key)
           result == [i \in 1..Cardinality(kept) |-> Tab(r).ids[ns[i] + 1]]
<1>1. /\ Inv /\ SeenTypes /\ ReaderInv /\ rd \in [Readers -> Scratches] /\ rd[r] \in Scratches
      /\ Within(rd[r], Tab(r)) /\ table \in Tables
  BY ReaderParts DEF WriterPart, BookInv, Inv, ReaderInv, WriterInv
<1>2. /\ UNCHANGED wvars /\ Reading(r) /\ rd[r].pc = "visit" /\ ~rd[r].first
      /\ rd[r].todo = {} /\ rd[r].out = {} /\ OnTheWay(r) /\ MustFits(r)
  BY DEF ReturnMatches, Reading, RegularReader
<1>3. rd'[r] = [IdleReader EXCEPT !.pc = "done", !.ev = rd[r].ev, !.result = result]
  BY <1>1 DEF ReturnMatches
<1>4. /\ kept \in SUBSET Nat /\ rd[r].limit \in Nat /\ \A n \in kept : n < rd[r].limit
  BY <1>1 DEF Scratches, Within
<1>5. IsFiniteSet(kept) /\ Cardinality(kept) \in Nat
  <2>1. kept \in SUBSET (0..rd[r].limit - 1)
    BY <1>4
  <2>2. IsFiniteSet(0..rd[r].limit - 1)
    <3>1. 0 \in Int /\ rd[r].limit - 1 \in Int
      BY <1>4
    <3>2. QED
      BY <3>1, FS_Interval
  <2> HIDE DEF kept
  <2>3. QED
    BY <2>1, <2>2, FS_Subset, FS_CardinalityType
<1>6. \A n \in kept : key[n] \in Nat
  BY <1>1, <1>4, KeyType
<1>7. \A n \in kept : IdOf(r, n) \in seen[r].may
  BY <1>2 DEF OnTheWay
<1>8. \A id \in seen[r].must : \E n \in kept : IdOf(r, n) = id
  <2> SUFFICES ASSUME NEW id \in seen[r].must PROVE \E n \in kept : IdOf(r, n) = id
    OBVIOUS
  <2>1. PICK n \in 0..SeenLimit(r) - 1, b \in Bodies : IdOf(r, n) = id /\ Witnesses(r, n, b)
    BY <1>2 DEF MustFits
  <2>2. n \in kept
    BY <1>2, <2>1 DEF Witnesses, Ahead
  <2>3. QED
    BY <2>1, <2>2
<1> HIDE DEF kept, key
<1>9. /\ \A i \in 1..Cardinality(kept) : ns[i] \in kept
      /\ \A n \in kept : \E i \in 1..Cardinality(kept) : ns[i] = n
  BY <1>4, <1>5, <1>6, SortedInSet, SortedHasAll
<1> HIDE DEF ns
<1>10. Len(result) = Cardinality(kept)
       /\ \A i \in 1..Cardinality(kept) : result[i] = IdOf(r, ns[i])
  BY <1>5 DEF IdOf
<1> HIDE DEF result
<1>11. Elems(result) \subseteq seen[r].may
  BY <1>7, <1>9, <1>10 DEF Elems
<1>12. seen[r].must \subseteq Elems(result)
  <2> SUFFICES ASSUME NEW id \in seen[r].must
               PROVE  \E i \in 1..Len(result) : result[i] = id
    BY DEF Elems
  <2>1. PICK n \in kept : IdOf(r, n) = id
    BY <1>8
  <2>2. PICK i \in 1..Cardinality(kept) : ns[i] = n
    BY <1>9
  <2>3. QED
    BY <1>10, <2>1, <2>2
<1>13. rd'[r].pc = "done" /\ ~rd'[r].first /\ rd'[r].result = result
  BY <1>3 DEF IdleReader
<1>14. seen'[r] = seen[r]
  <2>1. ~CallStarts /\ rd[r].pc # "idle"
    BY <1>2 DEF CallStarts, wvars
  <2>2. QED
    BY <1>1, <1>13, <2>1, BoundsMove
<1>15. ReturnFits(r)'
  <2>1. Elems(Result(r))' = Elems(result)
    BY <1>13 DEF Result, Elems
  <2>2. QED
    BY <1>11, <1>12, <1>13, <1>14, <2>1 DEF ReturnFits
<1>16. QED
  BY <1>13, <1>15 DEF RegularReader, Reading

\* A call that starts would see what it must report; one that finds no table has
\* nothing to report.
LEMMA MatchRegularStep ==
    ASSUME WriterPart, RegularWriter, StartRegular', CallNext, NEW r \in Readers,
           NEW e \in Events, NEW first \in Firsts, Match(r, e, first)
    PROVE  RegularReader(r)'
<1>1. /\ rd \in [Readers -> Scratches] /\ rd[r].pc = "idle" /\ UNCHANGED wvars
      /\ RemovalFits /\ OthersFit /\ LimitFits
  BY DEF WriterPart, BookInv, Inv, ReaderInv, Match, RegularWriter, BookFits
<1>2. rd'[r] = [IdleReader EXCEPT !.pc = IF hasTab THEN "version" ELSE "done",
                                  !.ev = e, !.first = first]
  BY <1>1 DEF Match
<1>3. /\ rd'[r].pc = IF hasTab THEN "version" ELSE "done"
      /\ rd'[r].stale = FALSE /\ rd'[r].todo = {} /\ rd'[r].cand = {} /\ rd'[r].out = {}
      /\ rd'[r].kept = {} /\ rd'[r].best = NoNumber /\ rd'[r].result = <<>>
  BY <1>2 DEF IdleReader
<1>4. SeenBook(r)'
  BY <1>1, <1>3, SeenBookBegins
<1>5. CASE hasTab
  <2>1. Starts(r)'
    BY <1>3, <1>5 DEF Starts
  <2>2. MayFits(r)' /\ MustFits(r)'
    BY <1>4, <2>1 DEF StartRegular
  <2>3. OnTheWay(r)'
    BY <1>3 DEF OnTheWay
  <2>4. QED
    BY <1>3, <1>4, <1>5, <2>2, <2>3 DEF RegularReader, Done
<1>6. CASE ~hasTab
  <2>1. \A id \in Ids : before[id] = {}
    BY <1>1, <1>6 DEF LimitFits, OthersFit
  <2>2. before' = before
    BY <1>1 DEF CallNext, CallEnds, wvars
  <2>3. Matching(before', rd'[r].ev) = {}
    BY <2>1, <2>2 DEF Matching
  <2>4. seen'[r].must = {}
    BY <1>4, <2>3 DEF SeenBook
  <2>5. Elems(Result(r))' = {}
    BY <1>3 DEF Elems, Result
  <2>6. ReturnFits(r)'
    BY <2>4, <2>5 DEF ReturnFits
  <2>7. QED
    BY <1>3, <1>6, <2>6 DEF RegularReader, Reading
<1>7. QED
  BY <1>5, <1>6

\* The readers' part is preserved by every step.
LEMMA RegularReaderStep ==
    ASSUME WriterPart, WriterPart', RegularWriter, StartRegular', CallNext,
           \A r \in Readers : ReaderPart(r), \A r \in Readers : RegularReader(r)
    PROVE  \A r \in Readers : RegularReader(r)'
<1>1. /\ Next /\ rd \in [Readers -> Scratches] /\ old \in [Readers -> Tables] /\ BookFits
  BY DEF CallNext, WriterPart, BookInv, Inv, ReaderInv, RegularWriter
<1>2. CASE Writer
  BY <1>2, RegularOfWriter
<1>3. ASSUME NEW q \in Readers,
             \/ \E e \in Events, first \in Firsts : Match(q, e, first)
             \/ Reader(q)
             \/ Rest(q)
      PROVE  \A r \in Readers : RegularReader(r)'
  <2>1. UNCHANGED wvars
    BY <1>3, ReaderStep
  <2>2. CASE Rest(q)
    <3>1. rd'[q].pc = "idle"
      BY <1>1, <2>2 DEF Rest, IdleReader
    <3>2. RegularReader(q)'
      BY <3>1 DEF RegularReader, Reading, Done
    <3>3. QED
      BY <1>1, <2>1, <2>2, <3>2, OtherRegular DEF Rest
  <2>3. CASE ~Rest(q)
    <3>1. RegularReader(q)'
      BY <1>1, <1>3, <2>3, MatchRegularStep, LoadRegular, VisitRegular, ConsiderRegular,
         FilterRegular, ReturnFirstRegular, ReturnMatchesRegular DEF Reader
    <3>2. ASSUME NEW r \in Readers, r # q PROVE rd'[r] = rd[r] /\ old'[r] = old[r]
      BY <1>1, <1>3, <3>2 DEF Match, Rest, Reader, LoadVersion, LoadIds, LoadMeta, LoadRemoved,
         LoadAbsent, Visit, Consider, ReturnFirst, Filter, ReturnMatches
    <3>3. QED
      BY <1>1, <2>1, <3>1, <3>2, OtherRegular
  <2>4. QED
    BY <2>2, <2>3
<1>4. QED
  BY <1>1, <1>2, <1>3 DEF Next

\* The writer's part is preserved by every step.
LEMMA RegularStep ==
    ASSUME WriterPart, RegularWriter, CallNext
    PROVE  RegularWriter'
<1>1. CASE Writer
  BY <1>1, RegularWriterStep
<1>2. CASE ~Writer
  <2>1. UNCHANGED wvars
    BY <1>2, ReaderStep DEF CallNext, Next
  <2>2. before' = before /\ after' = after
    BY <2>1 DEF CallNext, CallStarts, CallEnds, wvars
  <2>3. QED
    BY <2>1, <2>2, RegularWriterSame
<1>3. QED
  BY <1>1, <1>2

\* Nothing happens in a step that changes no variable.
LEMMA RegularStutter ==
    ASSUME UNCHANGED hvars
    PROVE  /\ RegularWriter => RegularWriter'
           /\ (\A r \in Readers : RegularReader(r)) => (\A r \in Readers : RegularReader(r))'
<1>1. /\ hasTab' = hasTab /\ table' = table /\ nums' = nums /\ dead' = dead /\ count' = count
      /\ w' = w /\ rd' = rd /\ old' = old /\ added' = added /\ seen' = seen
      /\ before' = before /\ after' = after
  BY DEF hvars, vars
<1>2. RegularWriter => RegularWriter'
  BY <1>1, RegularWriterSame DEF wvars
<1>3. ASSUME NEW r \in Readers, RegularReader(r) PROVE RegularReader(r)'
  <2>1. Tab(r)' = Tab(r)
    BY <1>1 DEF Tab
  <2>2. View(r)' = View(r)
    BY <1>1, <2>1 DEF View, SeenLimit, SeenMeta, SeenRemoved, SeenVersion, SeenAbsent
  <2>3. /\ SeenLimit(r)' = SeenLimit(r) /\ (SeenAbsent(r)' <=> SeenAbsent(r))
        /\ \A n : /\ IdOf(r, n)' = IdOf(r, n) /\ SeenKey(r, n)' = SeenKey(r, n)
                  /\ Hidden(r, n)' <=> Hidden(r, n)
    BY <2>2, SameView
  <2>4. SeenBook(r) => SeenBook(r)'
    BY <1>1 DEF SeenBook
  <2>5. MayFits(r) => MayFits(r)'
    BY <1>1, <2>1, <2>3 DEF MayFits
  <2>6. \A n, b : Witnesses(r, n, b) => Witnesses(r, n, b)'
    BY <1>1, <2>1, <2>3 DEF Witnesses, Ahead
  <2>7. MustFits(r) => MustFits(r)'
    BY <1>1, <2>3, <2>6 DEF MustFits
  <2>8. OnTheWay(r) => OnTheWay(r)'
    BY <1>1, <2>1, <2>3 DEF OnTheWay
  <2>9. ReturnFits(r) => ReturnFits(r)'
    BY <1>1 DEF ReturnFits, Result, Known, Earlier
  <2>10. QED
    BY <1>1, <1>3, <2>4, <2>5, <2>7, <2>8, <2>9 DEF RegularReader, Reading, Done
<1>4. QED
  BY <1>2, <1>3

-----------------------------------------------------------------------------
(* The theorems.                                                           *)

\* The invariant behind what Match and MatchFirst return: the edges lead to
\* every rule of a number, no minKey on the way is above its key, and the numbers
\* have the rules that the rule book holds before and after the writer's call in
\* progress; a call that must report an identifier sees a number of it and has
\* that number, or a better one, or is on the way to it (insert, visit, improve,
\* begin, results).
THEOREM RegularInductive == CallSpec => []RegularInv
<1> DEFINE ReadersPart == \A r \in Readers : ReaderPart(r)
           RegularPart == \A r \in Readers : RegularReader(r)
<1>1. CallInit => RegularWriter /\ RegularPart
  <2>1. CallInit => \A r \in Readers : rd[r].pc = "idle"
    BY DEF CallInit, Init, IdleReader
  <2>2. QED
    BY <2>1, RegularWriterInit DEF RegularReader, Reading, Done
<1>2. WriterPart /\ RegularWriter /\ [CallNext]_hvars => RegularWriter'
  BY RegularStep, RegularStutter
<1>3. /\ WriterPart /\ WriterPart' /\ RegularWriter /\ StartRegular'
      /\ ReadersPart /\ RegularPart /\ [CallNext]_hvars
      => RegularPart'
  BY RegularReaderStep, RegularStutter
<1>4. WriterPart /\ RegularWriter => StartRegular
  BY StartFits
<1>5. ResultsInv <=> WriterPart /\ ReadersPart
  BY DEF ResultsInv
<1>6. RegularInv <=> ResultsInv /\ RegularWriter /\ RegularPart
  BY DEF RegularInv
<1> HIDE DEF ReadersPart, RegularPart
<1>7. QED
  BY <1>1, <1>2, <1>3, <1>4, <1>5, <1>6, ResultsInductive, PTL DEF CallSpec

\* Every identifier that Match returns has a rule that the event matches at some
\* instant of the call, and every identifier with a rule that it matches
\* throughout the call is returned, while AddRule, ReplaceRule, RemoveRule and
\* compact go on.
THEOREM MatchRegular == CallSpec => []MatchIsRegular
<1>1. RegularInv => MatchIsRegular
  BY DEF RegularInv, RegularReader, ReturnFits, MatchIsRegular
<1>2. QED
  BY RegularInductive, <1>1, PTL

\* MatchFirst returns an identifier that may match, one if any matches throughout
\* the call, and none that was added after one that does: no rule that is left out
\* by minKey is better than the one returned.
THEOREM FirstIsFirst == CallSpec => []MatchFirstIsFirst
<1>1. RegularInv => MatchFirstIsFirst
  BY DEF RegularInv, RegularReader, ReturnFits, MatchFirstIsFirst
<1>2. QED
  BY RegularInductive, <1>1, PTL

-----------------------------------------------------------------------------
(***************************************************************************)
(* HyperMatch implements RuleBook: every store of AddRule, ReplaceRule,    *)
(* RemoveRule and compact, and every step of a reader, is a step of the    *)
(* rule book that a Match call starting now would see, or changes nothing  *)
(* of it.                                                                  *)
(***************************************************************************)

(* The part of the invariant that only the refinement needs.               *)

\* What the call in progress is, and that its outcome is the one it promises.
CallKind ==
    /\ w.pc # "idle" => w.op \in {"add", "replace", "remove"}
    /\ w.pc \in {"number", "unlock"} => w.op # "remove"
    /\ w.pc \in Inside => w.op # "remove"
    /\ Replacing => w.op = "replace"
    /\ w.pc = "compact" => w.op # "add" /\ (w.op = "remove" => ~Known(w.id))

Promised ==
    w.pc # "idle" /\ ~(w.pc = "number" /\ Number = MaxRules) =>
        /\ w.op = "add" => Elems(w.sets) \subseteq after[w.id]
        /\ w.op = "replace" => after[w.id] = Elems(w.sets)

\* No two identifiers were each added after the other.
AddedOnce == \A a, b \in Ids : Earlier(a, b) => ~Earlier(b, a)

KindFits == CallKind /\ Promised /\ AddedOnce

ShownInv == WriterPart /\ RegularWriter /\ KindFits

\* A call keeps what it was called with until it returns.
LEMMA CallKept ==
    ASSUME WriterInv, Writer, w.pc # "idle"
    PROVE  \/ w' = IdleWriter
           \/ /\ w'.op = w.op /\ w'.id = w.id /\ w'.sets = w.sets /\ w'.old = w.old
              /\ w'.pc # "idle"
<1>1. w \in Writers
  BY DEF WriterInv
<1>2. CASE NewNumber \/ TooManyRules \/ MetaGrow \/ MetaSpan \/ MetaOrder \/ PublishId
  BY <1>1, <1>2 DEF NewNumber, TooManyRules, MetaGrow, MetaSpan, MetaOrder, PublishId, Return,
     Writers
<1>3. CASE LowerMinKey \/ Follow \/ LinkAbsent
  BY <1>1, <1>3 DEF LowerMinKey, Follow, LinkAbsent, Writers
<1>4. CASE AddNumber \/ Unlock \/ PublishVersion
  BY <1>1, <1>4 DEF AddNumber, Unlock, PublishVersion, Return, Writers
<1>5. CASE Retire \/ BitGrow \/ BitSet \/ Forget \/ Compact
  BY <1>1, <1>5 DEF Retire, BitGrow, BitSet, Forget, Compact, CountDead, Return, Writers
<1>6. QED
  BY <1>2, <1>3, <1>4, <1>5 DEF Writer, AddRule, ReplaceRule, RemoveRule

\* Where a call is in its code tells what it is.
LEMMA KindStep ==
    ASSUME WriterPart, CallKind, CallNext, Writer
    PROVE  CallKind'
<1>1. /\ WriterInv /\ NumbersFit /\ w \in Writers
      /\ nums \in [Ids -> {NoNumber} \cup 0..Number - 1]
  BY DEF WriterPart, BookInv, Inv, WriterInv, Number
<1>2. CASE w.pc = "idle"
  BY <1>1, <1>2, CallBegins DEF CallKind, Inside, Replacing
<1>3. CASE w.pc # "idle" /\ w' = IdleWriter
  BY <1>3 DEF CallKind, Inside, Replacing, IdleWriter
<1>4. CASE w.pc # "idle" /\ w'.pc # "idle"
  <2>1. /\ w'.op = w.op /\ w'.id = w.id /\ w'.old = w.old
        /\ w.op \in {"add", "replace", "remove"}
    BY <1>1, <1>4, CallKept DEF IdleWriter, CallKind
  <2>2. CASE NewNumber \/ MetaGrow \/ MetaSpan \/ MetaOrder \/ PublishId
    <3>1. /\ w'.pc \in {"lower", "span", "order", "ids", "version"}
          /\ w'.pc # "lower" => Replacing
          /\ w'.pc = "lower" => w.pc = "number" \/ Replacing
      BY <1>1, <2>2 DEF NewNumber, MetaGrow, MetaSpan, MetaOrder, PublishId, Writers,
         NumbersFit, CallFits, Replacing
    <3>2. Replacing' => Replacing
      <4>1. w.pc = "number" => w.old = NoNumber
        BY <1>1 DEF WriterInv, WriterFits
      <4>2. QED
        BY <2>1, <3>1, <4>1 DEF Replacing
    <3>3. QED
      BY <2>1, <3>1, <3>2 DEF CallKind, Inside
  <2>3. CASE LowerMinKey \/ Follow \/ LinkAbsent \/ AddNumber
    <3>1. /\ w.pc \in Inside
          /\ w'.pc \in Inside \/ w'.pc = "unlock" \/ (w'.pc = "span" /\ w.old # NoNumber)
      BY <1>1, <2>3 DEF LowerMinKey, Follow, LinkAbsent, AddNumber, Writers, Inside
    <3>2. Replacing' => Replacing
      BY <2>1, <3>1 DEF Replacing, Inside
    <3>3. QED
      BY <2>1, <3>1, <3>2 DEF CallKind, Inside
  <2>4. CASE PublishVersion \/ BitGrow \/ BitSet
    <3>1. /\ w'.pc \in {"retire", "bit", "forget"}
          /\ Replacing' => Replacing
      BY <1>1, <2>1, <2>4 DEF PublishVersion, BitGrow, BitSet, Writers, Replacing
    <3>2. QED
      BY <2>1, <3>1 DEF CallKind, Inside
  <2>5. CASE Retire \/ Forget
    <3>1. w'.pc = "compact"
      BY <1>1, <1>4, <2>5 DEF Retire, Forget, CountDead, Return, IdleWriter, Writers
    <3>2. w.pc = "retire" => w.op = "replace"
      BY <1>1 DEF NumbersFit, CallFits, Replacing, CallKind
    <3>3. w.pc = "forget" => w.op = "remove"
      BY DEF WriterPart, GoneFits
    <3>4. Forget => nums'[w.id] = NoNumber
      BY <1>1 DEF Forget, WriterInv, WriterFits
    <3>5. QED
      BY <2>1, <2>5, <3>1, <3>2, <3>3, <3>4 DEF CallKind, Inside, Replacing, Known, Retire, Forget
  <2>6. CASE TooManyRules \/ Unlock \/ Compact
    BY <1>4, <2>6 DEF TooManyRules, Unlock, Compact, Return, IdleWriter
  <2>7. QED
    BY <1>4, <2>2, <2>3, <2>4, <2>5, <2>6 DEF Writer, AddRule, ReplaceRule, RemoveRule
<1>5. QED
  BY <1>1, <1>2, <1>3, <1>4, CallKept

\* The outcome that the rule book has for a call stays the one it promises.
LEMMA PromisedStep ==
    ASSUME WriterPart, BookFits, Promised, CallNext, Writer
    PROVE  Promised'
<1>1. /\ WriterInv /\ w \in Writers /\ after \in [Ids -> SUBSET Bodies]
  BY DEF WriterPart, BookInv, Inv, WriterInv, BookFits
<1>2. after' = IF CallStarts THEN [after EXCEPT ![w'.id] = Outcome] ELSE after
  BY DEF CallNext
<1>3. CASE w.pc = "idle"
  <2>1. w'.pc # "idle" /\ w'.id \in Ids /\ CallStarts /\ UNCHANGED table
    BY <1>1, <1>3, CallBegins, StartStep DEF CallStarts
  <2>2. after'[w'.id] = Outcome /\ Number' = Number
    BY <1>1, <1>2, <2>1 DEF Number
  <2>3. SUFFICES ASSUME ~(w'.pc = "number" /\ Number = MaxRules)
                 PROVE  /\ w'.op = "add" => Elems(w'.sets) \subseteq Outcome
                        /\ w'.op = "replace" => Outcome = Elems(w'.sets)
    BY <2>2 DEF Promised, Elems
  <2>4. QED
    BY <2>3 DEF Outcome
<1>4. CASE w.pc # "idle"
  <2>1. CASE w' = IdleWriter
    BY <2>1 DEF Promised, IdleWriter
  <2>2. CASE w' # IdleWriter
    <3>1. /\ w'.op = w.op /\ w'.id = w.id /\ w'.sets = w.sets
      BY <1>1, <1>4, <2>2, CallKept
    <3>2. after' = after
      BY <1>2, <1>4 DEF CallStarts
    <3>3. ~(w.pc = "number" /\ Number = MaxRules)
      <4> SUFFICES ASSUME w.pc = "number", Number = MaxRules PROVE FALSE
        OBVIOUS
      <4>1. TooManyRules
        BY ConstantsAssumption DEF Writer, AddRule, ReplaceRule, RemoveRule, NewNumber, MetaGrow,
           MetaSpan, MetaOrder, PublishId, LowerMinKey, Follow, LinkAbsent, AddNumber, Unlock,
           PublishVersion, Retire, BitGrow, BitSet, Forget, Compact
      <4>2. QED
        BY <2>2, <4>1 DEF TooManyRules, Return
    <3>4. QED
      BY <1>4, <3>1, <3>2, <3>3 DEF Promised, Elems
  <2>3. QED
    BY <2>1, <2>2
<1>5. QED
  BY <1>3, <1>4

\* Whoever is added comes last.
LEMMA AddedOnceStep ==
    ASSUME WriterInv, AddedOnce, CallNext
    PROVE  AddedOnce'
<1>1. Next /\ added' = IF CallStarts /\ w'.pc = "number" /\ Number < MaxRules
                       THEN AddedLast(w'.id) ELSE added
  BY DEF CallNext
<1>2. CASE added' = added
  BY <1>2 DEF AddedOnce, Earlier
<1>3. CASE CallStarts /\ added' = AddedLast(w'.id)
  <2> DEFINE id == w'.id
  <2>1. SUFFICES ASSUME NEW a \in Ids, NEW b \in Ids,
                        <<a, b>> \in AddedLast(id), <<b, a>> \in AddedLast(id)
                 PROVE  FALSE
    BY <1>3 DEF AddedOnce, Earlier
  <2>2. /\ (<<a, b>> \in added /\ id # a /\ id # b) \/ (b = id /\ a # id)
        /\ (<<b, a>> \in added /\ id # a /\ id # b) \/ (a = id /\ b # id)
    BY <2>1 DEF AddedLast
  <2>3. <<a, b>> \in added /\ <<b, a>> \in added
    BY <2>2
  <2>4. QED
    BY <2>3 DEF AddedOnce, Earlier
<1>4. QED
  BY <1>1, <1>2, <1>3

\* The part of the invariant is preserved by every step,
LEMMA KindFitsStep ==
    ASSUME WriterPart, RegularWriter, KindFits, CallNext
    PROVE  KindFits'
<1>1. WriterInv /\ BookFits /\ Next
  BY DEF WriterPart, BookInv, Inv, RegularWriter, CallNext
<1>2. AddedOnce'
  BY <1>1, AddedOnceStep DEF KindFits
<1>3. CASE Writer
  BY <1>1, <1>2, <1>3, KindStep, PromisedStep DEF KindFits
<1>4. CASE UNCHANGED wvars
  <2>1. /\ table' = table /\ nums' = nums /\ w' = w /\ after' = after
    BY <1>4 DEF wvars, CallNext, CallStarts
  <2>2. CallKind'
    BY <2>1 DEF KindFits, CallKind, Inside, Replacing, Known
  <2>3. Promised'
    BY <2>1 DEF KindFits, Promised, Number, Elems
  <2>4. QED
    BY <1>2, <2>2, <2>3 DEF KindFits
<1>5. Writer \/ UNCHANGED wvars
  BY <1>1, ReaderStep DEF Next
<1>6. QED
  BY <1>3, <1>4, <1>5

\* and it holds initially.
LEMMA KindFitsInit == CallInit => KindFits
<1> SUFFICES ASSUME CallInit PROVE KindFits
  OBVIOUS
<1>1. w = IdleWriter
  BY DEF CallInit, Init
<1>2. CallKind /\ Promised
  BY <1>1 DEF CallKind, Promised, Inside, Replacing, IdleWriter
<1>3. AddedOnce
  <2>1. SUFFICES ASSUME NEW a \in Ids, NEW b \in Ids, <<a, b>> \in added, <<b, a>> \in added
                 PROVE  FALSE
    BY DEF AddedOnce, Earlier
  <2>2. PICK i, j \in 1..Len(Preload) : i < j /\ a = Preload[i].id /\ b = Preload[j].id
    BY <2>1 DEF CallInit
  <2>3. PICK k, l \in 1..Len(Preload) : k < l /\ b = Preload[k].id /\ a = Preload[l].id
    BY <2>1 DEF CallInit
  <2>4. i = l /\ j = k
    BY <2>2, <2>3, ConstantsAssumption
  <2>5. i \in Int /\ j \in Int
    OBVIOUS
  <2>6. QED
    BY <2>2, <2>3, <2>4, <2>5
<1>4. QED
  BY <1>2, <1>3 DEF KindFits

-----------------------------------------------------------------------------
(* What a Match call starting now would see, by identifiers.               *)

\* RemoveRule has not yet dropped the number of id.
Stands(id) == Known(id) /\ ~(w.pc = "forget" /\ id = w.id)

StandingIds == {id \in Ids : Stands(id)}
StandingOrder == {p \in StandingIds \X StandingIds : Earlier(p[1], p[2])}
StandingBook == [id \in Ids |-> IF Stands(id) THEN BodiesOf(table, Standing(id)) ELSE {}]

ShownIs == /\ ShownIds = StandingIds
           /\ ShownOrder = StandingOrder
           /\ ShownBook = StandingBook

\* It would see one number of each identifier that stands, and no other number.
LEMMA ShownStands ==
    ASSUME WriterPart, RegularWriter
    PROVE  /\ Shown \subseteq 0..Number - 1
           /\ \A id \in Ids : Stands(id) =>
                /\ Standing(id) \in Shown /\ table.ids[Standing(id) + 1] = id
           /\ \A n \in Shown :
                /\ table.ids[n + 1] \in Ids /\ Stands(table.ids[n + 1])
                /\ n = Standing(table.ids[n + 1])
                /\ Order(table, n) = Order(table, nums[table.ids[n + 1]])
<1>1. /\ Inv /\ KeyFits /\ WriterInv /\ NumbersFit /\ PlaceFits /\ w \in Writers
      /\ table \in Tables /\ Number \in Nat /\ table.version \in Nat
  BY TableParts DEF WriterPart, BookInv, Inv, WriterInv, Number
<1>2. \A n : n \in Shown <=> n \in 0..Number - 1 /\ Current(n) /\ From(n) <= table.version
  BY <1>1, LiveParts DEF Shown, From
<1>3. ASSUME NEW id \in Ids, Stands(id)
      PROVE  Standing(id) \in Shown /\ table.ids[Standing(id) + 1] = id
  BY <1>2, <1>3, StandingShown DEF Stands, Current
<1>4. ASSUME NEW n \in Shown
      PROVE  /\ table.ids[n + 1] \in Ids /\ Stands(table.ids[n + 1])
             /\ n = Standing(table.ids[n + 1])
             /\ Order(table, n) = Order(table, nums[table.ids[n + 1]])
  <2> DEFINE id == table.ids[n + 1]
  <2>1. n \in 0..Number - 1 /\ Current(n) /\ From(n) <= table.version
    BY <1>2
  <2>2. id \in Ids /\ Known(id) /\ Order(table, n) = Order(table, nums[id])
    BY <1>1, <2>1, CurrentOwner
  <2>3. CASE nums[id] = n
    <3>1. Stands(id)
      <4> SUFFICES ASSUME w.pc = "forget", id = w.id PROVE FALSE
        BY <2>2 DEF Stands
      <4>1. w.num = nums[w.id] /\ Dropped(w.num)
        BY <1>1 DEF NumbersFit, CallFits
      <4>2. QED
        BY <2>1, <2>3, <4>1 DEF Current
    <3>2. ~(w.pc = "retire" /\ id = w.id)
      <4> SUFFICES ASSUME w.pc = "retire", id = w.id PROVE FALSE
        OBVIOUS
      <4>1. Replacing
        BY <1>1 DEF NumbersFit, CallFits, Replacing
      <4>2. w.old = n /\ Until(w.old) = table.version /\ table.version # 0
        BY <1>1, <2>3, <4>1 DEF NumbersFit, CallFits, Ending
      <4>3. Until(n) = table.version
        BY <4>2
      <4>4. QED
        BY <1>1, <2>1, <4>2, <4>3 DEF Current
    <3>3. QED
      BY <2>2, <2>3, <3>1, <3>2 DEF Standing
  <2>4. CASE nums[id] # n
    <3>1. Replacing /\ n = w.num /\ w.num < Number
      BY <1>1, <2>1, <2>4 DEF NumbersFit, Owned, Pending
    <3>2. id = w.id /\ From(n) = w.v
      BY <1>1, <3>1 DEF NumbersFit, CallFits, PlaceFits
    <3>3. w.pc = "retire"
      BY <1>1, <2>1, <3>1, <3>2 DEF NumbersFit, CallFits, Writers
    <3>4. QED
      BY <2>2, <3>1, <3>2, <3>3 DEF Standing, Stands
  <2>5. QED
    BY <2>2, <2>3, <2>4
<1>5. QED
  BY <1>2, <1>3, <1>4

\* So it would see the identifiers that stand, each with the bodies of its
\* number, in the order in which they were added.
LEMMA BookIs == ShownInv => ShownIs
<1> SUFFICES ASSUME ShownInv PROVE ShownIs
  OBVIOUS
<1>1. /\ Inv /\ WriterPart /\ RegularWriter /\ InOrder /\ AddedOnce /\ TrieFits
      /\ WriterInv /\ table \in Tables /\ Number \in Nat
      /\ nums \in [Ids -> {NoNumber} \cup 0..Number - 1]
  BY TableParts DEF ShownInv, WriterPart, BookInv, Inv, WriterInv, RegularWriter, KindFits, Number
<1>2. /\ Shown \subseteq 0..Number - 1
      /\ \A id \in Ids : Stands(id) => Standing(id) \in Shown /\ table.ids[Standing(id) + 1] = id
      /\ \A n \in Shown : /\ table.ids[n + 1] \in Ids /\ Stands(table.ids[n + 1])
                          /\ n = Standing(table.ids[n + 1])
                          /\ Order(table, n) = Order(table, nums[table.ids[n + 1]])
  BY <1>1, ShownStands
<1>3. ShownIds = StandingIds
  <2>1. ASSUME NEW x \in ShownIds PROVE x \in StandingIds
    BY <1>2 DEF ShownIds, StandingIds
  <2>2. ASSUME NEW x \in StandingIds PROVE x \in ShownIds
    BY <1>2 DEF ShownIds, StandingIds
  <2>3. QED
    BY <2>1, <2>2
<1>4. ShownOrder = StandingOrder
  <2>1. ASSUME NEW n \in Shown, NEW m \in Shown
        PROVE  Before(ShownKeys, n, m) <=> Earlier(table.ids[n + 1], table.ids[m + 1])
    <3> DEFINE a == table.ids[n + 1]
               b == table.ids[m + 1]
    <3>1. /\ a \in Ids /\ b \in Ids /\ Known(a) /\ Known(b)
          /\ n = Standing(a) /\ m = Standing(b)
          /\ ShownKeys[n] = Order(table, nums[a]) /\ ShownKeys[m] = Order(table, nums[b])
          /\ n \in Int /\ m \in Int
      BY <1>2 DEF Stands, ShownKeys
    <3>2. Order(table, nums[a]) \in Nat /\ Order(table, nums[b]) \in Nat
      <4>1. nums[a] \in Nat /\ nums[b] \in Nat /\ Len(table.meta) \in 0..Len(table.meta)
        BY <1>1, <3>1, TableParts DEF Known
      <4>2. QED
        BY <1>1, <4>1, MetaType DEF Order
    <3>3. CASE a = b
      <4>1. ~Before(ShownKeys, n, m)
        BY <3>1, <3>2, <3>3 DEF Before
      <4>2. ~Earlier(a, b)
        BY <1>1, <3>1, <3>3 DEF AddedOnce
      <4>3. QED
        BY <4>1, <4>2
    <3>4. CASE a # b
      <4>1. /\ Order(table, nums[a]) <= Order(table, nums[b]) => Earlier(a, b)
            /\ Order(table, nums[b]) <= Order(table, nums[a]) => Earlier(b, a)
        BY <1>1, <3>1, <3>4 DEF InOrder
      <4>2. Earlier(a, b) => ~Earlier(b, a)
        BY <1>1, <3>1 DEF AddedOnce
      <4>3. Before(ShownKeys, n, m) => Order(table, nums[a]) <= Order(table, nums[b])
        BY <3>1, <3>2 DEF Before
      <4>4. Order(table, nums[a]) < Order(table, nums[b]) => Before(ShownKeys, n, m)
        BY <3>1, <3>2 DEF Before
      <4>5. QED
        BY <3>2, <4>1, <4>2, <4>3, <4>4
    <3>5. QED
      BY <3>3, <3>4
  <2>2. ASSUME NEW p \in ShownOrder PROVE p \in StandingOrder
    <3>1. PICK n \in Shown, m \in Shown :
             /\ Before(ShownKeys, n, m)
             /\ p = <<table.ids[n + 1], table.ids[m + 1]>>
      BY DEF ShownOrder
    <3>2. table.ids[n + 1] \in StandingIds /\ table.ids[m + 1] \in StandingIds
      BY <1>2 DEF StandingIds
    <3>3. Earlier(table.ids[n + 1], table.ids[m + 1])
      BY <2>1, <3>1
    <3>4. QED
      BY <3>1, <3>2, <3>3 DEF StandingOrder
  <2>3. ASSUME NEW p \in StandingOrder PROVE p \in ShownOrder
    <3>1. PICK a \in StandingIds, b \in StandingIds : p = <<a, b>> /\ Earlier(a, b)
      BY DEF StandingOrder
    <3>2. /\ Standing(a) \in Shown /\ table.ids[Standing(a) + 1] = a
          /\ Standing(b) \in Shown /\ table.ids[Standing(b) + 1] = b
      BY <1>2 DEF StandingIds
    <3>3. Before(ShownKeys, Standing(a), Standing(b))
      BY <2>1, <3>1, <3>2
    <3>4. <<Standing(a), Standing(b)>> \in {q \in Shown \X Shown : Before(ShownKeys, q[1], q[2])}
      BY <3>2, <3>3
    <3>5. QED
      BY <3>1, <3>2, <3>4 DEF ShownOrder
  <2>4. QED
    BY <2>2, <2>3
<1>5. ShownBook = StandingBook
  <2>1. ASSUME NEW id \in Ids, NEW b \in Bodies
        PROVE  (\E n \in Shown : /\ table.ids[n + 1] = id
                                 /\ n \in table.rules[b]
                                 /\ \A k \in 1..Len(b) : SubSeq(b, 1, k) \in table.edges)
                 <=> Stands(id) /\ b \in BodiesOf(table, Standing(id))
    <3>1. b \in Paths
      BY BodyPath
    <3>2. ASSUME NEW n \in Shown, n \in table.rules[b]
          PROVE  \A k \in 1..Len(b) : SubSeq(b, 1, k) \in table.edges
      BY <1>1, <3>1, <3>2 DEF TrieFits, Leads
    <3>3. QED
      BY <1>2, <3>1, <3>2 DEF BodiesOf
  <2>2. ASSUME NEW id \in Ids, Stands(id) PROVE BodiesOf(table, Standing(id)) \subseteq Bodies
    BY <1>1 DEF TrieFits, BodiesOf
  <2>3. ASSUME NEW id \in Ids
        PROVE  ShownBook[id] = StandingBook[id]
    <3>1. ASSUME NEW b \in ShownBook[id] PROVE b \in StandingBook[id]
      BY <2>1, <3>1 DEF ShownBook, StandingBook
    <3>2. ASSUME NEW b \in StandingBook[id] PROVE b \in ShownBook[id]
      BY <2>1, <2>2, <3>2 DEF ShownBook, StandingBook
    <3>3. QED
      BY <3>1, <3>2
  <2>4. QED
    BY <2>3 DEF ShownBook, StandingBook
<1>6. QED
  BY <1>3, <1>4, <1>5 DEF ShownIs

-----------------------------------------------------------------------------
(* Steps that the rule book does not see, or sees as a call's return.      *)

\* A call of the writer leaves the order of the identifiers that are present.
LEMMA EarlierSame ==
    ASSUME WriterInv, CallNext, NEW a \in Ids, NEW b \in Ids, Known(a), Known(b)
    PROVE  Earlier(a, b)' <=> Earlier(a, b)
<1>1. Next /\ added' = IF CallStarts /\ w'.pc = "number" /\ Number < MaxRules
                       THEN AddedLast(w'.id) ELSE added
  BY DEF CallNext
<1>2. CASE CallStarts /\ w'.pc = "number" /\ Number < MaxRules
  <2>1. ~Known(w'.id)
    BY <1>1, <1>2, Starting
  <2>2. a # w'.id /\ b # w'.id
    BY <2>1
  <2>3. added' = AddedLast(w'.id)
    BY <1>1, <1>2
  <2>4. <<a, b>> \in AddedLast(w'.id) <=> <<a, b>> \in added
    BY <2>2 DEF AddedLast
  <2>5. QED
    BY <2>3, <2>4 DEF Earlier
<1>3. QED
  BY <1>1, <1>2 DEF Earlier

\* If the same identifiers stand, they do so in the same order.
LEMMA OrderSame ==
    ASSUME WriterInv, CallNext, \A id \in Ids : Stands(id)' <=> Stands(id)
    PROVE  StandingIds' = StandingIds /\ StandingOrder' = StandingOrder
<1>1. StandingIds' = StandingIds
  BY DEF StandingIds
<1>2. \A a, b \in StandingIds : Earlier(a, b)' <=> Earlier(a, b)
  BY EarlierSame DEF StandingIds, Stands
<1>3. ASSUME NEW p PROVE p \in StandingOrder' <=> p \in StandingOrder
  <2>1. p \in StandingOrder' <=> p \in StandingIds' \X StandingIds' /\ Earlier(p[1], p[2])'
    BY DEF StandingOrder
  <2>2. p \in StandingOrder <=> p \in StandingIds \X StandingIds /\ Earlier(p[1], p[2])
    BY DEF StandingOrder
  <2>3. p \in StandingIds \X StandingIds => p[1] \in StandingIds /\ p[2] \in StandingIds
    OBVIOUS
  <2>4. QED
    BY <1>1, <1>2, <2>1, <2>2, <2>3
<1>4. StandingOrder' = StandingOrder
  BY <1>3 DEF StandingOrder
<1>5. QED
  BY <1>1, <1>4

\* If the same identifiers stand, with the same bodies, a Match call sees the same.
LEMMA SeenSame ==
    ASSUME ShownInv, ShownInv', CallNext,
           \A id \in Ids : Stands(id)' <=> Stands(id),
           \A id \in Ids : Stands(id) =>
              BodiesOf(table', Standing(id)') = BodiesOf(table, Standing(id))
    PROVE  UNCHANGED <<ShownIds, ShownOrder, ShownBook>>
<1>1. ShownIs /\ ShownIs'
  <2>1. ShownIs
    BY BookIs
  <2>2. ShownInv' => ShownIs'
    BY BookIs, PTL
  <2>3. QED
    BY <2>1, <2>2
<1>2. StandingIds' = StandingIds /\ StandingOrder' = StandingOrder
  BY OrderSame DEF ShownInv, WriterPart, BookInv, Inv
<1>3. StandingBook' = StandingBook
  <2>1. StandingBook' =
          [id \in Ids |-> IF Stands(id)' THEN BodiesOf(table', Standing(id)') ELSE {}]
    BY DEF StandingBook, BodiesOf
  <2>2. \A id \in Ids :
          (IF Stands(id)' THEN BodiesOf(table', Standing(id)') ELSE {}) =
             IF Stands(id) THEN BodiesOf(table, Standing(id)) ELSE {}
    OBVIOUS
  <2>3. QED
    BY <2>1, <2>2 DEF StandingBook
<1>4. QED
  BY <1>1, <1>2, <1>3 DEF ShownIs

\* A step that stores no rule, version or bit, and leaves h.nums alone.
LEMMA SeenQuiet ==
    ASSUME ShownInv, ShownInv', CallNext, Writer, nums' = nums,
           w.pc \notin {"rule", "version", "retire", "forget", "compact"},
           w'.pc \notin {"retire", "forget"}
    PROVE  UNCHANGED <<ShownIds, ShownOrder, ShownBook>>
<1>1. WriterInv /\ TrieFits
  BY DEF ShownInv, WriterPart, BookInv, Inv, RegularWriter
<1>2. \A id \in Ids : Stands(id)' <=> Stands(id)
  BY DEF Stands, Known
<1>3. \A id \in Ids : Standing(id)' = nums[id] /\ Standing(id) = nums[id]
  BY DEF Standing
<1>4. \A id \in Ids : BodiesOf(table', Standing(id)') = BodiesOf(table, Standing(id))
  BY <1>1, <1>3, BodiesStep
<1>5. QED
  BY <1>2, <1>4, SeenSame

\* A call goes on, or is over.
LEMMA SeenCall ==
    ASSUME ShownInv, Writer, w.pc # "idle"
    PROVE  /\ ShownCall.op = w.op /\ ShownCall.id = w.id
           /\ ShownCall.bodies = Elems(w.sets)
           /\ (ShownCall.fresh <=> w.op = "replace" /\ w.old = NoNumber)
           /\ ShownCall # Book!NoCall
           /\ ShownCall' = IF w' = IdleWriter THEN Book!NoCall ELSE ShownCall
<1>1. WriterInv /\ w.op \in {"add", "replace", "remove"}
  BY DEF ShownInv, WriterPart, BookInv, Inv, KindFits, CallKind
<1>2. /\ ShownCall.op = w.op /\ ShownCall.id = w.id
      /\ ShownCall.bodies = Elems(w.sets)
      /\ (ShownCall.fresh <=> w.op = "replace" /\ w.old = NoNumber)
  BY DEF ShownCall
<1>3. ShownCall # Book!NoCall
  <2>1. Book!NoCall.op = "none"
    BY DEF Book!NoCall
  <2>2. QED
    BY <1>1, <1>2, <2>1
<1>4. CASE w' = IdleWriter
  <2>1. w'.pc = "idle"
    BY <1>4 DEF IdleWriter
  <2>2. QED
    BY <1>2, <1>3, <1>4, <2>1 DEF ShownCall, Book!NoCall
<1>5. CASE w' # IdleWriter
  <2>1. /\ w'.op = w.op /\ w'.id = w.id /\ w'.sets = w.sets /\ w'.old = w.old
        /\ w'.pc # "idle"
    BY <1>1, <1>5, CallKept
  <2>2. QED
    BY <1>2, <1>3, <1>5, <2>1 DEF ShownCall, Elems
<1>6. QED
  BY <1>4, <1>5

\* What leaves the book and the call alone changes at most whether numbers are left.
LEMMA Silent ==
    ASSUME UNCHANGED <<ShownIds, ShownOrder, ShownBook, ShownCall>>
    PROVE  [Book!Next]_Book!vars
<1>1. CASE (Number = MaxRules)' <=> (Number = MaxRules)
  BY <1>1 DEF Book!vars
<1>2. CASE ~((Number = MaxRules)' <=> (Number = MaxRules))
  BY <1>2 DEF Book!Next, Book!Renumber
<1>3. QED
  BY <1>1, <1>2

\* A call that has had its effect returns.
LEMMA Ends ==
    ASSUME ShownInv, Writer, w.pc # "idle", w' = IdleWriter,
           UNCHANGED <<ShownIds, ShownOrder, ShownBook>>,
           \/ w.op = "add" /\ Elems(w.sets) \subseteq ShownBook[w.id]
           \/ w.op = "replace" /\ ShownBook[w.id] = Elems(w.sets)
           \/ w.op = "remove" /\ w.id \notin ShownIds
           \/ w.op # "remove" /\ Number = MaxRules /\ w.id \notin ShownIds
    PROVE  Book!Next
<1>1. /\ ShownCall.op = w.op /\ ShownCall.id = w.id /\ ShownCall.bodies = Elems(w.sets)
      /\ ShownCall # Book!NoCall /\ ShownCall' = Book!NoCall
  BY SeenCall
<1>2. Book!End
  BY <1>1 DEF Book!End
<1>3. QED
  BY <1>2 DEF Book!Next

-----------------------------------------------------------------------------
(* Steps that the rule book sees.                                          *)

\* What the steps below need of the invariant, before and after.
LEMMA ShownParts ==
    ASSUME ShownInv, ShownInv', CallNext
    PROVE  /\ ShownIs /\ ShownIs'
           /\ Inv /\ WriterInv /\ NumbersFit /\ InOrder /\ TrieFits /\ BookFits /\ CallBook
           /\ KindFits /\ CallKind /\ Promised /\ AddedOnce /\ WriterPart /\ RegularWriter
           /\ w \in Writers /\ table \in Tables /\ Number \in Nat
           /\ nums \in [Ids -> {NoNumber} \cup 0..Number - 1]
           /\ (w.pc # "idle" => w.id \in Ids)
<1>1. ShownIs
  BY BookIs
<1>2. ShownIs'
  <2>1. ShownInv' => ShownIs'
    BY BookIs, PTL
  <2>2. QED
    BY <2>1
<1>3. QED
  BY <1>1, <1>2, TableParts DEF ShownInv, KindFits, WriterPart, RegularWriter, BookFits, BookInv,
     Inv, WriterInv, WriterFits, Number

\* A call that starts.
LEMMA BookBegin ==
    ASSUME ShownInv, ShownInv', CallNext, Writer, w.pc = "idle"
    PROVE  Book!Next
<1>1. WriterInv /\ ShownIs
  BY ShownParts
<1>2. UNCHANGED <<ShownIds, ShownOrder, ShownBook>>
  <2>1. nums' = nums /\ w'.pc \in {"lower", "number", "span", "bit"}
    BY <1>1, StartStep
  <2>2. QED
    BY <2>1, SeenQuiet
<1>2a. Number' = Number
  BY <1>1, StartStep DEF Number
<1>3. ShownCall = Book!NoCall
  BY DEF ShownCall, Book!NoCall
<1>4. ASSUME NEW id \in Ids PROVE id \in ShownIds <=> Known(id)
  BY <1>1 DEF ShownIs, StandingIds, Stands
<1>5. /\ w'.pc # "idle" /\ w'.id \in Targets /\ w'.id \in Ids
  BY <1>1, CallBegins, ConstantsAssumption
<1>6. ShownCall' = [op |-> w'.op, id |-> w'.id, bodies |-> Elems(w'.sets),
                    fresh |-> w'.op = "replace" /\ w'.old = NoNumber]
  BY <1>5 DEF ShownCall, Elems
<1>7. CASE w'.op = "remove"
  <2>1. w'.old = NoNumber /\ w'.id \in ShownIds
    BY <1>1, <1>4, <1>5, <1>7, CallBegins
  <2>2. Elems(w'.sets) = {}
    <3>1. w'.sets = <<>>
      BY <1>1, <1>7 DEF Writer, AddRule, ReplaceRule, RemoveRule, NewNumber, TooManyRules,
         MetaGrow, MetaSpan, MetaOrder, PublishId, LowerMinKey, Follow, LinkAbsent, AddNumber,
         Unlock, PublishVersion, Retire, BitGrow, BitSet, Forget, Compact, Calling, IdleWriter
    <3>2. QED
      BY <3>1 DEF Elems
  <2>3. ShownCall' = [op |-> "remove", id |-> w'.id, bodies |-> {}, fresh |-> FALSE]
    BY <1>6, <1>7, <2>2
  <2>4. Book!Begin
    BY <1>2, <1>2a, <1>3, <1>5, <2>1, <2>3 DEF Book!Begin
  <2>5. QED
    BY <2>4 DEF Book!Next
<1>8. CASE w'.op # "remove"
  <2>1. w'.op \in {"add", "replace"} /\ w'.sets \in RuleSets
    BY <1>1, <1>8, CallBegins
  <2>2. (w'.op = "replace" /\ w'.old = NoNumber) = (w'.op = "replace" /\ w'.id \notin ShownIds)
    <3>1. CASE w'.op = "add"
      BY <3>1
    <3>2. CASE w'.op = "replace"
      <4>1. w'.old = NoNumber <=> ~Known(w'.id)
        BY <1>1, <3>2, CallBegins DEF Known
      <4>2. w'.id \in ShownIds <=> Known(w'.id)
        BY <1>4, <1>5
      <4>3. QED
        BY <3>2, <4>1, <4>2
    <3>3. QED
      BY <2>1, <3>1, <3>2
  <2>3. ShownCall' = [op |-> w'.op, id |-> w'.id, bodies |-> Book!Elems(w'.sets),
                      fresh |-> w'.op = "replace" /\ w'.id \notin ShownIds]
    BY <1>6, <2>2 DEF Elems, Book!Elems
  <2>4. Book!Begin
    BY <1>2, <1>2a, <1>3, <1>5, <2>1, <2>3 DEF Book!Begin
  <2>5. QED
    BY <2>4 DEF Book!Next
<1>9. QED
  BY <1>7, <1>8

\* newNumber: the identifier is the last one, and has no body yet.
LEMMA BookRegister ==
    ASSUME ShownInv, ShownInv', CallNext, NewNumber
    PROVE  Book!Next
<1>1. /\ ShownIs /\ ShownIs' /\ WriterInv /\ NumbersFit /\ TrieFits /\ InOrder /\ AddedOnce
      /\ CallKind /\ w \in Writers /\ Number \in Nat /\ w.id \in Ids
      /\ nums \in [Ids -> {NoNumber} \cup 0..Number - 1]
      /\ w.pc = "number" /\ Number < MaxRules
  BY ShownParts DEF NewNumber
<1>2. /\ nums' = [nums EXCEPT ![w.id] = Number] /\ table' = [table EXCEPT !.ids = Append(@, w.id)]
      /\ w'.pc = "lower" /\ w'.id = w.id /\ added' = added
      /\ ~Known(w.id)
  BY <1>1 DEF NewNumber, Writers, CallNext, CallStarts, NumbersFit, CallFits
<1>3. ASSUME NEW id \in Ids
      PROVE  /\ Stands(id) <=> Known(id)
             /\ Stands(id)' <=> Known(id) \/ id = w.id
             /\ id # w.id => Standing(id)' = nums[id]
             /\ id = w.id => Standing(id)' = Number
             /\ Standing(id) = nums[id]
  BY <1>1, <1>2 DEF Stands, Standing, Known, NoNumber
<1>4. w.id \notin StandingIds /\ StandingIds' = StandingIds \cup {w.id}
  BY <1>1, <1>2, <1>3 DEF StandingIds
<1>5. StandingOrder' = StandingOrder \cup {<<x, w.id>> : x \in StandingIds}
  <2>1. \A a \in Ids \ {w.id} : Earlier(a, w.id) /\ ~Earlier(w.id, a)
    BY <1>1 DEF InOrder, AddedOnce
  <2>2. ~Earlier(w.id, w.id)
    BY <1>1 DEF AddedOnce
  <2>3. StandingOrder' = {p \in StandingIds' \X StandingIds' : Earlier(p[1], p[2])}
    BY <1>2 DEF StandingOrder, Earlier
  <2>4. StandingIds \subseteq Ids \ {w.id}
    BY <1>4 DEF StandingIds
  <2>5. ASSUME NEW p \in StandingOrder'
        PROVE  p \in StandingOrder \cup {<<x, w.id>> : x \in StandingIds}
    <3>1. PICK a \in StandingIds', b \in StandingIds' : p = <<a, b>> /\ Earlier(a, b)
      BY <2>3
    <3>2. CASE b = w.id
      BY <1>4, <2>2, <3>1, <3>2
    <3>3. CASE b # w.id
      <4>1. b \in StandingIds /\ b \in Ids \ {w.id}
        BY <1>4, <2>4, <3>1, <3>3
      <4>2. a # w.id
        BY <2>1, <3>1, <4>1
      <4>3. a \in StandingIds
        BY <1>4, <3>1, <4>2
      <4>4. QED
        BY <3>1, <4>1, <4>3 DEF StandingOrder
    <3>4. QED
      BY <3>2, <3>3
  <2>6. ASSUME NEW p \in StandingOrder PROVE p \in StandingOrder'
    BY <1>4, <2>3, <2>6 DEF StandingOrder
  <2>7. ASSUME NEW x \in StandingIds PROVE <<x, w.id>> \in StandingOrder'
    <3>1. Earlier(x, w.id) /\ x \in StandingIds' /\ w.id \in StandingIds'
      BY <1>4, <2>1, <2>4
    <3>2. QED
      BY <2>3, <3>1
  <2>8. QED
    BY <2>5, <2>6, <2>7
<1>6. StandingBook' = StandingBook
  <2>1. \A n : BodiesOf(table', n) = BodiesOf(table, n)
    BY <1>2 DEF BodiesOf
  <2>2. BodiesOf(table, Number) = {}
    BY <1>1, FreshBodies
  <2>3. StandingBook' =
          [id \in Ids |-> IF Stands(id)' THEN BodiesOf(table', Standing(id)') ELSE {}]
    BY DEF StandingBook, BodiesOf
  <2>4. ASSUME NEW id \in Ids
        PROVE  (IF Stands(id)' THEN BodiesOf(table', Standing(id)') ELSE {}) =
                  IF Stands(id) THEN BodiesOf(table, Standing(id)) ELSE {}
    <3>1. CASE id = w.id
      BY <1>2, <1>3, <2>1, <2>2, <3>1
    <3>2. CASE id # w.id
      BY <1>3, <2>1, <3>2
    <3>3. QED
      BY <3>1, <3>2
  <2>5. QED
    BY <2>3, <2>4 DEF StandingBook
<1>7. /\ ShownCall.op = w.op /\ ShownCall.id = w.id /\ ShownCall' = ShownCall
  <2>1. w' # IdleWriter /\ Writer
    BY <1>2 DEF IdleWriter, Writer
  <2>2. QED
    BY <1>1, <2>1, SeenCall
<1>8. w.op \in {"add", "replace"}
  BY <1>1 DEF CallKind
<1>9. Book!Register
  BY <1>1, <1>4, <1>5, <1>6, <1>7, <1>8 DEF Book!Register, ShownIs
<1>10. QED
  BY <1>9 DEF Book!Next

\* addRule: a new rule of an identifier that is not being replaced counts at
\* once, one of a replacement not before the version is published.
LEMMA BookAddBody ==
    ASSUME ShownInv, ShownInv', CallNext, AddNumber
    PROVE  [Book!Next]_Book!vars
<1>1. /\ ShownIs /\ ShownIs' /\ WriterInv /\ NumbersFit /\ TrieFits /\ BookFits /\ CallBook
      /\ CallKind /\ w \in Writers /\ Number \in Nat /\ w.id \in Ids /\ w.pc = "rule" /\ Writer
  BY ShownParts DEF AddNumber, Writer
<1>2. /\ nums' = nums /\ Number' = Number /\ w'.pc \in {"lower", "span", "unlock"}
      /\ w' # IdleWriter
  <2>1. table'.ids = table.ids
    BY <1>1, AddEffect
  <2>2. nums' = nums /\ w'.pc \in {"lower", "span", "unlock"}
    BY <1>1 DEF AddNumber, Writers
  <2>3. QED
    BY <2>1, <2>2 DEF Number, IdleWriter
<1>3. ASSUME NEW id \in Ids
      PROVE  /\ Stands(id) <=> Known(id)
             /\ Stands(id)' <=> Known(id)
             /\ Standing(id)' = nums[id] /\ Standing(id) = nums[id]
  BY <1>1, <1>2 DEF Stands, Standing, Known
<1>4. /\ \A n : n # w.num => BodiesOf(table', n) = BodiesOf(table, n)
      /\ BodiesOf(table', w.num) = BodiesOf(table, w.num) \cup {Body}
  BY <1>1, BodiesStep
<1>5. /\ ShownCall.op = w.op /\ ShownCall.id = w.id /\ ShownCall.bodies = Elems(w.sets)
      /\ (ShownCall.fresh <=> w.op = "replace" /\ w.old = NoNumber)
      /\ ShownCall' = ShownCall
  BY <1>1, <1>2, SeenCall
<1>6. CASE w.old # NoNumber
  <2>1. Replacing /\ w.old = nums[w.id] /\ w.old < w.num /\ w.num \in Int
    BY <1>1, <1>6 DEF Replacing, NumbersFit, CallFits, WriterInv, WriterFits, Writers
  <2>2. \A id \in Ids : Known(id) => nums[id] # w.num
    BY <1>1, <2>1, OthersNumber
  <2>3. UNCHANGED <<ShownIds, ShownOrder, ShownBook>>
    BY <1>3, <1>4, <2>2, SeenSame
  <2>4. QED
    BY <1>5, <2>3, Silent
<1>7. CASE w.old = NoNumber
  <2>1. Known(w.id) /\ nums[w.id] = w.num
    BY <1>1, <1>7 DEF CallBook, Inside
  <2>2. StandingIds' = StandingIds /\ StandingOrder' = StandingOrder
    BY <1>1, <1>3, OrderSame
  <2>3. StandingBook' = [StandingBook EXCEPT ![w.id] = @ \cup {Body}]
    <3>1. StandingBook' =
            [id \in Ids |-> IF Stands(id)' THEN BodiesOf(table', Standing(id)') ELSE {}]
      BY DEF StandingBook, BodiesOf
    <3>2. ASSUME NEW id \in Ids
          PROVE  (IF Stands(id)' THEN BodiesOf(table', Standing(id)') ELSE {}) =
                    IF id = w.id THEN StandingBook[id] \cup {Body} ELSE StandingBook[id]
      <4>1. StandingBook[id] = IF Known(id) THEN BodiesOf(table, nums[id]) ELSE {}
        BY <1>3 DEF StandingBook
      <4>2. CASE id = w.id
        BY <1>3, <1>4, <2>1, <4>1, <4>2
      <4>3. CASE id # w.id
        <5>1. Known(id) => nums[id] # w.num
          BY <1>1, <4>3, OthersNumber
        <5>2. QED
          BY <1>3, <1>4, <4>1, <4>3, <5>1
      <4>4. QED
        BY <4>2, <4>3
    <3>3. StandingBook = [id \in Ids |-> StandingBook[id]]
      BY DEF StandingBook
    <3> HIDE DEF StandingBook
    <3>4. QED
      BY <1>1, <3>1, <3>2, <3>3
  <2>4. Body \in Elems(w.sets)
    BY <1>1 DEF Elems, Body, WriterInv, WriterFits, Inserting
  <2>5. w.id \in StandingIds
    BY <1>1, <1>3, <2>1 DEF StandingIds
  <2>6. w.op = "add" \/ (w.op = "replace" /\ w.old = NoNumber)
    BY <1>1, <1>7 DEF CallKind, Inside
  <2>7. Book!AddBody
    BY <1>1, <1>2, <1>5, <2>2, <2>3, <2>4, <2>5, <2>6 DEF Book!AddBody, ShownIs
  <2>8. QED
    BY <2>7 DEF Book!Next
<1>8. QED
  BY <1>6, <1>7

\* The store of the version replaces all bodies of the identifier at once.
LEMMA BookReplace ==
    ASSUME ShownInv, ShownInv', CallNext, PublishVersion
    PROVE  Book!Next
<1>1. /\ ShownIs /\ ShownIs' /\ WriterInv /\ NumbersFit /\ TrieFits /\ CallBook /\ CallKind
      /\ Promised /\ w \in Writers /\ w.id \in Ids /\ w.pc = "version" /\ Writer
  BY ShownParts DEF PublishVersion, Writer
<1>2. /\ nums' = nums /\ Number' = Number /\ w'.pc = "retire" /\ w'.id = w.id /\ w'.num = w.num
      /\ table' = [table EXCEPT !.version = w.v] /\ w' # IdleWriter
  BY <1>1 DEF PublishVersion, Writers, Number, IdleWriter, WriterInv, Tables
<1>3. Replacing /\ Known(w.id) /\ w.old # NoNumber /\ w.op = "replace"
  BY <1>1 DEF Replacing, NumbersFit, CallFits, CallKind
<1>4. ASSUME NEW id \in Ids
      PROVE  /\ Stands(id) <=> Known(id)
             /\ Stands(id)' <=> Known(id)
             /\ Standing(id)' = IF id = w.id THEN w.num ELSE nums[id]
             /\ Standing(id) = nums[id]
  BY <1>1, <1>2 DEF Stands, Standing, Known
<1>5. \A n : BodiesOf(table', n) = BodiesOf(table, n)
  BY <1>1, BodiesStep
<1>6. BodiesOf(table, w.num) = Elems(w.sets)
  BY <1>1, <1>3 DEF CallBook, Promised
<1>7. StandingIds' = StandingIds /\ StandingOrder' = StandingOrder
  BY <1>1, <1>4, OrderSame
<1>8. StandingBook' = [StandingBook EXCEPT ![w.id] = Elems(w.sets)]
  <2>1. StandingBook' =
          [id \in Ids |-> IF Stands(id)' THEN BodiesOf(table', Standing(id)') ELSE {}]
    BY DEF StandingBook, BodiesOf
  <2>2. ASSUME NEW id \in Ids
        PROVE  (IF Stands(id)' THEN BodiesOf(table', Standing(id)') ELSE {}) =
                  IF id = w.id THEN Elems(w.sets) ELSE StandingBook[id]
    <3>1. StandingBook[id] = IF Known(id) THEN BodiesOf(table, nums[id]) ELSE {}
      BY <1>4 DEF StandingBook
    <3>2. QED
      BY <1>3, <1>4, <1>5, <1>6, <3>1
  <2>3. StandingBook = [id \in Ids |-> StandingBook[id]]
    BY DEF StandingBook
  <2> HIDE DEF StandingBook
  <2>4. QED
    BY <1>1, <2>1, <2>2, <2>3
<1>9. /\ ShownCall.op = w.op /\ ShownCall.id = w.id /\ ShownCall.bodies = Elems(w.sets)
      /\ (ShownCall.fresh <=> w.op = "replace" /\ w.old = NoNumber)
      /\ ShownCall' = ShownCall
  BY <1>1, <1>2, SeenCall
<1>10. Book!Replace
  BY <1>1, <1>2, <1>3, <1>7, <1>8, <1>9 DEF Book!Replace, ShownIs
<1>11. QED
  BY <1>10 DEF Book!Next

\* The bit takes the identifier out of the book, and of the order.
LEMMA BookRemove ==
    ASSUME ShownInv, ShownInv', CallNext, BitSet
    PROVE  Book!Next
<1>1. /\ ShownIs /\ ShownIs' /\ WriterInv /\ NumbersFit /\ TrieFits
      /\ w \in Writers /\ w.id \in Ids /\ w.pc = "bit" /\ Writer /\ w.op = "remove"
  BY ShownParts DEF BitSet, Writer, WriterPart, GoneFits
<1>2. /\ nums' = nums /\ Number' = Number /\ w'.pc = "forget" /\ w'.id = w.id
      /\ w' # IdleWriter /\ added' = added
  BY <1>1, StepBitSet DEF BitSet, Writers, Number, IdleWriter, CallNext, CallStarts
<1>3. ASSUME NEW id \in Ids
      PROVE  /\ Stands(id) <=> Known(id)
             /\ Stands(id)' <=> Known(id) /\ id # w.id
             /\ Standing(id)' = nums[id] /\ Standing(id) = nums[id]
  BY <1>1, <1>2 DEF Stands, Standing, Known
<1>4. \A n : BodiesOf(table', n) = BodiesOf(table, n)
  BY <1>1, BodiesStep
<1>5. StandingIds' = StandingIds \ {w.id}
  BY <1>3 DEF StandingIds
<1>6. StandingOrder' = {p \in StandingOrder : w.id \notin {p[1], p[2]}}
  <2>1. StandingOrder' = {p \in StandingIds' \X StandingIds' : Earlier(p[1], p[2])}
    BY <1>2 DEF StandingOrder, Earlier
  <2>2. QED
    BY <1>5, <2>1 DEF StandingOrder
<1>7. StandingBook' = [StandingBook EXCEPT ![w.id] = {}]
  <2>1. StandingBook' =
          [id \in Ids |-> IF Stands(id)' THEN BodiesOf(table', Standing(id)') ELSE {}]
    BY DEF StandingBook, BodiesOf
  <2>2. ASSUME NEW id \in Ids
        PROVE  (IF Stands(id)' THEN BodiesOf(table', Standing(id)') ELSE {}) =
                  IF id = w.id THEN {} ELSE StandingBook[id]
    <3>1. StandingBook[id] = IF Known(id) THEN BodiesOf(table, nums[id]) ELSE {}
      BY <1>3 DEF StandingBook
    <3>2. QED
      BY <1>3, <1>4, <3>1
  <2>3. StandingBook = [id \in Ids |-> StandingBook[id]]
    BY DEF StandingBook
  <2> HIDE DEF StandingBook
  <2>4. QED
    BY <1>1, <2>1, <2>2, <2>3
<1>8. ShownCall.op = w.op /\ ShownCall.id = w.id /\ ShownCall' = ShownCall
  BY <1>1, <1>2, SeenCall
<1>9. Book!Remove
  BY <1>1, <1>2, <1>5, <1>6, <1>7, <1>8 DEF Book!Remove, ShownIs
<1>10. QED
  BY <1>9 DEF Book!Next

-----------------------------------------------------------------------------
(* The calls' returns, and compact.                                        *)

\* A call that is rejected has had no effect.
LEMMA BookRejected ==
    ASSUME ShownInv, ShownInv', CallNext, TooManyRules
    PROVE  Book!Next
<1>1. /\ ShownIs /\ NumbersFit /\ CallKind /\ w \in Writers /\ w.id \in Ids
      /\ w.pc = "number" /\ Number = MaxRules /\ Writer
  BY ShownParts DEF TooManyRules, Writer
<1>2. w' = IdleWriter /\ nums' = nums /\ w'.pc = "idle"
  BY DEF TooManyRules, Return, IdleWriter
<1>3. UNCHANGED <<ShownIds, ShownOrder, ShownBook>>
  BY <1>1, <1>2, SeenQuiet
<1>4. w.op # "remove" /\ ~Known(w.id)
  BY <1>1 DEF CallKind, NumbersFit, CallFits
<1>5. w.id \notin ShownIds
  BY <1>1, <1>4 DEF ShownIs, StandingIds, Stands
<1>6. QED
  BY <1>1, <1>2, <1>3, <1>4, <1>5, Ends

\* AddRule, and ReplaceRule of a new identifier, return when all bodies are in place.
LEMMA BookUnlock ==
    ASSUME ShownInv, ShownInv', CallNext, Unlock
    PROVE  Book!Next
<1>1. /\ ShownIs /\ CallBook /\ CallKind /\ Promised /\ w \in Writers /\ w.id \in Ids
      /\ w.pc = "unlock" /\ Writer
  BY ShownParts DEF Unlock, Writer
<1>2. w' = IdleWriter /\ nums' = nums /\ w'.pc = "idle"
  BY DEF Unlock, Return, IdleWriter
<1>3. UNCHANGED <<ShownIds, ShownOrder, ShownBook>>
  BY <1>1, <1>2, SeenQuiet
<1>4. Known(w.id) /\ BodiesOf(table, nums[w.id]) = after[w.id]
  BY <1>1 DEF CallBook
<1>5. ShownBook[w.id] = after[w.id]
  BY <1>1, <1>4 DEF ShownIs, StandingBook, Stands, Standing
<1>6. \/ w.op = "add" /\ Elems(w.sets) \subseteq after[w.id]
      \/ w.op = "replace" /\ after[w.id] = Elems(w.sets)
  BY <1>1 DEF CallKind, Promised
<1>7. QED
  BY <1>1, <1>2, <1>3, <1>5, <1>6, Ends

\* h.nums moves to the number that stands already.
LEMMA BookRetire ==
    ASSUME ShownInv, ShownInv', CallNext, Retire
    PROVE  [Book!Next]_Book!vars
<1>1. /\ ShownIs /\ CallBook /\ CallKind /\ Promised /\ w \in Writers /\ w.id \in Ids
      /\ NumbersFit /\ WriterInv /\ w.pc = "retire" /\ Writer
      /\ nums \in [Ids -> {NoNumber} \cup 0..Number - 1]
  BY ShownParts DEF Retire, Writer
<1>2. /\ nums' = [nums EXCEPT ![w.id] = w.num] /\ table' = table
      /\ w' = IdleWriter \/ (w' # IdleWriter /\ w'.pc = "compact")
  BY <1>1 DEF Retire, CountDead, Return, IdleWriter, Writers
<1>2a. w'.pc \in {"idle", "compact"}
  BY <1>2 DEF IdleWriter
<1>3. Replacing /\ Known(w.id) /\ w.op = "replace" /\ w.num # NoNumber
  BY <1>1 DEF Replacing, NumbersFit, CallFits, CallKind, WriterInv, WriterFits, NoNumber
<1>4. ASSUME NEW id \in Ids
      PROVE  /\ Stands(id) <=> Known(id)
             /\ Stands(id)' <=> Known(id)
             /\ Standing(id) = IF id = w.id THEN w.num ELSE nums[id]
             /\ Standing(id)' = Standing(id)
  BY <1>1, <1>2, <1>2a, <1>3 DEF Stands, Standing, Known
<1>5. UNCHANGED <<ShownIds, ShownOrder, ShownBook>>
  BY <1>2, <1>4, SeenSame
<1>6. CASE w' # IdleWriter
  <2>1. ShownCall' = ShownCall
    BY <1>1, <1>6, SeenCall
  <2>2. QED
    BY <1>5, <2>1, Silent
<1>7. CASE w' = IdleWriter
  <2>1. ShownBook[w.id] = BodiesOf(table, w.num)
    BY <1>1, <1>3, <1>4 DEF ShownIs, StandingBook
  <2>2. BodiesOf(table, w.num) = Elems(w.sets)
    BY <1>1, <1>3 DEF CallBook, Promised
  <2>3. QED
    BY <1>1, <1>3, <1>5, <1>7, <2>1, <2>2, Ends
<1>8. QED
  BY <1>6, <1>7

\* h.nums forgets a number that is out of the book already.
LEMMA BookForget ==
    ASSUME ShownInv, ShownInv', CallNext, Forget
    PROVE  [Book!Next]_Book!vars
<1>1. /\ ShownIs /\ w \in Writers /\ w.id \in Ids /\ WriterPart
      /\ w.pc = "forget" /\ Writer /\ nums \in [Ids -> {NoNumber} \cup 0..Number - 1]
  BY ShownParts DEF Forget, Writer
<1>2. /\ nums' = [nums EXCEPT ![w.id] = NoNumber] /\ table' = table
      /\ w' = IdleWriter \/ (w' # IdleWriter /\ w'.pc = "compact")
  BY <1>1 DEF Forget, CountDead, Return, IdleWriter, Writers
<1>2a. w'.pc \in {"idle", "compact"}
  BY <1>2 DEF IdleWriter
<1>3. ASSUME NEW id \in Ids
      PROVE  /\ Stands(id) <=> Known(id) /\ id # w.id
             /\ Stands(id)' <=> Known(id) /\ id # w.id
             /\ id # w.id => Standing(id)' = nums[id] /\ Standing(id) = nums[id]
  BY <1>1, <1>2, <1>2a DEF Stands, Standing, Known
<1>4. UNCHANGED <<ShownIds, ShownOrder, ShownBook>>
  BY <1>2, <1>3, SeenSame
<1>5. w.op = "remove" /\ w.id \notin ShownIds
  BY <1>1, <1>3 DEF WriterPart, GoneFits, ShownIs, StandingIds
<1>6. CASE w' # IdleWriter
  <2>1. ShownCall' = ShownCall
    BY <1>1, <1>6, SeenCall
  <2>2. QED
    BY <1>4, <2>1, Silent
<1>7. CASE w' = IdleWriter
  BY <1>1, <1>4, <1>5, <1>7, Ends
<1>8. QED
  BY <1>6, <1>7

\* compact gives the rules other numbers, which a Match call does not see.
LEMMA BookCompacted ==
    ASSUME ShownInv, ShownInv', CallNext, Compact
    PROVE  Book!Next
<1>1. /\ ShownIs /\ CallBook /\ CallKind /\ Promised /\ w \in Writers /\ w.id \in Ids
      /\ NumbersFit /\ WriterInv /\ w.pc = "compact" /\ Writer
  BY ShownParts DEF Compact, Writer
<1>2. table' = Compacted /\ w' = IdleWriter /\ w'.pc = "idle"
  BY DEF Compact, Return, IdleWriter
<1>3. ASSUME NEW id \in Ids
      PROVE  /\ Stands(id) <=> Known(id)
             /\ Stands(id)' <=> Known(id)
             /\ Standing(id) = nums[id] /\ Standing(id)' = nums'[id]
  <2>1. Known(id)' <=> Known(id)
    BY <1>1, CompactNumbers
  <2>2. QED
    BY <1>1, <1>2, <2>1 DEF Stands, Standing
<1>4. ASSUME NEW id \in Ids, Stands(id)
      PROVE  BodiesOf(table', Standing(id)') = BodiesOf(table, Standing(id))
  <2>1. nums[id] \in Live /\ nums'[id] = Renum(nums[id])
    BY <1>1, <1>3, <1>4, CompactNumbers
  <2>2. BodiesOf(Compacted, Renum(nums[id])) = BodiesOf(table, nums[id])
    BY <1>1, <2>1, CompactBodies
  <2>3. QED
    BY <1>2, <1>3, <2>1, <2>2
<1>5. UNCHANGED <<ShownIds, ShownOrder, ShownBook>>
  BY <1>3, <1>4, SeenSame
<1>6. CASE w.op = "remove"
  <2>1. w.id \notin ShownIds
    BY <1>1, <1>3, <1>6 DEF CallKind, ShownIs, StandingIds
  <2>2. QED
    BY <1>1, <1>2, <1>5, <1>6, <2>1, Ends
<1>7. CASE w.op = "replace"
  <2>1. ShownBook[w.id] = after[w.id]
    BY <1>1, <1>3 DEF CallBook, ShownIs, StandingBook
  <2>2. after[w.id] = Elems(w.sets)
    BY <1>1, <1>7 DEF Promised
  <2>3. QED
    BY <1>1, <1>2, <1>5, <1>7, <2>1, <2>2, Ends
<1>8. w.op \in {"replace", "remove"}
  BY <1>1 DEF CallKind
<1>9. QED
  BY <1>6, <1>7, <1>8

\* Steps of ruleMeta.set, insert and bitset.set that store no rule and no bit.
LEMMA BookQuietly ==
    ASSUME ShownInv, ShownInv', CallNext,
           \/ MetaGrow \/ MetaSpan \/ MetaOrder \/ PublishId
           \/ LowerMinKey \/ Follow \/ LinkAbsent \/ BitGrow
    PROVE  [Book!Next]_Book!vars
<1>1. w \in Writers /\ Writer /\ WriterPart /\ TrieFits /\ BookFits
  BY ShownParts DEF Writer
<1>2. /\ nums' = nums
      /\ w.pc \in {"span", "order", "ids", "lower", "follow", "link", "bit"}
      /\ w'.pc \in {"span", "order", "ids", "version", "lower", "follow", "link", "rule", "bit"}
  <2>1. CASE MetaGrow \/ MetaSpan \/ MetaOrder \/ PublishId
    BY <1>1, <2>1 DEF MetaGrow, MetaSpan, MetaOrder, PublishId, Writers
  <2>2. CASE LowerMinKey \/ Follow \/ LinkAbsent
    BY <1>1, <2>2 DEF LowerMinKey, Follow, LinkAbsent, Writers
  <2>3. CASE BitGrow
    BY <1>1, <2>3 DEF BitGrow, Writers
  <2>4. QED
    BY <2>1, <2>2, <2>3
<1>3. UNCHANGED <<ShownIds, ShownOrder, ShownBook>>
  BY <1>1, <1>2, SeenQuiet
<1>4. w' # IdleWriter
  BY <1>2 DEF IdleWriter
<1>5. ShownCall' = ShownCall
  BY <1>1, <1>2, <1>4, SeenCall
<1>6. QED
  BY <1>3, <1>5, Silent

\* Steps of readers, and steps that change nothing.
LEMMA BookReader ==
    ASSUME UNCHANGED wvars
    PROVE  [Book!Next]_Book!vars
<1>1. table' = table /\ nums' = nums /\ w' = w
  BY DEF wvars
<1>2. Shown' = Shown
  BY <1>1 DEF Shown, Live, Number, BitsHas, MetaAt, NoMeta
<1>3. ShownIds' = ShownIds /\ ShownBook' = ShownBook
  BY <1>1, <1>2 DEF ShownIds, ShownBook
<1>4. ShownOrder' = ShownOrder
  <2>1. ShownKeys' = ShownKeys
    BY <1>1, <1>2 DEF ShownKeys, Order, OrderIn, MetaAt, NoMeta
  <2>2. QED
    BY <1>1, <1>2, <2>1 DEF ShownOrder, Before
<1>5. ShownCall' = ShownCall
  BY <1>1 DEF ShownCall, Elems
<1>6. QED
  BY <1>3, <1>4, <1>5, Silent

\* Every step of the tables is a step of the rule book, or changes nothing of it.
LEMMA BookNext == ShownInv /\ ShownInv' /\ [CallNext]_hvars => [Book!Next]_Book!vars
<1> SUFFICES ASSUME ShownInv, ShownInv', [CallNext]_hvars PROVE [Book!Next]_Book!vars
  OBVIOUS
<1>1. CASE CallNext /\ Writer
  <2>1. CASE w.pc = "idle"
    BY <1>1, <2>1, BookBegin
  <2>2. CASE w.pc # "idle"
    <3>1. \/ NewNumber \/ TooManyRules \/ MetaGrow \/ MetaSpan \/ MetaOrder \/ PublishId
          \/ LowerMinKey \/ Follow \/ LinkAbsent \/ AddNumber \/ Unlock \/ PublishVersion
          \/ Retire \/ BitGrow \/ BitSet \/ Forget \/ Compact
      BY <1>1, <2>2 DEF Writer, AddRule, ReplaceRule, RemoveRule
    <3>2. CASE NewNumber \/ TooManyRules \/ AddNumber \/ Unlock \/ PublishVersion
      BY <1>1, <3>2, BookRegister, BookRejected, BookAddBody, BookUnlock, BookReplace
    <3>3. CASE Retire \/ BitSet \/ Forget \/ Compact
      BY <1>1, <3>3, BookRetire, BookRemove, BookForget, BookCompacted
    <3>4. QED
      BY <1>1, <3>1, <3>2, <3>3, BookQuietly
  <2>3. QED
    BY <2>1, <2>2
<1>2. CASE UNCHANGED wvars
  BY <1>2, BookReader
<1>3. CallNext => Writer \/ UNCHANGED wvars
  BY ReaderStep DEF CallNext, Next
<1>4. UNCHANGED hvars => UNCHANGED wvars
  BY DEF hvars, vars, wvars
<1>5. QED
  BY <1>1, <1>2, <1>3, <1>4

\* What Preload has added is the rule book at the beginning.
LEMMA BookStarts == CallInit /\ ShownInv => Book!Init
<1> SUFFICES ASSUME CallInit, ShownInv PROVE Book!Init
  OBVIOUS
<1>1. /\ ShownIs /\ w = IdleWriter /\ w.pc = "idle" /\ BookFits /\ Init
  BY BookIs DEF CallInit, Init, IdleWriter, ShownInv, RegularWriter
<1>2. ASSUME NEW id \in Ids
      PROVE  /\ Stands(id) <=> Known(id)
             /\ Stands(id) <=> \E i \in 1..Len(Preload) : Preload[i].id = id
             /\ Standing(id) = nums[id]
  <2>1. ASSUME \E i \in 1..Len(Preload) : Preload[i].id = id PROVE Known(id)
    <3> DEFINE i == CHOOSE i \in 1..Len(Preload) : Preload[i].id = id
    <3>1. i \in 1..Len(Preload)
      BY <2>1
    <3>2. nums[id] = i - 1
      BY <1>1, <2>1 DEF Init
    <3> HIDE DEF i
    <3>3. QED
      BY <3>1, <3>2 DEF Known, NoNumber
  <2>2. ASSUME ~\E i \in 1..Len(Preload) : Preload[i].id = id PROVE ~Known(id)
    BY <1>1, <2>2 DEF Init, Known
  <2>3. QED
    BY <1>1, <2>1, <2>2 DEF Stands, Standing
<1>3. ShownBook = [id \in Ids |-> {r.body : r \in {x \in Book!Elems(Preload) : x.id = id}}]
  <2>1. before = [id \in Ids |-> {r.body : r \in {x \in Book!Elems(Preload) : x.id = id}}]
    BY DEF CallInit, Elems, Book!Elems
  <2>2. \A id \in Ids : before[id] = IF Known(id) THEN BodiesOf(table, nums[id]) ELSE {}
    BY <1>1 DEF BookFits, OthersFit
  <2>3. StandingBook = [id \in Ids |-> before[id]]
    BY <1>2, <2>2 DEF StandingBook
  <2>4. before = [id \in Ids |-> before[id]]
    BY <2>1
  <2>5. QED
    BY <1>1, <2>1, <2>3, <2>4 DEF ShownIs
<1>3a. \A i \in 1..Len(Preload) : Preload[i].id \in Ids
  <2> DEFINE R == [id : Ids, body : Bodies]
  <2>1. Preload \in Seq(R)
    BY ConstantsAssumption
  <2>2. \A x \in R : x.id \in Ids
    OBVIOUS
  <2> HIDE DEF R
  <2>3. \A i \in 1..Len(Preload) : Preload[i] \in R
    BY <2>1
  <2>4. QED
    BY <2>2, <2>3
<1>4. ShownIds = {x.id : x \in Book!Elems(Preload)}
  <2>1. \A x \in Book!Elems(Preload) : x.id \in Ids
    BY <1>3a DEF Book!Elems
  <2>2. StandingIds = {x.id : x \in Book!Elems(Preload)}
    BY <1>2, <2>1 DEF StandingIds, Book!Elems
  <2>3. QED
    BY <1>1, <2>2 DEF ShownIs
<1>5. ShownOrder = {<<Preload[p[1]].id, Preload[p[2]].id>> :
                      p \in {q \in (1..Len(Preload)) \X (1..Len(Preload)) : q[1] < q[2]}}
  <2>1. added = {<<Preload[p[1]].id, Preload[p[2]].id>> :
                   p \in {q \in (1..Len(Preload)) \X (1..Len(Preload)) : q[1] < q[2]}}
    BY DEF CallInit
  <2>2. \A i \in 1..Len(Preload) : Preload[i].id \in StandingIds
    BY <1>2, <1>3a DEF StandingIds
  <2>3. \A x \in added : x \in StandingIds \X StandingIds /\ x = <<x[1], x[2]>>
    BY <2>1, <2>2
  <2>4. StandingOrder = added
    BY <2>3 DEF StandingOrder, Earlier
  <2>5. QED
    BY <1>1, <2>1, <2>4 DEF ShownIs
<1>6. (Number = MaxRules) \in BOOLEAN
  OBVIOUS
<1>7. ShownCall = Book!NoCall
  BY <1>1 DEF ShownCall, Book!NoCall
<1>8. QED
  BY <1>3, <1>4, <1>5, <1>6, <1>7 DEF Book!Init

-----------------------------------------------------------------------------
(* The theorems.                                                           *)

\* The invariant behind the refinement: the writer's part of the two before, what
\* the call in progress is and promises, and that no two identifiers were each
\* added after the other.
THEOREM ShownInductive == CallSpec => []ShownInv
<1>1. CallInit => ShownInv
  BY WriterPartInit, RegularWriterInit, KindFitsInit DEF ShownInv
<1>2. ShownInv /\ [CallNext]_hvars => ShownInv'
  <2> SUFFICES ASSUME ShownInv, [CallNext]_hvars PROVE ShownInv'
    OBVIOUS
  <2>1. CASE CallNext
    BY <2>1, WriterPartStep, RegularStep, KindFitsStep DEF ShownInv
  <2>2. CASE UNCHANGED hvars
    <3>1. WriterPart' /\ RegularWriter'
      BY <2>2, ResultsStutter, RegularStutter DEF ShownInv
    <3>2. w' = w /\ table' = table /\ nums' = nums /\ after' = after /\ added' = added
      BY <2>2 DEF hvars, vars
    <3>3. CallKind' /\ Promised' /\ AddedOnce'
      BY <3>2 DEF ShownInv, KindFits, CallKind, Promised, AddedOnce, Inside, Replacing, Known,
         Number, Elems, Earlier
    <3>4. QED
      BY <3>1, <3>3 DEF ShownInv, KindFits
  <2>3. QED
    BY <2>1, <2>2
<1>3. QED
  BY <1>1, <1>2, PTL DEF CallSpec

\* The tables implement the rule book.  To a Match call that starts now, whatever
\* store the writer has done last, an identifier has all bodies that ReplaceRule
\* gave it or none of them, AddRule and RemoveRule do what they promise before
\* they return, identifiers stay in the order in which they were added, a rejected
\* call has no effect, and compact none at all.
THEOREM RefinesRuleBook == CallSpec => ImplementsRuleBook
<1>1. CallInit /\ ShownInv => Book!Init
  BY BookStarts
<1>2. ShownInv /\ ShownInv' /\ [CallNext]_hvars => [Book!Next]_Book!vars
  BY BookNext
<1>3. QED
  BY <1>1, <1>2, ShownInductive, PTL DEF CallSpec, ImplementsRuleBook, Book!Spec

===============================================================================
