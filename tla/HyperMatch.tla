----------------------------- MODULE HyperMatch -----------------------------
(***************************************************************************)
(* The rule set of hypermatch: one writer at a time (AddRule, ReplaceRule, *)
(* RemoveRule hold HyperMatch.mu) and readers (Match, MatchFirst and their *)
(* JSON forms) that never lock.                                            *)
(*                                                                         *)
(* Every atomic store of the writer that a reader can see and every atomic *)
(* load of a reader is a step of its own; steps on data only the lock      *)
(* holder touches are merged with a neighbour.  A condition is a value     *)
(* that an event makes true or not (module Group has what is inside), a    *)
(* state of the trie is the sequence of conditions that leads to it.       *)
(***************************************************************************)
EXTENDS Integers, Sequences, FiniteSets

CONSTANTS
    Ids,            \* identifiers
    Targets,        \* those the writer's calls are about
    Bodies,         \* normalized condition sets, as sequences of conditions
    AbsentConds,    \* the conditions {"exists": false}
    RuleSets,       \* what one call may pass: sequences of bodies ($or gives several)
    Events,         \* an event is the set of conditions it makes true
    Readers,
    Firsts,         \* what readers call: FALSE is AppendMatches, TRUE MatchFirst
    Preload,        \* rules added before: a sequence of [id, body], distinct ids
    WordBits,       \* bits per word of a bitset: 64 in the code
    CompactFactor,  \* 4 in the code
    MaxRules        \* math.MaxUint32 in the code

Prefixes(b) == {SubSeq(b, 1, k) : k \in 0..Len(b)}
Paths == {<<>>} \cup UNION {Prefixes(b) : b \in Bodies}
Conditions == UNION {{b[k] : k \in 1..Len(b)} : b \in Bodies}

ASSUME ConstantsAssumption ==
    /\ Targets \subseteq Ids
    /\ Bodies \subseteq Seq(Conditions)
    /\ RuleSets \subseteq Seq(Bodies) \ {<<>>}
    /\ Firsts \subseteq BOOLEAN
    /\ Preload \in Seq([id : Ids, body : Bodies])
    /\ \A i, j \in 1..Len(Preload) : Preload[i].id = Preload[j].id => i = j
    /\ WordBits \in Nat \ {0}
    /\ CompactFactor \in Nat \ {0}
    /\ MaxRules \in Nat \ {0}
    /\ Len(Preload) <= MaxRules

VARIABLES
    hasTab, \* h.tab is not nil
    table,  \* the table h.tab points to
    nums,   \* h.nums: the number of each present identifier
    dead,   \* h.removed: numbers of the table removed or replaced
    count,  \* h.count
    w,      \* the call that holds h.mu, and its locals
    rd,     \* the readers' scratches
    old     \* per reader, the table it still holds once compact replaced it

wvars == <<hasTab, table, nums, dead, count, w>>
vars == <<hasTab, table, nums, dead, count, w, rd, old>>

-----------------------------------------------------------------------------
(* Tables.                                                                 *)

NoNumber == -1
NoMeta == [from |-> 0, until |-> 0, ord |-> 0]

Most(a, b) == IF a >= b THEN a ELSE b
Least(S) == CHOOSE n \in S : \A m \in S : n <= m

\* The elements of S ordered by key, those with equal keys by number.
Before(key, m, n) == key[m] < key[n] \/ (key[m] = key[n] /\ m < n)
Rank(S, key, n) == Cardinality({m \in S : Before(key, m, n)})
Sorted(S, key) ==
    [i \in 1..Cardinality(S) |-> CHOOSE n \in S : Rank(S, key, n) = i - 1]

Subtree(p) == {q \in Paths : Len(p) <= Len(q) /\ SubSeq(q, 1, Len(p)) = p}

\* The part of a trie whose states q hold the rules at[q] and no other: every
\* state has a rule in its subtree, and its minKey is the smallest of them.
TrieOf(at) ==
    LET below(p) == UNION {at[q] : q \in Subtree(p)}
        live == {p \in Paths \ {<<>>} : below(p) # {}}
    IN  [edges |-> live,
         hasAbsent |-> \E p \in live : p[Len(p)] \in AbsentConds,
         rules |-> at,
         minKey |-> [p \in Paths |->
                        IF below(p) = {} THEN 0 ELSE 1 + Least(below(p))]]

NewTable(ids, at) ==
    LET t == TrieOf(at)
    IN  [ids |-> ids, version |-> 0, removed |-> <<>>, meta |-> <<>>,
         hasAbsent |-> t.hasAbsent, edges |-> t.edges, rules |-> t.rules,
         minKey |-> t.minKey]

EmptyTable == NewTable(<<>>, [p \in Paths |-> {}])

\* bitset and ruleMeta: all arrays published so far; the last is current, and
\* 0 stands for nil.  Growing copies the array, so an old one is frozen.
BitsHas(tb, a, n) == a # 0 /\ n \in tb.removed[a].bits
MetaAt(tb, a, n) == IF a # 0 /\ n < Len(tb.meta[a]) THEN tb.meta[a][n + 1] ELSE NoMeta
OrderIn(tb, a, n) == LET o == MetaAt(tb, a, n).ord IN IF o = 0 THEN n ELSE o - 1
Order(tb, n) == OrderIn(tb, Len(tb.meta), n)

Number == Len(table.ids)
Known(id) == nums[id] # NoNumber

-----------------------------------------------------------------------------
(* Writer.                                                                 *)

IdleWriter == [pc |-> "idle", op |-> "none", id |-> NoNumber, sets |-> <<>>,
               num |-> NoNumber, old |-> NoNumber, target |-> NoNumber,
               from |-> 0, key |-> 0, v |-> 0, i |-> 1, k |-> 0]

Calling(op, id, sets, pc) ==
    [IdleWriter EXCEPT !.pc = pc, !.op = op, !.id = id, !.sets = sets]

Return == w' = IdleWriter

\* AddRule up to the first store a reader can see; table() may create the table.
AddRule(id, sets) ==
    /\ w.pc = "idle"
    /\ hasTab' = TRUE
    /\ w' = IF Known(id)
            THEN [Calling("add", id, sets, "lower") EXCEPT
                    !.num = nums[id], !.key = Order(table, nums[id])]
            ELSE Calling("add", id, sets, "number")
    /\ UNCHANGED <<table, nums, dead, count, rd, old>>

\* Faulty variants like the next one show which mistake a property would catch;
\* nothing uses them.  Here ReplaceRule forgets the old rule's place in the order.
ReplaceRuleAtEnd(id, sets) ==
    /\ w.pc = "idle" /\ Known(id) /\ Number < MaxRules
    /\ hasTab' = TRUE
    /\ w' = [Calling("replace", id, sets, "span") EXCEPT
                !.num = Number, !.target = Number, !.old = nums[id],
                !.from = MetaAt(table, Len(table.meta), nums[id]).from,
                !.key = Number, !.v = table.version + 1]
    /\ UNCHANGED <<table, nums, dead, count, rd, old>>

\* ReplaceRule of a present identifier gives the rule a number of its own; of
\* another identifier it goes on like AddRule.
ReplaceRule(id, sets) ==
    /\ w.pc = "idle"
    /\ hasTab' = TRUE
    /\ IF Known(id)
       THEN /\ Number < MaxRules
            /\ w' = [Calling("replace", id, sets, "span") EXCEPT
                        !.num = Number, !.target = Number, !.old = nums[id],
                        !.from = MetaAt(table, Len(table.meta), nums[id]).from,
                        !.key = Order(table, nums[id]),
                        !.v = table.version + 1]
       ELSE w' = Calling("replace", id, sets, "number")
    /\ UNCHANGED <<table, nums, dead, count, rd, old>>

RemoveRule(id) ==
    /\ w.pc = "idle"
    /\ Known(id)
    /\ w' = [Calling("remove", id, <<>>, "bit") EXCEPT !.num = nums[id]]
    /\ UNCHANGED <<hasTab, table, nums, dead, count, rd, old>>

\* newNumber; count.Add is merged with ids.add, no call reads both.
NewNumber ==
    /\ w.pc = "number"
    /\ Number < MaxRules
    /\ table' = [table EXCEPT !.ids = Append(@, w.id)]
    /\ nums' = [nums EXCEPT ![w.id] = Number]
    /\ count' = count + 1
    /\ w' = [w EXCEPT !.pc = "lower", !.num = Number,
                      !.key = IF w.op = "add" THEN Order(table, Number) ELSE Number]
    /\ UNCHANGED <<hasTab, dead, rd, old>>

TooManyRules ==
    /\ w.pc = "number"
    /\ Number = MaxRules
    /\ Return
    /\ UNCHANGED <<hasTab, table, nums, dead, count, rd, old>>

\* ruleMeta.set: a grown copy is published first if needed, then the two words
\* of the number are stored one after the other.
MetaGrow ==
    LET a == Len(table.meta)
        cur == IF a = 0 THEN <<>> ELSE table.meta[a]
        len == Most(2 * Len(cur), w.target + 1)
    IN  /\ w.pc = "span"
        /\ w.target >= Len(cur)
        /\ table' = [table EXCEPT !.meta = Append(@,
                        [i \in 1..len |-> IF i <= Len(cur) THEN cur[i] ELSE NoMeta])]
        /\ UNCHANGED <<hasTab, nums, dead, count, w, rd, old>>

MetaSpan ==
    LET a == Len(table.meta)
    IN  /\ w.pc = "span"
        /\ a # 0
        /\ w.target < Len(table.meta[a])
        /\ table' = [table EXCEPT !.meta[a][w.target + 1] =
                        [@ EXCEPT !.from = IF w.target = w.num THEN w.v ELSE w.from,
                                  !.until = IF w.target = w.num THEN 0 ELSE w.v]]
        /\ w' = [w EXCEPT !.pc = "order"]
        /\ UNCHANGED <<hasTab, nums, dead, count, rd, old>>

\* Faulty: the key is stored without the offset that tells it from 0, "no key".
MetaOrderUnshifted ==
    /\ w.pc = "order"
    /\ table' = [table EXCEPT !.meta[Len(table.meta)][w.target + 1].ord = w.key]
    /\ w' = [w EXCEPT !.pc = IF w.target = w.num THEN "ids" ELSE "version"]
    /\ UNCHANGED <<hasTab, nums, dead, count, rd, old>>

MetaOrder ==
    LET a == Len(table.meta)
    IN  /\ w.pc = "order"
        /\ table' = [table EXCEPT !.meta[a][w.target + 1].ord = w.key + 1]
        /\ w' = [w EXCEPT !.pc = IF w.target = w.num THEN "ids" ELSE "version"]
        /\ UNCHANGED <<hasTab, nums, dead, count, rd, old>>

\* tab.ids.add(id) of ReplaceRule.
PublishId ==
    /\ w.pc = "ids"
    /\ table' = [table EXCEPT !.ids = Append(@, w.id)]
    /\ w' = [w EXCEPT !.pc = "lower"]
    /\ UNCHANGED <<hasTab, nums, dead, count, rd, old>>

\* trie.insert: the loop over the conditions of the set w.sets[w.i].
Body == w.sets[w.i]
Here == SubSeq(Body, 1, w.k)
Child == SubSeq(Body, 1, w.k + 1)

LowerMinKey ==
    /\ w.pc = "lower"
    /\ table' = IF table.minKey[Here] = 0 \/ w.key + 1 < table.minKey[Here]
                THEN [table EXCEPT !.minKey[Here] = w.key + 1]
                ELSE table
    /\ w' = [w EXCEPT !.pc = IF w.k = Len(Body) THEN "rule" ELSE "follow"]
    /\ UNCHANGED <<hasTab, nums, dead, count, rd, old>>

\* follow, and followAbsent up to its first store.
Follow ==
    /\ w.pc = "follow"
    /\ IF Child \in table.edges
       THEN /\ w' = [w EXCEPT !.pc = "lower", !.k = @ + 1]
            /\ UNCHANGED table
       ELSE IF Body[w.k + 1] \in AbsentConds
       THEN /\ table' = [table EXCEPT !.hasAbsent = TRUE]
            /\ w' = [w EXCEPT !.pc = "link"]
       ELSE /\ table' = [table EXCEPT !.edges = @ \cup {Child}]
            /\ w' = [w EXCEPT !.pc = "lower", !.k = @ + 1]
    /\ UNCHANGED <<hasTab, nums, dead, count, rd, old>>

LinkAbsent ==
    /\ w.pc = "link"
    /\ table' = [table EXCEPT !.edges = @ \cup {Child}]
    /\ w' = [w EXCEPT !.pc = "lower", !.k = @ + 1]
    /\ UNCHANGED <<hasTab, nums, dead, count, rd, old>>

\* Faulty: the replaced number is not retired before the version is published.
AddNumberUnretired ==
    /\ w.pc = "rule"
    /\ table' = [table EXCEPT !.rules[Here] = @ \cup {w.num}]
    /\ w' = IF w.i < Len(w.sets) THEN [w EXCEPT !.pc = "lower", !.i = @ + 1, !.k = 0]
            ELSE [w EXCEPT !.pc = IF w.old # NoNumber THEN "version" ELSE "unlock"]
    /\ UNCHANGED <<hasTab, nums, dead, count, rd, old>>

\* state.addRule, and what the call does after its last set.  A replacement
\* goes on with the span of the number it replaces.
AddNumber ==
    /\ w.pc = "rule"
    /\ table' = [table EXCEPT !.rules[Here] = @ \cup {w.num}]
    /\ IF w.i < Len(w.sets)
       THEN w' = [w EXCEPT !.pc = "lower", !.i = @ + 1, !.k = 0]
       ELSE IF w.old # NoNumber
       THEN w' = [w EXCEPT !.pc = "span", !.target = w.old]
       ELSE w' = [w EXCEPT !.pc = "unlock"]
    /\ UNCHANGED <<hasTab, nums, dead, count, rd, old>>

Unlock ==
    /\ w.pc = "unlock"
    /\ Return
    /\ UNCHANGED <<hasTab, table, nums, dead, count, rd, old>>

\* tab.version.Store(v).
PublishVersion ==
    /\ w.pc = "version"
    /\ table' = [table EXCEPT !.version = w.v]
    /\ w' = [w EXCEPT !.pc = "retire"]
    /\ UNCHANGED <<hasTab, nums, dead, count, rd, old>>

\* h.removed++, and whether the call goes on with compact.
CountDead ==
    /\ dead' = dead + 1
    /\ IF dead' * CompactFactor >= Number
       THEN w' = [w EXCEPT !.pc = "compact"]
       ELSE Return

\* Faulty: ReplaceRule does not count the number it retires.
RetireUncounted ==
    /\ w.pc = "retire"
    /\ nums' = [nums EXCEPT ![w.id] = w.num]
    /\ Return
    /\ UNCHANGED <<hasTab, table, dead, count, rd, old>>

Retire ==
    /\ w.pc = "retire"
    /\ nums' = [nums EXCEPT ![w.id] = w.num]
    /\ CountDead
    /\ UNCHANGED <<hasTab, table, count, rd, old>>

\* bitset.set of RemoveRule.
BitGrow ==
    LET a == Len(table.removed)
        cur == IF a = 0 THEN [len |-> 0, bits |-> {}] ELSE table.removed[a]
        word == w.num \div WordBits
    IN  /\ w.pc = "bit"
        /\ word >= cur.len
        /\ table' = [table EXCEPT !.removed =
                        Append(@, [cur EXCEPT !.len = Most(2 * cur.len, word + 1)])]
        /\ UNCHANGED <<hasTab, nums, dead, count, w, rd, old>>

BitSet ==
    LET a == Len(table.removed)
    IN  /\ w.pc = "bit"
        /\ a # 0
        /\ w.num \div WordBits < table.removed[a].len
        /\ table' = [table EXCEPT !.removed[a].bits = @ \cup {w.num}]
        /\ w' = [w EXCEPT !.pc = "forget"]
        /\ UNCHANGED <<hasTab, nums, dead, count, rd, old>>

Forget ==
    /\ w.pc = "forget"
    /\ nums' = [nums EXCEPT ![w.id] = NoNumber]
    /\ count' = count - 1
    /\ CountDead
    /\ UNCHANGED <<hasTab, table, rd, old>>

\* Faulty: keeps a rule that the current version has just replaced.
LiveOffByOne ==
    {n \in 0..Number - 1 :
        /\ ~BitsHas(table, Len(table.removed), n)
        /\ LET u == MetaAt(table, Len(table.meta), n).until
           IN  ~(u # 0 /\ u < table.version)}

\* compact: the numbers it keeps, and the table it builds from them.  The new
\* table is private until h.tab.Store, so this is one step.
Live ==
    {n \in 0..Number - 1 :
        /\ ~BitsHas(table, Len(table.removed), n)
        /\ LET u == MetaAt(table, Len(table.meta), n).until
           IN  ~(u # 0 /\ u <= table.version)}

\* Faulty: compact does not sort the numbers it keeps.
KeysByNumber == [n \in Live |-> n]
Keys == [n \in Live |-> Order(table, n)]
Renum(n) == Rank(Live, Keys, n)

Compacted ==
    NewTable([i \in 1..Cardinality(Live) |-> table.ids[Sorted(Live, Keys)[i] + 1]],
             [p \in Paths |-> {Renum(n) : n \in table.rules[p] \cap Live}])

Reading(r) == rd[r].pc \notin {"idle", "done"}

\* Faulty: h.nums keeps the numbers of the table that compact dropped.
CompactKeepingNumbers ==
    /\ w.pc = "compact"
    /\ table' = Compacted
    /\ dead' = 0
    /\ old' = [r \in Readers |-> IF Reading(r) /\ ~rd[r].stale THEN table ELSE old[r]]
    /\ rd' = [r \in Readers |-> [rd[r] EXCEPT !.stale = @ \/ Reading(r)]]
    /\ Return
    /\ UNCHANGED <<hasTab, nums, count>>

\* Faulty: the rules are compacted in the table that readers use.
CompactInPlace ==
    /\ w.pc = "compact"
    /\ table' = Compacted
    /\ nums' = [id \in Ids |->
                    IF \E n \in Live : table.ids[n + 1] = id
                    THEN Renum(CHOOSE n \in Live : table.ids[n + 1] = id)
                    ELSE nums[id]]
    /\ dead' = 0
    /\ Return
    /\ UNCHANGED <<hasTab, count, rd, old>>

Compact ==
    /\ w.pc = "compact"
    /\ table' = Compacted
    /\ nums' = [id \in Ids |->
                    IF \E n \in Live : table.ids[n + 1] = id
                    THEN Renum(CHOOSE n \in Live : table.ids[n + 1] = id)
                    ELSE nums[id]]
    /\ dead' = 0
    /\ old' = [r \in Readers |-> IF Reading(r) /\ ~rd[r].stale THEN table ELSE old[r]]
    /\ rd' = [r \in Readers |-> [rd[r] EXCEPT !.stale = @ \/ Reading(r)]]
    /\ Return
    /\ UNCHANGED <<hasTab, count>>

Writer ==
    \/ \E id \in Targets, sets \in RuleSets : AddRule(id, sets)
    \/ \E id \in Targets, sets \in RuleSets : ReplaceRule(id, sets)
    \/ \E id \in Targets : RemoveRule(id)
    \/ NewNumber \/ TooManyRules
    \/ MetaGrow \/ MetaSpan \/ MetaOrder \/ PublishId
    \/ LowerMinKey \/ Follow \/ LinkAbsent \/ AddNumber \/ Unlock
    \/ PublishVersion \/ Retire
    \/ BitGrow \/ BitSet \/ Forget
    \/ Compact

-----------------------------------------------------------------------------
(* Readers.  The table a reader loaded stays the one it reads.             *)

Tab(r) == IF rd[r].stale THEN old[r] ELSE table

IdleReader == [pc |-> "idle", stale |-> FALSE, ev |-> {}, first |-> FALSE,
               version |-> 0, limit |-> 0, meta |-> 0, removed |-> 0,
               absent |-> FALSE, todo |-> {}, cand |-> {}, out |-> {},
               kept |-> {}, best |-> NoNumber, bestKey |-> MaxRules,
               result |-> <<>>]

Visible(r, n) ==
    LET m == MetaAt(Tab(r), rd[r].meta, n)
    IN  /\ n < rd[r].limit
        /\ ~BitsHas(Tab(r), rd[r].removed, n)
        /\ m.from <= rd[r].version
        /\ m.until = 0 \/ rd[r].version < m.until

Key(r, n) == OrderIn(Tab(r), rd[r].meta, n)

\* AppendMatches or MatchFirst.
Match(r, e, first) ==
    /\ rd[r].pc = "idle"
    /\ rd' = [rd EXCEPT ![r] = [IdleReader EXCEPT
                !.pc = IF hasTab THEN "version" ELSE "done",
                !.ev = e, !.first = first]]
    /\ UNCHANGED <<wvars, old>>

\* table.begin: five loads in this order.
LoadVersion(r) ==
    /\ rd[r].pc = "version"
    /\ rd' = [rd EXCEPT ![r].pc = "ids", ![r].version = Tab(r).version]
    /\ UNCHANGED <<wvars, old>>

\* Faulty: the reader waits for the writer's lock.
LoadIdsLocked(r) ==
    /\ rd[r].pc = "ids" /\ w.pc = "idle"
    /\ rd' = [rd EXCEPT ![r].pc = "meta", ![r].limit = Len(Tab(r).ids)]
    /\ UNCHANGED <<wvars, old>>

LoadIds(r) ==
    /\ rd[r].pc = "ids"
    /\ rd' = [rd EXCEPT ![r].pc = "meta", ![r].limit = Len(Tab(r).ids)]
    /\ UNCHANGED <<wvars, old>>

LoadMeta(r) ==
    /\ rd[r].pc = "meta"
    /\ rd' = [rd EXCEPT ![r].pc = "removed", ![r].meta = Len(Tab(r).meta)]
    /\ UNCHANGED <<wvars, old>>

LoadRemoved(r) ==
    /\ rd[r].pc = "removed"
    /\ rd' = [rd EXCEPT ![r].pc = "absent", ![r].removed = Len(Tab(r).removed)]
    /\ UNCHANGED <<wvars, old>>

LoadAbsent(r) ==
    /\ rd[r].pc = "absent"
    /\ rd' = [rd EXCEPT ![r].pc = "visit", ![r].absent = Tab(r).hasAbsent,
                        ![r].todo = {<<>>}]
    /\ UNCHANGED <<wvars, old>>

Follows(r, c) == c \in rd[r].ev /\ (c \in AbsentConds => rd[r].absent)
Children(r, p) ==
    {q \in Paths : Len(q) = Len(p) + 1 /\ SubSeq(q, 1, Len(p)) = p
                                       /\ Follows(r, q[Len(q)])}

\* Faulty: takes the stored minKey, which is one too large, for the key itself.
PrunesOffByOne(r, p) ==
    rd[r].first /\ (Tab(r).minKey[p] = 0 \/ Tab(r).minKey[p] >= rd[r].bestKey)

\* improve: no rule below p can beat the best one found.
Prunes(r, p) ==
    rd[r].first /\ (Tab(r).minKey[p] = 0 \/ Tab(r).minKey[p] - 1 >= rd[r].bestKey)

\* visit.  The edge to p is looked up in the same step as p's rules are read:
\* its last look in the code if it is there, its only one if not.
Visit(r, p) ==
    LET numbers == Tab(r).rules[p]
    IN  /\ rd[r].pc = "visit"
        /\ rd[r].cand = {}
        /\ IF (p # <<>> /\ p \notin Tab(r).edges) \/ Prunes(r, p)
           THEN rd' = [rd EXCEPT ![r].todo = @ \ {p}]
           ELSE rd' = [rd EXCEPT
                    ![r].todo = (@ \ {p}) \cup Children(r, p),
                    ![r].cand = IF rd[r].first THEN numbers ELSE {},
                    ![r].out = IF rd[r].first THEN {} ELSE @ \cup numbers]
        /\ UNCHANGED <<wvars, old>>

Consider(r, n) ==
    /\ rd[r].pc = "visit"
    /\ rd' = [rd EXCEPT
                ![r].cand = @ \ {n},
                ![r].best = IF Visible(r, n) /\ Key(r, n) < rd[r].bestKey THEN n ELSE @,
                ![r].bestKey = IF Visible(r, n) /\ Key(r, n) < @ THEN Key(r, n) ELSE @]
    /\ UNCHANGED <<wvars, old>>

\* The rest of MatchFirst.
ReturnFirst(r) ==
    /\ rd[r].pc = "visit" /\ rd[r].first
    /\ rd[r].todo = {} /\ rd[r].cand = {}
    /\ rd' = [rd EXCEPT ![r] = [IdleReader EXCEPT
                !.pc = "done", !.first = TRUE, !.ev = rd[r].ev,
                !.result = IF rd[r].bestKey = MaxRules THEN <<>>
                           ELSE <<Tab(r).ids[rd[r].best + 1]>>]]
    /\ old' = [old EXCEPT ![r] = EmptyTable]
    /\ UNCHANGED wvars

\* results: the visible numbers, in ascending order of the numbers, ...
Filter(r) ==
    LET n == Least(rd[r].out)
    IN  /\ rd[r].pc = "visit" /\ ~rd[r].first
        /\ rd[r].todo = {} /\ rd[r].out # {}
        /\ rd' = [rd EXCEPT ![r].out = @ \ {n},
                            ![r].kept = IF Visible(r, n) THEN @ \cup {n} ELSE @]
        /\ UNCHANGED <<wvars, old>>

\* ... sorted by their keys, which never change while a reader can see them.
ReturnMatches(r) ==
    LET kept == rd[r].kept
        ns == Sorted(kept, [n \in kept |-> Key(r, n)])
    IN  /\ rd[r].pc = "visit" /\ ~rd[r].first
        /\ rd[r].todo = {} /\ rd[r].out = {}
        /\ rd' = [rd EXCEPT ![r] = [IdleReader EXCEPT
                    !.pc = "done", !.ev = rd[r].ev,
                    !.result = [i \in 1..Cardinality(kept) |-> Tab(r).ids[ns[i] + 1]]]]
        /\ old' = [old EXCEPT ![r] = EmptyTable]
        /\ UNCHANGED wvars

Rest(r) ==
    /\ rd[r].pc = "done"
    /\ rd' = [rd EXCEPT ![r] = IdleReader]
    /\ UNCHANGED <<wvars, old>>
Reader(r) ==
    \/ LoadVersion(r) \/ LoadIds(r) \/ LoadMeta(r) \/ LoadRemoved(r) \/ LoadAbsent(r)
    \/ \E p \in rd[r].todo : Visit(r, p)
    \/ \E n \in rd[r].cand : Consider(r, n)
    \/ ReturnFirst(r) \/ Filter(r) \/ ReturnMatches(r)

-----------------------------------------------------------------------------
(* The initial state: the calls AddRule(x.id, x.body) for the elements x of  *)
(* Preload, in this order, have returned.                                   *)

Loaded ==
    NewTable([i \in 1..Len(Preload) |-> Preload[i].id],
             [p \in Paths |-> {n \in 0..Len(Preload) - 1 : Preload[n + 1].body = p}])

Init ==
    /\ hasTab = (Preload # <<>>)
    /\ table = Loaded
    /\ nums = [id \in Ids |->
                 IF \E i \in 1..Len(Preload) : Preload[i].id = id
                 THEN (CHOOSE i \in 1..Len(Preload) : Preload[i].id = id) - 1
                 ELSE NoNumber]
    /\ dead = 0
    /\ count = Len(Preload)
    /\ w = IdleWriter
    /\ rd = [r \in Readers |-> IdleReader]
    /\ old = [r \in Readers |-> EmptyTable]

Next ==
    \/ Writer
    \/ \E r \in Readers :
         \/ \E e \in Events, first \in Firsts : Match(r, e, first)
         \/ Reader(r)
         \/ Rest(r)

Spec == Init /\ [][Next]_vars

-----------------------------------------------------------------------------
(* Types.                                                                  *)

MetaWords == [from : Nat, until : Nat, ord : Nat]
Bits == [len : Nat, bits : SUBSET Nat]

Tables == [ids : Seq(Ids), version : Nat, removed : Seq(Bits), meta : Seq(Seq(MetaWords)),
           hasAbsent : BOOLEAN, edges : SUBSET Paths, rules : [Paths -> SUBSET Nat],
           minKey : [Paths -> Nat]]

Writers == [pc : {"idle", "number", "span", "order", "ids", "lower", "follow", "link", "rule",
                  "unlock", "version", "retire", "bit", "forget", "compact"},
            op : {"none", "add", "replace", "remove"},
            id : Ids \cup {NoNumber}, sets : RuleSets \cup {<<>>},
            num : Nat \cup {NoNumber}, old : Nat \cup {NoNumber},
            target : Nat \cup {NoNumber},
            from : Nat, key : Nat, v : Nat, i : Nat \ {0}, k : Nat]

Scratches == [pc : {"idle", "version", "ids", "meta", "removed", "absent", "visit", "done"},
              stale : BOOLEAN, ev : Events \cup {{}}, first : BOOLEAN,
              version : Nat, limit : Nat, meta : Nat, removed : Nat, absent : BOOLEAN,
              todo : SUBSET Paths, cand : SUBSET Nat, out : SUBSET Nat, kept : SUBSET Nat,
              best : Nat \cup {NoNumber}, bestKey : Nat, result : Seq(Ids)]

\* Every variable has the type its comment says, and no step leaves a number
\* behind that the current table has no identifier for: h.nums always indexes
\* tab.ids, in the middle of every call and after compact renumbered the rules.
TypeOK ==
    /\ hasTab \in BOOLEAN
    /\ table \in Tables
    /\ nums \in [Ids -> {NoNumber} \cup 0..Len(table.ids) - 1]
    /\ dead \in Nat
    /\ count \in Int
    /\ w \in Writers
    /\ rd \in [Readers -> Scratches]
    /\ old \in [Readers -> Tables]

\* What a Match call holds lies within the table it reads, however that table
\* has grown or been replaced since: the arrays it loaded exist, limit is at
\* most the published length, and every number it may turn into an identifier
\* (ids[n] in results, ids[sc.best] in MatchFirst) is below limit.
ReadersInBounds ==
    \A r \in Readers :
        /\ rd[r].limit <= Len(Tab(r).ids)
        /\ rd[r].meta <= Len(Tab(r).meta)
        /\ rd[r].removed <= Len(Tab(r).removed)
        /\ \A n \in rd[r].kept : n < rd[r].limit
        /\ rd[r].best < rd[r].limit
=============================================================================
