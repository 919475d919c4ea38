----------------------------- MODULE ValueIndex -----------------------------
(***************************************************************************)
(* The value index of a group (index.go, cidr.go): one writer adds leaves, *)
(* store by store, while a reader collects the leaves that match a value,  *)
(* load by load.  The hash tables (strMap) and lists are atomic here, see  *)
(* StrMap and Lists; a table is the set of its keys, since a group has one *)
(* leaf per key.  A structure that is not allocated yet and an empty one   *)
(* look the same to a reader, unless it does not expect the former.        *)
(*                                                                         *)
(* The wildcard patterns form an automaton.  A node is the sequence of     *)
(* tokens that leads to it: bytes, and Spin for the spinner of a '*'.      *)
(***************************************************************************)
EXTENDS Numbers

CONSTANTS
    PatternSets, \* sets of valid patterns; the writer adds those of one of them
    ValuesOf,    \* [PatternSets -> sets of folded values]: what readers look up
    Width4,      \* bits of an IPv4 address, 32 in the code
    Readers,
    Nil

LeavesOf == [ps \in PatternSets |-> {NewLeaf(p) : p \in ps}]

Strings == Seq(0..255)

\* The bits of an address: those of IPv6 have room for a mapped one of IPv4.
IsAddr(a) ==
    /\ a \in [v4 : BOOLEAN, bits : Seq({0, 1})]
    /\ Len(a.bits) = IF a.v4 THEN Width4 ELSE Len(Mapped) + Width4

IsPattern(p) ==
    /\ ValidPattern(p)
    /\ \/ p.type \in {"equals", "prefix", "suffix", "wildcard"} /\ p.value \in Strings
       \/ p.type \in Comparisons \cup {"eq"} /\ p.value \in Int
       \/ p.type = "between" /\ p.value[1][2] \in Int /\ p.value[2][2] \in Int
       \/ p.type = "cidr" /\ IsAddr(p.value.addr) /\ p.value.n \in 0..Len(p.value.addr.bits)
       \/ p.type = "exists"

IsValue(v) ==
    /\ v.text \in Strings
    /\ v.num = NoNum \/ v.num \in Int
    /\ v.addr = NoAddr \/ IsAddr(v.addr)

ASSUME ValueIndexAssumption ==
    /\ \A ps \in PatternSets :
        (\A p \in ps : IsPattern(p)) /\ (\A v \in ValuesOf[ps] : IsValue(v))
    /\ Width4 \in Nat /\ Mapped \in Seq({0, 1}) /\ Mapped # <<>>
    /\ Nil \notin [prefix : Seq(Nat), suffix : Seq(Nat)]
    /\ Nil \notin [v4 : Seq(Nat), v6 : Seq(Nat)]

VARIABLES
    patterns, \* the chosen set
    x,        \* the valueIndex
    w,        \* the leaf being added, and the position in a wildcard pattern
    added,    \* leaves whose add has returned
    rd        \* the readers in collect

vars == <<patterns, x, w, added, rd>>

Spin == 256
Root == <<>>
NoBytes == [set |-> {}, base |-> [k \in 0..3 |-> 0], vals |-> <<>>]
NoNode == [kids |-> NoBytes, spin |-> FALSE, final |-> {}, reach |-> {}]

EmptyIndex ==
    [equals |-> {}, prefix |-> {}, suffix |-> {}, lens |-> Nil, glob |-> [n \in {Root} |-> NoNode],
     exists |-> FALSE, number |-> EmptyNumbers, cidr |-> {}, cidrLens |-> Nil, kinds |-> {}]

NoLeaf == Leaf("-", <<>>)
IdleWriter == [pc |-> "idle", leaf |-> NoLeaf, node |-> Root, i |-> 1]
IdleReader == [pc |-> "idle", stage |-> "-", value |-> Nil, kinds |-> {}, ready |-> {}, hits |-> {}, todo |-> <<>>,
               cur |-> <<>>, next |-> <<>>, node |-> Root, i |-> 0, s |-> 1]

Init ==
    /\ patterns \in PatternSets
    /\ x = EmptyIndex
    /\ w = IdleWriter
    /\ added = {}
    /\ rd = [r \in Readers |-> IdleReader]

-----------------------------------------------------------------------------
(* byteMap: the present keys as four words of 64 bits, base[k] the number  *)
(* of keys in the words before word k, and the values ordered by key.      *)

Rank(t, c) ==
    t.base[c \div 64] + Cardinality({b \in t.set : b \div 64 = c \div 64 /\ b < c})

\* get, for a key that is present.
Get(t, c) == t.vals[Rank(t, c) + 1]

InsertAt(s, i, v) == SubSeq(s, 1, i) \o <<v>> \o SubSeq(s, i + 1, Len(s))

\* Faulty variants like the next one show which mistake a property would catch;
\* nothing uses them.  Here the base of c's own word is counted up.
WithByteInBase(t, c, v) ==
    LET set == t.set \cup {c}
        base == [k \in 0..3 |-> Cardinality({b \in set : b \div 64 <= k /\ b # c})]
    IN  [set |-> set, base |-> base, vals |-> InsertAt(t.vals, Rank(t, c), v)]

\* put, for a new key: a copy that one store publishes.
WithByte(t, c, v) ==
    LET set == t.set \cup {c}
        base[k \in 0..3] ==
            IF k = 0 THEN 0 ELSE base[k - 1] + Cardinality({b \in set : b \div 64 = k - 1})
    IN  [set |-> set, base |-> base, vals |-> InsertAt(t.vals, Rank(t, c), v)]

-----------------------------------------------------------------------------
(* Writer: add.                                                            *)

Arg == w.leaf.arg

\* Faulty: add sets the kind's bit before it publishes the leaf.
AddKindFirst(l) ==
    /\ w.pc = "idle" /\ l \notin added
    /\ x' = [x EXCEPT !.kinds = @ \cup {l.kind}]
    /\ w' = [IdleWriter EXCEPT !.pc = l.kind, !.leaf = l]
    /\ UNCHANGED <<patterns, added, rd>>

Add(l) ==
    /\ w.pc = "idle" /\ l \notin added
    /\ w' = [IdleWriter EXCEPT !.pc = l.kind, !.leaf = l]
    /\ UNCHANGED <<patterns, x, added, rd>>

PutEquals ==
    /\ w.pc = "equals"
    /\ x' = [x EXCEPT !.equals = @ \cup {Arg}]
    /\ w' = [w EXCEPT !.pc = "kind"]
    /\ UNCHANGED <<patterns, added, rd>>

PutAffix ==
    /\ w.pc \in {"prefix", "suffix"}
    /\ x' = [x EXCEPT ![w.leaf.kind] = @ \cup {Arg}]
    /\ w' = [w EXCEPT !.pc = "length"]
    /\ UNCHANGED <<patterns, added, rd>>

\* slices.BinarySearch and Insert on sorted lengths.
WithLength(s, n) ==
    LET below == Until(Len(s), {i \in 1..Len(s) : s[i] >= n})
    IN  IF below < Len(s) /\ s[below + 1] = n THEN s ELSE InsertAt(s, below, n)

NoLengths == [prefix |-> <<>>, suffix |-> <<>>]

\* Faulty: a copy that starts out empty loses the lengths of the other kind.
AddLengthAlone ==
    /\ w.pc = "length"
    /\ LET old == IF x.lens = Nil THEN <<>> ELSE x.lens[w.leaf.kind]
       IN  x' = [x EXCEPT !.lens = [NoLengths EXCEPT ![w.leaf.kind] = WithLength(old, Len(Arg))]]
    /\ w' = [w EXCEPT !.pc = "kind"]
    /\ UNCHANGED <<patterns, added, rd>>

\* addLength: both kinds of lengths are replaced together.
AddLength ==
    /\ w.pc = "length"
    /\ LET old == IF x.lens = Nil THEN NoLengths ELSE x.lens
       IN  x' = [x EXCEPT !.lens = [old EXCEPT ![w.leaf.kind] = WithLength(@, Len(Arg))]]
    /\ w' = [w EXCEPT !.pc = "kind"]
    /\ UNCHANGED <<patterns, added, rd>>

\* globNode.insert.  A new node is linked by one store.
Linked(n, child, spin) ==
    LET from == x.glob[n]
        at == [from EXCEPT !.spin = @ \/ spin,
                           !.kids = IF spin THEN @ ELSE WithByte(@, child[Len(child)], child)]
    IN  [m \in DOMAIN x.glob \cup {child} |->
            IF m = n THEN at ELSE IF m = child THEN NoNode ELSE x.glob[m]]

\* A '*' that is not the last token leads to a spinner, any other token, with
\* its escape resolved, to a kid.
InsertToken ==
    LET spin == Arg[w.i] = Star
        i == IF Arg[w.i] = Backslash THEN w.i + 1 ELSE w.i
        child == Append(w.node, IF spin THEN Spin ELSE Arg[i])
    IN  /\ w.pc = "glob" /\ w.i <= Len(Arg)
        /\ ~(spin /\ w.i = Len(Arg))
        /\ x' = IF child \in DOMAIN x.glob THEN x
                ELSE [x EXCEPT !.glob = Linked(w.node, child, spin)]
        /\ w' = [w EXCEPT !.node = child, !.i = i + 1]
        /\ UNCHANGED <<patterns, added, rd>>

InsertAccept ==
    LET from == x.glob[w.node]
        at == IF w.i = Len(Arg) THEN [from EXCEPT !.reach = @ \cup {w.leaf}]
              ELSE [from EXCEPT !.final = @ \cup {w.leaf}]
    IN  /\ w.pc = "glob" /\ w.i >= Len(Arg)
        /\ w.i = Len(Arg) => Arg[w.i] = Star
        /\ x' = [x EXCEPT !.glob = [@ EXCEPT ![w.node] = at]]
        /\ w' = [w EXCEPT !.pc = "kind"]
        /\ UNCHANGED <<patterns, added, rd>>

PutExists ==
    /\ w.pc = "exists"
    /\ x' = [x EXCEPT !.exists = TRUE]
    /\ w' = [w EXCEPT !.pc = "kind"]
    /\ UNCHANGED <<patterns, added, rd>>

PutNumber ==
    /\ w.pc = "number"
    /\ x' = [x EXCEPT !.number = With(@, Arg, w.leaf)]
    /\ w' = [w EXCEPT !.pc = "kind"]
    /\ UNCHANGED <<patterns, added, rd>>

\* prefixKey: the length and the masked address, whose length tells v4 from v6.
PrefixKey(a, n) == <<n, Masked(a, n).bits>>

PutPrefix ==
    /\ w.pc = "cidr"
    /\ x' = [x EXCEPT !.cidr = @ \cup {PrefixKey(Arg.addr, Arg.n)}]
    /\ w' = [w EXCEPT !.pc = "cidrLength"]
    /\ UNCHANGED <<patterns, added, rd>>

AddPrefixLength ==
    /\ w.pc = "cidrLength"
    /\ LET old == IF x.cidrLens = Nil THEN [v4 |-> <<>>, v6 |-> <<>>] ELSE x.cidrLens
       IN  x' = [x EXCEPT !.cidrLens =
                    IF Arg.addr.v4 THEN [old EXCEPT !.v4 = WithLength(@, Arg.n)]
                    ELSE [old EXCEPT !.v6 = WithLength(@, Arg.n)]]
    /\ w' = [w EXCEPT !.pc = "kind"]
    /\ UNCHANGED <<patterns, added, rd>>

\* kinds.Or, after the leaf is published; add returns.
OrKind ==
    /\ w.pc = "kind"
    /\ x' = [x EXCEPT !.kinds = @ \cup {w.leaf.kind}]
    /\ added' = added \cup {w.leaf}
    /\ w' = IdleWriter
    /\ UNCHANGED <<patterns, rd>>

Writer ==
    \/ \E l \in LeavesOf[patterns] : Add(l)
    \/ PutEquals \/ PutAffix \/ AddLength \/ InsertToken \/ InsertAccept
    \/ PutExists \/ PutNumber \/ PutPrefix \/ AddPrefixLength \/ OrKind

-----------------------------------------------------------------------------
(* Reader: collect for one value, and evalGroup's look at the exists leaf.  *)

Stages == <<"equals", "lens", "glob", "number", "cidr", "exists">>

\* Structures whose kinds were not set when the call loaded them are skipped.
Wanted(kinds, stage) ==
    IF stage = "lens" THEN kinds \cap {"prefix", "suffix"} # {} ELSE stage \in kinds

\* me with the next structure to look at.
Leave(me) ==
    LET no == IF me.stage = "-" THEN 0 ELSE CHOOSE k \in 1..6 : Stages[k] = me.stage
        later == {k \in no + 1..6 : Wanted(me.kinds, Stages[k])}
    IN  IF later = {} THEN [me EXCEPT !.pc = "done"]
        ELSE [me EXCEPT !.pc = "load",
                        !.stage = Stages[CHOOSE k \in later : \A j \in later : k <= j]]

\* me with hash lookups to do, given as <<table, key>>.
Search(me, keys) ==
    IF keys = <<>> THEN Leave(me) ELSE [me EXCEPT !.pc = "lookup", !.todo = keys]

\* Another value of rd[r]; nothing else changes.
Set(r, me) == rd' = [rd EXCEPT ![r] = me] /\ UNCHANGED <<patterns, x, w, added>>
Loading(r, stage) == rd[r].pc = "load" /\ rd[r].stage = stage
Text(r) == rd[r].value.text

Collect(r, v) ==
    /\ rd[r].pc = "idle"
    /\ Set(r, Leave([IdleReader EXCEPT !.value = v, !.kinds = x.kinds, !.ready = added]))

\* If there are only equals leaves, evalGroup uses the table without a check.
LoadEquals(r) ==
    /\ Loading(r, "equals")
    /\ Set(r, IF rd[r].kinds = {"equals"} /\ x.equals = {} THEN [rd[r] EXCEPT !.pc = "panic"]
              ELSE Search(rd[r], << <<"equals", Text(r)>> >>))

\* The lengths before the first that is longer than the text.
Short(s, n) == SubSeq(s, 1, Until(Len(s), {i \in 1..Len(s) : s[i] > n}))

LoadLens(r) ==
    /\ Loading(r, "lens")
    /\ IF x.lens = Nil THEN Set(r, [rd[r] EXCEPT !.pc = "panic"])
       ELSE LET n == Len(Text(r))
                pre == IF "prefix" \in rd[r].kinds THEN Short(x.lens.prefix, n) ELSE <<>>
                suf == IF "suffix" \in rd[r].kinds THEN Short(x.lens.suffix, n) ELSE <<>>
            IN  Set(r, Search(rd[r],
                    [i \in 1..Len(pre) |-> <<"prefix", SubSeq(Text(r), 1, pre[i])>>] \o
                    [i \in 1..Len(suf) |-> <<"suffix", SubSeq(Text(r), n - suf[i] + 1, n)>>]))

\* The address of the value is cut to every length, the length is in the key.
LoadCidr(r) ==
    /\ Loading(r, "cidr")
    /\ LET a == ParseIP(rd[r].value)
           all == IF x.cidrLens = Nil \/ a = NoAddr THEN <<>>
                  ELSE IF a.v4 THEN x.cidrLens.v4 ELSE x.cidrLens.v6
       IN  Set(r, Search(rd[r], [i \in 1..Len(all) |-> <<"cidr", PrefixKey(a, all[i])>>]))

LeafOfKey(table, key) ==
    IF table = "cidr"
    THEN Leaf("cidr", [addr |-> [v4 |-> Len(key[2]) = Width4, bits |-> key[2]], n |-> key[1]])
    ELSE Leaf(table, key)

Lookup(r) ==
    LET table == Head(rd[r].todo)[1]
        key == Head(rd[r].todo)[2]
        me == [rd[r] EXCEPT
                !.todo = Tail(@),
                !.hits = IF key \in x[table] THEN @ \cup {LeafOfKey(table, key)} ELSE @]
    IN  /\ rd[r].pc = "lookup"
        /\ Set(r, Search(me, me.todo))

LoadNumber(r) ==
    /\ Loading(r, "number")
    /\ LET found == IF rd[r].value.num = NoNum THEN <<>>
                    ELSE CollectNumbers(x.number, rd[r].value.num)
       IN  Set(r, Leave([rd[r] EXCEPT !.hits = @ \cup {found[i].leaf : i \in 1..Len(found)}]))

LoadExists(r) ==
    /\ Loading(r, "exists")
    /\ Set(r, Leave([rd[r] EXCEPT
                !.hits = IF x.exists THEN @ \cup {Leaf("exists", <<>>)} ELSE @]))

-----------------------------------------------------------------------------
(* The simulation of the automaton: cur are the nodes the text so far leads *)
(* to, next those after byte i.                                             *)

\* Faulty: addSpinner without its check.
AddSpinnerAgain(set, n) == Append(set, n)

\* addSpinner.
AddSpinner(set, n) == IF \E i \in 1..Len(set) : set[i] = n THEN set ELSE Append(set, n)

LoadGlob(r) ==
    /\ Loading(r, "glob")
    /\ Set(r, [rd[r] EXCEPT !.pc = "enter", !.node = Root, !.i = 0, !.cur = <<>>, !.next = <<>>,
                            !.s = 1])

\* enter: the node and what is accepted at it, then its spinner.
Enter(r) ==
    /\ rd[r].pc = "enter"
    /\ Set(r, [rd[r] EXCEPT !.pc = "spin",
                            !.next = Append(@, rd[r].node),
                            !.hits = @ \cup x.glob[rd[r].node].reach])

EnterSpin(r) ==
    /\ rd[r].pc = "spin"
    /\ Set(r, [rd[r] EXCEPT !.pc = "step", !.s = @ + 1,
                            !.next = IF x.glob[rd[r].node].spin
                                     THEN AddSpinner(@, Append(rd[r].node, Spin)) ELSE @])

\* One node of cur against byte i.
Step(r) ==
    LET me == rd[r]
        n == me.cur[me.s]
        kids == x.glob[n].kids
        c == Text(r)[me.i]
        next == IF n # Root /\ n[Len(n)] = Spin THEN AddSpinner(me.next, n) ELSE me.next
    IN  /\ me.pc = "step" /\ me.s <= Len(me.cur)
        /\ Set(r, IF c \in kids.set
                  THEN [me EXCEPT !.pc = "enter", !.node = Get(kids, c), !.next = next]
                  ELSE [me EXCEPT !.s = @ + 1, !.next = next])

\* The next byte, unless there is none or no node is left.
NextByte(r) ==
    LET me == rd[r]
    IN  /\ me.pc = "step" /\ me.s > Len(me.cur)
        /\ Set(r, [me EXCEPT !.cur = me.next, !.next = <<>>, !.i = @ + 1, !.s = 1,
                             !.pc = IF me.i < Len(Text(r)) /\ me.next # <<>> THEN "step"
                                    ELSE "final"])

Final(r) ==
    LET me == rd[r]
    IN  /\ me.pc = "final"
        /\ Set(r, IF me.s > Len(me.cur) THEN Leave([me EXCEPT !.cur = <<>>, !.s = 1])
                  ELSE [me EXCEPT !.s = @ + 1, !.hits = @ \cup x.glob[me.cur[me.s]].final])

Rest(r) == rd[r].pc = "done" /\ Set(r, IdleReader)

Reader(r) ==
    \/ \E v \in ValuesOf[patterns] : Collect(r, v)
    \/ LoadEquals(r) \/ LoadLens(r) \/ LoadCidr(r) \/ Lookup(r) \/ LoadNumber(r) \/ LoadExists(r)
    \/ LoadGlob(r) \/ Enter(r) \/ EnterSpin(r) \/ Step(r) \/ NextByte(r) \/ Final(r)
    \/ Rest(r)

Next == Writer \/ \E r \in Readers : Reader(r)
Spec == Init /\ [][Next]_vars

-----------------------------------------------------------------------------
(* Properties.                                                             *)

PatternsOf(l) == {p \in patterns : NewLeaf(p) = l}

\* A leaf that collect finds matches the value, as Explain sees the pattern it
\* was made of, and was published: through every kind of lookup, every wildcard
\* leaf that is turned into a cheaper one, and while the writer inserts.
HitsMatch ==
    \A r \in Readers : \A l \in rd[r].hits : 
        /\ l \in LeavesOf[patterns]
        /\ \A p \in PatternsOf(l) : ValueMatches(p, rd[r].value)

\* A leaf whose add had returned when the call began is found if it matches:
\* no lookup by length, shared node, full list of recent intervals or address
\* written in another way hides it (collect, match).
AddedLeavesAreFound ==
    \A r \in Readers : rd[r].pc = "done" =>
        \A l \in rd[r].ready :
            (\E p \in PatternsOf(l) : ValueMatches(p, rd[r].value)) => l \in rd[r].hits

\* A reader that sees a kind may use what belongs to it without a check: the
\* table of equals in evalGroup and the lengths in collect are there by then.
NeverPanics == \A r \in Readers : rd[r].pc # "panic"

\* A step of the simulation visits no node twice, although patterns share
\* nodes: the sets stay as small as the automaton (addSpinner's comment).
NodesAreVisitedOnce ==
    \A r \in Readers : \A i, j \in 1..Len(rd[r].next) :
        rd[r].next[i] = rd[r].next[j] => i = j

\* The number index holds every interval once, whatever list it is in, and its
\* shortcuts (sorted bounds, maxHi, binary searches) never end a scan too early:
\* every number finds exactly the intervals that contain it.
NumbersFound ==
    \A n \in {v.num : v \in ValuesOf[patterns]} \ {NoNum} :
        LET found == CollectNumbers(x.number, n)
            in == {l \in added \cup {w.leaf} : l.kind = "number"}
        IN  /\ \A l \in added : l.kind = "number" =>
                Cardinality({i \in 1..Len(found) : found[i].leaf = l})
                    = IF Contains(l.arg, n) THEN 1 ELSE 0
            /\ \A i \in 1..Len(found) : found[i].leaf \in in
=============================================================================
