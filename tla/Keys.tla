-------------------------------- MODULE Keys --------------------------------
(***************************************************************************)
(* The key of an expression (normalize.go): a text, here a sequence of     *)
(* bytes, that names the expression in a group's maps and from which       *)
(* compact parses the expression again.  A value in it may contain every   *)
(* byte that means something in a key; its length says where it ends.      *)
(***************************************************************************)
EXTENDS Formula

LOCAL INSTANCE SequencesExt

\* The bytes with a meaning:  = ^ $ ~ ? # @   | & !   : ( )
LeafTags == [equals |-> 61, prefix |-> 94, suffix |-> 36, glob |-> 126,
             exists |-> 63, number |-> 35, cidr |-> 64]
OpTags == [anyOf |-> 124, allOf |-> 38, not |-> 33]
Colon == 58
Open == 40
Close == 41

\* strconv.Itoa and strconv.Atoi; no key has a sign.
Itoa[n \in Nat] == (IF n < 10 THEN <<>> ELSE Itoa[n \div 10]) \o <<48 + (n % 10)>>
IsNumber(s) == s # <<>> /\ Elems(s) \subseteq 48..57
Atoi(s) == FoldLeft(LAMBDA n, digit : 10 * n + digit - 48, 0, s)

\* strings.Compare(s, t) < 0: at the first difference s is smaller or ends.
KeyLess(s, t) ==
    \E i \in 1..Len(t) :
        /\ i <= Len(s) + 1
        /\ SubSeq(s, 1, i - 1) = SubSeq(t, 1, i - 1)
        /\ i <= Len(s) => s[i] < t[i]

SortedKeys(keys) ==
    [i \in 1..Cardinality(keys) |->
        CHOOSE k \in keys : Cardinality({x \in keys : KeyLess(x, k)}) = i - 1]

RECURSIVE Key(_)
Key(e) ==
    IF e.op = "leaf"
    THEN <<LeafTags[e.leaf.kind]>> \o Itoa[Len(e.leaf.value)] \o <<Colon>> \o e.leaf.value
    ELSE <<OpTags[e.op], Open>> \o FlattenSeq(SortedKeys({Key(s) : s \in e.subs})) \o <<Close>>

-----------------------------------------------------------------------------
(* parseKey, which recovers a condition from its key.                      *)

\* What the parser returns instead of an expression when it panics; nothing is
\* left of the text then.
Invalid == [op |-> "invalid", leaf |-> NoLeaf, subs |-> {}]
Panic == [e |-> Invalid, rest |-> <<>>]

Rest(s, i) == SubSeq(s, i, Len(s))
IndexByte(s, c) == SelectInSeq(s, LAMBDA x : x = c)

\* Faulty variants like the next one show which mistake a property would catch;
\* nothing uses them.  Here a value ends before the next ')', whatever its length.
LeafEndAtClose(s) ==
    IF Close \in Elems(s) THEN IndexByte(s, Close) - 1 ELSE Len(s)

\* The last byte of the leaf at the start of s.
LeafEnd(s) ==
    LET colon == IndexByte(s, Colon) IN colon + Atoi(SubSeq(s, 2, colon - 1))

ParseLeaf(s) ==
    LET colon == IndexByte(s, Colon)
        kind == CHOOSE k \in DOMAIN LeafTags : LeafTags[k] = s[1]
    IN  IF colon = 0 \/ ~IsNumber(SubSeq(s, 2, colon - 1)) \/ LeafEnd(s) > Len(s) THEN Panic
        ELSE [e |-> LeafExpr([kind |-> kind, value |-> SubSeq(s, colon + 1, LeafEnd(s))]),
              rest |-> Rest(s, LeafEnd(s) + 1)]

\* The expression at the start of s and the rest of s.  ParseSubs reads the subs
\* up to the ')'.
RECURSIVE ParseExpr(_), ParseSubs(_, _)
ParseExpr(s) ==
    CASE s # <<>> /\ s[1] \in {LeafTags[k] : k \in DOMAIN LeafTags} -> ParseLeaf(s)
      [] s # <<>> /\ s[1] \in {OpTags[op] : op \in DOMAIN OpTags} ->
           LET op == CHOOSE o \in DOMAIN OpTags : OpTags[o] = s[1]
               p == ParseSubs(Rest(s, 3), <<>>)
           IN  IF p.rest = <<>> \/ (op = "not" /\ p.subs = <<>>) THEN Panic
               ELSE [e |-> IF op = "not" THEN Negate(p.subs[1]) ELSE Combine(op, Elems(p.subs)),
                     rest |-> Tail(p.rest)]
      [] OTHER -> Panic

ParseSubs(s, subs) ==
    IF s = <<>> \/ s[1] = Close THEN [subs |-> subs, rest |-> s]
    ELSE LET p == ParseExpr(s) IN ParseSubs(p.rest, Append(subs, p.e))

ParseKey(s) == LET p == ParseExpr(s) IN IF p.rest = <<>> THEN p.e ELSE Invalid
=============================================================================
