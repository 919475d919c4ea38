------------------------------ MODULE MCRules ------------------------------
(***************************************************************************)
(* Rules that grow step by step: patterns are nested one operator at a     *)
(* time, conditions and alternatives come beside them.                     *)
(***************************************************************************)
EXTENDS Rules, Keys

CONSTANTS
    MaxNesting, \* bound: operators around a leaf
    MaxOrs      \* bound: sets and conditions of alternatives that are added

VARIABLES rule, \* a ConditionSet
          size, \* operators applied so far
          ors   \* sets and conditions of alternatives so far

a == "a"
MCPathOrder == <<NoPath, OrKey, a>>

\* Values that look like parts of a key: the value ":)" in two kinds of leaves,
\* and "*|1:2)*&(3*", whose length has two digits.
MCLeaves ==
    {[kind |-> "equals", value |-> <<58, 41>>], [kind |-> "prefix", value |-> <<58, 41>>],
     [kind |-> "glob", value |-> <<42, 124, 49, 58, 50, 41, 42, 38, 40, 51, 42>>]}

LeafPattern(l) == [type |-> "leaf", leaf |-> l, sub |-> <<>>]
Presence(type) == [type |-> type, leaf |-> NoLeaf, sub |-> <<>>]
Nest(type, sub) == [type |-> type, leaf |-> NoLeaf, sub |-> sub]
Types == {"anyOf", "allOf", "anythingBut"}
Not(l) == Nest("anythingBut", <<LeafPattern(l)>>)

On(path, p) == [path |-> path, pattern |-> p, or |-> NoOr]
OneOf(alternatives) == [path |-> NoPath, pattern |-> NoPattern, or |-> alternatives]

Init ==
    /\ rule \in {<<On(a, LeafPattern(l))>> : l \in Leaves}
    /\ size = 0 /\ ors = 0

Last == rule[Len(rule)]

\* The pattern of the last condition becomes a part of a larger one.
Grow ==
    /\ size < MaxNesting
    /\ Last.or = NoOr
    /\ size' = size + 1
    /\ \E t \in Types, l \in Leaves :
        LET p == Last.pattern
            l2 == LeafPattern(l)
        IN  \E q \in {Nest(t, <<p>>), Nest(t, <<p, l2>>), Nest(t, <<p, Not(l)>>),
                      Nest(t, <<Nest("anyOf", <<l2, p>>), l2>>)} :
              rule' = [rule EXCEPT ![Len(rule)].pattern = q]
    /\ UNCHANGED ors

\* Another condition, on the same path or the other one.
Beside ==
    /\ Len(rule) = 1
    /\ \/ \E l \in Leaves : rule' = Append(rule, On(a, LeafPattern(l)))
       \/ \E t \in {"exists", "absent"} : rule' = Append(rule, On(a, Presence(t)))
       \/ \E l \in Leaves, t \in {"exists", "absent"} :
            rule' \in {Append(rule, On(OrKey, LeafPattern(l))), Append(rule, On(OrKey, Presence(t)))}
    /\ UNCHANGED <<size, ors>>

\* Conditions that alternatives are made of.
Conds ==
    LET l == CHOOSE x \in Leaves : TRUE
    IN  {On(a, LeafPattern(l)), On(a, Presence("absent")), On(OrKey, LeafPattern(l)), On(OrKey, Not(l))}

\* Among the alternatives of cs: another set of one condition, or in the last
\* set another condition or alternatives of its own.
RECURSIVE Larger(_)
Larger(cs) ==
    LET n == Len(cs)
        k == Len(cs[n].or)
    IN  IF cs[n].or = NoOr THEN {Append(cs, x) : x \in Conds \cup {OneOf(<< <<y>> >>) : y \in Conds}}
        ELSE {[cs EXCEPT ![n].or = Append(@, <<x>>)] : x \in Conds}
             \cup {[cs EXCEPT ![n].or[k] = s] : s \in Larger(cs[n].or[k])}

Alternate ==
    /\ ors < MaxOrs
    /\ ors' = ors + 1
    /\ \A c \in Elems(rule) : c.or = NoOr => c \in Conds
    /\ \/ Last.or = NoOr /\ \E x \in Conds : rule' = Append(rule, OneOf(<< <<x>> >>))
       \/ Last.or \notin {NoOr, <<>>} /\ rule' \in Larger(rule)
       \/ rule' = Append(rule, OneOf(<<>>))
    /\ UNCHANGED size

\* A condition that must be rejected whatever stands beside it: without a path or
\* a value, or with alternatives and a path or a pattern.
Malform ==
    /\ ors < MaxOrs
    /\ ors' = MaxOrs /\ size' = MaxNesting
    /\ \E i \in 1..Len(rule) :
        \/ i \in Ors(rule) /\ rule' = [rule EXCEPT ![i].path = a]
        \/ i \in Ors(rule) /\ \E l \in Leaves : rule' = [rule EXCEPT ![i].pattern = LeafPattern(l)]
        \/ i \notin Ors(rule) /\ rule' = [rule EXCEPT ![i].path = NoPath]
        \/ i \notin Ors(rule) /\ rule' = [rule EXCEPT ![i].pattern = NoPattern]

Next == Grow \/ Beside \/ Alternate \/ Malform
Spec == Init /\ [][Next]_<<rule, size, ors>>

Valid == NormalizeRule(rule).ok
Sets == Elems(NormalizeRule(rule).sets)
Exprs == {e \in UNION {{set[path] : path \in DOMAIN set} : set \in Sets} : e.op # "absent"}

HitSets == SUBSET Leaves
Events == [Paths \ {NoPath} -> {Absent} \cup {hits \cup {Exists} : hits \in HitSets}]

\* Match and Explain agree on every valid rule and event: expanding alternatives
\* into sets, merging the conditions on a path, flattening, dropping duplicates
\* and cancelling double negations change no result (normalizeSets,
\* normalizeConditions, combine, negate; explainSet).
MeaningKept ==
    LET sets == Sets
    IN  Valid => \A event \in Events :
            (\E set \in sets : SetHolds(set, event)) <=> Explained(rule, event)

\* A condition survives compact: the parser reads the key's text back as the same
\* expression, whatever bytes the values contain and although it applies combine
\* and negate once more.  So no two conditions share a key either (newLeaf,
\* combine, negate; parseKey, parseExpr).
KeyRoundTrip == \A e \in Exprs : ParseKey(Key(e)) = e

\* A monotone condition is registered at its triggers only, and a reader looks
\* at it only if one of them hits: it never holds otherwise, and what makes it
\* hold does so beside any other hits (triggers, monotone).
TriggersSuffice ==
    \A e \in Exprs : Monotone(e) =>
        \A hits \in HitSets : Eval(e, hits) =>
            /\ Triggers(e) \cap hits # {}
            /\ \A more \in HitSets : Eval(e, hits \cup more)

\* Shortcuts that skip the formula: a simple condition holds when a trigger
\* hits, a refutable negation when none of its leaves does, and hits of other
\* conditions' leaves change nothing (simple, refutable, group.leaf).
ShortcutsAreExact ==
    \A e \in Exprs, hits \in HitSets :
        /\ Triggers(e) \subseteq LeavesOf(e)
        /\ Eval(e, hits) <=> Eval(e, hits \cap LeavesOf(e))
        /\ Simple(e) => (Eval(e, hits) <=> Triggers(e) \cap hits # {})
        /\ Refutable(e) => (Eval(e, hits) <=> LeavesOf(e) \cap hits = {})

\* The combinations of alternatives, each with its depth and whole conditions.
RECURSIVE Combinations(_, _)
Combinations(cs, depth) ==
    IF Ors(cs) = {} THEN << [depth |-> depth, conds |-> cs] >>
    ELSE IF Cardinality(Ors(cs)) > 1 \/ \E i \in Ors(cs) : ~OnlyAlternatives(cs[i])
    THEN << [depth |-> depth, conds |-> <<>>] >>
    ELSE LET or == CHOOSE i \in Ors(cs) : TRUE
             all[k \in 0..Len(cs[or].or)] ==
                IF k = 0 THEN <<>>
                ELSE all[k - 1] \o Combinations(cs[or].or[k] \o Without(cs, or), depth + 1)
         IN  all[Len(cs[or].or)]

\* A rule is rejected exactly if it combines into too many sets, if alternatives
\* are nested too deeply or if one combination is invalid: the limits count
\* over all levels and in every order of alternatives (normalizeSets).
LimitsAreExact ==
    LET all == Combinations(rule, 0)
    IN  Valid <=> /\ Len(all) <= MaxConditionSets \/ Ors(rule) = {}
                  /\ \A c \in Elems(all) : c.depth <= MaxOrDepth /\ c.conds # <<>> /\ ValidConditions(c.conds)

RECURSIVE WellFormed(_)
WellFormed(cs) ==
    \A i \in Ors(cs) : /\ cs[i].path = NoPath /\ cs[i].pattern = NoPattern
                       /\ \A alternative \in Elems(cs[i].or) : WellFormed(alternative)

\* A rule that is written as JSON and read again means the same and is accepted
\* or rejected alike, although conditions on one path were merged and a path may
\* be named like the key of alternatives (MarshalJSON, UnmarshalJSON).  Only the
\* path and pattern that no condition with alternatives may have are not written,
\* so a rule rejected because of them is not rejected again.
JSONRoundTrip ==
    Marshals(rule) =>
        LET again == Unmarshal(Marshal(rule))
        IN  /\ WellFormed(rule) => (NormalizeRule(again).ok <=> Valid)
            /\ Valid => \A event \in Events : Explained(again, event) <=> Explained(rule, event)
=============================================================================
