------------------------------ MODULE Formula ------------------------------
(***************************************************************************)
(* Patterns, the expressions that normalize.go makes of them, and what the *)
(* engine derives from an expression: when it is simple, which leaves      *)
(* trigger it, which leaves refute it, and whether it holds.               *)
(*                                                                         *)
(* A pattern is a tree [type, leaf, sub]; an expression is [op, leaf,      *)
(* subs], and a leaf is [kind, value].  The code keeps the subs of anyOf   *)
(* and allOf sorted by key and without duplicates, which makes them a set  *)
(* here: module Keys builds the keys and shows that they tell the          *)
(* expressions apart.                                                      *)
(***************************************************************************)
EXTENDS Integers, Sequences, FiniteSets

CONSTANT Leaves \* single-value patterns: equals, prefix, number, ...

Elems(s) == {s[i] : i \in 1..Len(s)}
NoLeaf == [kind |-> "-", value |-> <<>>]

\* The leaf of {"exists": true}, which matches every value.
Exists == [kind |-> "exists", value |-> <<>>]
AbsentExpr == [op |-> "absent", leaf |-> NoLeaf, subs |-> {}]

LeafExpr(l) == [op |-> "leaf", leaf |-> l, subs |-> {}]
Expr(op, subs) == [op |-> op, leaf |-> NoLeaf, subs |-> subs]

\* Faulty variants like the next one show which mistake a property would catch;
\* nothing uses them.  Here allOf and anyOf are flattened into each other.
CombineFlat(op, subs) ==
    LET flat == UNION {IF s.op \in {"anyOf", "allOf"} THEN s.subs ELSE {s} : s \in subs}
    IN  IF Cardinality(flat) = 1 THEN CHOOSE s \in flat : TRUE ELSE Expr(op, flat)

\* The anyOf or allOf of subs: those of the same kind are flattened.
Combine(op, subs) ==
    LET flat == UNION {IF s.op = op THEN s.subs ELSE {s} : s \in subs}
    IN  IF Cardinality(flat) = 1 THEN CHOOSE s \in flat : TRUE ELSE Expr(op, flat)

\* Conditions are evaluated for present properties only: double negation cancels.
Negate(e) == IF e.op = "not" THEN CHOOSE s \in e.subs : TRUE ELSE Expr("not", {e})

\* The zero Pattern: an equals without a value.
NoPattern == [type |-> "equals", leaf |-> NoLeaf, sub |-> <<>>]

\* normalizePattern returns an error unless values and subs are there and
\* {"exists": false} is on its own.
RECURSIVE Normalizable(_)
Normalizable(p) ==
    /\ p # NoPattern
    /\ p.type \in {"anyOf", "allOf", "anythingBut"} =>
        /\ p.sub # <<>>
        /\ \A q \in Elems(p.sub) : Normalizable(q) /\ q.type # "absent"

RECURSIVE Normalize(_)
Normalize(p) ==
    LET subs == {Normalize(p.sub[i]) : i \in 1..Len(p.sub)}
    IN  CASE p.type = "leaf" -> LeafExpr(p.leaf)
          [] p.type = "exists" -> LeafExpr(Exists)
          [] p.type = "absent" -> AbsentExpr
          [] p.type \in {"anyOf", "allOf"} -> Combine(p.type, subs)
          [] p.type = "anythingBut" -> Negate(Combine("anyOf", subs))

RECURSIVE LeavesOf(_)
LeavesOf(e) == IF e.op = "leaf" THEN {e.leaf} ELSE UNION {LeavesOf(s) : s \in e.subs}

RECURSIVE Monotone(_)
Monotone(e) == e.op # "not" /\ \A s \in e.subs : Monotone(s)

Simple(e) == e.op = "leaf" \/ (e.op = "anyOf" /\ \A s \in e.subs : s.op = "leaf")

Sub(e) == CHOOSE s \in e.subs : TRUE

\* Faulty: takes a leaf of an allOf for a refutation of its negation.
RefutableByAny(e) == e.op = "not" /\ \A s \in Sub(e).subs : s.op = "leaf"

Refutable(e) ==
    /\ e.op = "not"
    /\ \/ Sub(e).op = "leaf"
       \/ Sub(e).op = "anyOf" /\ \A s \in Sub(e).subs : s.op = "leaf"

\* Faulty: takes the triggers of one sub for those of an anyOf, too.
RECURSIVE TriggersOfOne(_)
TriggersOfOne(e) ==
    LET of == {TriggersOfOne(s) : s \in e.subs}
    IN  IF e.op = "leaf" THEN {e.leaf}
        ELSE CHOOSE t \in of : \A u \in of : Cardinality(t) <= Cardinality(u)

\* Of the subs of an allOf, one with the fewest triggers.
RECURSIVE Triggers(_)
Triggers(e) ==
    LET of == {Triggers(s) : s \in e.subs}
    IN  CASE e.op = "leaf" -> {e.leaf}
          [] e.op = "allOf" ->
               CHOOSE t \in of : \A u \in of : Cardinality(t) <= Cardinality(u)
          [] OTHER -> UNION of

\* formula.eval.
RECURSIVE Eval(_, _)
Eval(e, hits) ==
    CASE e.op = "leaf" -> e.leaf \in hits
      [] e.op = "anyOf" -> \E s \in e.subs : Eval(s, hits)
      [] e.op = "allOf" -> \A s \in e.subs : Eval(s, hits)
      [] OTHER -> ~Eval(Sub(e), hits)
=============================================================================
