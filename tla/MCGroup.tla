------------------------------ MODULE MCGroup ------------------------------
EXTENDS Group

F == INSTANCE Formula

\* p and q are found by one lookup, s by another.
MCLeaves == {[kind |-> "equals", value |-> <<112>>], [kind |-> "equals", value |-> <<113>>],
             [kind |-> "prefix", value |-> <<115>>]}
MCKindOf == [l \in MCLeaves |-> l.kind]

p == F!LeafExpr([kind |-> "equals", value |-> <<112>>])
q == F!LeafExpr([kind |-> "equals", value |-> <<113>>])
s == F!LeafExpr([kind |-> "prefix", value |-> <<115>>])

\* A leaf, an allOf, a negation that leaves refute, one that needs its formula,
\* and an anyOf over a negation.
MCConds ==
    {p, F!Expr("allOf", {q, s}), F!Expr("not", {F!Expr("anyOf", {q, s})}),
     F!Expr("not", {F!Expr("allOf", {p, s})}), F!Expr("anyOf", {F!Expr("not", {p}), q})}

MCFormulaOf ==
    [c \in MCConds |->
        [leaves |-> F!LeavesOf(c), triggers |-> F!Triggers(c),
         kind |-> CASE F!Simple(c) -> "simple"
                    [] F!Monotone(c) /\ ~F!Simple(c) -> "monotone"
                    [] F!Refutable(c) -> "refutable"
                    [] OTHER -> "negation",
         holds |-> {hits \in SUBSET MCLeaves : F!Eval(c, hits)}]]
=============================================================================
