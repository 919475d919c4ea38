------------------------------- MODULE Group -------------------------------
(***************************************************************************)
(* One group of the trie: the conditions that leave one state on one path. *)
(* The writer compiles a condition leaf by leaf (follow, compile,          *)
(* valueIndex.add) while readers evaluate the group against the values of  *)
(* an event (evalGroup).  Nothing is locked: every published leaf, kind    *)
(* bit, registration and negation is a step.                               *)
(***************************************************************************)
EXTENDS Integers, Sequences

CONSTANTS
    Leaves,
    KindOf,    \* the leaf kind of each leaf; it decides which lookup finds it
    Conds,     \* the normalized conditions that rules may put on the path
    FormulaOf, \* [Conds -> [leaves, triggers, kind, holds]], see Formula
    Readers,
    MaxNeg     \* 1 << (64 - negShift) in the code: positions below it fit an edge id

LeavesOf(c) == FormulaOf[c].leaves
Triggers(c) == FormulaOf[c].triggers
Simple(c) == FormulaOf[c].kind = "simple"
Monotone(c) == FormulaOf[c].kind \in {"simple", "monotone"}
Refutable(c) == FormulaOf[c].kind = "refutable"
Eval(c, hits) == hits \in FormulaOf[c].holds

ASSUME GroupAssumption ==
    /\ DOMAIN KindOf = Leaves
    /\ MaxNeg \in Nat \ {0}

\* What a formula says: it looks at its own leaves only; a monotone one needs a
\* trigger and no leaf makes it false, each trigger makes a simple one true, and
\* a refutable one holds exactly if none of its leaves hits.
ASSUME FormulaAssumption ==
    \A c \in Conds :
        /\ LeavesOf(c) \subseteq Leaves
        /\ Triggers(c) \subseteq LeavesOf(c)
        /\ \A hits \in SUBSET Leaves :
            /\ Eval(c, hits) <=> Eval(c, hits \cap LeavesOf(c))
            /\ Monotone(c) /\ Eval(c, hits) => Triggers(c) \cap hits # {}
            /\ Monotone(c) => \A more \in SUBSET Leaves : Eval(c, hits) => Eval(c, hits \cup more)
            /\ Simple(c) /\ Triggers(c) \cap hits # {} => Eval(c, hits)
            /\ Refutable(c) => (Eval(c, hits) <=> LeavesOf(c) \cap hits = {})

VARIABLES
    index,   \* leaves a lookup can find
    kinds,   \* valueIndex.kinds
    edgesAt, \* [Leaves -> SUBSET edges]: leaf.edge and leaf.more
    neg,     \* g.neg
    byKey,   \* conditions that have an edge
    w,       \* the writer's locals in follow
    rd       \* the readers' locals in evalGroup

gvars == <<index, kinds, edgesAt, neg, byKey, w>>
vars == <<index, kinds, edgesAt, neg, byKey, w, rd>>

NoEdge == [cond |-> "-", negIndex |-> 0]
IdleWriter == [pc |-> "idle", leaves |-> {}, at |-> {}, edge |-> NoEdge]
IdleReader == [pc |-> "idle", match |-> {}, neg |-> 0, kinds |-> {}, look |-> {},
               hits |-> {}, cand |-> {}, followed |-> {}, ready |-> {}]

Init ==
    /\ index = {} /\ kinds = {} /\ byKey = {}
    /\ edgesAt = [l \in Leaves |-> {}]
    /\ neg = <<>>
    /\ w = IdleWriter
    /\ rd = [r \in Readers |-> IdleReader]

-----------------------------------------------------------------------------
(* Writer.                                                                 *)

\* follow: a condition that has an edge already changes nothing.
AddCondition(c) ==
    /\ w.pc = "idle"
    /\ c \notin byKey
    /\ w' = [IdleWriter EXCEPT !.pc = "compile", !.leaves = LeavesOf(c) \ index,
                               !.edge.cond = c]
    /\ UNCHANGED <<index, kinds, edgesAt, neg, byKey, rd>>

\* valueIndex.add: the leaf first, then its kind bit.
PublishLeaf ==
    /\ w.pc = "compile"
    /\ \E l \in w.leaves :
        /\ index' = index \cup {l}
        /\ w' = [w EXCEPT !.pc = "kind", !.leaves = @ \ {l}, !.at = {l}]
    /\ UNCHANGED <<kinds, edgesAt, neg, byKey, rd>>

OrKind ==
    /\ w.pc = "kind"
    /\ kinds' = kinds \cup {KindOf[l] : l \in w.at}
    /\ w' = [w EXCEPT !.pc = "compile", !.at = {}]
    /\ UNCHANGED <<index, edgesAt, neg, byKey, rd>>

\* Faulty variants like the next one show which mistake a property would catch;
\* nothing uses them.  Here every negation counts as refuted by any of its leaves.
RegisterAll ==
    LET c == w.edge.cond
        n == Len(neg) + 1
    IN  /\ w.pc = "compile" /\ w.leaves = {}
        /\ w' = [w EXCEPT !.pc = "edges",
                    !.at = IF Monotone(c) THEN Triggers(c) ELSE LeavesOf(c),
                    !.edge.negIndex = IF Monotone(c) THEN 0 ELSE n]
        /\ UNCHANGED <<index, kinds, edgesAt, neg, byKey, rd>>

\* Where the compiled condition is registered: a monotone one at its triggers,
\* a refutable negation, while positions last, at the leaves that refute it.
Register ==
    LET c == w.edge.cond
        n == Len(neg) + 1
        refutable == Refutable(c) /\ n < MaxNeg
    IN  /\ w.pc = "compile" /\ w.leaves = {}
        /\ w' = [w EXCEPT !.pc = "edges",
                    !.at = CASE Monotone(c) -> Triggers(c)
                             [] refutable -> LeavesOf(c)
                             [] OTHER -> {},
                    !.edge.negIndex = IF refutable THEN n ELSE 0]
        /\ UNCHANGED <<index, kinds, edgesAt, neg, byKey, rd>>

\* leaf.addEdge.
AddEdge ==
    /\ w.pc = "edges"
    /\ \E l \in w.at :
        /\ edgesAt' = [edgesAt EXCEPT ![l] = @ \cup {w.edge}]
        /\ w' = [w EXCEPT !.at = @ \ {l}]
    /\ UNCHANGED <<index, kinds, neg, byKey, rd>>

\* g.neg.add of a negation, and the end of follow.
Finish ==
    /\ w.pc = "edges" /\ w.at = {}
    /\ neg' = IF Monotone(w.edge.cond) THEN neg ELSE Append(neg, w.edge)
    /\ byKey' = byKey \cup {w.edge.cond}
    /\ w' = IdleWriter
    /\ UNCHANGED <<index, kinds, edgesAt, rd>>

Writer ==
    \/ \E c \in Conds : AddCondition(c)
    \/ PublishLeaf \/ OrKind \/ Register \/ AddEdge \/ Finish

-----------------------------------------------------------------------------
(* Readers: evalGroup for values that the leaves "match" match.            *)

Eval0(r, match) ==
    /\ rd[r].pc = "idle"
    /\ rd' = [rd EXCEPT ![r] = [IdleReader EXCEPT !.pc = "neg", !.match = match,
                                                  !.ready = byKey]]
    /\ UNCHANGED gvars

LoadNeg(r) ==
    /\ rd[r].pc = "neg"
    /\ rd' = [rd EXCEPT ![r].pc = "kinds", ![r].neg = Len(neg)]
    /\ UNCHANGED gvars

LoadKinds(r) ==
    /\ rd[r].pc = "kinds"
    /\ rd' = [rd EXCEPT ![r].pc = "lookup", ![r].kinds = kinds, ![r].look = rd[r].match]
    /\ UNCHANGED gvars

\* The lookup that would find l: it looks only at the kinds loaded before.
\* The code's order (by value, then by kind) is one of the orders here.
Lookup(r, l) ==
    /\ rd[r].pc = "lookup"
    /\ rd' = [rd EXCEPT
                ![r].look = @ \ {l},
                ![r].hits = IF l \in index /\ KindOf[l] \in rd[r].kinds
                            THEN @ \cup {l} ELSE @]
    /\ UNCHANGED gvars

LookedUp(r) ==
    /\ rd[r].pc = "lookup" /\ rd[r].look = {}
    /\ rd' = [rd EXCEPT ![r].pc = "gather", ![r].look = rd[r].hits]
    /\ UNCHANGED gvars

\* leaf.appendEdges.
Gather(r, l) ==
    /\ rd[r].pc = "gather"
    /\ rd' = [rd EXCEPT ![r].look = @ \ {l}, ![r].cand = @ \cup edgesAt[l]]
    /\ UNCHANGED gvars

\* Faulty: the negations are loaded after the leaves.
FollowedLate(r) ==
    LET n == Len(neg)
        cand == rd[r].cand
        refuted == {c.negIndex : c \in cand} \cap 1..n
        kept == IF n > 0 THEN {c \in cand : c.negIndex = 0} ELSE cand
    IN  {c \in kept : Simple(c.cond) \/ Eval(c.cond, rd[r].hits)}
        \cup {neg[k] : k \in {j \in 1..n \ refuted :
                neg[j].negIndex # 0 \/ Eval(neg[j].cond, rd[r].hits)}}

\* What evalGroup makes of the candidates, all of it on the reader's own data:
\* candidates that refute a loaded negation mark it and are dropped, the others
\* and the unrefuted negations are followed, if need be by their formula.
Followed(r) ==
    LET n == rd[r].neg
        cand == rd[r].cand
        refuted == {c.negIndex : c \in cand} \cap 1..n
        kept == IF n > 0 THEN {c \in cand : c.negIndex = 0} ELSE cand
    IN  {c \in kept : Simple(c.cond) \/ Eval(c.cond, rd[r].hits)}
        \cup {neg[k] : k \in {j \in 1..n \ refuted :
                neg[j].negIndex # 0 \/ Eval(neg[j].cond, rd[r].hits)}}

Choose(r) ==
    /\ rd[r].pc = "gather" /\ rd[r].look = {}
    /\ rd' = [rd EXCEPT ![r].pc = "done",
                        ![r].followed = {c.cond : c \in Followed(r)}]
    /\ UNCHANGED gvars

Rest(r) ==
    /\ rd[r].pc = "done"
    /\ rd' = [rd EXCEPT ![r] = IdleReader]
    /\ UNCHANGED gvars

Reader(r) ==
    \/ \E match \in SUBSET Leaves : Eval0(r, match)
    \/ LoadNeg(r) \/ LoadKinds(r)
    \/ \E l \in rd[r].look : Lookup(r, l)
    \/ LookedUp(r)
    \/ \E l \in rd[r].look : Gather(r, l)
    \/ Choose(r) \/ Rest(r)

Next == Writer \/ \E r \in Readers : Reader(r)
Spec == Init /\ [][Next]_vars

-----------------------------------------------------------------------------
(* Properties.                                                             *)

\* A condition that is followed holds, even if the writer was still compiling
\* it: a negation never appears without the leaves that make it false, because
\* negations are loaded before the kinds and the leaves (evalGroup, follow).
FollowedConditionsHold ==
    \A r \in Readers : rd[r].pc = "done" =>
        \A c \in rd[r].followed : Eval(c, rd[r].match)

\* A condition that was compiled before the call and holds is followed: the
\* triggers, the kinds and the marking of refuted negations lose none, and
\* registrations added meanwhile hide none.
HoldingConditionsFollowed ==
    \A r \in Readers : rd[r].pc = "done" =>
        \A c \in rd[r].ready : Eval(c, rd[r].match) => c \in rd[r].followed
=============================================================================
