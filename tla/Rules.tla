------------------------------- MODULE Rules -------------------------------
(***************************************************************************)
(* Rules: the condition sets that normalize.go makes of one, whether they  *)
(* hold, what explain.go says of the rule, and its JSON form               *)
(* (conditions.go).  A condition is [path, pattern, or], or being its      *)
(* alternatives or NoOr.  One with alternatives has neither path nor       *)
(* pattern.                                                                *)
(***************************************************************************)
EXTENDS Formula

CONSTANTS
    PathOrder,        \* the paths, sorted
    MaxConditionSets, \* maxConditionSets, 1024 in the code
    MaxOrDepth,       \* maxOrDepth, 32 in the code
    NoOr              \* of a condition without alternatives

Paths == Elems(PathOrder)
NoPath == ""

\* normalizeConditions of a set without alternatives, a function of paths: the
\* conditions on one path must all hold.
PathsOf(cs) == {c.path : c \in Elems(cs)}
OnPath(cs, path) == SelectSeq(cs, LAMBDA c : c.path = path)

ValidConditions(cs) ==
    /\ \A c \in Elems(cs) : c.path # NoPath /\ Normalizable(c.pattern)
    /\ \A c \in Elems(cs) : c.pattern.type = "absent" => Len(OnPath(cs, c.path)) = 1

NormalizeConditions(cs) ==
    [path \in PathsOf(cs) |->
        LET es == {Normalize(c.pattern) : c \in Elems(OnPath(cs, path))}
        IN  IF Len(OnPath(cs, path)) = 1 THEN CHOOSE x \in es : TRUE ELSE Combine("allOf", es)]

\* Faulty variants like the next one show which mistake a property would catch;
\* nothing uses them.  Here the limit is one set lower.
TooManyEarly(n) == n >= MaxConditionSets

TooMany(n) == n > MaxConditionSets

\* The positions of the conditions with alternatives, and the set without one.
Ors(cs) == {i \in 1..Len(cs) : cs[i].or # NoOr}
Without(cs, i) == SubSeq(cs, 1, i - 1) \o SubSeq(cs, i + 1, Len(cs))
OnlyAlternatives(c) == c.or # <<>> /\ c.path = NoPath /\ c.pattern = NoPattern

\* normalizeSets appends the sets of cs to dst.sets; an error ends it.  Every
\* alternative holds together with the conditions beside it.
RECURSIVE NormalizeSets(_, _, _)
NormalizeSets(dst, cs, depth) ==
    LET or == CHOOSE i \in Ors(cs) : TRUE
        Alternatives == cs[or].or
        Expand[k \in 0..Len(Alternatives)] ==
            IF k = 0 THEN dst
            ELSE IF ~Expand[k - 1].ok THEN Expand[k - 1]
            ELSE LET d == NormalizeSets(Expand[k - 1], Alternatives[k] \o Without(cs, or), depth + 1)
                 IN  [d EXCEPT !.ok = @ /\ ~TooMany(Len(d.sets))]
    IN  CASE cs = <<>> \/ Cardinality(Ors(cs)) > 1 -> [dst EXCEPT !.ok = FALSE]
          [] cs # <<>> /\ Ors(cs) = {} ->
               IF ValidConditions(cs) THEN [dst EXCEPT !.sets = Append(@, NormalizeConditions(cs))]
               ELSE [dst EXCEPT !.ok = FALSE]
          [] Cardinality(Ors(cs)) = 1 ->
               IF OnlyAlternatives(cs[or]) /\ depth < MaxOrDepth THEN Expand[Len(Alternatives)]
               ELSE [dst EXCEPT !.ok = FALSE]

NormalizeRule(cs) == NormalizeSets([ok |-> TRUE, sets |-> <<>>], cs, 0)

\* An event maps paths to Absent or to the leaves that match one of the values.
Absent == {}
SetHolds(set, event) ==
    \A path \in DOMAIN set :
        IF set[path].op = "absent" THEN event[path] = Absent
        ELSE event[path] # Absent /\ Eval(set[path], event[path])

-----------------------------------------------------------------------------
(* explain.go: what a rule means, without normalizing it.                  *)

\* explainPattern, whose values match the leaves hits.
RECURSIVE Holds(_, _)
Holds(p, hits) ==
    CASE p.type = "leaf" -> p.leaf \in hits
      [] p.type = "exists" -> hits # Absent
      [] p.type = "absent" -> hits = Absent
      [] p.type = "anyOf" -> \E q \in Elems(p.sub) : Holds(q, hits)
      [] p.type = "allOf" -> \A q \in Elems(p.sub) : Holds(q, hits)
      [] p.type = "anythingBut" -> ~\E q \in Elems(p.sub) : Holds(q, hits)

\* explainSet.
RECURSIVE Explained(_, _)
Explained(cs, event) ==
    \A c \in Elems(cs) :
        IF c.or # NoOr THEN \E alternative \in Elems(c.or) : Explained(alternative, event)
        ELSE /\ Holds(c.pattern, event[c.path])
             /\ event[c.path] # Absent \/ c.pattern.type \in {"exists", "absent"}

-----------------------------------------------------------------------------
(* The JSON form of a condition set: an object, here [or, patterns] with    *)
(* the alternatives under "$or" and a function from paths to patterns.      *)

OrKey == "$or"

\* Faulty: of several conditions on a path, the last one is written.
CombinedLast(ps) == ps[Len(ps)]

\* Several conditions on a path become one.
Combined(ps) ==
    IF Len(ps) = 1 THEN ps[1] ELSE [type |-> "allOf", leaf |-> NoLeaf, sub |-> ps]

\* ConditionSet.MarshalJSON returns an error for these sets.
RECURSIVE Marshals(_)
Marshals(cs) ==
    /\ Cardinality(Ors(cs)) <= 1
    /\ Ors(cs) # {} => \A i \in 1..Len(cs) \ Ors(cs) : cs[i].path # OrKey
    /\ \A i \in Ors(cs) : \A alternative \in Elems(cs[i].or) : Marshals(alternative)

RECURSIVE Marshal(_)
Marshal(cs) ==
    LET plain == SelectSeq(cs, LAMBDA c : c.or = NoOr)
        ps(path) == LET on == OnPath(plain, path) IN [i \in 1..Len(on) |-> on[i].pattern]
    IN  [or |-> IF Ors(cs) = {} THEN NoOr
                ELSE LET or == cs[CHOOSE i \in Ors(cs) : TRUE].or
                     IN  [k \in 1..Len(or) |-> Marshal(or[k])],
         patterns |-> [path \in PathsOf(plain) |-> Combined(ps(path))]]

\* ConditionSet.UnmarshalJSON: sorted by path, and the alternatives come first.
RECURSIVE Unmarshal(_)
Unmarshal(o) ==
    LET paths == SelectSeq(PathOrder, LAMBDA p : p \in DOMAIN o.patterns)
        or == [k \in 1..Len(o.or) |-> Unmarshal(o.or[k])]
    IN  (IF o.or = NoOr THEN <<>> ELSE << [path |-> NoPath, pattern |-> NoPattern, or |-> or] >>)
        \o [i \in 1..Len(paths) |->
              [path |-> paths[i], pattern |-> o.patterns[paths[i]], or |-> NoOr]]
=============================================================================
