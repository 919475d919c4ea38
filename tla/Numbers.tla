------------------------------- MODULE Numbers -------------------------------
(***************************************************************************)
(* The number index of number.go: intervals by kind, each kind in a list   *)
(* that is sorted by a bound but for up to MaxRecent recent additions.  An *)
(* index is immutable; adding an interval makes another one.               *)
(***************************************************************************)
EXTENDS Patterns

CONSTANT MaxRecent \* maxRecent, 64 in the code

ASSUME NumbersAssumption == Inf \in Nat /\ MaxRecent \in Nat \ {0}

\* Entries are [iv, leaf].
EmptyList == [sorted |-> <<>>, recent |-> <<>>, maxHi |-> <<>>]
EmptyNumbers == [lower |-> EmptyList, upper |-> EmptyList, ranges |-> EmptyList, points |-> EmptyList]

Lo(e) == e.iv.lo
Hi(e) == e.iv.hi
Bound(kind, e) == IF kind = "upper" THEN Hi(e) ELSE Lo(e)

\* slices.SortFunc by the bound, which leaves the order of equal ones open.
SortedBy(kind, s) ==
    CHOOSE t \in [1..Len(s) -> {s[i] : i \in 1..Len(s)}] :
        /\ \A i \in 1..Len(s) - 1 : Bound(kind, t[i]) <= Bound(kind, t[i + 1])
        /\ \A x \in {s[i] : i \in 1..Len(s)} :
            Cardinality({i \in 1..Len(s) : t[i] = x}) = Cardinality({i \in 1..Len(s) : s[i] = x})

\* The loop of with, the smaller head first, and then what is left of either:
\* taken[k] of the first k entries come from s, the others from t.
Merged(kind, s, t) ==
    LET First(i, j) ==
            \/ j > Len(t)
            \/ i <= Len(s) /\ Bound(kind, s[i]) <= Bound(kind, t[j])
        taken[k \in 0..Len(s) + Len(t)] ==
            IF k = 0 THEN 0
            ELSE IF First(taken[k - 1] + 1, k - taken[k - 1]) THEN taken[k - 1] + 1
            ELSE taken[k - 1]
    IN  [k \in 1..Len(s) + Len(t) |->
            IF taken[k] > taken[k - 1] THEN s[taken[k]] ELSE t[k - taken[k]]]

\* maxHi[i] is the largest upper bound among the first i entries.
MaxHi(s) ==
    LET max[i \in 0..Len(s)] ==
            IF i = 0 THEN -Inf ELSE IF Hi(s[i]) > max[i - 1] THEN Hi(s[i]) ELSE max[i - 1]
    IN  [i \in 1..Len(s) |-> max[i]]

\* Faulty variants like the next one show which mistake a property would catch;
\* nothing uses them.  Here maxHi holds every range's own upper bound.
ListWithOwnHi(l, kind, e) ==
    LET recent == Append(l.recent, e)
        merged == Merged(kind, l.sorted, SortedBy(kind, recent))
    IN  IF Len(recent) < MaxRecent THEN [l EXCEPT !.recent = recent]
        ELSE [sorted |-> merged, recent |-> <<>>,
              maxHi |-> [i \in 1..Len(merged) |-> Hi(merged[i])]]

\* numList.with.
ListWith(l, kind, e) ==
    LET recent == Append(l.recent, e)
        merged == Merged(kind, l.sorted, SortedBy(kind, recent))
    IN  IF Len(recent) < MaxRecent THEN [l EXCEPT !.recent = recent]
        ELSE [sorted |-> merged, recent |-> <<>>,
              maxHi |-> IF kind = "ranges" THEN MaxHi(merged) ELSE <<>>]

KindOf(iv) ==
    CASE iv.lo = iv.hi -> "points"
      [] iv.lo # iv.hi /\ iv.hi = Inf -> "lower"
      [] iv.lo # iv.hi /\ iv.hi # Inf /\ iv.lo = -Inf -> "upper"
      [] OTHER -> "ranges"

\* numIndex.with.
With(index, iv, leaf) ==
    LET kind == KindOf(iv)
    IN  [index EXCEPT ![kind] = ListWith(@, kind, [iv |-> iv, leaf |-> leaf])]

\* searchLo: how many entries start below x, or at x; i and j after each round.
SearchLo(s, x, orEqual) ==
    LET Half(b) ==
            LET m == (b.i + b.j) \div 2
                lo == Lo(s[m + 1])
            IN  IF lo < x \/ (orEqual /\ lo = x) THEN [b EXCEPT !.i = m + 1] ELSE [b EXCEPT !.j = m]
        round[k \in 0..Len(s)] ==
            IF k = 0 THEN [i |-> 0, j |-> Len(s)]
            ELSE IF round[k - 1].i < round[k - 1].j THEN Half(round[k - 1])
            ELSE round[k - 1]
    IN  round[Len(s)].i

\* The entries of s[from..to] that contain x.
Selected(s, from, to, x) ==
    LET selected[i \in from - 1..to] ==
            IF i < from THEN <<>>
            ELSE IF Contains(s[i].iv, x) THEN Append(selected[i - 1], s[i])
            ELSE selected[i - 1]
    IN  IF to < from THEN <<>> ELSE selected[to]

\* The last position of 1..n before the scans of collect stop, and the first one.
Until(n, stops) == IF stops = {} THEN n ELSE (CHOOSE i \in stops : \A j \in stops : i <= j) - 1
From(stops) == IF stops = {} THEN 1 ELSE (CHOOSE i \in stops : \A j \in stops : i >= j) + 1

\* numIndex.collect: the entries that contain x.
CollectNumbers(index, x) ==
    LET lower == index.lower.sorted
        upper == index.upper.sorted
        ranges == index.ranges.sorted
        points == index.points.sorted
        above == SearchLo(ranges, x, TRUE)
        at == SearchLo(points, x, FALSE)
        recent == index.lower.recent \o index.upper.recent \o index.ranges.recent
                  \o index.points.recent
    IN  Selected(lower, 1, Until(Len(lower), {i \in 1..Len(lower) : Lo(lower[i]) > x}), x)
        \o Selected(upper, From({i \in 1..Len(upper) : Hi(upper[i]) < x}), Len(upper), x)
        \o Selected(ranges, From({i \in 1..above : index.ranges.maxHi[i] < x}), above, x)
        \o SubSeq(points, at + 1,
                  Until(Len(points), {i \in at + 1..Len(points) : Lo(points[i]) # x}))
        \o Selected(recent, 1, Len(recent), x)
=============================================================================
