------------------------------ MODULE Patterns ------------------------------
(***************************************************************************)
(* Single-value patterns.  normalize.go turns a pattern into a leaf, the   *)
(* cheapest kind of lookup that is equivalent to it; explain.go says what  *)
(* the pattern means, value by value.  The two share no code but the       *)
(* parsing of numbers and addresses, which is why they are compared.       *)
(*                                                                         *)
(* Strings are sequences of bytes.  A value is [text, num, addr]: what     *)
(* parseNumber and parseIP make of the text comes with it.                 *)
(***************************************************************************)
EXTENDS Integers, Sequences, FiniteSets

CONSTANTS
    Inf,     \* larger than every number in a pattern: math.Inf(1)
    NoNum,   \* of a value that is not a number
    NoAddr,  \* of a value that is not an IP address
    Mapped   \* the bits that an IPv6 address starts with if it stands for IPv4

Star == 42
Backslash == 92

\* fold and appendFold, for ASCII.
Fold(s) == [i \in 1..Len(s) |-> IF s[i] \in 65..90 THEN s[i] + 32 ELSE s[i]]

HasPrefix(s, p) == Len(p) <= Len(s) /\ SubSeq(s, 1, Len(p)) = p
HasSuffix(s, p) == Len(p) <= Len(s) /\ SubSeq(s, Len(s) - Len(p) + 1, Len(s)) = p

-----------------------------------------------------------------------------
(* Wildcard patterns: '*' is any sequence of bytes, '\' escapes a byte.     *)

\* The positions that a '\' before them escapes.
Escaped(v) ==
    LET esc[i \in 1..Len(v)] == i > 1 /\ v[i - 1] = Backslash /\ ~esc[i - 1]
    IN  {i \in 1..Len(v) : esc[i]}

Wilds(v) == {i \in 1..Len(v) \ Escaped(v) : v[i] = Star}

\* splitWildcard returns an error for other escapes and for "**".
ValidWildcard(v) ==
    /\ \A i \in 1..Len(v) \ Escaped(v) :
        v[i] = Backslash => i < Len(v) /\ v[i + 1] \in {Star, Backslash}
    /\ \A i, j \in Wilds(v) : j # i + 1

\* v[from..to] with its escapes resolved.
Literal(v, from, to) ==
    LET esc == Escaped(v)
        lit[i \in from - 1..to] ==
            IF i < from THEN <<>>
            ELSE IF v[i] = Backslash /\ i \notin esc THEN lit[i - 1]
            ELSE Append(lit[i - 1], v[i])
    IN  IF to < from THEN <<>> ELSE lit[to]

\* splitWildcard: the literal parts between the wildcards.
Parts(v) ==
    LET w == Wilds(v)
        nth[n \in 0..Cardinality(w) + 1] ==
            IF n = 0 THEN 0
            ELSE IF n > Cardinality(w) THEN Len(v) + 1
            ELSE CHOOSE i \in w : Cardinality({j \in w : j <= i}) = n
    IN  [n \in 1..Cardinality(w) + 1 |-> Literal(v, nth[n - 1] + 1, nth[n] - 1)]

Leaf(kind, arg) == [kind |-> kind, arg |-> arg]

\* plainWildcardLeaf, for patterns without escapes.
PlainWildcardLeaf(v) ==
    LET lead == v[1] = Star
        trail == v[Len(v)] = Star
        core == SubSeq(v, IF lead THEN 2 ELSE 1, IF trail THEN Len(v) - 1 ELSE Len(v))
    IN  CASE v = <<Star>> -> Leaf("exists", <<>>)
          [] v # <<Star>> /\ (Wilds(core) # {} \/ (lead /\ trail)) -> Leaf("glob", v)
          [] Wilds(core) = {} /\ ~lead /\ ~trail -> Leaf("equals", core)
          [] Wilds(core) = {} /\ ~lead /\ trail -> Leaf("prefix", core)
          [] Wilds(core) = {} /\ lead /\ ~trail -> Leaf("suffix", core)

\* wildcardLeaf, for patterns with escapes.
WildcardLeaf(v) ==
    LET p == Parts(v)
    IN  CASE Len(p) = 1 -> Leaf("equals", p[1])
          [] Len(p) = 2 /\ p[1] = <<>> -> Leaf("suffix", p[2])
          [] Len(p) = 2 /\ p[1] # <<>> /\ p[2] = <<>> -> Leaf("prefix", p[1])
          [] OTHER -> Leaf("glob", v)

\* globMatch of explain.go: parts in between are matched as early as possible.
GlobMatch(v, s) ==
    LET p == Parts(v)
        n == Len(p)
        mid == SubSeq(s, Len(p[1]) + 1, Len(s) - Len(p[n]))
        Ends(part, from) ==
            {i \in from + Len(part)..Len(mid) : SubSeq(mid, i - Len(part) + 1, i) = part}
        \* Where the part's earliest occurrence ends, or -1.
        end[k \in 1..n - 1] ==
            IF k = 1 THEN 0
            ELSE LET at == IF end[k - 1] < 0 THEN {} ELSE Ends(p[k], end[k - 1])
                 IN  IF at = {} THEN -1 ELSE CHOOSE i \in at : \A j \in at : i <= j
    IN  IF n = 1 THEN s = p[1]
        ELSE /\ Len(s) >= Len(p[1]) + Len(p[n])
             /\ HasPrefix(s, p[1]) /\ HasSuffix(s, p[n])
             /\ end[n - 1] >= 0

-----------------------------------------------------------------------------
(* Numbers.  The unbounded side of an interval is an infinite bound that is *)
(* included: numbers too large for float64 parse as infinite.               *)

Interval(lo, hi, loOpen, hiOpen) == [lo |-> lo, hi |-> hi, loOpen |-> loOpen, hiOpen |-> hiOpen]

Contains(iv, x) ==
    /\ iv.lo < x \/ (iv.lo = x /\ ~iv.loOpen)
    /\ x < iv.hi \/ (x = iv.hi /\ ~iv.hiOpen)

Greater == {"gt", "gte"}
Comparisons == Greater \cup {"lt", "lte"}

BoundInterval(t, v) ==
    CASE t = "lt" -> Interval(-Inf, v, FALSE, TRUE)
      [] t = "lte" -> Interval(-Inf, v, FALSE, FALSE)
      [] t = "gt" -> Interval(v, Inf, TRUE, FALSE)
      [] t = "gte" -> Interval(v, Inf, FALSE, FALSE)
      [] t = "eq" -> Interval(v, v, FALSE, FALSE)

\* numericBound: bounds are finite.
Finite(n) == -Inf < n /\ n < Inf

\* betweenInterval: exactly one lower and one upper bound, in any order, with
\* a number between them.  sub holds the bounds as <<type, number>>.
BetweenInterval(sub) ==
    LET lower == CHOOSE i \in 1..2 : sub[i][1] \in Greater
        l == BoundInterval(sub[lower][1], sub[lower][2])
        u == BoundInterval(sub[3 - lower][1], sub[3 - lower][2])
    IN  Interval(l.lo, u.hi, l.loOpen, u.hiOpen)

ValidBetween(sub) ==
    /\ Len(sub) = 2
    /\ \A i \in 1..2 : Finite(sub[i][2])
    /\ \E i \in 1..2 : sub[i][1] \in Greater /\ sub[3 - i][1] \in Comparisons \ Greater
    /\ LET iv == BetweenInterval(sub)
       IN  iv.lo < iv.hi \/ (iv.lo = iv.hi /\ ~iv.loOpen /\ ~iv.hiOpen)

-----------------------------------------------------------------------------
(* IP addresses [v4, bits] and prefixes of them.                            *)

\* An IPv4 address written as an IPv6 address counts as IPv4.
Unmap(a) ==
    IF ~a.v4 /\ HasPrefix(a.bits, Mapped)
    THEN [v4 |-> TRUE, bits |-> SubSeq(a.bits, Len(Mapped) + 1, Len(a.bits))]
    ELSE a

Masked(a, n) == [a EXCEPT !.bits = [i \in 1..Len(@) |-> IF i <= n THEN @[i] ELSE 0]]

\* parsePrefix of an address with a length.
ParsePrefix(a, n) ==
    IF Unmap(a) # a /\ n >= Len(Mapped)
    THEN [addr |-> Masked(Unmap(a), n - Len(Mapped)), n |-> n - Len(Mapped)]
    ELSE [addr |-> Masked(a, n), n |-> n]

\* parseIP.
ParseIP(v) == IF v.addr = NoAddr THEN NoAddr ELSE Unmap(v.addr)

-----------------------------------------------------------------------------
(* A pattern is [type, value]: text, a number, bounds, or [addr, n].        *)

\* normalizePattern: the leaf of a valid single-value pattern.
NewLeaf(p) ==
    CASE p.type \in {"equals", "prefix", "suffix"} -> Leaf(p.type, Fold(p.value))
      [] p.type = "wildcard" ->
            LET v == Fold(p.value)
            IN  IF \A i \in 1..Len(v) : v[i] # Backslash THEN PlainWildcardLeaf(v)
                ELSE WildcardLeaf(v)
      [] p.type \in Comparisons \cup {"eq"} -> Leaf("number", BoundInterval(p.type, p.value))
      [] p.type = "between" -> Leaf("number", BetweenInterval(p.value))
      [] p.type = "cidr" -> Leaf("cidr", ParsePrefix(p.value.addr, p.value.n))
      [] p.type = "exists" -> Leaf("exists", <<>>)

ValidPattern(p) ==
    CASE p.type = "wildcard" -> p.value # <<>> /\ ValidWildcard(p.value)
      [] p.type \in {"equals", "prefix", "suffix"} -> p.value # <<>>
      [] p.type \in Comparisons \cup {"eq"} -> Finite(p.value)
      [] p.type = "between" -> ValidBetween(p.value)
      [] OTHER -> TRUE

\* valueMatches of explain.go: whether the folded value v matches p.
ValueMatches(p, v) ==
    CASE p.type = "equals" -> v.text = Fold(p.value)
      [] p.type = "prefix" -> HasPrefix(v.text, Fold(p.value))
      [] p.type = "suffix" -> HasSuffix(v.text, Fold(p.value))
      [] p.type = "wildcard" -> GlobMatch(Fold(p.value), v.text)
      [] p.type \in Comparisons \cup {"eq"} ->
            v.num # NoNum /\ Contains(BoundInterval(p.type, p.value), v.num)
      [] p.type = "between" -> v.num # NoNum /\ Contains(BetweenInterval(p.value), v.num)
      [] p.type = "cidr" ->
            LET q == ParsePrefix(p.value.addr, p.value.n)
                a == ParseIP(v)
            IN  a # NoAddr /\ a.v4 = q.addr.v4 /\ Masked(a, q.n) = q.addr
      [] p.type = "exists" -> TRUE
=============================================================================
