---------------------------- MODULE MCValueIndex ----------------------------
(***************************************************************************)
(* Sets of patterns, each for what its kinds of lookup have to get right,  *)
(* and the values to look up.  Bytes: A = 65, a = 97, b = 98, '*' = 42,    *)
(* '\' = 92, and 200, which lies in the last word of a byteMap.            *)
(***************************************************************************)
EXTENDS ValueIndex

Pattern(type, value) == [type |-> type, value |-> value]
A == 65
a == 97
b == 98
hi == 200

\* Texts share prefixes and suffixes of several lengths; one pattern's case
\* differs, and two wildcards are a prefix and a suffix.
Texts ==
    { Pattern("equals", <<A, b>>), Pattern("prefix", <<a>>), Pattern("wildcard", <<a, b, Star>>),
      Pattern("suffix", <<b>>), Pattern("wildcard", <<Star, b, a, b>>), Pattern("exists", <<>>) }

EqualsOnly ==
    { Pattern("equals", <<a>>), Pattern("wildcard", <<a, Backslash, Star>>),
      Pattern("prefix", <<b>>) }

\* Patterns that share spinners and kids, with and without a trailing '*'.
Globs ==
    { Pattern("wildcard", <<a, Star, b>>), Pattern("wildcard", <<a, Star, a, b>>),
      Pattern("wildcard", <<Star, a, Star>>) }
Overlaps ==
    { Pattern("wildcard", <<Star, a, Star, a, Star>>), Pattern("wildcard", <<a, Star, a>>),
      Pattern("wildcard", <<Star, a, b, Star, b>>) }

\* Kids in three words of the byteMap, and escaped bytes.
Escapes ==
    { Pattern("wildcard", <<Star, hi, Star>>), Pattern("wildcard", <<Star, Backslash, Star, Star>>),
      Pattern("wildcard", <<Star, b, Star>>), Pattern("wildcard", <<Backslash, Backslash, Star>>) }

TextValues ==
    {<<>>, <<a>>, <<b>>, <<a, b>>, <<a, b, a, b>>, <<a, a, b, b>>, <<b, a, a>>,
     <<a, Star>>, <<hi, b>>, <<Backslash, Star, b>>}

Between(t, l, u, v) == Pattern("between", << <<t, l>>, <<u, v>> >>)
\* Long and short ranges, of which two are recent at a time.
Ranges ==
    { Between("gte", 1, "lte", 6), Between("gt", 2, "lt", 3), Between("gte", 2, "lt", 4),
      Between("gt", 3, "lte", 5), Between("gte", 4, "lte", 5) }
\* Every list of the index, with equal bounds.
Bounds ==
    { Pattern("eq", 3), Pattern("gt", 3), Pattern("gte", 3), Pattern("lt", 3), Pattern("lte", 4),
      Between("gte", 3, "lte", 3), Pattern("eq", 4) }

\* Addresses of two bits for IPv4 and three for IPv6, where 1 begins a mapped one.
Addr4(s) == [v4 |-> TRUE, bits |-> s]
Addr6(s) == [v4 |-> FALSE, bits |-> s]
Prefix(addr, n) == Pattern("cidr", [addr |-> addr, n |-> n])
Prefixes ==
    { Prefix(Addr4(<<0, 1>>), 2), Prefix(Addr4(<<0, 1>>), 1), Prefix(Addr6(<<1, 1, 0>>), 2),
      Prefix(Addr6(<<0, 0, 0>>), 0), Prefix(Addr6(<<0, 1, 0>>), 2) }

MCPatternSets == {Texts, EqualsOnly, Globs, Overlaps, Escapes, Ranges, Bounds, Prefixes}

Value(text, n, addr) == [text |-> text, num |-> n, addr |-> addr]
MCValuesOf ==
    [ps \in MCPatternSets |->
        IF ps \in {Ranges, Bounds} THEN {Value(<<b>>, n, NoAddr) : n \in {-Inf, NoNum} \cup 1..Inf}
        ELSE IF ps = Prefixes
        THEN {Value(<<b>>, NoNum, Addr4(s)) : s \in {<<0, 0>>, <<0, 1>>, <<1, 1>>}}
             \cup {Value(<<b>>, NoNum, Addr6(s)) : s \in {<<0, 1, 1>>, <<1, 0, 1>>, <<0, 0, 1>>}}
             \cup {Value(<<b>>, NoNum, NoAddr)}
        ELSE {Value(t, NoNum, NoAddr) : t \in TextValues}]
MCMapped == <<1>>
=============================================================================
