------------------------------ MODULE MCPaths ------------------------------
EXTENDS Paths

Is(p, v) == [path |-> p, kind |-> "is", val |-> v]
IsNot(p, v) == [path |-> p, kind |-> "isNot", val |-> v]
Absent(p) == [path |-> p, kind |-> "absent", val |-> "-"]

None == "none"
AllPaths == {"a", "l", "l.a", "l.b", "l.*", "l.m", "l.m.a", "l.m.*"}
MCPrefixesOf ==
    [p \in AllPaths |-> CASE p \in {"a", "l", "m"} -> <<>>
                           [] p \in {"l.a", "l.b", "l.*", "l.m"} -> <<"l">>
                           [] OTHER -> <<"l", "l.m">>]
MCBaseOf == [p \in AllPaths |-> CASE p = "l.*" -> "l" [] p = "l.m.*" -> "l.m" [] OTHER -> None]

\* Conditions that a hidden value would make true, one below an object, and
\* two wildcard paths, one below the other.
MCRules == {"wild", "absent", "below"}
MCCondsOf ==
    [r \in MCRules |->
        CASE r = "wild" -> << Is("a", "y"), IsNot("l.*", "x") >>
          [] r = "absent" -> << Absent("l.a") >>
          [] r = "below" -> << IsNot("l.m.*", "x"), Is("l.b", "y") >>]
Replaced == [r \in MCRules |-> "replace"]

\* Single rules for the races of AddRule.
WildRule == {"wild"}
WildCondsOf == [r \in WildRule |-> << IsNot("l.*", "x") >>]
WildAdded == [r \in WildRule |-> "add"]
AbsentRule == {"absent"}
AbsentCondsOf == [r \in AbsentRule |-> << Absent("a") >>]
AbsentAdded == [r \in AbsentRule |-> "add"]

Val(p, v, bases) == [path |-> p, val |-> v, bases |-> bases, t |-> "value"]
Open(p) == [path |-> p, val |-> "-", bases |-> {}, t |-> "open"]
Close == [path |-> "-", val |-> "-", bases |-> {}, t |-> "close"]

\* {"a": ["x", "y"], "l": {"a": "x", "b": "y"}}, the same with "l.a" and
\* "l.m.a" as keys, an array of objects with an object in one, with "m.a" as a
\* key, and an event without an object.
MCJsonEvents ==
    { << Val("a", "x", {}), Val("a", "y", {}),
         Open("l"), Val("l.a", "x", {}), Val("l.b", "y", {}), Close >>,
      << Val("l.a", "x", {"l"}), Val("a", "y", {}), Val("l.m.a", "y", {"l", "l.m"}),
         Val("l.b", "y", {"l"}) >>,
      << Open("l"), Val("l.b", "x", {}), Close,
         Open("l"), Val("l.b", "y", {}),
         Open("l.m"), Val("l.m.a", "y", {}), Close, Val("l.m.a", "x", {"l.m"}), Close >>,
      << Val("a", "y", {}), Val("l", "x", {}) >> }

MCPropertyEvents ==
    { << Val("a", "x", {}), Val("l.a", "x", {"l"}), Val("l.b", "y", {"l"}) >>,
      << Val("a", "y", {}), Val("l.b", "y", {"l"}), Val("l.m.a", "y", {"l", "l.m"}),
         Val("l.m.a", "x", {"l", "l.m"}) >>,
      << Val("l.m.a", "y", {"l", "l.m"}), Val("l.b", "x", {"l"}), Val("l.b", "y", {"l"}),
         Val("a", "y", {}) >> }
NoEvents == {}
=============================================================================
