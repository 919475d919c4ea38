----------------------------- MODULE MCScratch -----------------------------
(***************************************************************************)
(* Rules and events for Scratch: paths below each other, keys with dots,   *)
(* wildcard paths below wildcard paths and an event that names one.        *)
(***************************************************************************)
EXTENDS Scratch, TLC

a == <<"a">>
c == <<"c">>
ab == <<"a", Dot, "b">>
abc == <<"a", Dot, "b", Dot, "c">>
aAny == <<"a", Dot, "*">>
abAny == <<"a", Dot, "b", Dot, "*">>

MCRulePaths == {{ab, c}, {aAny, ab}, {aAny, abAny, c}}

MCHashOf == (a :> 0) @@ (c :> 3) @@ (ab :> 3) @@ (abc :> 2) @@ (aAny :> 2) @@ (abAny :> 3)

Prop(path, values) == [path |-> path, values |-> values]
MCEvents ==
    { << Prop(ab, <<"x", "X">>), Prop(c, <<>>), Prop(ab, <<"y">>) >>,
      << Prop(ab, <<"x">>), Prop(a, <<"y">>), Prop(c, <<"x">>), Prop(abc, <<"X">>) >>,
      << Prop(abc, <<"y">>), Prop(aAny, <<"x">>), Prop(c, <<"Z">>), Prop(a, <<"y">>) >> }

K(s) == <<"key", s>>
V(v) == <<"value", v>>
MCDocuments ==
    { << <<"{">>, K(a), <<"{">>, K(<<"b">>), V("X"), K(<<"b", Dot, "c">>), <<"[">>, V("y"), <<"null">>,
         V("y"), <<"]">>, <<"}">>, K(c), <<"{">>, <<"}">>, K(ab), V("z"), <<"}">> >>,
      << <<"{">>, K(aAny), V("y"), K(ab), <<"[">>, <<"{">>, K(c), V("x"), <<"}">>, V("z"), <<"]">>,
         K(c), V("z"), <<"}">> >>,
      << <<"{">>, K(<<"a", Dot>>), <<"{">>, K(<<"b">>), V("x"), <<"}">>, K(<<"a", Dot, "b">>), <<"{">>,
         K(c), V("y"), <<"}">>, <<"}">> >>,
      << <<"{">>, K(a), <<"[">>, <<"{">>, K(<<"b">>), <<"{">>, K(c), <<"null">>, <<"}">>, <<"}">>, <<"]">>,
         <<"}">> >>,
      << <<"{">>, K(a), <<"[">>, <<"[">>, <<"[">>, <<"{">>, K(<<"b">>), V("x"), <<"}">>, <<"]">>, <<"]">>,
         <<"]">>, K(ab), V("Z"), <<"}">> >> }

MCFoldOf == [v \in Values |-> IF v = "X" THEN "x" ELSE IF v = "Z" THEN "z" ELSE v]
MCLeafId == ("x" :> 0) @@ ("y" :> 2)
=============================================================================
