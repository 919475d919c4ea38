---------------------------- MODULE MCHyperMatch ----------------------------
(***************************************************************************)
(* Small instances of HyperMatch.  One reader is enough: readers share     *)
(* nothing but the table, which they do not write.                         *)
(***************************************************************************)
EXTENDS HyperMatchCalls

CONSTANTS A, B, C

x == "x"
y == "y"
none == "none" \* {"exists": false} on a path: holds in an event without it

\* A body, one that extends it, and one that ends in an absent path.
MCBodies == {<<x>>, <<x, y>>, <<none>>}
MCAbsent == {none}

\* What one call passes: a single set, or two sets as $or gives them.
SingleSets == {<< <<x>> >>, << <<x, y>> >>}
OrSets == {<< <<x, y>> >>, << <<x>>, <<none>> >>}

MCEvents == {{x, y}, {none}}
OneEvent == {{x, y}}

TwoRules == << [id |-> A, body |-> <<x>>], [id |-> C, body |-> <<x>>] >>

\* Eight rules, so that compact waits for the third dead number.
Fillers == {"f1", "f2", "f3", "f4", "f5", "f6", "f7"}
Filler(f) == [id |-> f, body |-> <<none>>]
EightRules ==
    << [id |-> A, body |-> <<x>>], Filler("f1"), Filler("f2"), Filler("f3"),
       Filler("f4"), Filler("f5"), Filler("f6"), Filler("f7") >>
FillerIds == {A, B, C} \cup Fillers
SmallIds == {A, B, C}
=============================================================================
