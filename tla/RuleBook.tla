------------------------------ MODULE RuleBook ------------------------------
(***************************************************************************)
(* What AddRule, ReplaceRule and RemoveRule promise, without tables,       *)
(* numbers or versions: a rule book that maps every identifier to the      *)
(* condition sets an event may match, and who was added after whom.        *)
(* Each step is one instant at which a Match call may look at the book.    *)
(***************************************************************************)
EXTENDS Integers, Sequences, FiniteSets

CONSTANTS Ids, Targets, Bodies, RuleSets, Preload

VARIABLES
    book,    \* [Ids -> SUBSET Bodies]: an event matches an id if it matches a body
    present, \* the identifiers that have been added and not removed
    order,   \* the pairs <<a, b>> of them where b was added after a
    full,    \* no rule number is left
    call     \* the one call in progress, or NoCall

vars == <<book, present, order, full, call>>

Elems(s) == {s[i] : i \in 1..Len(s)}
NoCall == [op |-> "none", id |-> "none", bodies |-> {}, fresh |-> FALSE]

Init ==
    /\ book = [id \in Ids |-> {r.body : r \in {x \in Elems(Preload) : x.id = id}}]
    /\ present = {x.id : x \in Elems(Preload)}
    /\ order = {<<Preload[p[1]].id, Preload[p[2]].id>> :
                   p \in {q \in (1..Len(Preload)) \X (1..Len(Preload)) : q[1] < q[2]}}
    /\ full \in BOOLEAN
    /\ call = NoCall

Begin ==
    /\ call = NoCall
    /\ \E id \in Targets :
        \/ \E op \in {"add", "replace"}, sets \in RuleSets :
              call' = [op |-> op, id |-> id, bodies |-> Elems(sets),
                       fresh |-> op = "replace" /\ id \notin present]
        \/ /\ id \in present
           /\ call' = [op |-> "remove", id |-> id, bodies |-> {}, fresh |-> FALSE]
    /\ UNCHANGED <<book, present, order, full>>

\* A new identifier comes after all others; it has no body yet.
Register ==
    /\ call.op \in {"add", "replace"}
    /\ call.id \notin present
    /\ present' = present \cup {call.id}
    /\ order' = order \cup {<<x, call.id>> : x \in present}
    /\ full' \in BOOLEAN
    /\ UNCHANGED <<book, call>>

\* AddRule, and ReplaceRule of a new identifier, add their sets one by one: a
\* Match call may find the rule before all of them are in place.
AddBody ==
    /\ call.op = "add" \/ call.fresh
    /\ call.id \in present
    /\ \E b \in call.bodies : book' = [book EXCEPT ![call.id] = @ \cup {b}]
    /\ UNCHANGED <<present, order, full, call>>

\* ReplaceRule of a present identifier is one instant.
Replace ==
    /\ call.op = "replace" /\ ~call.fresh
    /\ book' = [book EXCEPT ![call.id] = call.bodies]
    /\ UNCHANGED <<present, order, full, call>>

Remove ==
    /\ call.op = "remove"
    /\ book' = [book EXCEPT ![call.id] = {}]
    /\ present' = present \ {call.id}
    /\ order' = {p \in order : call.id \notin {p[1], p[2]}}
    /\ UNCHANGED <<full, call>>

\* A call returns when it has had its whole effect, or none for lack of numbers.
End ==
    /\ call # NoCall
    /\ \/ call.op = "add" /\ call.bodies \subseteq book[call.id]
       \/ call.op = "replace" /\ book[call.id] = call.bodies
       \/ call.op = "remove" /\ call.id \notin present
       \/ call.op # "remove" /\ full /\ call.id \notin present
    /\ call' = NoCall
    /\ full' \in BOOLEAN
    /\ UNCHANGED <<book, present, order>>

\* Numbers run out and become free again without any other effect.
Renumber == full' # full /\ UNCHANGED <<book, present, order, call>>

Next ==
    \/ Begin \/ Register \/ AddBody \/ Replace \/ Remove \/ End \/ Renumber

Spec == Init /\ [][Next]_vars
=============================================================================
