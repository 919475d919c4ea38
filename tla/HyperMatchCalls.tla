--------------------------- MODULE HyperMatchCalls ---------------------------
(***************************************************************************)
(* HyperMatch with history variables: what the rule book holds before and  *)
(* after the writer's call in progress, in which order the identifiers     *)
(* were added, and which identifiers a reader's call may or must report.   *)
(* The properties of Match calls are stated over them.                     *)
(***************************************************************************)
EXTENDS HyperMatch

CONSTANT MaxOverlap \* bound: writer calls that start during one Match call

ASSUME MaxOverlapAssumption == MaxOverlap \in Nat

VARIABLES
    before, \* [Ids -> SUBSET Bodies], once the last call returned
    after,  \* the same when the call in progress returns; equal to before without one
    added,  \* the pairs <<a, b>> of identifiers where b was added after a
    seen    \* per reader: the identifiers its call may report, must report,
            \* those whose removal was in progress since the call started, and
            \* the number of writer calls that started since

hvars == <<vars, before, after, added, seen>>

Elems(s) == {s[i] : i \in 1..Len(s)}
NothingSeen == [may |-> {}, must |-> {}, gone |-> {}, calls |-> 0]

\* An event matches a rule if it makes all conditions of one of its sets true.
Holds(b, e) == \A k \in 1..Len(b) : b[k] \in e
Matching(bk, e) == {id \in Ids : \E b \in bk[id] : Holds(b, e)}

CallStarts == w.pc = "idle" /\ w'.pc # "idle"
CallEnds == w.pc # "idle" /\ w'.pc = "idle"

\* What the call that starts makes of its identifier.
Outcome ==
    IF w'.op = "remove" THEN {}
    ELSE IF w'.pc = "number" /\ Number = MaxRules THEN before[w'.id] \* is rejected
    ELSE Elems(w'.sets) \cup (IF w'.op = "add" THEN before[w'.id] ELSE {})

\* Whoever is added comes after all others, where it was before or not.
AddedLast(id) == {p \in added : id \notin {p[1], p[2]}} \cup {<<x, id>> : x \in Ids \ {id}}
Earlier(a, b) == <<a, b>> \in added

Gone == IF w'.op = "remove" THEN {w'.id} ELSE {}

\* Starting a call, a reader may see the rules before and after the writer's
\* call in progress; during it, those after every call that starts.
NextSeen(r) ==
    LET e == rd'[r].ev
    IN  CASE rd'[r].pc = "idle" -> NothingSeen
          [] rd[r].pc = "idle" /\ rd'[r].pc # "idle" ->
               [may  |-> Matching(before, e) \cup Matching(after, e),
                must |-> Matching(before, e) \cap Matching(after, e),
                gone |-> IF w.op = "remove" THEN {w.id} ELSE {},
                calls |-> 0]
          [] CallStarts /\ rd[r].pc = "done" ->
               [seen[r] EXCEPT !.gone = @ \cup Gone, !.calls = @ + 1]
          [] CallStarts /\ Reading(r) ->
               [may  |-> seen[r].may \cup Matching(after', e),
                must |-> seen[r].must \cap Matching(after', e),
                gone |-> seen[r].gone \cup Gone,
                calls |-> seen[r].calls + 1]
          [] OTHER -> seen[r]

CallInit ==
    /\ Init
    /\ before = [id \in Ids |-> {x.body : x \in {y \in Elems(Preload) : y.id = id}}]
    /\ after = before
    /\ added = {<<Preload[p[1]].id, Preload[p[2]].id>> :
                   p \in {q \in (1..Len(Preload)) \X (1..Len(Preload)) : q[1] < q[2]}}
    /\ seen = [r \in Readers |-> NothingSeen]

CallNext ==
    /\ Next
    /\ CallStarts =>
          \A r \in Readers : rd[r].pc # "idle" => seen[r].calls < MaxOverlap
    /\ after' = IF CallStarts THEN [after EXCEPT ![w'.id] = Outcome] ELSE after
    /\ before' = IF CallEnds THEN after ELSE before
    /\ added' = IF CallStarts /\ w'.pc = "number" /\ Number < MaxRules
                THEN AddedLast(w'.id) ELSE added
    /\ seen' = [r \in Readers |-> NextSeen(r)]

CallSpec == CallInit /\ [][CallNext]_hvars

-----------------------------------------------------------------------------
(* Properties of what Match and MatchFirst return.                         *)

Result(r) == rd[r].result
Done(r) == rd[r].pc = "done"

\* Every identifier a Match call returns has a rule that the event matches at
\* some instant of the call, and every identifier whose rule it matches
\* throughout the call is returned, whatever AddRule, ReplaceRule, RemoveRule
\* and compact do meanwhile (AppendMatches, begin, visible).
MatchIsRegular ==
    \A r \in Readers : Done(r) /\ ~rd[r].first =>
        /\ seen[r].must \subseteq Elems(Result(r))
        /\ Elems(Result(r)) \subseteq seen[r].may

\* MatchFirst returns an identifier that may match, and none that was added
\* later than one that matches throughout the call: pruning by minKey skips
\* no better rule (improve, lowerMinKey, insert).
MatchFirstIsFirst ==
    \A r \in Readers : Done(r) /\ rd[r].first =>
        /\ Elems(Result(r)) \subseteq seen[r].may
        /\ seen[r].must # {} => Result(r) # <<>>
        /\ \A f \in Elems(Result(r)) \ seen[r].gone, id \in seen[r].must :
              f = id \/ Earlier(f, id)

\* An identifier that is not being removed during the call is returned once,
\* even while ReplaceRule gives it a new number (version, until).
ReportedOnceIfKept ==
    \A r \in Readers : Done(r) =>
        \A i, j \in 1..Len(Result(r)) :
            Result(r)[i] = Result(r)[j] /\ Result(r)[i] \notin seen[r].gone => i = j

\* Match returns the identifiers in the order in which they were added;
\* replacing a rule or compacting the table does not move it (metaOrder, key).
ResultsInOrder ==
    \A r \in Readers : Done(r) =>
        \A i, j \in 1..Len(Result(r)) :
            i < j /\ Result(r)[i] # Result(r)[j]
                  /\ {Result(r)[i], Result(r)[j]} \cap seen[r].gone = {}
               => Earlier(Result(r)[i], Result(r)[j])

\* The doc of AddRule: an identifier "is reported only once".
ReportedOnce ==
    \A r \in Readers : Done(r) =>
        \A i, j \in 1..Len(Result(r)) : Result(r)[i] = Result(r)[j] => i = j

-----------------------------------------------------------------------------
(* Properties of the writer's bookkeeping.                                 *)

\* Between two calls the numbers Match calls would see are exactly the numbers
\* of the present identifiers, RuleCount counts them, and h.removed counts all
\* others, so compact runs when it should and drops nothing else.
NumbersAreExact ==
    w.pc = "idle" =>
        /\ Live = {nums[id] : id \in {x \in Ids : Known(x)}}
        /\ \A id \in Ids : Known(id) => table.ids[nums[id] + 1] = id
        /\ count = Cardinality({id \in Ids : Known(id)})
        /\ dead = Number - count
        /\ dead * CompactFactor < Number \/ Number = 0

\* The order key of a number that a reader may see never changes, in no array
\* it may hold: Match may load keys one by one while it sorts.
KeysAreStable ==
    [][ \A n \in 0..Number - 1, a \in 0..Len(table.meta) :
            w.pc # "compact" => OrderIn(table, a, n)' = OrderIn(table, a, n) ]_vars

\* A Match call can always go on, wherever in a call or in compact the writer
\* stalls: readers take no lock and find what they loaded indexes for.
ReadersNeverWait == \A r \in Readers : Reading(r) => ENABLED Reader(r)

-----------------------------------------------------------------------------
(* The rule book that a Match call starting now would see.                 *)

Shown == {n \in Live : MetaAt(table, Len(table.meta), n).from <= table.version}
ShownKeys == [n \in Shown |-> Order(table, n)]
ShownIds == {table.ids[n + 1] : n \in Shown}
ShownOrder ==
    {<<table.ids[p[1] + 1], table.ids[p[2] + 1]>> :
        p \in {q \in Shown \X Shown : Before(ShownKeys, q[1], q[2])}}

\* A body counts where the trie leads to it.
ShownBook ==
    [id \in Ids |->
        {b \in Bodies : \E n \in Shown :
            /\ table.ids[n + 1] = id
            /\ n \in table.rules[b]
            /\ \A k \in 1..Len(b) : SubSeq(b, 1, k) \in table.edges}]

ShownCall ==
    IF w.pc = "idle"
    THEN [op |-> "none", id |-> "none", bodies |-> {}, fresh |-> FALSE]
    ELSE [op |-> w.op, id |-> w.id, bodies |-> Elems(w.sets),
          fresh |-> w.op = "replace" /\ w.old = NoNumber]

Book == INSTANCE RuleBook WITH
    book <- ShownBook, present <- ShownIds, order <- ShownOrder,
    full <- Number = MaxRules, call <- ShownCall

\* The tables implement the rule book: ReplaceRule takes effect in one instant,
\* compact has no effect at all, and no call returns before its effect.
ImplementsRuleBook == Book!Spec
=============================================================================
