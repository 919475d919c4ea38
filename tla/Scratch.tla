------------------------------ MODULE Scratch ------------------------------
(***************************************************************************)
(* The buffers of a Match call (engine.go, matchjson.go): how reset and    *)
(* resetJSON sort the values of an event into spans, one per path, how     *)
(* evalGroup reads them, and what a pooled scratch carries from one call,  *)
(* perhaps one that failed, to the next.  A scratch belongs to one call at *)
(* a time and the rules of a call stay the same here: calls that race with *)
(* the writer are the subject of Paths and HyperMatch.                     *)
(*                                                                         *)
(* Paths are sequences of characters.  A JSON event is a sequence of       *)
(* tokens; the parser fails at token number err, if there is one.  Texts   *)
(* in fbuf are the values themselves, hashes of values are injective.      *)
(***************************************************************************)
EXTENDS Integers, Sequences, FiniteSets

CONSTANTS
    Values,       \* values of properties
    FoldOf,       \* [Values -> Values]: values are compared folded
    LeafId,       \* [some Values -> Nat]: leaf ids of equals patterns
    HashOf,       \* [paths -> Nat]
    RulePaths,    \* what the rules of a call refer to: sets of paths
    Events,       \* for Match: sequences of [path, values]
    Documents,    \* for MatchJSON: sequences of tokens <<kind>> or <<kind, content>>
    MinSlots,     \* slots of the span table, 8 in the code
    MinJSONSlots, \* the same for MatchJSON, 16 in the code
    MaxDepth,     \* maxJSONDepth, 10000 in the code
    WordBits,     \* bits per word, 64 in the code
    MaxCalls,     \* bound: calls on one scratch
    MaxEvals      \* bound: groups evaluated per call

\* The tokens of a JSON event.
Tokens ==
    {<<k>> : k \in {"{", "}", "[", "]", "null"}}
    \cup ({"key"} \X Seq(STRING)) \cup ({"value"} \X Values)

ASSUME ScratchAssumption ==
    /\ {MinSlots, MinJSONSlots} \subseteq Nat \ {0, 1}
    /\ DOMAIN HashOf \subseteq Seq(STRING) /\ HashOf \in [DOMAIN HashOf -> Nat]
    /\ \A known \in RulePaths : known \subseteq DOMAIN HashOf
    /\ Events \subseteq Seq([path : DOMAIN HashOf, values : Seq(Values)])
    /\ Documents \subseteq Seq(Tokens)

VARIABLES
    pc,
    call, \* [kind, event, err, known], and the number of the call
    sc,   \* the scratch
    p,    \* the JSON parser: next token and stack of open objects and arrays
    got   \* what the last evaluated group saw, and how many were evaluated

vars == <<pc, call, sc, p, got>>

Dot == "."
WildBase(path) == SubSeq(path, 1, Len(path) - 2)
IsWild(path) == Len(path) > 2 /\ SubSeq(path, Len(path) - 1, Len(path)) = <<Dot, "*">>

\* addPath: what the trie knows of the paths of its rules.
Dots(path) == {i \in 1..Len(path) : path[i] = Dot}
Prefixes == UNION {{SubSeq(path, 1, i - 1) : i \in Dots(path)} : path \in call.known}
Wilds == {path \in call.known : IsWild(path)}
WildAt(base) == {path \in Wilds : WildBase(path) = base}

NoHash == "nohash"
NoVref == [text |-> "", hash |-> NoHash]
NewScratch ==
    [props |-> <<>>, spans |-> <<>>, slots |-> <<>>, frefs |-> <<>>, used |-> 0, jvals |-> <<>>,
     pbuf |-> <<>>, jwild |-> <<>>, bits |-> {}]

NoCall == [kind |-> "-", event |-> <<>>, err |-> 0, known |-> {}, no |-> 0]
NoParser == [pos |-> 1, stack |-> <<>>]
NothingGot == [path |-> <<>>, found |-> FALSE, values |-> <<>>, hits |-> {}, evals |-> 0]

Init ==
    /\ pc = "idle"
    /\ call = NoCall
    /\ sc = NewScratch
    /\ p = NoParser
    /\ got = NothingGot

-----------------------------------------------------------------------------
(* The span table: slots[j] is the index of a span, or 0.                   *)

\* initSlots: the slots are empty, whether the array is new or used before.
InitSlots(size) == [j \in 0..size - 1 |-> 0]
Size(s) == Cardinality(DOMAIN s.slots)

\* The first slot of path's probe sequence that is empty or holds its span.
SlotOf(s, path) ==
    LET at(d) == (HashOf[path] + d) % Size(s)
        ends(d) == s.slots[at(d)] = 0 \/ s.spans[s.slots[at(d)]].path = path
    IN  at(CHOOSE d \in 0..Size(s) - 1 : ends(d) /\ \A c \in 0..d - 1 : ~ends(c))

IndexOf(s, path) == s.slots[SlotOf(s, path)]

\* s with a span for path.
WithSpan(s, path, folded) ==
    LET j == SlotOf(s, path)
    IN  IF s.slots[j] # 0 THEN s
        ELSE [s EXCEPT !.slots[j] = Len(s.spans) + 1,
                       !.spans = Append(@, [path |-> path, first |-> 0, last |-> 0, flo |-> 0, fhi |-> 0,
                                            folded |-> folded])]

\* rehash, which enters the spans again one by one.
Rehash(s, size) ==
    LET Enter[i \in 0..Len(s.spans)] ==
            IF i = 0 THEN [s EXCEPT !.spans = <<>>, !.slots = InitSlots(size)]
            ELSE LET t == WithSpan(Enter[i - 1], s.spans[i].path, FALSE)
                 IN  [t EXCEPT !.spans[i] = s.spans[i]]
    IN  Enter[Len(s.spans)]

\* Faulty variants like the next one show which mistake a property would catch;
\* nothing uses them.  Here the table grows when it is full.
RoomLate(s) == Len(s.spans) < Size(s)

HasRoom(s) == 2 * (Len(s.spans) + 1) <= Size(s)

\* jsonSpan.
JsonSpan(s, path) == WithSpan(IF HasRoom(s) THEN s ELSE Rehash(s, 2 * Size(s)), path, TRUE)

-----------------------------------------------------------------------------
(* reset, for events of properties.                                         *)

\* s with the values of a property at the end of span k's chain.
Chain(s, k, values) ==
    LET sp == s.spans[k]
        n == Len(s.props) + 1
        props == IF sp.first = 0 THEN s.props ELSE [s.props EXCEPT ![sp.last].next = n]
    IN  [s EXCEPT !.props = Append(props, [values |-> values, next |-> 0]),
                  !.spans[k].first = IF @ = 0 THEN n ELSE @,
                  !.spans[k].folded = IF sp.first = 0 THEN FALSE ELSE @,
                  !.spans[k].last = n]

\* Faulty: a property whose path is a wildcard path is added twice.
AddWildAgain(s, prop) ==
    LET add[i \in 0..Len(prop.path)] ==
            IF i = 0 THEN s
            ELSE LET w == IF prop.path[i] = Dot THEN WildAt(SubSeq(prop.path, 1, i - 1)) ELSE {}
                 IN  IF w = {} THEN add[i - 1]
                     ELSE LET path == CHOOSE x \in w : TRUE
                              t == JsonSpan(add[i - 1], path)
                          IN  Chain(t, IndexOf(t, path), prop.values)
    IN  add[Len(prop.path)]

\* addWild: the values belong to the wildcard paths above, too.
AddWild(s, prop) ==
    LET add[i \in 0..Len(prop.path)] ==
            IF i = 0 THEN s
            ELSE LET w == IF prop.path[i] = Dot THEN WildAt(SubSeq(prop.path, 1, i - 1)) ELSE {}
                 IN  IF w \subseteq {prop.path} THEN add[i - 1]
                     ELSE LET path == CHOOSE x \in w : TRUE
                              t == JsonSpan(add[i - 1], path)
                          IN  Chain(t, IndexOf(t, path), prop.values)
    IN  add[Len(prop.path)]

\* The table has room for every property, but not for wildcard paths.
SlotsFor(n) ==
    LET double[k \in 0..n] == IF k = 0 THEN MinSlots
                              ELSE IF double[k - 1] < 2 * n THEN 2 * double[k - 1] ELSE double[k - 1]
    IN  double[n]

\* A call takes the scratch from the pool, or a new one.
Match(event, known) ==
    /\ pc = "idle" /\ call.no < MaxCalls
    /\ call' = [kind |-> "Match", event |-> event, err |-> 0, known |-> known, no |-> call.no + 1]
    /\ \E old \in {sc, NewScratch} :
        sc' = [old EXCEPT !.props = <<>>, !.spans = <<>>, !.slots = InitSlots(SlotsFor(Len(event)))]
    /\ p' = NoParser
    /\ pc' = "reset"
    /\ UNCHANGED got

\* One property; those without values are skipped.
ResetProperty ==
    LET prop == call.event[p.pos]
        s == WithSpan(sc, prop.path, FALSE)
        t == Chain(s, IndexOf(s, prop.path), prop.values)
    IN  /\ pc = "reset" /\ p.pos <= Len(call.event)
        /\ sc' = IF prop.values = <<>> THEN sc
                 ELSE IF Wilds = {} THEN t ELSE AddWild(t, prop)
        /\ p' = [p EXCEPT !.pos = @ + 1]
        /\ UNCHANGED <<pc, call, got>>

ResetDone ==
    /\ pc = "reset" /\ p.pos > Len(call.event)
    /\ sc' = [sc EXCEPT !.used = 0]
    /\ pc' = "visit"
    /\ UNCHANGED <<call, p, got>>

-----------------------------------------------------------------------------
(* resetJSON.                                                               *)

\* The buffers are emptied whatever a failed call left in them.
ResetBuffers(s) ==
    [s EXCEPT !.props = <<>>, !.spans = <<>>, !.slots = InitSlots(MinJSONSlots), !.used = 0,
              !.jvals = <<>>, !.pbuf = <<>>, !.jwild = <<>>]

\* An object or array whose path is pbuf[:path]; child is the end of the path of
\* the value that comes next, outer and open are lengths of jwild.
Frame(kind, path, record, root, outer, open) ==
    [kind |-> kind, path |-> path, record |-> record, root |-> root, outer |-> outer, open |-> open,
     child |-> path, value |-> kind = "array"]

MatchJSON(doc, err, known) ==
    /\ pc = "idle" /\ call.no < MaxCalls
    /\ call' = [kind |-> "MatchJSON", event |-> doc, err |-> err, known |-> known, no |-> call.no + 1]
    /\ \E old \in {sc, NewScratch} : sc' = ResetBuffers(old)
    /\ p' = [pos |-> 2, stack |-> <<Frame("object", 0, TRUE, TRUE, 0, 0)>>]
    /\ pc' = IF err = 1 THEN "release" ELSE "parse"
    /\ UNCHANGED got

Top == p.stack[Len(p.stack)]
Token == call.event[p.pos]
Below == Wilds # {} /\ sc.jwild # <<>>
Path(n) == SubSeq(sc.pbuf, 1, n)

\* The next token is of one of these kinds, where a value or a key may come.
Parses(kinds, value) ==
    /\ pc = "parse" /\ p.pos <= Len(call.event) /\ p.pos # call.err
    /\ p.stack # <<>> /\ Top.value = value
    /\ Token[1] \in kinds

\* The innermost object or array after one of its values.
Popped(stack) ==
    IF stack = <<>> THEN stack
    ELSE [stack EXCEPT ![Len(stack)].value = stack[Len(stack)].kind = "array"]
Truncated(wilds, stack) ==
    IF Wilds = {} \/ stack = <<>> \/ stack[Len(stack)].kind = "array" THEN wilds
    ELSE SubSeq(wilds, 1, stack[Len(stack)].open)

Advance(s, stack) ==
    /\ sc' = s
    /\ p' = [pos |-> p.pos + 1, stack |-> stack]
    /\ UNCHANGED <<pc, call, got>>

\* openWild and openWilds.
OpenWild(wilds, base) ==
    LET w == WildAt(base)
    IN  IF w = {} THEN wilds ELSE Append(wilds, [path |-> CHOOSE x \in w : TRUE, span |-> 0])
OpenWilds(wilds, buf, from) ==
    LET open[i \in from - 1..Len(buf)] ==
            IF i < from THEN wilds
            ELSE IF buf[i] = Dot THEN OpenWild(open[i - 1], SubSeq(buf, 1, i - 1)) ELSE open[i - 1]
    IN  open[Len(buf)]

Key ==
    LET buf == Path(Top.path) \o (IF Top.root THEN <<>> ELSE <<Dot>>)
        full == buf \o Token[2]
        frame == [Top EXCEPT !.value = TRUE, !.child = IF Top.record THEN Len(full) ELSE Top.path]
    IN  /\ Parses({"key"}, FALSE)
        /\ Advance(IF Top.record
                   THEN [sc EXCEPT !.pbuf = full, !.jwild = OpenWilds(@, full, Len(buf) + 1)]
                   ELSE sc,
                   [p.stack EXCEPT ![Len(p.stack)] = frame])

\* value, for an object.  An empty one is skipped at once; all values of another
\* one are below its path.
TooDeep == Len(p.stack) >= MaxDepth

OpenObject ==
    LET record == Top.record /\ (Below \/ Path(Top.child) \in Prefixes)
        wilds == IF record THEN OpenWild(sc.jwild, Path(Top.child)) ELSE sc.jwild
        empty == p.pos < Len(call.event) /\ call.event[p.pos + 1] = <<"}">> /\ call.err # p.pos + 1
        frame == Frame("object", Top.child, record, FALSE, Len(sc.jwild), Len(wilds))
    IN  /\ Parses({"{"}, TRUE) /\ ~TooDeep
        /\ IF empty
           THEN /\ sc' = [sc EXCEPT !.jwild = Truncated(@, p.stack)]
                /\ p' = [pos |-> p.pos + 2, stack |-> Popped(p.stack)]
                /\ UNCHANGED <<pc, call, got>>
           ELSE Advance([sc EXCEPT !.jwild = wilds], Append(p.stack, frame))

CloseObject ==
    LET outer == SubSeq(p.stack, 1, Len(p.stack) - 1)
        wilds == IF Wilds = {} THEN sc.jwild ELSE SubSeq(sc.jwild, 1, Top.outer)
    IN  /\ Parses({"}"}, FALSE)
        /\ Advance([sc EXCEPT !.jwild = Truncated(wilds, outer)], Popped(outer))

OpenArray ==
    /\ Parses({"["}, TRUE) /\ ~TooDeep
    /\ Advance(sc, Append(p.stack, Frame("array", Top.child, Top.record, FALSE, 0, 0)))

CloseArray ==
    LET outer == SubSeq(p.stack, 1, Len(p.stack) - 1)
    IN  /\ Parses({"]"}, TRUE) /\ Top.kind = "array"
        /\ Advance([sc EXCEPT !.jwild = Truncated(@, outer)], Popped(outer))

\* record: the value counts for its path, if a rule refers to it, and for the
\* open wildcard paths, once for each.
Recorded(s, path, text) ==
    LET known == path \in call.known
        t == IF known THEN JsonSpan(s, path) ELSE s
        span == IF known THEN IndexOf(t, path) ELSE 0
        own == IF known THEN [t EXCEPT !.jvals = Append(@, [span |-> span, text |-> text])] ELSE t
        rec[k \in 0..Len(s.jwild)] ==
            IF k = 0 THEN own
            ELSE LET old == rec[k - 1]
                     o == old.jwild[k]
                     u == IF o.span # 0 THEN old ELSE JsonSpan(old, o.path)
                     at == IF o.span # 0 THEN o.span ELSE IndexOf(u, o.path)
                 IN  [u EXCEPT !.jwild[k].span = at,
                               !.jvals = IF at = span THEN @
                                         ELSE Append(@, [span |-> at, text |-> text])]
    IN  IF Wilds = {} THEN own ELSE rec[Len(s.jwild)]

\* Strings, numbers and booleans; null counts as absent.
Scalar ==
    LET s == IF Token[1] = "value" /\ Top.record
             THEN Recorded(sc, Path(Top.child), FoldOf[Token[2]]) ELSE sc
    IN  /\ Parses({"value", "null"}, TRUE)
        /\ Advance([s EXCEPT !.jwild = Truncated(@, p.stack)], Popped(p.stack))

Fail ==
    /\ pc = "parse"
    /\ p.pos = call.err \/ (Parses({"{", "["}, TRUE) /\ TooDeep)
    /\ pc' = "release"
    /\ UNCHANGED <<call, sc, p, got>>

\* str enters the span of a string's path before it decodes the string.
FailInString ==
    /\ pc = "parse" /\ p.pos = call.err /\ p.stack # <<>>
    /\ Top.value /\ Top.record /\ ~Below /\ Path(Top.child) \in call.known
    /\ sc' = JsonSpan(sc, Path(Top.child))
    /\ pc' = "release"
    /\ UNCHANGED <<call, p, got>>

\* Faulty: refs that are used again keep the hash of an earlier value.
VrefOver(old, text) == [old EXCEPT !.text = text]

Vref(old, text) == [text |-> text, hash |-> NoHash]

\* groupJSONValues: a counting sort of the values by span.
Grouped(s) ==
    LET n == Len(s.jvals)
        Of(k) == {i \in 1..n : s.jvals[i].span = k}
        flo(k) == Cardinality({i \in 1..n : s.jvals[i].span < k})
        place(i) == flo(s.jvals[i].span) + Cardinality({j \in Of(s.jvals[i].span) : j <= i})
        old == IF Len(s.frefs) < n THEN [i \in 1..n |-> NoVref] ELSE s.frefs
    IN  [s EXCEPT !.spans = [k \in 1..Len(s.spans) |->
                                [@[k] EXCEPT !.flo = flo(k), !.fhi = flo(k) + Cardinality(Of(k))]],
                  !.frefs = [j \in 1..Len(old) |->
                                IF j > n THEN old[j]
                                ELSE Vref(old[j], s.jvals[CHOOSE i \in 1..n : place(i) = j].text)],
                  !.used = n]

GroupValues ==
    /\ pc = "parse" /\ p.stack = <<>> /\ p.pos # call.err
    /\ sc' = Grouped(sc)
    /\ pc' = "visit"
    /\ UNCHANGED <<call, p, got>>

-----------------------------------------------------------------------------
(* visit and evalGroup.                                                     *)

\* The values of the properties of a span, in the order of its chain.
ChainValues(s, k) ==
    LET from[n \in 0..Len(s.props)] == \* chains lead upwards
            IF n = 0 THEN <<>>
            ELSE s.props[n].values \o
                 (IF s.props[n].next = 0 THEN <<>> ELSE from[s.props[n].next])
    IN  from[s.spans[k].first]

\* Values are folded on first use, behind those of other spans.
Folded(s, k) ==
    LET values == ChainValues(s, k)
        n == s.used + Len(values)
    IN  IF s.spans[k].folded THEN s
        ELSE [s EXCEPT !.spans[k].flo = s.used, !.spans[k].fhi = n, !.spans[k].folded = TRUE,
                       !.frefs = [j \in 1..IF n > Len(@) THEN n ELSE Len(@) |->
                                    IF j \in s.used + 1..n
                                    THEN Vref(IF j <= Len(@) THEN @[j] ELSE NoVref,
                                              FoldOf[values[j - s.used]])
                                    ELSE @[j]],
                       !.used = n]

\* A lookup finds a value if its hash is the value's.
Seen(s, k) ==
    SelectSeq([i \in 1..s.spans[k].fhi - s.spans[k].flo |-> s.frefs[s.spans[k].flo + i]],
              LAMBDA r : r.hash \in {NoHash, r.text})
Hashed(s, k) ==
    [s EXCEPT !.frefs = [j \in 1..Len(@) |->
        IF j \in s.spans[k].flo + 1..s.spans[k].fhi /\ @[j].hash = NoHash
        THEN [text |-> @[j].text, hash |-> @[j].text] ELSE @[j]]]

\* A group on path looks its values up; its formulas see the hits as a set.
EvalGroup(path) ==
    LET k == IndexOf(sc, path)
        s == Folded(sc, k)
        seen == Seen(s, k)
        hits == {LeafId[v] : v \in {seen[i].text : i \in 1..Len(seen)} \cap DOMAIN LeafId}
    IN  /\ pc = "visit" /\ got.evals < MaxEvals
        /\ got' = [path |-> path, found |-> k # 0, evals |-> got.evals + 1,
                   values |-> IF k = 0 THEN <<>> ELSE [i \in 1..Len(seen) |-> seen[i].text],
                   hits |-> IF k = 0 THEN {} ELSE hits]
        /\ sc' = IF k = 0 THEN sc ELSE [Hashed(s, k) EXCEPT !.bits = @ \cup hits]
        /\ pc' = IF k = 0 THEN "visit" ELSE "formulas"
        /\ UNCHANGED <<call, p>>

\* Faulty: the word of the last hit only is cleared.
ClearHits ==
    /\ pc = "formulas"
    /\ LET last == CHOOSE h \in got.hits : \A g \in got.hits : g <= h
       IN  sc' = [sc EXCEPT !.bits = IF got.hits = {} THEN @
                                     ELSE {b \in @ : b \div WordBits # last \div WordBits}]
    /\ pc' = "visit"
    /\ UNCHANGED <<call, p, got>>

\* The words of the hits are cleared again.
ClearBits ==
    /\ pc = "formulas"
    /\ sc' = [sc EXCEPT !.bits = {b \in @ : \A h \in got.hits : b \div WordBits # h \div WordBits}]
    /\ pc' = "visit"
    /\ UNCHANGED <<call, p, got>>

VisitDone ==
    /\ pc = "visit"
    /\ pc' = "release"
    /\ UNCHANGED <<call, sc, p, got>>

\* release clears what it must not retain and keeps the rest.
Release ==
    /\ pc = "release"
    /\ sc' = [sc EXCEPT !.props = [i \in 1..Len(@) |-> [values |-> <<>>, next |-> 0]],
                        !.spans = [k \in 1..Len(@) |->
                                    [path |-> <<>>, first |-> 0, last |-> 0, flo |-> 0, fhi |-> 0,
                                     folded |-> FALSE]],
                        !.jwild = [k \in 1..Len(@) |-> [path |-> <<>>, span |-> 0]]]
    /\ pc' = "idle"
    /\ p' = NoParser
    /\ got' = NothingGot
    /\ UNCHANGED call

Next ==
    \/ \E known \in RulePaths :
        \/ \E event \in Events : Match(event, known)
        \/ \E doc \in Documents : \E err \in 0..Len(doc) + 1 : MatchJSON(doc, err, known)
    \/ ResetProperty \/ ResetDone
    \/ Key \/ OpenObject \/ CloseObject \/ OpenArray \/ CloseArray \/ Scalar \/ GroupValues
    \/ Fail \/ FailInString
    \/ \E path \in call.known : EvalGroup(path)
    \/ ClearBits \/ VisitDone \/ Release

Spec == Init /\ [][Next]_vars

-----------------------------------------------------------------------------
(* explain.go: the event as properties, and the values at a path.           *)

\* jsonEventProperties, by the paths of the objects and arrays around a token.
JsonProperties(doc) ==
    LET walk[i \in 1..Len(doc)] ==
            IF i = 1 THEN [around |-> << [root |-> TRUE, array |-> FALSE, path |-> <<>>] >>,
                           at |-> <<>>, props |-> <<>>]
            ELSE LET s == walk[i - 1]
                     top == s.around[Len(s.around)]
                     path == IF top.array THEN top.path ELSE s.at
                     push(array) == Append(s.around, [root |-> FALSE, array |-> array, path |-> path])
                 IN  CASE doc[i][1] = "key" ->
                            [s EXCEPT !.at = IF top.root THEN doc[i][2]
                                             ELSE top.path \o <<Dot>> \o doc[i][2]]
                       [] doc[i][1] \in {"{", "["} -> [s EXCEPT !.around = push(doc[i][1] = "[")]
                       [] doc[i][1] \in {"}", "]"} ->
                            [s EXCEPT !.around = SubSeq(@, 1, Len(@) - 1)]
                       [] doc[i][1] = "value" ->
                            [s EXCEPT !.props = Append(@, [path |-> path, values |-> <<doc[i][2]>>])]
                       [] doc[i][1] = "null" -> s
    IN  walk[Len(doc)].props

ValuesAt(event, path) ==
    LET IsBelow(q) == IsWild(path) /\ Len(q) > Len(path) - 2
                     /\ SubSeq(q, 1, Len(path) - 1) = WildBase(path) \o <<Dot>>
        upTo[i \in 0..Len(event)] ==
            IF i = 0 THEN <<>>
            ELSE IF IsBelow(event[i].path) \/ event[i].path = path
                 THEN upTo[i - 1] \o event[i].values ELSE upTo[i - 1]
    IN  upTo[Len(event)]

Nesting(doc) ==
    LET open[i \in 0..Len(doc)] ==
            IF i = 0 THEN 0
            ELSE open[i - 1] + (CASE doc[i][1] \in {"{", "["} -> 1
                                  [] doc[i][1] \in {"}", "]"} -> -1
                                  [] OTHER -> 0)
    IN  CHOOSE n \in 0..Len(doc) : /\ \E i \in 0..Len(doc) : open[i] = n
                                   /\ \A i \in 0..Len(doc) : open[i] <= n

Count(s, v) == Cardinality({i \in 1..Len(s) : s[i] = v})

\* What the group saw are the values that Explain sees, folded, as often.
SeesValuesOf(event) ==
    LET expected == ValuesAt(event, got.path)
        folded == [i \in 1..Len(expected) |-> FoldOf[expected[i]]]
    IN  /\ got.found <=> expected # <<>>
        /\ \A v \in Values : Count(got.values, v) = Count(folded, v)

-----------------------------------------------------------------------------
(* Properties.                                                             *)

\* A group that Match evaluates sees exactly the values of the properties at its
\* path and below it, also if properties repeat, have no values, or are named
\* like a wildcard path, and whatever the scratch was used for before (reset,
\* addWild, evalGroup).
PropertiesAreGrouped ==
    call.kind = "Match" /\ got.evals > 0 => SeesValuesOf(call.event)

\* The same for MatchJSON: keys that contain dots, repeated keys, arrays and
\* empty objects lead to the values that encoding/json would give, although only
\* what rules refer to is recorded, and also after a call that failed anywhere
\* in its event (value, object, openWilds, record, groupJSONValues).
JSONValuesAreGrouped ==
    call.kind = "MatchJSON" /\ got.evals > 0 =>
        /\ call.err = 0 /\ Nesting(call.event) <= MaxDepth
        /\ SeesValuesOf(JsonProperties(call.event))

\* The span table always has an empty slot, so probing ends, although reset
\* enters properties without a check beside wildcard paths with one.
TableHasRoom == pc # "idle" => \E j \in DOMAIN sc.slots : sc.slots[j] = 0

\* The formulas of a group see its own hits only: none of an earlier group or
\* call (hitBits, evalGroup).
FormulasSeeHits == pc = "formulas" => sc.bits = got.hits
=============================================================================
