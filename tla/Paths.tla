------------------------------- MODULE Paths -------------------------------
(***************************************************************************)
(* How an event is prepared for the traversal (reset, addWild, resetJSON)  *)
(* while rules are added.  The trie records the paths its conditions refer *)
(* to; a reader consults these records value by value: MatchJSON keeps     *)
(* only the values at known paths, and both keep the values below a        *)
(* wildcard path such as "labels.*" only if it is known.  The states of    *)
(* different rules are kept apart here; HyperMatch has what they share.    *)
(***************************************************************************)
EXTENDS Integers, Sequences, FiniteSets

CONSTANTS
    Rules,      \* rules the writer adds, in any order
    CondsOf,    \* [Rules -> Seq(conditions [path, kind, val])]
    Via,        \* [Rules -> {"add", "replace"}]: AddRule, or ReplaceRule of a present id
    PrefixesOf, \* per path, the parts before each "." in it
    BaseOf,     \* per path, the part before a final ".*", or NoBase
    NoBase,
    PropertyEvents, \* what Match is called with: sequences of tokens, see Reader
    JsonEvents      \* what MatchJSON is called with

Elems(s) == {s[i] : i \in 1..Len(s)}
PathNames == DOMAIN PrefixesOf
Parts(p) == Elems(PrefixesOf[p])
Conditions == UNION {Elems(CondsOf[r]) : r \in Rules}

\* The parts of a path are nested; the base of a wildcard path is its last part.
ASSUME PathsAssumption ==
    /\ CondsOf \in [Rules -> Seq(Conditions) \ {<<>>}]
    /\ \A c \in Conditions : c.path \in PathNames
    /\ Via \in [Rules -> {"add", "replace"}]
    /\ PrefixesOf \in [PathNames -> Seq(PathNames)]
    /\ BaseOf \in [PathNames -> PathNames \cup {NoBase}] /\ NoBase \notin PathNames
    /\ \A p \in PathNames : \A x, y \in Parts(p) :
          /\ Parts(x) \subseteq Parts(p)
          /\ x = y \/ x \in Parts(y) \/ y \in Parts(x)
    /\ \A p, q \in PathNames : BaseOf[p] # NoBase =>
          /\ Parts(p) = Parts(BaseOf[p]) \cup {BaseOf[p]}
          /\ BaseOf[p] = BaseOf[q] => p = q

\* How many objects are open at the i-th token of an event, and which.
Depth(ev, i) ==
    Cardinality({j \in 1..i - 1 : ev[j].t = "open"})
    - Cardinality({j \in 1..i - 1 : ev[j].t = "close"})
Enclosing(ev, i) ==
    {j \in 1..i - 1 : ev[j].t = "open" /\ \A k \in j + 1..i : Depth(ev, j) < Depth(ev, k)}

\* A key is appended to the path of the object it is in; properties have no
\* objects.
ASSUME EventsAssumption ==
    \A ev \in PropertyEvents \cup JsonEvents :
        /\ ev \in Seq(Elems(ev))
        /\ \A i \in 1..Len(ev) :
              /\ ev[i].t \in {"value", "open", "close"}
              /\ ev \in PropertyEvents => ev[i].t = "value"
              /\ ev[i].t = "close" => Depth(ev, i) > 0
              /\ ev[i].t # "close" =>
                    /\ ev[i].path \in PathNames
                    /\ Parts(ev[i].path) = ev[i].bases \cup
                          UNION {ev[j].bases \cup {ev[j].path} : j \in Enclosing(ev, i)}

VARIABLES
    numbered,  \* rules whose number is below the published length of ids
    published, \* replacements whose version is published
    paths, prefixes, wilds, \* of the trie; wilds by base
    hasWilds,  \* trie.wilds has a table, which is published before its first entry
    hasAbsent,
    edges,     \* <<rule, k>>: the edge of its k-th condition
    ended,     \* rules recorded in the state their conditions lead to
    returned,  \* rules whose call returned
    w,         \* the writer's locals
    rd         \* the reader's scratch

known == <<paths, prefixes, wilds, hasWilds>>
wvars == <<numbered, published, known, hasAbsent, edges, ended, returned, w>>
vars == <<wvars, rd>>

NoRule == "-"
IdleWriter == [pc |-> "idle", rule |-> NoRule, k |-> 1, puts |-> <<>>]
IdleReader == [pc |-> "idle", json |-> FALSE, ev |-> <<>>, i |-> 1, version |-> {}, limit |-> {},
               absent |-> FALSE, table |-> "nil", wilds |-> {}, dots |-> {}, open |-> <<>>,
               record |-> <<>>, vals |-> {}, at |-> [r \in Rules |-> 1], ready |-> {},
               matched |-> {}]

Init ==
    /\ numbered = {} /\ published = {} /\ paths = {} /\ prefixes = {} /\ wilds = {}
    /\ hasWilds = FALSE /\ hasAbsent = FALSE /\ edges = {} /\ ended = {} /\ returned = {}
    /\ w = IdleWriter
    /\ rd = IdleReader

-----------------------------------------------------------------------------
(* Writer: the publications of one AddRule or ReplaceRule that readers      *)
(* consult here.                                                            *)

Cond == CondsOf[w.rule][w.k]

\* ids.add: AddRule and ReplaceRule publish the number before any state has it.
Start(r) ==
    /\ w.pc = "idle" /\ r \notin numbered
    /\ numbered' = numbered \cup {r}
    /\ w' = [IdleWriter EXCEPT !.pc = "cond", !.rule = r]
    /\ UNCHANGED <<published, known, hasAbsent, edges, ended, returned, rd>>

\* Faulty variants like the next one show which mistake a property would catch;
\* nothing uses them.  Here addPath records neither prefixes nor wildcards.
PutsPathOnly(path) == IF path \in paths THEN <<>> ELSE << <<"path", path>> >>

\* What addPath puts for a path, in this order, if the path is new.
Puts(path) ==
    IF path \in paths THEN <<>>
    ELSE [i \in 1..Len(PrefixesOf[path]) |-> <<"prefix", PrefixesOf[path][i]>>]
         \o (IF BaseOf[path] = NoBase THEN <<>>
             ELSE << <<"table", NoBase>>, <<"wild", BaseOf[path]>> >>)
         \o << <<"path", path>> >>

\* follow: addPath comes before the edge.
FollowGroup ==
    /\ w.pc = "cond" /\ Cond.kind # "absent"
    /\ w' = [w EXCEPT !.pc = "put", !.puts = Puts(Cond.path)]
    /\ UNCHANGED <<numbered, published, known, hasAbsent, edges, ended, returned, rd>>

\* followAbsent: hasAbsent, then the edge, then addPath.
FollowAbsent ==
    /\ w.pc = "cond" /\ Cond.kind = "absent"
    /\ hasAbsent' = TRUE
    /\ w' = [w EXCEPT !.pc = "absent"]
    /\ UNCHANGED <<numbered, published, known, edges, ended, returned, rd>>

LinkAbsent ==
    /\ w.pc = "absent"
    /\ edges' = edges \cup {<<w.rule, w.k>>}
    /\ w' = [w EXCEPT !.pc = "put", !.puts = Puts(Cond.path)]
    /\ UNCHANGED <<numbered, published, known, hasAbsent, ended, returned, rd>>

Put ==
    LET what == Head(w.puts)[1]
        new == {Head(w.puts)[2]}
    IN  /\ w.pc = "put" /\ w.puts # <<>> /\ what # "table"
        /\ prefixes' = IF what = "prefix" THEN prefixes \cup new ELSE prefixes
        /\ wilds' = IF what = "wild" THEN wilds \cup new ELSE wilds
        /\ paths' = IF what = "path" THEN paths \cup new ELSE paths
        /\ w' = [w EXCEPT !.puts = Tail(@)]
        /\ UNCHANGED <<numbered, published, hasWilds, hasAbsent, edges, ended, returned, rd>>

\* A first table for the wildcard paths, or a larger one: how full a table is
\* is left open.  A reader keeps the one it loaded, which gets no new entries.
GrowWilds ==
    /\ w.pc = "put" /\ w.puts # <<>> /\ Head(w.puts)[1] = "table"
    /\ hasWilds' = TRUE
    /\ rd' = IF rd.table = "current" THEN [rd EXCEPT !.table = "old", !.wilds = wilds] ELSE rd
    /\ w' = [w EXCEPT !.puts = Tail(@)]
    /\ UNCHANGED <<numbered, published, paths, prefixes, wilds, hasAbsent, edges, ended, returned>>

WildsHaveRoom ==
    /\ w.pc = "put" /\ w.puts # <<>> /\ Head(w.puts)[1] = "table"
    /\ hasWilds
    /\ w' = [w EXCEPT !.puts = Tail(@)]
    /\ UNCHANGED <<numbered, published, known, hasAbsent, edges, ended, returned, rd>>

NextCond ==
    /\ w.pc = "put" /\ w.puts = <<>>
    /\ edges' = edges \cup {<<w.rule, w.k>>}
    /\ w' = IF w.k < Len(CondsOf[w.rule])
            THEN [w EXCEPT !.pc = "cond", !.k = @ + 1]
            ELSE [w EXCEPT !.pc = "rule"]
    /\ UNCHANGED <<numbered, published, known, hasAbsent, ended, returned, rd>>

AddRuleNumber ==
    /\ w.pc = "rule"
    /\ ended' = ended \cup {w.rule}
    /\ w' = [w EXCEPT !.pc = IF Via[w.rule] = "replace" THEN "version" ELSE "return"]
    /\ UNCHANGED <<numbered, published, known, hasAbsent, edges, returned, rd>>

PublishVersion ==
    /\ w.pc = "version"
    /\ published' = published \cup {w.rule}
    /\ w' = [w EXCEPT !.pc = "return"]
    /\ UNCHANGED <<numbered, known, hasAbsent, edges, ended, returned, rd>>

Return ==
    /\ w.pc = "return"
    /\ returned' = returned \cup {w.rule}
    /\ w' = IdleWriter
    /\ UNCHANGED <<numbered, published, known, hasAbsent, edges, ended, rd>>

Writer ==
    \/ \E r \in Rules : Start(r)
    \/ FollowGroup \/ FollowAbsent \/ LinkAbsent
    \/ Put \/ GrowWilds \/ WildsHaveRoom \/ NextCond
    \/ AddRuleNumber \/ PublishVersion \/ Return

-----------------------------------------------------------------------------
(* Reader.  An event is a sequence of tokens [t, path, val, bases]: "value" *)
(* a value at a path, and for JSON "open" and "close" around the members of *)
(* an object.  bases are the parts before each "." of the path, for JSON of *)
(* the object's key in it.                                                  *)

Token == rd.ev[rd.i]
Local == UNCHANGED wvars

Match(json, ev) ==
    /\ rd.pc = "idle"
    /\ rd' = [IdleReader EXCEPT !.pc = "version", !.json = json, !.ev = ev,
                                !.ready = returned]
    /\ Local

\* begin, as far as it matters here.
LoadVersion ==
    /\ rd.pc = "version"
    /\ rd' = [rd EXCEPT !.pc = "ids", !.version = published]
    /\ Local

LoadIds ==
    /\ rd.pc = "ids"
    /\ rd' = [rd EXCEPT !.pc = "absent", !.limit = numbered]
    /\ Local

LoadAbsent ==
    /\ rd.pc = "absent"
    /\ rd' = [rd EXCEPT !.pc = "wilds", !.absent = hasAbsent]
    /\ Local

\* t.wilds.t.Load(): nil until a rule has a wildcard path.
LoadWilds ==
    /\ rd.pc = "wilds"
    /\ rd' = [rd EXCEPT !.pc = "token", !.table = IF hasWilds THEN "current" ELSE "nil",
                        !.record = <<TRUE>>,
                        !.open = << {} >>]
    /\ Local

Recording == rd.record[Len(rd.record)]
Opened == UNION {rd.open[i] : i \in 1..Len(rd.open)}
Wilds == IF rd.table = "old" THEN rd.wilds ELSE wilds
WildPath(base) == CHOOSE p \in DOMAIN BaseOf : BaseOf[p] = base

\* Begins the search for the wildcard paths whose base ends at a "." of the path
\* (addWild) or of the key (openWilds).
OpenWilds ==
    /\ rd.pc = "token" /\ rd.i <= Len(rd.ev)
    /\ rd' = [rd EXCEPT
                !.pc = "lookup",
                !.dots = IF rd.table # "nil" /\ Recording /\ Token.t # "close"
                         THEN Token.bases ELSE {},
                !.open = Append(@, {})]
    /\ Local

\* One lookup per ".", from left to right; the writer may put in between.
OpenWild(base) ==
    /\ rd.pc = "lookup" /\ base \in rd.dots
    /\ \A other \in rd.dots \ {base} : base \in Parts(other)
    /\ rd' = [rd EXCEPT !.dots = @ \ {base},
                        !.open[Len(rd.open)] = @ \cup ({base} \cap Wilds)]
    /\ Local

\* A value goes to the span of its path, unless MatchJSON does not know the
\* path, and to the spans of the wildcard paths it is below.
Value ==
    LET own == IF rd.json /\ Token.path \notin paths THEN {} ELSE {Token.path}
        above == {WildPath(b) : b \in Opened}
    IN  /\ rd.pc = "lookup" /\ rd.dots = {} /\ Token.t = "value"
        /\ rd' = [rd EXCEPT
                    !.pc = "token", !.i = @ + 1,
                    !.open = SubSeq(@, 1, Len(@) - 1),
                    !.vals = IF Recording
                             THEN @ \cup {<<p, Token.val>> : p \in own \cup above}
                             ELSE @]
        /\ Local

\* object: values inside are recorded only below an open wildcard path or if
\* a rule refers to a path below the object's.
OpenObject ==
    /\ rd.pc = "lookup" /\ rd.dots = {} /\ Token.t = "open"
    /\ rd' = [rd EXCEPT
                !.pc = "inside",
                !.record = Append(@, Recording /\ (Opened # {} \/ Token.path \in prefixes))]
    /\ Local

OpenInside ==
    /\ rd.pc = "inside"
    /\ rd' = [rd EXCEPT
                !.pc = "token", !.i = @ + 1,
                !.open = IF rd.table # "nil" /\ Recording
                         THEN Append(@, {Token.path} \cap Wilds)
                         ELSE Append(@, {})]
    /\ Local

\* Leaves the object, and the wildcard paths opened in it and in its key.
CloseObject ==
    /\ rd.pc = "lookup" /\ rd.dots = {} /\ Token.t = "close"
    /\ rd' = [rd EXCEPT
                !.pc = "token", !.i = @ + 1,
                !.record = SubSeq(@, 1, Len(@) - 1),
                !.open = SubSeq(@, 1, Len(@) - 3)]
    /\ Local

Prepared ==
    /\ rd.pc = "token" /\ rd.i > Len(rd.ev)
    /\ rd' = [rd EXCEPT !.pc = "visit"]
    /\ Local

\* A condition against the values a span collected.  Without a span only
\* {"exists": false} can hold.
CondHolds(c, values) ==
    CASE c.kind = "is" -> c.val \in values
      [] c.kind = "isNot" -> values # {} /\ c.val \notin values
      [] c.kind = "absent" -> values = {}

ValuesAt(p) == {x[2] : x \in {y \in rd.vals : y[1] = p}}

\* visit: follows the next condition on the way to rule r.
Follows(r) ==
    LET k == rd.at[r]
        c == CondsOf[r][k]
    IN  /\ k <= Len(CondsOf[r])
        /\ <<r, k>> \in edges
        /\ c.kind = "absent" => rd.absent
        /\ CondHolds(c, ValuesAt(c.path))

Visit(r) ==
    /\ rd.pc = "visit"
    /\ Follows(r)
    /\ rd' = [rd EXCEPT !.at[r] = @ + 1]
    /\ Local

\* Faulty: a replacement is visible before its version is.
VisibleEarly(r) == r \in rd.limit

\* Whether reaching the end of a rule makes it a result: its number is in its
\* state, and visible.
Visible(r) == IF Via[r] = "add" THEN r \in rd.limit ELSE r \in rd.version

Collect(r) ==
    /\ rd.pc = "visit"
    /\ rd.at[r] = Len(CondsOf[r]) + 1
    /\ r \in ended /\ Visible(r) /\ r \notin rd.matched
    /\ rd' = [rd EXCEPT !.matched = @ \cup {r}]
    /\ Local

\* The traversal may end before it sees what is added during the call, but
\* not before it followed what was there when the call started.
Finish ==
    /\ rd.pc = "visit"
    /\ \A r \in rd.ready : ~Follows(r)
    /\ \A r \in rd.ready : 
        rd.at[r] = Len(CondsOf[r]) + 1 => r \in rd.matched \/ ~Visible(r)
    /\ rd' = [rd EXCEPT !.pc = "done"]
    /\ Local

Rest == rd.pc = "done" /\ rd' = IdleReader /\ Local

Reader ==
    \/ \E ev \in PropertyEvents : Match(FALSE, ev)
    \/ \E ev \in JsonEvents : Match(TRUE, ev)
    \/ LoadVersion \/ LoadIds \/ LoadAbsent \/ LoadWilds
    \/ OpenWilds \/ (\E base \in PathNames : OpenWild(base)) \/ Value \/ OpenObject \/ OpenInside \/ CloseObject \/ Prepared
    \/ \E r \in Rules : Visit(r) \/ Collect(r)
    \/ Finish \/ Rest

Next == Writer \/ Reader
Spec == Init /\ [][Next]_vars

-----------------------------------------------------------------------------
(* What the event says: the values at a path are those of all its tokens   *)
(* there, those at a wildcard path of all tokens below its base.           *)

ValuesIn(ev, p) ==
    {x.val : x \in {y \in Elems(ev) :
        /\ y.t = "value"
        /\ y.path = p \/ BaseOf[p] \in Elems(PrefixesOf[y.path])}}
Truth(r, ev) == \A c \in Elems(CondsOf[r]) : CondHolds(c, ValuesIn(ev, c.path))

\* Readers never see a rule match that does not hold (concurrent_test.go): the
\* records of known paths never hide a value from a rule the call reports.
MatchesHold == rd.pc = "done" => \A r \in rd.matched : Truth(r, rd.ev)

\* A rule whose call returned before the Match call started is reported if it
\* holds: all paths and wildcard paths it refers to are known by then.
ReadyRulesMatch ==
    rd.pc = "done" => \A r \in rd.ready : Truth(r, rd.ev) => r \in rd.matched
=============================================================================
