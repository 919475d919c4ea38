---------------------------- MODULE PathsProofs ----------------------------
(***************************************************************************)
(* Theorems about the preparation of events: whatever paths AddRule and    *)
(* ReplaceRule record meanwhile, a call that sees a rule has recorded the  *)
(* values its conditions ask for, below objects and wildcard paths too.    *)
(***************************************************************************)
EXTENDS Paths, FiniteSetTheorems, TLAPS

-----------------------------------------------------------------------------
(* The writer's part of the invariant.                                     *)

Events == PropertyEvents \cup JsonEvents
Bases == {BaseOf[p] : p \in PathNames} \ {NoBase}
Vals == UNION {{x.val : x \in Elems(ev)} : ev \in Events}
PutKinds == {"prefix", "table", "wild", "path"}

Writers ==
    [pc : {"idle", "cond", "absent", "put", "rule", "version", "return"},
     rule : Rules \cup {NoRule}, k : Nat \ {0},
     puts : Seq(PutKinds \X (PathNames \cup {NoBase}))]

Preparing == {"token", "lookup", "inside"}
Scratches ==
    [pc : {"idle", "version", "ids", "absent", "wilds", "visit", "done"} \cup Preparing,
     json : BOOLEAN, ev : Events \cup {<<>>}, i : Nat \ {0},
     version : SUBSET Rules, limit : SUBSET Rules, absent : BOOLEAN,
     table : {"nil", "current", "old"}, wilds : SUBSET Bases,
     dots : SUBSET PathNames, open : Seq(SUBSET Bases), record : Seq(BOOLEAN), vals : SUBSET (PathNames \X Vals),
     at : [Rules -> Nat], ready : SUBSET Rules, matched : SUBSET Rules]

TypeFits ==
    /\ numbered \in SUBSET Rules /\ published \in SUBSET Rules
    /\ ended \in SUBSET Rules /\ returned \in SUBSET Rules
    /\ paths \in SUBSET PathNames /\ prefixes \in SUBSET PathNames /\ wilds \in SUBSET Bases
    /\ hasWilds \in BOOLEAN /\ hasAbsent \in BOOLEAN
    /\ w \in Writers
    /\ w.pc # "idle" => w.rule \in Rules /\ w.k \in 1..Len(CondsOf[w.rule])
    /\ rd \in Scratches
    /\ rd.pc # "idle" => rd.ev \in Events
    /\ rd.i \in 1..Len(rd.ev) + 1
    /\ rd.pc \in {"lookup", "inside"} => rd.i <= Len(rd.ev)

\* What addPath still has to put for p: the path last, and a wildcard into a
\* table that exists.
PutsLeft(p, puts) ==
    LET left == Elems(puts)
    IN  /\ left \subseteq {<<"path", p>>, <<"wild", BaseOf[p]>>, <<"table", NoBase>>}
                          \cup {<<"prefix", q>> : q \in Parts(p)}
        /\ \A q \in Parts(p) : q \in prefixes \/ <<"prefix", q>> \in left
        /\ BaseOf[p] # NoBase => BaseOf[p] \in wilds \/ <<"wild", BaseOf[p]>> \in left
        /\ BaseOf[p] = NoBase => <<"wild", NoBase>> \notin left
        /\ p \in paths \/ <<"path", p>> \in left
        /\ \A i \in 1..Len(puts) :
              /\ puts[i][1] = "path" => i = Len(puts)
              /\ puts[i][1] = "wild" =>
                    hasWilds \/ \E j \in 1..i - 1 : puts[j][1] = "table"

\* A path is only known with everything that leads to its values.
PathsFit ==
    /\ \A p \in paths : Parts(p) \subseteq prefixes /\ (BaseOf[p] # NoBase => BaseOf[p] \in wilds)
    /\ wilds # {} => hasWilds
    /\ w.pc = "put" => PutsLeft(Cond.path, w.puts)

Laid(r, k) ==
    /\ <<r, k>> \in edges /\ CondsOf[r][k].path \in paths
    /\ CondsOf[r][k].kind = "absent" => hasAbsent
LaidOut(r) == \A k \in 1..Len(CondsOf[r]) : Laid(r, k)

\* A rule whose version is published, or whose call returned, is complete.
RulesFit ==
    /\ \A r \in published \cup returned : r \in ended /\ LaidOut(r)
    /\ \A r \in returned : r \in numbered /\ (Via[r] = "replace" => r \in published)
    /\ w.pc # "idle" => w.rule \in numbered /\ \A k \in 1..w.k - 1 : Laid(w.rule, k)
    /\ w.pc \in {"absent", "put"} /\ Cond.kind = "absent" => hasAbsent
    /\ w.pc \in {"rule", "version", "return"} => LaidOut(w.rule)
    /\ w.pc \in {"version", "return"} => w.rule \in ended
    /\ w.pc = "return" /\ Via[w.rule] = "replace" => w.rule \in published

WriterFits == PathsFit /\ RulesFit

-----------------------------------------------------------------------------
(* The reader's part.                                                      *)

\* The rules that were complete when the call loaded what makes them visible.
Sure == rd.ready \cup rd.version
SurePaths == {c.path : c \in UNION {Elems(CondsOf[r]) : r \in Sure}}

\* What the loads of begin found of the sure rules.
LoadsFit ==
    /\ rd.ready \subseteq returned /\ rd.version \subseteq published
    /\ rd.pc \notin {"idle", "version"} =>
          \A r \in rd.ready : Via[r] = "replace" => r \in rd.version
    /\ rd.pc \notin {"idle", "version", "ids"} => rd.ready \subseteq rd.limit
    /\ rd.pc \notin {"idle", "version", "ids", "absent"} =>
          \A r \in rd.ready : \A c \in Elems(CondsOf[r]) : c.kind = "absent" => rd.absent
    /\ rd.pc \in Preparing =>
          \A p \in SurePaths : BaseOf[p] # NoBase => rd.table # "nil" /\ BaseOf[p] \in Wilds

\* A rule about p needs what is in an object at q.
Wanted(p, q) == q \in Parts(p) \/ BaseOf[p] \in Parts(q)

\* The parser's stacks: for each enclosing object, the wildcard paths that its
\* key and its path open, and whether values in it are recorded.  They hold what
\* rules about the paths in need ask for.
Stack(ev, i, open, record, need) ==
    /\ open[1] = {} /\ record[1] = TRUE
    /\ \A j \in Enclosing(ev, i) : Depth(ev, j) \in Nat
    /\ \A m \in 0..Depth(ev, i) - 1 : \E j \in Enclosing(ev, i) :
          /\ Depth(ev, j) = m
          /\ open[2 * m + 2] \subseteq ev[j].bases
          /\ open[2 * m + 3] \subseteq {ev[j].path}
    /\ \A j \in Enclosing(ev, i), p \in need : Wanted(p, ev[j].path) =>
          /\ record[Depth(ev, j) + 2] = TRUE
          /\ BaseOf[p] \in ev[j].bases => BaseOf[p] \in open[2 * Depth(ev, j) + 2]
          /\ BaseOf[p] = ev[j].path => BaseOf[p] \in open[2 * Depth(ev, j) + 3]

StackFits ==
    LET d == Depth(rd.ev, rd.i)
    IN  /\ d \in Nat
        /\ Len(rd.record) = (IF rd.pc = "inside" THEN d + 2 ELSE d + 1)
        /\ Len(rd.open) = (IF rd.pc = "token" THEN 2 * d + 1 ELSE 2 * d + 2)
        /\ Stack(rd.ev, rd.i, rd.open, rd.record, SurePaths)

\* What the key of the next token has opened or still looks up, and the object it begins.
TopFits ==
    LET d == Depth(rd.ev, rd.i)
    IN  /\ rd.pc \in {"lookup", "inside"} /\ Token.t # "close" =>
              /\ rd.dots \subseteq Token.bases
              /\ rd.open[2 * d + 2] \subseteq Token.bases
              /\ \A p \in SurePaths :
                    BaseOf[p] \in Token.bases => BaseOf[p] \in rd.open[2 * d + 2] \cup rd.dots
        /\ rd.pc = "inside" =>
              /\ Token.t = "open" /\ rd.dots = {}
              /\ \A p \in SurePaths : Wanted(p, Token.path) => rd.record[d + 2] = TRUE

\* The values recorded for the paths of sure rules are those passed so far.
Passed(p) ==
    {rd.ev[k].val : k \in {j \in 1..rd.i - 1 :
        /\ rd.ev[j].t = "value"
        /\ rd.ev[j].path = p \/ BaseOf[p] \in Parts(rd.ev[j].path)}}
ValuesFit == \A p \in SurePaths : ValuesAt(p) = Passed(p)

\* The traversal has followed conditions that hold.
VisitFits ==
    /\ \A r \in Rules : rd.at[r] \in 1..Len(CondsOf[r]) + 1
    /\ \A r \in Sure : \A k \in 1..rd.at[r] - 1 :
          CondHolds(CondsOf[r][k], ValuesAt(CondsOf[r][k].path))
    /\ \A r \in rd.matched : Visible(r) /\ rd.at[r] = Len(CondsOf[r]) + 1

ReaderFits ==
    /\ rd.pc # "idle" => LoadsFit
    /\ rd.pc \in Preparing => StackFits /\ TopFits
    /\ rd.pc \in Preparing \cup {"visit", "done"} => ValuesFit
    /\ rd.pc \in {"visit", "done"} => rd.i = Len(rd.ev) + 1 /\ VisitFits
    /\ rd.pc \in Preparing \cup {"version", "ids", "absent", "wilds"} =>
          rd.matched = {} /\ rd.at = [r \in Rules |-> 1]
    /\ rd.pc \in {"version", "ids", "absent", "wilds"} => rd.i = 1 /\ rd.vals = {}
    /\ rd.pc = "done" => ReadyRulesMatch

PrepareInv == TypeFits /\ WriterFits /\ ReaderFits

-----------------------------------------------------------------------------
(* Types.                                                                  *)

\* The conditions of a rule are about paths.
LEMMA CondPath ==
    ASSUME NEW r \in Rules
    PROVE  /\ CondsOf[r] \in Seq(Conditions) /\ Len(CondsOf[r]) \in Nat \ {0}
           /\ \A k \in 1..Len(CondsOf[r]) :
                 /\ CondsOf[r][k] \in Conditions /\ CondsOf[r][k] \in Elems(CondsOf[r])
                 /\ CondsOf[r][k].path \in PathNames
           /\ \A c \in Elems(CondsOf[r]) : c.path \in PathNames
<1>1. CondsOf[r] \in Seq(Conditions) /\ CondsOf[r] # <<>>
  BY PathsAssumption
<1>2. \A k \in 1..Len(CondsOf[r]) :
          CondsOf[r][k] \in Conditions /\ CondsOf[r][k] \in Elems(CondsOf[r])
  BY <1>1 DEF Elems
<1>3. \A c \in Elems(CondsOf[r]) : c \in Conditions
  BY DEF Conditions
<1>4. \A c \in Conditions : c.path \in PathNames
  BY PathsAssumption
<1>5. QED
  BY <1>1, <1>2, <1>3, <1>4

\* The parts of a path are paths, and a base is one of them.
LEMMA PathParts ==
    ASSUME NEW p \in PathNames
    PROVE  /\ PrefixesOf[p] \in Seq(PathNames) /\ Parts(p) \subseteq PathNames
           /\ NoBase \notin Parts(p)
           /\ BaseOf[p] \in PathNames \cup {NoBase}
           /\ BaseOf[p] # NoBase => BaseOf[p] \in Parts(p) /\ BaseOf[p] \in Bases
<1>1. PrefixesOf[p] \in Seq(PathNames) /\ BaseOf[p] \in PathNames \cup {NoBase}
      /\ NoBase \notin PathNames
  BY PathsAssumption
<1>2. BaseOf[p] # NoBase => Parts(p) = Parts(BaseOf[p]) \cup {BaseOf[p]}
  BY PathsAssumption
<1>3. Parts(p) \subseteq PathNames
  BY <1>1 DEF Parts, Elems
<1>4. QED
  BY <1>1, <1>2, <1>3 DEF Bases

\* addPath puts prefixes, a table, a base and a path.
LEMMA PutsType ==
    ASSUME NEW p \in PathNames
    PROVE  Puts(p) \in Seq(PutKinds \X (PathNames \cup {NoBase}))
<1> DEFINE S == PutKinds \X (PathNames \cup {NoBase})
           a == [i \in 1..Len(PrefixesOf[p]) |-> <<"prefix", PrefixesOf[p][i]>>]
           b == << <<"table", NoBase>>, <<"wild", BaseOf[p]>> >>
           c == << <<"path", p>> >>
<1>1. /\ PrefixesOf[p] \in Seq(PathNames) /\ Len(PrefixesOf[p]) \in Nat
      /\ BaseOf[p] \in PathNames \cup {NoBase}
  BY PathParts
<1>2. a \in Seq(S)
  <2>1. \A i \in 1..Len(PrefixesOf[p]) : <<"prefix", PrefixesOf[p][i]>> \in S
    BY <1>1 DEF PutKinds
  <2>2. QED
    BY <1>1, <2>1
<1>3. b \in Seq(S) /\ c \in Seq(S) /\ <<>> \in Seq(S)
  BY <1>1 DEF PutKinds
<1>4. Puts(p) = IF p \in paths THEN <<>>
                ELSE a \o (IF BaseOf[p] = NoBase THEN <<>> ELSE b) \o c
  BY DEF Puts
<1> SUFFICES Puts(p) \in Seq(S)
  OBVIOUS
<1> HIDE DEF a, b, c, S
<1>5. CASE p \in paths
  BY <1>3, <1>4, <1>5
<1>6. CASE p \notin paths /\ BaseOf[p] = NoBase
  BY <1>2, <1>3, <1>4, <1>6
<1>7. CASE p \notin paths /\ BaseOf[p] # NoBase
  BY <1>2, <1>3, <1>4, <1>7
<1>8. QED
  BY <1>5, <1>6, <1>7

\* At the beginning.
LEMMA TypeInit == Init => TypeFits
<1>1. SUFFICES ASSUME Init PROVE TypeFits
  OBVIOUS
<1>2. w \in Writers
  BY <1>1 DEF Init, IdleWriter, Writers
<1>3. rd \in Scratches
  <2>1. [r \in Rules |-> 1] \in [Rules -> Nat]
    OBVIOUS
  <2>2. QED
    BY <1>1, <2>1 DEF Init, IdleReader, Scratches
<1>4. w.pc = "idle" /\ rd.pc = "idle" /\ rd.i = 1 /\ rd.ev = <<>>
  BY <1>1 DEF Init, IdleWriter, IdleReader
<1>5. /\ numbered \in SUBSET Rules /\ published \in SUBSET Rules
      /\ ended \in SUBSET Rules /\ returned \in SUBSET Rules
      /\ paths \in SUBSET PathNames /\ prefixes \in SUBSET PathNames /\ wilds \in SUBSET Bases
      /\ rd.i \in 1..Len(rd.ev) + 1
  BY <1>1, <1>4 DEF Init
<1>6. hasWilds \in BOOLEAN /\ hasAbsent \in BOOLEAN
  BY <1>1 DEF Init
<1>7. QED
  BY <1>2, <1>3, <1>4, <1>5, <1>6 DEF TypeFits

\* A step of the writer that leaves the records of paths alone.
LEMMA TypeKept ==
    ASSUME TypeFits, UNCHANGED <<known, rd>>, hasAbsent' \in BOOLEAN, w' \in Writers,
           w'.pc # "idle" => w'.rule \in Rules /\ w'.k \in 1..Len(CondsOf[w'.rule]),
           numbered' \in SUBSET Rules, published' \in SUBSET Rules,
           ended' \in SUBSET Rules, returned' \in SUBSET Rules
    PROVE  TypeFits'
<1>1. /\ paths' \in SUBSET PathNames /\ prefixes' \in SUBSET PathNames /\ wilds' \in SUBSET Bases
      /\ rd' = rd
  BY DEF TypeFits, known
<1>2. hasWilds' \in BOOLEAN
  <2>1. hasWilds' = hasWilds
    BY DEF known
  <2>2. QED
    BY <2>1 DEF TypeFits
<1>3. /\ rd' \in Scratches /\ (rd'.pc # "idle" => rd'.ev \in Events)
      /\ rd'.i \in 1..Len(rd'.ev) + 1
      /\ rd'.pc \in {"lookup", "inside"} => rd'.i <= Len(rd'.ev)
  BY <1>1 DEF TypeFits
<1>4. QED
  BY <1>1, <1>2, <1>3 DEF TypeFits

\* Steps of the writer keep the types.
LEMMA TypeWriter ==
    ASSUME TypeFits, PathsFit, Writer
    PROVE  TypeFits'
<1>1. w \in Writers /\ rd \in Scratches
  BY DEF TypeFits
<1>2. w.pc # "idle" => w.rule \in Rules /\ w.k \in 1..Len(CondsOf[w.rule])
                      /\ Cond.path \in PathNames
  BY CondPath DEF TypeFits, Cond
<1>a. hasWilds' \in BOOLEAN /\ hasAbsent' \in BOOLEAN
  <2>1. (hasWilds' = hasWilds \/ hasWilds' = TRUE) /\ (hasAbsent' = hasAbsent \/ hasAbsent' = TRUE)
    BY DEF Writer, Start, FollowGroup, FollowAbsent, LinkAbsent, Put, GrowWilds, WildsHaveRoom,
       NextCond, AddRuleNumber, PublishVersion, Return, known
  <2>2. QED
    BY <2>1 DEF TypeFits
<1>b. /\ numbered' \in SUBSET Rules /\ published' \in SUBSET Rules
      /\ ended' \in SUBSET Rules /\ returned' \in SUBSET Rules
  BY <1>2 DEF TypeFits, Writer, Start, FollowGroup, FollowAbsent, LinkAbsent, Put, GrowWilds,
     WildsHaveRoom, NextCond, AddRuleNumber, PublishVersion, Return, known
<1>3. ASSUME NEW r \in Rules, Start(r) PROVE TypeFits'
  <2>1. Len(CondsOf[r]) \in Nat \ {0}
    BY CondPath
  <2>2. w' \in Writers /\ w'.rule = r /\ w'.k = 1
    <3>1. w' = [pc |-> "cond", rule |-> r, k |-> 1, puts |-> <<>>]
      BY <1>3 DEF Start, IdleWriter
    <3>2. QED
      BY <3>1 DEF Writers
  <2>3. QED
    BY <1>a, <1>b, <1>3, <2>1, <2>2, TypeKept DEF Start
<1>4. CASE FollowGroup \/ LinkAbsent
  <2>1. Puts(Cond.path) \in Seq(PutKinds \X (PathNames \cup {NoBase}))
    BY <1>2, <1>4, PutsType DEF FollowGroup, LinkAbsent
  <2>2. w' \in Writers /\ w'.rule = w.rule /\ w'.k = w.k
    BY <1>1, <1>4, <2>1 DEF FollowGroup, LinkAbsent, Writers
  <2>3. QED
    BY <1>a, <1>b, <1>2, <1>4, <2>2, TypeKept DEF FollowGroup, LinkAbsent
<1>5. CASE FollowAbsent
  <2>1. w' \in Writers /\ w'.rule = w.rule /\ w'.k = w.k
    BY <1>1, <1>5 DEF FollowAbsent, Writers
  <2>2. QED
    BY <1>a, <1>b, <1>2, <1>5, <2>1, TypeKept DEF FollowAbsent
<1>6. CASE Put
  <2>1. /\ w.puts # <<>> /\ w.puts \in Seq(PutKinds \X (PathNames \cup {NoBase}))
        /\ w.pc = "put"
    BY <1>1, <1>6 DEF Put, Writers
  <2>2. /\ Head(w.puts) \in Elems(w.puts)
        /\ Tail(w.puts) \in Seq(PutKinds \X (PathNames \cup {NoBase}))
        /\ Head(w.puts) \in PutKinds \X (PathNames \cup {NoBase})
    BY <2>1 DEF Elems
  <2>3. /\ Head(w.puts)[1] \in {"prefix", "path"} => Head(w.puts)[2] \in PathNames
        /\ Head(w.puts)[1] = "wild" => Head(w.puts)[2] \in Bases
    <3> DEFINE p == Cond.path
    <3>1. /\ p \in PathNames /\ Parts(p) \subseteq PathNames
          /\ BaseOf[p] # NoBase => BaseOf[p] \in Bases
      BY <1>2, <2>1, PathParts
    <3>2. PutsLeft(p, w.puts)
      BY <2>1 DEF PathsFit
    <3>3. /\ Head(w.puts) \in {<<"path", p>>, <<"wild", BaseOf[p]>>, <<"table", NoBase>>}
                              \cup {<<"prefix", q>> : q \in Parts(p)}
          /\ BaseOf[p] = NoBase => Head(w.puts) # <<"wild", NoBase>>
      BY <2>2, <3>2 DEF PutsLeft
    <3>4. QED
      BY <3>1, <3>3
  <2>4. /\ wilds' \in SUBSET Bases /\ paths' \in SUBSET PathNames
        /\ prefixes' \in SUBSET PathNames
    BY <1>6, <2>3 DEF Put, TypeFits
  <2>5. w' \in Writers /\ w'.rule = w.rule /\ w'.k = w.k /\ w'.pc = w.pc
    BY <1>1, <1>6, <2>2 DEF Put, Writers
  <2>6. QED
    BY <1>6, <2>4, <2>5 DEF Put, TypeFits
<1>7. CASE GrowWilds \/ WildsHaveRoom
  <2>1. Tail(w.puts) \in Seq(PutKinds \X (PathNames \cup {NoBase}))
    BY <1>1, <1>7 DEF GrowWilds, WildsHaveRoom, Writers
  <2>2. w' \in Writers /\ w'.rule = w.rule /\ w'.k = w.k /\ w'.pc = w.pc
    BY <1>1, <1>7, <2>1 DEF GrowWilds, WildsHaveRoom, Writers
  <2>3. /\ rd' \in Scratches /\ rd'.pc = rd.pc /\ rd'.ev = rd.ev /\ rd'.i = rd.i
    <3>1. wilds \in SUBSET Bases
      BY DEF TypeFits
    <3>2. CASE rd' = [rd EXCEPT !.table = "old", !.wilds = wilds]
      BY <1>1, <3>1, <3>2 DEF Scratches
    <3>3. CASE rd' = rd
      BY <1>1, <3>3
    <3>4. QED
      BY <1>7, <3>2, <3>3 DEF GrowWilds, WildsHaveRoom
  <2>4. QED
    <3>1. /\ paths' \in SUBSET PathNames /\ prefixes' \in SUBSET PathNames
          /\ wilds' \in SUBSET Bases
      BY <1>7 DEF GrowWilds, WildsHaveRoom, TypeFits, known
    <3>2. /\ rd'.pc # "idle" => rd'.ev \in Events
          /\ rd'.i \in 1..Len(rd'.ev) + 1
          /\ rd'.pc \in {"lookup", "inside"} => rd'.i <= Len(rd'.ev)
      BY <2>3 DEF TypeFits
    <3>3. w'.pc # "idle" => w'.rule \in Rules /\ w'.k \in 1..Len(CondsOf[w'.rule])
      BY <1>2, <2>2
    <3>4. QED
      BY <1>a, <1>b, <2>2, <2>3, <3>1, <3>2, <3>3 DEF TypeFits
<1>8. CASE NextCond
  <2>1. Len(CondsOf[w.rule]) \in Nat /\ w.k \in Nat \ {0}
    BY <1>1, <1>2, <1>8, CondPath DEF NextCond, Writers
  <2>2. w' \in Writers /\ w'.rule = w.rule /\ w'.k \in 1..Len(CondsOf[w.rule])
    <3>1. w.k \in 1..Len(CondsOf[w.rule])
      BY <1>2, <1>8 DEF NextCond
    <3>2. CASE w.k < Len(CondsOf[w.rule])
      <4>1. w.k + 1 \in 1..Len(CondsOf[w.rule]) /\ w.k + 1 \in Nat \ {0}
        BY <2>1, <3>1, <3>2
      <4>2. w' = [w EXCEPT !.pc = "cond", !.k = w.k + 1]
        BY <1>8, <3>2 DEF NextCond
      <4>3. QED
        BY <1>1, <4>1, <4>2 DEF Writers
    <3>3. CASE ~(w.k < Len(CondsOf[w.rule]))
      BY <1>1, <1>8, <2>1, <3>1, <3>3 DEF NextCond, Writers
    <3>4. QED
      BY <3>2, <3>3
  <2>3. QED
    BY <1>a, <1>b, <1>2, <1>8, <2>2, TypeKept DEF NextCond
<1>9. CASE AddRuleNumber \/ PublishVersion \/ Return
  <2>1. /\ w' \in Writers
        /\ w' = IdleWriter \/ (w'.rule = w.rule /\ w'.k = w.k)
    <3>1. IdleWriter \in Writers
      BY DEF Writers, IdleWriter
    <3>2. QED
      BY <1>1, <1>9, <3>1 DEF AddRuleNumber, PublishVersion, Return, Writers
  <2>2. w.rule \in Rules /\ w.k \in 1..Len(CondsOf[w.rule]) /\ IdleWriter.pc = "idle"
    BY <1>2, <1>9 DEF AddRuleNumber, PublishVersion, Return, IdleWriter
  <2>3. QED
    BY <1>a, <1>b, <1>9, <2>1, <2>2, TypeKept DEF AddRuleNumber, PublishVersion, Return
<1>10. QED
  BY <1>3, <1>4, <1>5, <1>6, <1>7, <1>8, <1>9 DEF Writer

\* A token of an event: its path, and the parts of its path.
LEMMA TokenFits ==
    ASSUME NEW ev \in Events, NEW i \in 1..Len(ev)
    PROVE  /\ ev \in Seq(Elems(ev)) /\ Len(ev) \in Nat
           /\ ev[i].t \in {"value", "open", "close"} /\ ev[i].val \in Vals
           /\ ev[i].t = "close" => Depth(ev, i) > 0
           /\ ev[i].t # "close" =>
                 /\ ev[i].path \in PathNames /\ ev[i].bases \subseteq Parts(ev[i].path)
                 /\ Parts(ev[i].path) =
                       ev[i].bases \cup
                       UNION {ev[j].bases \cup {ev[j].path} : j \in Enclosing(ev, i)}
<1>1. /\ ev \in Seq(Elems(ev))
      /\ ev[i].t \in {"value", "open", "close"}
      /\ ev[i].t = "close" => Depth(ev, i) > 0
      /\ ev[i].t # "close" =>
            /\ ev[i].path \in PathNames
            /\ Parts(ev[i].path) = ev[i].bases \cup
                  UNION {ev[j].bases \cup {ev[j].path} : j \in Enclosing(ev, i)}
  BY EventsAssumption DEF Events
<1>2. ev[i] \in Elems(ev)
  BY DEF Elems
<1>3. ev[i].val \in Vals
  BY <1>2 DEF Vals
<1>4. QED
  BY <1>1, <1>3

\* An event is a sequence.
LEMMA EventSeq ==
    ASSUME NEW ev \in Events
    PROVE  ev \in Seq(Elems(ev)) /\ Len(ev) \in Nat
<1>1. ev \in Seq(Elems(ev))
  BY EventsAssumption DEF Events
<1>2. QED
  BY <1>1

\* A wildcard path is found by its base.
LEMMA WildPathOf ==
    ASSUME NEW b \in Bases
    PROVE  /\ WildPath(b) \in PathNames /\ BaseOf[WildPath(b)] = b /\ b # NoBase
           /\ \A p \in PathNames : BaseOf[p] = b => p = WildPath(b)
<1>1. PICK p \in PathNames : BaseOf[p] = b /\ b # NoBase
  BY DEF Bases
<1>2. DOMAIN BaseOf = PathNames
  BY PathsAssumption
<1>3. WildPath(b) \in PathNames /\ BaseOf[WildPath(b)] = b
  BY <1>1, <1>2 DEF WildPath
<1>4. \A q \in PathNames : BaseOf[q] = b => q = WildPath(b)
  BY <1>1, <1>3, PathsAssumption
<1>5. QED
  BY <1>1, <1>3, <1>4

\* So do steps of the reader.
LEMMA TypeReader ==
    ASSUME TypeFits, Reader
    PROVE  TypeFits'
<1>1. /\ rd \in Scratches /\ Wilds \subseteq Bases
      /\ numbered \in SUBSET Rules /\ published \in SUBSET Rules /\ returned \in SUBSET Rules
  BY DEF TypeFits, Wilds, Scratches
<1>2. hasAbsent \in BOOLEAN
  BY DEF TypeFits
<1>3. rd.i \in 1..Len(rd.ev) + 1 /\ (rd.pc # "idle" => rd.ev \in Events)
  BY DEF TypeFits
<1>4. rd.pc \in {"lookup", "inside"} => rd.i <= Len(rd.ev)
  BY DEF TypeFits
<1> DEFINE Again == /\ rd' \in Scratches
                    /\ rd'.pc # "idle" => rd'.ev \in Events
                    /\ rd'.i \in 1..Len(rd'.ev) + 1
                    /\ rd'.pc \in {"lookup", "inside"} => rd'.i <= Len(rd'.ev)
<1>5. SUFFICES Again
  <2>1. UNCHANGED wvars
    BY DEF Reader, Match, LoadVersion, LoadIds, LoadAbsent, LoadWilds, OpenWilds, OpenWild,
     Value, OpenObject, OpenInside, CloseObject, Prepared, Visit, Collect, Finish, Rest, Local
  <2>2. UNCHANGED <<hasWilds, hasAbsent>>
    BY <2>1 DEF wvars, known
  <2>3. hasWilds' \in BOOLEAN /\ hasAbsent' \in BOOLEAN
    BY <2>2 DEF TypeFits
  <2>4. /\ numbered' \in SUBSET Rules /\ published' \in SUBSET Rules
        /\ ended' \in SUBSET Rules /\ returned' \in SUBSET Rules
        /\ paths' \in SUBSET PathNames /\ prefixes' \in SUBSET PathNames
        /\ wilds' \in SUBSET Bases /\ w' = w
    BY <2>1 DEF wvars, known, TypeFits
  <2>5. w' \in Writers /\ (w'.pc # "idle" => w'.rule \in Rules /\ w'.k \in 1..Len(CondsOf[w'.rule]))
    BY <2>4 DEF TypeFits
  <2>6. QED
    BY <2>3, <2>4, <2>5 DEF TypeFits
<1> HIDE DEF Again
<1>6. IdleReader \in Scratches /\ IdleReader.i = 1 /\ IdleReader.ev = <<>> /\ IdleReader.pc = "idle"
  <2>1. [r \in Rules |-> 1] \in [Rules -> Nat]
    OBVIOUS
  <2>2. QED
    BY <2>1 DEF IdleReader, Scratches
<1>n. rd.i \in Nat \ {0} /\ rd.i + 1 \in Nat \ {0}
  BY <1>1 DEF Scratches
<1>7. ASSUME NEW json \in BOOLEAN, NEW ev \in Events, Match(json, ev) PROVE Again
  <2>1. rd' = [IdleReader EXCEPT !.pc = "version", !.json = json, !.ev = ev, !.ready = returned]
    BY <1>7 DEF Match
  <2>2. Len(ev) \in Nat
    BY EventSeq
  <2>3. rd' \in Scratches
    BY <1>1, <1>6, <2>1 DEF Scratches
  <2>4. rd'.pc = "version" /\ rd'.ev = ev /\ rd'.i = 1
    BY <1>6, <2>1 DEF Scratches
  <2>5. QED
    BY <2>2, <2>3, <2>4 DEF Again
<1>8. CASE LoadVersion \/ LoadIds \/ LoadAbsent
  <2>1. /\ rd' \in Scratches /\ rd'.ev = rd.ev /\ rd'.i = rd.i
        /\ rd'.pc \in {"ids", "absent", "wilds"} /\ rd.pc # "idle"
    <3>1. CASE LoadVersion
      BY <1>1, <3>1 DEF LoadVersion, Scratches
    <3>2. CASE LoadIds
      BY <1>1, <3>2 DEF LoadIds, Scratches
    <3>3. CASE LoadAbsent
      BY <1>1, <1>2, <3>3 DEF LoadAbsent, Scratches
    <3>4. QED
      BY <1>8, <3>1, <3>2, <3>3
  <2>2. QED
    BY <1>3, <2>1 DEF Again
<1>9. CASE LoadWilds
  <2>1. << {} >> \in Seq(SUBSET Bases)
    OBVIOUS
  <2>2. <<TRUE>> \in Seq(BOOLEAN)
    OBVIOUS
  <2>3. /\ rd' \in Scratches /\ rd'.ev = rd.ev /\ rd'.i = rd.i
        /\ rd'.pc = "token" /\ rd.pc # "idle"
    BY <1>1, <1>9, <2>1, <2>2 DEF LoadWilds, Scratches, Preparing
  <2>4. QED
    BY <1>3, <2>3 DEF Again
<1>10. CASE OpenWilds
  <2>1. Token.t # "close" => Token.bases \subseteq PathNames
    <3>1. rd.ev \in Events /\ rd.i \in 1..Len(rd.ev)
      BY <1>1, <1>3, <1>10, EventSeq DEF OpenWilds
    <3>2. Token.t # "close" =>
            /\ Token.path \in PathNames /\ Token.bases \subseteq Parts(Token.path)
      BY <3>1, TokenFits DEF Token
    <3>3. QED
      BY <3>2, PathParts
  <2>2. Append(rd.open, {}) \in Seq(SUBSET Bases)
    BY <1>1 DEF Scratches
  <2>3. /\ rd' \in Scratches /\ rd'.ev = rd.ev /\ rd'.i = rd.i
        /\ rd'.pc = "lookup" /\ rd.pc # "idle" /\ rd.i <= Len(rd.ev)
    BY <1>1, <1>10, <2>1, <2>2 DEF OpenWilds, Scratches, Preparing
  <2>4. QED
    BY <1>3, <2>3 DEF Again
<1>w. ASSUME NEW base \in PathNames, OpenWild(base) PROVE Again
  <2>1. [rd.open EXCEPT ![Len(rd.open)] = @ \cup ({base} \cap Wilds)] \in Seq(SUBSET Bases)
    <3> DEFINE new == {base} \cap Wilds
    <3>1. rd.open \in Seq(SUBSET Bases) /\ new \in SUBSET Bases
      BY <1>1 DEF Scratches
    <3> HIDE DEF new
    <3>2. \A x \in 1..Len(rd.open) :
            [rd.open EXCEPT ![Len(rd.open)] = @ \cup new][x] \in SUBSET Bases
      BY <3>1
    <3>3. [rd.open EXCEPT ![Len(rd.open)] = @ \cup new] \in Seq(SUBSET Bases)
      <4> DEFINE put == [rd.open EXCEPT ![Len(rd.open)] = @ \cup new]
      <4>1. Len(rd.open) \in Nat /\ DOMAIN rd.open = 1..Len(rd.open)
        BY <3>1
      <4>2. put = [x \in 1..Len(rd.open) |-> put[x]]
        BY <4>1
      <4>3. \A x \in 1..Len(rd.open) : put[x] \in SUBSET Bases
        BY <3>2
      <4> HIDE DEF put
      <4>4. put \in [1..Len(rd.open) -> SUBSET Bases]
        BY <4>2, <4>3
      <4>5. put \in Seq(SUBSET Bases)
        BY <4>1, <4>4
      <4>6. QED
        BY <4>5 DEF put
    <3>4. QED
      BY <3>3 DEF new
  <2>2. /\ rd' \in Scratches /\ rd'.ev = rd.ev /\ rd'.i = rd.i
        /\ rd'.pc = "lookup" /\ rd.pc = "lookup"
    BY <1>1, <1>w, <2>1 DEF OpenWild, Scratches, Preparing
  <2>3. QED
    BY <1>3, <1>4, <2>2 DEF Again
<1>11. CASE Value
  <2>1. /\ rd.pc = "lookup" /\ rd.i \in 1..Len(rd.ev) /\ rd.ev \in Events
        /\ Token.t = "value" /\ Len(rd.ev) \in Nat
    BY <1>3, <1>4, <1>11, EventSeq DEF Value
  <2>2. Token.path \in PathNames /\ Token.val \in Vals
    BY <2>1, TokenFits DEF Token
  <2>3. {WildPath(b) : b \in Opened} \subseteq PathNames
    <3>1. Opened \subseteq Bases
      BY <1>1 DEF Opened, Scratches
    <3>2. QED
      BY <3>1, WildPathOf
  <2>4. PICK new \in SUBSET (PathNames \X Vals) :
          rd' = [rd EXCEPT !.pc = "token", !.i = @ + 1, !.open = SubSeq(@, 1, Len(@) - 1),
                           !.vals = @ \cup new]
    <3> DEFINE own == IF rd.json /\ Token.path \notin paths THEN {} ELSE {Token.path}
               all == {<<p, Token.val>> : p \in own \cup {WildPath(b) : b \in Opened}}
    <3>1. all \in SUBSET (PathNames \X Vals) /\ {} \in SUBSET (PathNames \X Vals)
      BY <2>2, <2>3
    <3>2. rd' = [rd EXCEPT !.pc = "token", !.i = @ + 1, !.open = SubSeq(@, 1, Len(@) - 1),
                           !.vals = IF Recording THEN @ \cup all ELSE @]
      BY <1>11 DEF Value
    <3> HIDE DEF all
    <3>3. CASE Recording
      BY <3>1, <3>2, <3>3
    <3>4. CASE ~Recording
      <4>1. rd' = [rd EXCEPT !.pc = "token", !.i = @ + 1, !.open = SubSeq(@, 1, Len(@) - 1),
                             !.vals = @ \cup {}]
        BY <3>2, <3>4
      <4>2. QED
        BY <3>1, <4>1
    <3>5. QED
      BY <3>3, <3>4
  <2>5. SubSeq(rd.open, 1, Len(rd.open) - 1) \in Seq(SUBSET Bases)
    BY <1>1 DEF Scratches
  <2>6. /\ rd' \in Scratches /\ rd'.ev = rd.ev /\ rd'.i = rd.i + 1 /\ rd'.pc = "token"
    BY <1>1, <1>n, <2>4, <2>5 DEF Scratches, Preparing
  <2>7. QED
    BY <2>1, <2>6 DEF Again
<1>12. CASE OpenObject
  <2>1. Append(rd.record, Recording /\ (Opened # {} \/ Token.path \in prefixes)) \in Seq(BOOLEAN)
    <3>1. (Recording /\ (Opened # {} \/ Token.path \in prefixes)) \in BOOLEAN
      OBVIOUS
    <3>2. QED
      BY <1>1, <3>1 DEF Scratches
  <2>2. /\ rd' \in Scratches /\ rd'.ev = rd.ev /\ rd'.i = rd.i
        /\ rd'.pc = "inside" /\ rd.pc = "lookup"
    BY <1>1, <1>12, <2>1 DEF OpenObject, Scratches, Preparing
  <2>3. QED
    BY <1>3, <1>4, <2>2 DEF Again
<1>13. CASE OpenInside
  <2>1. /\ Append(rd.open, {Token.path} \cap Wilds) \in Seq(SUBSET Bases)
        /\ Append(rd.open, {}) \in Seq(SUBSET Bases)
    BY <1>1 DEF Scratches
  <2>2. /\ rd' \in Scratches /\ rd'.ev = rd.ev /\ rd'.i = rd.i + 1
        /\ rd'.pc = "token" /\ rd.pc = "inside"
    BY <1>1, <1>n, <1>13, <2>1 DEF OpenInside, Scratches, Preparing
  <2>3. QED
    BY <1>3, <1>4, <2>2, EventSeq DEF Again
<1>14. CASE CloseObject
  <2>1. /\ SubSeq(rd.record, 1, Len(rd.record) - 1) \in Seq(BOOLEAN)
        /\ SubSeq(rd.open, 1, Len(rd.open) - 3) \in Seq(SUBSET Bases)
    BY <1>1 DEF Scratches
  <2>2. /\ rd' \in Scratches /\ rd'.ev = rd.ev /\ rd'.i = rd.i + 1
        /\ rd'.pc = "token" /\ rd.pc = "lookup"
    BY <1>1, <1>n, <1>14, <2>1 DEF CloseObject, Scratches, Preparing
  <2>3. QED
    BY <1>3, <1>4, <2>2, EventSeq DEF Again
<1>15. CASE Prepared \/ Finish
  <2>1. /\ rd' \in Scratches /\ rd'.ev = rd.ev /\ rd'.i = rd.i
        /\ rd'.pc \in {"visit", "done"} /\ rd.pc # "idle"
    <3>1. CASE Prepared
      BY <1>1, <3>1 DEF Prepared, Scratches
    <3>2. CASE Finish
      BY <1>1, <3>2 DEF Finish, Scratches
    <3>3. QED
      BY <1>15, <3>1, <3>2
  <2>2. QED
    BY <1>3, <2>1 DEF Again
<1>16. ASSUME NEW r \in Rules, Visit(r) \/ Collect(r) PROVE Again
  <2>1. [rd.at EXCEPT ![r] = @ + 1] \in [Rules -> Nat] /\ rd.matched \cup {r} \in SUBSET Rules
    BY <1>1 DEF Scratches
  <2>2. /\ rd' \in Scratches /\ rd'.ev = rd.ev /\ rd'.i = rd.i
        /\ rd'.pc = rd.pc /\ rd.pc = "visit"
    <3>1. CASE Visit(r)
      BY <1>1, <2>1, <3>1 DEF Visit, Scratches
    <3>2. CASE Collect(r)
      BY <1>1, <2>1, <3>2 DEF Collect, Scratches
    <3>3. QED
      BY <1>16, <3>1, <3>2
  <2>3. QED
    BY <1>3, <2>2 DEF Again
<1>17. CASE Rest
  BY <1>6, <1>17 DEF Rest, Again
<1>18. QED
  BY <1>7, <1>8, <1>9, <1>10, <1>w, <1>11, <1>12, <1>13, <1>14, <1>15, <1>16, <1>17
     DEF Reader, Events

-----------------------------------------------------------------------------
(* The writer's part.                                                      *)

\* What a concatenation of three sequences holds.
LEMMA ConcatThree ==
    ASSUME NEW S, NEW a \in Seq(S), NEW x \in S, NEW y \in S, NEW z \in S
    PROVE  LET s == a \o <<x, y>> \o <<z>>
           IN  /\ Len(s) = Len(a) + 3 /\ \A i \in 1..Len(a) : s[i] = a[i]
               /\ s[Len(a) + 1] = x /\ s[Len(a) + 2] = y /\ s[Len(a) + 3] = z
  OBVIOUS

\* The same if there is no table and no base in the middle.
LEMMA ConcatOne ==
    ASSUME NEW S, NEW a \in Seq(S), NEW z \in S
    PROVE  LET s == a \o <<>> \o <<z>>
           IN  /\ Len(s) = Len(a) + 1 /\ \A i \in 1..Len(a) : s[i] = a[i]
               /\ s[Len(a) + 1] = z
  OBVIOUS

\* addPath begins with all puts that a path needs.
LEMMA PutsBegin ==
    ASSUME NEW p \in PathNames, PathsFit
    PROVE  PutsLeft(p, Puts(p))
<1>1. /\ PrefixesOf[p] \in Seq(PathNames) /\ Len(PrefixesOf[p]) \in Nat
      /\ BaseOf[p] \in PathNames \cup {NoBase} /\ NoBase \notin Parts(p)
      /\ Parts(p) \subseteq PathNames
  BY PathParts
<1>2. CASE p \in paths
  <2>1. Puts(p) = <<>> /\ Elems(<<>>) = {} /\ Len(<<>>) = 0
    BY <1>2 DEF Puts, Elems
  <2>2. Parts(p) \subseteq prefixes /\ (BaseOf[p] # NoBase => BaseOf[p] \in wilds)
    BY <1>2 DEF PathsFit
  <2>3. QED
    BY <1>2, <2>1, <2>2 DEF PutsLeft
<1>3. CASE p \notin paths
  <2> DEFINE n == Len(PrefixesOf[p])
             S == PutKinds \X (PathNames \cup {NoBase})
             s == Puts(p)
             a == [i \in 1..n |-> <<"prefix", PrefixesOf[p][i]>>]
             wild == BaseOf[p] # NoBase
  <2>1. /\ \A i \in 1..n : s[i] = <<"prefix", PrefixesOf[p][i]>>
        /\ wild => /\ Len(s) = n + 3 /\ s[n + 1] = <<"table", NoBase>>
                   /\ s[n + 2] = <<"wild", BaseOf[p]>> /\ s[n + 3] = <<"path", p>>
        /\ ~wild => Len(s) = n + 1 /\ s[n + 1] = <<"path", p>>
    <3>1. a \in Seq(S) /\ Len(a) = n /\ \A i \in 1..n : a[i] = <<"prefix", PrefixesOf[p][i]>>
      <4>1. \A i \in 1..n : <<"prefix", PrefixesOf[p][i]>> \in S
        BY <1>1 DEF PutKinds
      <4>2. QED
        BY <1>1, <4>1
    <3>2. <<"table", NoBase>> \in S /\ <<"wild", BaseOf[p]>> \in S /\ <<"path", p>> \in S
      BY <1>1 DEF PutKinds
    <3>3. /\ wild => s = a \o << <<"table", NoBase>>, <<"wild", BaseOf[p]>> >> \o << <<"path", p>> >>
          /\ ~wild => s = a \o <<>> \o << <<"path", p>> >>
      BY <1>3 DEF Puts
    <3> HIDE DEF a, S, s
    <3>4. CASE wild
      <4>1. s = a \o << <<"table", NoBase>>, <<"wild", BaseOf[p]>> >> \o << <<"path", p>> >>
        BY <3>3, <3>4
      <4>2. /\ Len(s) = Len(a) + 3 /\ \A i \in 1..Len(a) : s[i] = a[i]
            /\ s[Len(a) + 1] = <<"table", NoBase>> /\ s[Len(a) + 2] = <<"wild", BaseOf[p]>>
            /\ s[Len(a) + 3] = <<"path", p>>
        BY <3>1, <3>2, <4>1, ConcatThree
      <4>3. QED
        BY <3>1, <3>4, <4>2
    <3>5. CASE ~wild
      <4>1. s = a \o <<>> \o << <<"path", p>> >>
        BY <3>3, <3>5
      <4>2. /\ Len(s) = Len(a) + 1 /\ \A i \in 1..Len(a) : s[i] = a[i]
            /\ s[Len(a) + 1] = <<"path", p>>
        BY <3>1, <3>2, <4>1, ConcatOne
      <4>3. QED
        BY <3>1, <3>5, <4>2
    <3>6. QED
      BY <3>4, <3>5
  <2> HIDE DEF s, a
  <2>2. \A i \in 1..Len(s) :
          \/ i <= n /\ s[i] = <<"prefix", PrefixesOf[p][i]>> /\ PrefixesOf[p][i] \in Parts(p)
          \/ wild /\ i = n + 1 /\ s[i] = <<"table", NoBase>>
          \/ wild /\ i = n + 2 /\ s[i] = <<"wild", BaseOf[p]>>
          \/ i = Len(s) /\ s[i] = <<"path", p>>
    <3>1. \A i \in 1..n : PrefixesOf[p][i] \in Parts(p)
      BY DEF Parts, Elems
    <3>2. n \in Nat
      BY <1>1
    <3> HIDE DEF n
    <3>3. \A i \in 1..Len(s) : i <= n \/ (wild /\ i \in {n + 1, n + 2}) \/ i = Len(s)
      BY <2>1, <3>2
    <3>4. QED
      BY <2>1, <3>1, <3>2, <3>3
  <2>3. \A q \in Parts(p) : <<"prefix", q>> \in Elems(s)
    <3>1. TAKE q \in Parts(p)
    <3>2. PICK i \in 1..n : q = PrefixesOf[p][i]
      BY DEF Parts, Elems
    <3>3. s[i] = <<"prefix", q>> /\ i \in 1..Len(s)
      BY <1>1, <2>1, <3>2
    <3>4. QED
      BY <3>3 DEF Elems
  <2>4. <<"path", p>> \in Elems(s) /\ (wild => <<"wild", BaseOf[p]>> \in Elems(s))
    <3>1. Len(s) \in 1..Len(s) /\ s[Len(s)] = <<"path", p>>
      BY <1>1, <2>1
    <3>2. wild => n + 2 \in 1..Len(s)
      BY <1>1, <2>1
    <3>3. QED
      BY <2>1, <3>1, <3>2 DEF Elems
  <2>5. \A i \in 1..Len(s) :
          /\ s[i][1] = "path" => i = Len(s)
          /\ s[i][1] = "wild" => \E j \in 1..i - 1 : s[j][1] = "table"
    <3>1. SUFFICES ASSUME NEW i \in 1..Len(s)
                   PROVE  /\ s[i][1] = "path" => i = Len(s)
                          /\ s[i][1] = "wild" => \E j \in 1..i - 1 : s[j][1] = "table"
      OBVIOUS
    <3>2. s[i][1] = "path" => i = Len(s)
      BY <2>2
    <3>3. s[i][1] = "wild" => wild /\ i = n + 2
      BY <2>2
    <3>4. s[i][1] = "wild" => n + 1 \in 1..i - 1 /\ s[n + 1][1] = "table"
      BY <1>1, <2>1, <3>3
    <3>5. QED
      BY <3>2, <3>4
  <2>6. Elems(s) \subseteq {<<"path", p>>, <<"wild", BaseOf[p]>>, <<"table", NoBase>>}
                          \cup {<<"prefix", q>> : q \in Parts(p)}
    BY <2>2 DEF Elems
  <2>7. BaseOf[p] = NoBase => <<"wild", NoBase>> \notin Elems(s)
    BY <2>2 DEF Elems
  <2>8. QED
    BY <2>3, <2>4, <2>5, <2>6, <2>7 DEF PutsLeft, s
<1>4. QED
  BY <1>2, <1>3

\* One of them done, the others are left.
LEMMA PutsGoOn ==
    ASSUME NEW p \in PathNames, NEW S, NEW puts \in Seq(S), puts # <<>>, PutsLeft(p, puts),
           \/ /\ Head(puts)[1] # "table" /\ hasWilds' = hasWilds
              /\ prefixes' = IF Head(puts)[1] = "prefix" THEN prefixes \cup {Head(puts)[2]} ELSE prefixes
              /\ wilds' = IF Head(puts)[1] = "wild" THEN wilds \cup {Head(puts)[2]} ELSE wilds
              /\ paths' = IF Head(puts)[1] = "path" THEN paths \cup {Head(puts)[2]} ELSE paths
           \/ Head(puts)[1] = "table" /\ hasWilds' /\ UNCHANGED <<paths, prefixes, wilds>>
    PROVE  PutsLeft(p, Tail(puts))'
<1> DEFINE h == Head(puts)
           t == Tail(puts)
<1>1. /\ t \in Seq(S) /\ Len(puts) = Len(t) + 1 /\ Len(t) \in Nat /\ h = puts[1]
      /\ \A i \in 1..Len(t) : i + 1 \in 1..Len(puts) /\ t[i] = puts[i + 1]
  OBVIOUS
<1>2. Elems(puts) = {h} \cup Elems(t)
  <2>1. \A x \in Elems(puts) : x = h \/ x \in Elems(t)
    <3>1. TAKE x \in Elems(puts)
    <3>2. PICK i \in 1..Len(puts) : x = puts[i]
      BY DEF Elems
    <3>3. CASE i = 1
      BY <1>1, <3>2, <3>3
    <3>4. CASE i # 1
      <4>1. i - 1 \in 1..Len(t) /\ t[i - 1] = x
        BY <1>1, <3>2, <3>4
      <4>2. QED
        BY <4>1 DEF Elems
    <3>5. QED
      BY <3>3, <3>4
  <2>2. 1 \in 1..Len(puts)
    BY <1>1
  <2>3. h \in Elems(puts) /\ Elems(t) \subseteq Elems(puts)
    BY <1>1, <2>2 DEF Elems
  <2>4. QED
    BY <2>1, <2>3
<1>3. /\ h \in {<<"path", p>>, <<"wild", BaseOf[p]>>, <<"table", NoBase>>}
              \cup {<<"prefix", q>> : q \in Parts(p)}
      /\ Elems(t) \subseteq {<<"path", p>>, <<"wild", BaseOf[p]>>, <<"table", NoBase>>}
              \cup {<<"prefix", q>> : q \in Parts(p)}
      /\ BaseOf[p] = NoBase => <<"wild", NoBase>> \notin Elems(t)
  BY <1>2 DEF PutsLeft
<1> HIDE DEF h, t
<1>a. /\ h[1] = "prefix" => prefixes' = prefixes \cup {h[2]}
      /\ h[1] = "wild" => wilds' = wilds \cup {h[2]}
      /\ h[1] = "path" => paths' = paths \cup {h[2]}
      /\ prefixes \subseteq prefixes' /\ wilds \subseteq wilds' /\ paths \subseteq paths'
  BY DEF h
<1>4. \A q \in Parts(p) : q \in prefixes' \/ <<"prefix", q>> \in Elems(t)
  <2>1. TAKE q \in Parts(p)
  <2>2. q \in prefixes \/ h = <<"prefix", q>> \/ <<"prefix", q>> \in Elems(t)
    BY <1>2 DEF PutsLeft
  <2>3. QED
    BY <1>a, <2>2
<1>5. BaseOf[p] # NoBase => BaseOf[p] \in wilds' \/ <<"wild", BaseOf[p]>> \in Elems(t)
  <2>1. BaseOf[p] # NoBase =>
          BaseOf[p] \in wilds \/ h = <<"wild", BaseOf[p]>> \/ <<"wild", BaseOf[p]>> \in Elems(t)
    BY <1>2 DEF PutsLeft
  <2>2. QED
    BY <1>a, <2>1
<1>6. p \in paths' \/ <<"path", p>> \in Elems(t)
  <2>1. p \in paths \/ h = <<"path", p>> \/ <<"path", p>> \in Elems(t)
    BY <1>2 DEF PutsLeft
  <2>2. QED
    BY <1>a, <2>1
<1>7. \A i \in 1..Len(t) : t[i][1] = "path" => i = Len(t)
  BY <1>1 DEF PutsLeft
<1>8. \A i \in 1..Len(t) :
        t[i][1] = "wild" => hasWilds' \/ \E j \in 1..i - 1 : t[j][1] = "table"
  <2>1. SUFFICES ASSUME NEW i \in 1..Len(t), t[i][1] = "wild", ~hasWilds'
                 PROVE  \E j \in 1..i - 1 : t[j][1] = "table"
    OBVIOUS
  <2>2. h[1] # "table" /\ ~hasWilds
    BY <2>1 DEF h
  <2>3. PICK j \in 1..i : puts[j][1] = "table"
    <3>1. i + 1 \in 1..Len(puts) /\ puts[i + 1][1] = "wild"
      BY <1>1, <2>1
    <3>2. \E j \in 1..(i + 1) - 1 : puts[j][1] = "table"
      BY <2>2, <3>1 DEF PutsLeft
    <3>3. QED
      BY <3>2
  <2>4. j # 1 /\ j - 1 \in 1..Len(t) /\ j - 1 \in 1..i - 1 /\ t[j - 1] = puts[j]
    BY <1>1, <2>2, <2>3
  <2>5. QED
    BY <2>3, <2>4
<1>9. QED
  BY <1>3, <1>4, <1>5, <1>6, <1>7, <1>8 DEF PutsLeft, t

\* At the beginning no path is known.
LEMMA PathsInit == Init => PathsFit
<1>1. SUFFICES ASSUME Init PROVE PathsFit
  OBVIOUS
<1>2. paths = {} /\ wilds = {} /\ w.pc = "idle"
  BY <1>1 DEF Init, IdleWriter
<1>3. QED
  BY <1>2 DEF PathsFit

\* A path becomes known after its parts, its base and the table of bases.
LEMMA PathsStep ==
    ASSUME TypeFits, PathsFit, Writer
    PROVE  PathsFit'
<1>1. w \in Writers /\ paths \subseteq PathNames
  BY DEF TypeFits
<1>2. w.pc # "idle" => Cond.path \in PathNames /\ w.rule \in Rules
  BY CondPath DEF TypeFits, Cond
<1>3. CASE UNCHANGED known /\ w'.pc # "put"
  BY <1>3 DEF PathsFit, known
<1>4. CASE FollowGroup \/ LinkAbsent
  <2>1. /\ w'.puts = Puts(Cond.path) /\ w.pc # "idle" /\ UNCHANGED known
        /\ w'.rule = w.rule /\ w'.k = w.k /\ w'.pc = "put"
    BY <1>1, <1>4 DEF FollowGroup, LinkAbsent, Writers
  <2>2. Cond' = Cond
    BY <2>1 DEF Cond
  <2>3. PutsLeft(Cond.path, w'.puts)
    BY <1>2, <2>1, PutsBegin
  <2>4. PutsLeft(Cond.path, w.puts)'
    BY <2>1, <2>2, <2>3 DEF PutsLeft, known
  <2>5. QED
    BY <2>1, <2>4 DEF PathsFit, known
<1>5. CASE Put \/ GrowWilds \/ WildsHaveRoom
  <2> DEFINE S == PutKinds \X (PathNames \cup {NoBase})
  <2>1. /\ w.pc = "put" /\ w.puts # <<>> /\ w.puts \in Seq(S)
        /\ w' = [w EXCEPT !.puts = Tail(w.puts)]
    BY <1>1, <1>5 DEF Put, GrowWilds, WildsHaveRoom, Writers
  <2>2. PICK p \in PathNames, puts \in Seq(S) : p = Cond.path /\ puts = w.puts /\ puts # <<>>
    BY <1>2, <2>1
  <2> DEFINE h == Head(puts)
  <2>3. w'.puts = Tail(puts) /\ w'.pc = "put" /\ (Cond.path)' = p
    BY <1>1, <2>1, <2>2 DEF Writers, Cond
  <2>4. \/ /\ h[1] # "table" /\ hasWilds' = hasWilds
           /\ prefixes' = IF h[1] = "prefix" THEN prefixes \cup {h[2]} ELSE prefixes
           /\ wilds' = IF h[1] = "wild" THEN wilds \cup {h[2]} ELSE wilds
           /\ paths' = IF h[1] = "path" THEN paths \cup {h[2]} ELSE paths
        \/ h[1] = "table" /\ hasWilds' /\ UNCHANGED <<paths, prefixes, wilds>>
    BY <1>5, <2>2 DEF Put, GrowWilds, WildsHaveRoom, known
  <2>5. PutsLeft(p, puts)
    BY <2>1, <2>2 DEF PathsFit
  <2> HIDE DEF S
  <2>6. PutsLeft(p, Tail(puts))'
    BY <2>2, <2>4, <2>5, PutsGoOn
  <2>7. PutsLeft(Cond.path, w.puts)'
    BY <2>3, <2>6 DEF PutsLeft
  <2>8. /\ prefixes \subseteq prefixes' /\ wilds \subseteq wilds' /\ (hasWilds => hasWilds')
        /\ paths' # paths => h[1] = "path" /\ paths' = paths \cup {h[2]}
                            /\ UNCHANGED <<prefixes, wilds>>
        /\ wilds' # wilds => h[1] = "wild"
    BY <2>4
  <2>9. h = puts[1] /\ 1 \in 1..Len(puts) /\ h \in Elems(puts)
    BY <2>2 DEF Elems
  <2>10. ASSUME h[1] = "path"
         PROVE  /\ h[2] = p /\ Parts(p) \subseteq prefixes
                /\ BaseOf[p] # NoBase => BaseOf[p] \in wilds
    <3>1. Len(puts) = 1
      BY <2>5, <2>9, <2>10 DEF PutsLeft
    <3>2. h = <<"path", p>>
      BY <2>5, <2>9, <2>10 DEF PutsLeft
    <3>3. \A x \in Elems(puts) : x = <<"path", p>>
      BY <2>9, <3>1, <3>2 DEF Elems
    <3>4. \A q : <<"prefix", q>> \notin Elems(puts) /\ <<"wild", q>> \notin Elems(puts)
      BY <3>3
    <3>5. \A q \in Parts(p) : q \in prefixes
      <4>1. \A q \in Parts(p) : q \in prefixes \/ <<"prefix", q>> \in Elems(puts)
        BY <2>5 DEF PutsLeft
      <4>2. QED
        BY <3>4, <4>1
    <3>6. BaseOf[p] # NoBase => BaseOf[p] \in wilds
      <4>1. BaseOf[p] # NoBase => BaseOf[p] \in wilds \/ <<"wild", BaseOf[p]>> \in Elems(puts)
        BY <2>5 DEF PutsLeft
      <4>2. QED
        BY <3>4, <4>1
    <3>7. h[2] = p
      BY <3>2
    <3>8. QED
      BY <3>5, <3>6, <3>7
  <2>11. h[1] = "wild" => hasWilds
    BY <2>5, <2>9 DEF PutsLeft
  <2>12. \A q \in paths' : Parts(q) \subseteq prefixes' /\ (BaseOf[q] # NoBase => BaseOf[q] \in wilds')
    BY <2>8, <2>10 DEF PathsFit
  <2>13. wilds' # {} => hasWilds'
    BY <2>8, <2>11 DEF PathsFit
  <2>14. QED
    BY <2>7, <2>12, <2>13 DEF PathsFit
<1>6. CASE FollowAbsent \/ NextCond \/ AddRuleNumber \/ PublishVersion \/ Return
           \/ \E r \in Rules : Start(r)
  <2>1. UNCHANGED known
    BY <1>6 DEF FollowAbsent, NextCond, AddRuleNumber, PublishVersion, Return, Start
  <2>2. w'.pc # "put"
    <3>1. CASE \E r \in Rules : Start(r)
      BY <3>1 DEF Start, IdleWriter
    <3>2. CASE FollowAbsent \/ PublishVersion \/ Return
      BY <1>1, <3>2 DEF FollowAbsent, PublishVersion, Return, Writers, IdleWriter
    <3>3. CASE NextCond \/ AddRuleNumber
      BY <1>1, <3>3 DEF NextCond, AddRuleNumber, Writers
    <3>4. QED
      BY <1>6, <3>1, <3>2, <3>3
  <2>3. QED
    BY <1>3, <2>1, <2>2
<1>7. QED
  BY <1>4, <1>5, <1>6 DEF Writer

\* At the beginning there are no rules.
LEMMA RulesInit == Init => RulesFit
  BY DEF Init, RulesFit, IdleWriter

\* What is laid stays.
LEMMA LaidStays ==
    ASSUME Writer
    PROVE  /\ edges \subseteq edges' /\ paths \subseteq paths' /\ (hasAbsent => hasAbsent')
           /\ ended \subseteq ended' /\ published \subseteq published'
           /\ numbered \subseteq numbered' /\ returned \subseteq returned'
           /\ \A r, k : Laid(r, k) => Laid(r, k)'
           /\ \A r : LaidOut(r) => LaidOut(r)'
<1>1. /\ edges \subseteq edges' /\ paths \subseteq paths'
      /\ ended \subseteq ended' /\ published \subseteq published'
      /\ numbered \subseteq numbered' /\ returned \subseteq returned'
  BY DEF Writer, Start, FollowGroup, FollowAbsent, LinkAbsent, Put, GrowWilds, WildsHaveRoom,
     NextCond, AddRuleNumber, PublishVersion, Return, known
<1>2. hasAbsent' = hasAbsent \/ hasAbsent' = TRUE
  BY DEF Writer, Start, FollowGroup, FollowAbsent, LinkAbsent, Put, GrowWilds, WildsHaveRoom,
     NextCond, AddRuleNumber, PublishVersion, Return, known
<1>3. \A r, k : Laid(r, k) => Laid(r, k)'
  BY <1>1, <1>2 DEF Laid
<1>4. QED
  BY <1>1, <1>2, <1>3 DEF LaidOut

\* A version is published, and a call returns, when the rule is complete.
LEMMA RulesStep ==
    ASSUME TypeFits, PathsFit, RulesFit, Writer
    PROVE  RulesFit'
<1>1. w \in Writers
  BY DEF TypeFits
<1>2. w.pc # "idle" => /\ w.rule \in Rules /\ w.k \in 1..Len(CondsOf[w.rule])
                       /\ Len(CondsOf[w.rule]) \in Nat
  BY CondPath DEF TypeFits
<1> DEFINE Published == \A r \in published \cup returned : r \in ended /\ LaidOut(r)
           Returned == \A r \in returned : r \in numbered /\ (Via[r] = "replace" => r \in published)
           Behind == w.pc # "idle" => w.rule \in numbered /\ \A k \in 1..w.k - 1 : Laid(w.rule, k)
           Absent == w.pc \in {"absent", "put"} /\ Cond.kind = "absent" => hasAbsent
           Whole == w.pc \in {"rule", "version", "return"} => LaidOut(w.rule)
           Ended == w.pc \in {"version", "return"} => w.rule \in ended
           Version == w.pc = "return" /\ Via[w.rule] = "replace" => w.rule \in published
<1>3. Published /\ Returned /\ Behind /\ Absent /\ Whole /\ Ended /\ Version
  BY DEF RulesFit
<1>4. SUFFICES (Published /\ Returned /\ Behind /\ Absent /\ Whole /\ Ended /\ Version)'
  BY DEF RulesFit
<1>5. Published' /\ Returned'
  <2>1. published' # published => w.pc = "version" /\ published' = published \cup {w.rule}
    BY DEF Writer, Start, FollowGroup, FollowAbsent, LinkAbsent, Put, GrowWilds, WildsHaveRoom,
       NextCond, AddRuleNumber, PublishVersion, Return, known
  <2>2. returned' # returned => w.pc = "return" /\ returned' = returned \cup {w.rule}
    BY DEF Writer, Start, FollowGroup, FollowAbsent, LinkAbsent, Put, GrowWilds, WildsHaveRoom,
       NextCond, AddRuleNumber, PublishVersion, Return, known
  <2>3. QED
    BY <1>3, <2>1, <2>2, LaidStays
<1>6. ASSUME NEW r \in Rules, Start(r) PROVE (Behind /\ Absent /\ Whole /\ Ended /\ Version)'
  <2>1. w'.pc = "cond" /\ w'.rule = r /\ w'.k = 1 /\ r \in numbered'
    BY <1>6 DEF Start, IdleWriter
  <2>2. QED
    BY <2>1
<1>7. CASE FollowGroup \/ FollowAbsent \/ LinkAbsent
  <2>1. /\ w'.pc \in {"put", "absent"} /\ w'.rule = w.rule /\ w'.k = w.k /\ w.pc # "idle"
        /\ Cond.kind = "absent" => hasAbsent'
    BY <1>1, <1>3, <1>7 DEF FollowGroup, FollowAbsent, LinkAbsent, Writers
  <2>2. Cond' = Cond
    BY <2>1 DEF Cond
  <2>3. QED
    BY <1>3, <1>5, <2>1, <2>2, LaidStays
<1>8. CASE Put \/ GrowWilds \/ WildsHaveRoom
  <2>1. w'.pc = "put" /\ w.pc = "put" /\ w'.rule = w.rule /\ w'.k = w.k /\ hasAbsent' = hasAbsent
    BY <1>1, <1>8 DEF Put, GrowWilds, WildsHaveRoom, Writers
  <2>2. Cond' = Cond
    BY <2>1 DEF Cond
  <2>3. QED
    BY <1>3, <1>5, <2>1, <2>2, LaidStays
<1>9. CASE NextCond
  <2>1. PICK r \in Rules, m \in Nat : r = w.rule /\ m = w.k
    BY <1>1, <1>2, <1>9 DEF NextCond, Writers
  <2>2. /\ w.pc = "put" /\ w.puts = <<>> /\ <<r, m>> \in edges'
        /\ w'.rule = r /\ hasAbsent' = hasAbsent
        /\ \/ w'.pc = "cond" /\ w'.k = m + 1
           \/ w'.pc = "rule" /\ w'.k = m /\ m = Len(CondsOf[r])
    BY <1>1, <1>2, <1>9, <2>1 DEF NextCond, Writers
  <2>3. CondsOf[r][m].path \in paths'
    <3>1. PutsLeft(Cond.path, <<>>) /\ Elems(<<>>) = {}
      BY <2>2 DEF PathsFit, Elems
    <3>2. Cond.path \in paths
      BY <3>1 DEF PutsLeft
    <3>3. QED
      BY <2>1, <3>2, LaidStays DEF Cond
  <2>4. CondsOf[r][m].kind = "absent" => hasAbsent'
    BY <1>3, <2>1, <2>2 DEF Cond
  <2>5. Laid(r, m)'
    BY <2>2, <2>3, <2>4 DEF Laid
  <2>6. ASSUME NEW k \in 1..m PROVE Laid(r, k)'
    <3>1. CASE k = m
      BY <2>5, <3>1
    <3>2. CASE k # m
      <4>1. k \in 1..m - 1
        BY <3>2
      <4>2. Laid(r, k)
        BY <1>3, <2>1, <2>2, <4>1
      <4>3. QED
        BY <4>2, LaidStays
    <3>3. QED
      BY <3>1, <3>2
  <2>7. r \in numbered'
    BY <1>3, <2>1, <2>2, LaidStays
  <2>8. \A k \in 1..w'.k - 1 : Laid(r, k)'
    <3>1. \A k \in 1..w'.k - 1 : k \in 1..m
      BY <2>2
    <3>2. QED
      BY <2>6, <3>1
  <2>9. w'.pc = "rule" => LaidOut(r)'
    BY <2>2, <2>6 DEF LaidOut
  <2>10. Behind'
    BY <2>2, <2>7, <2>8
  <2>11. Whole'
    BY <2>2, <2>9
  <2>12. QED
    BY <1>5, <2>2, <2>10, <2>11
<1>10. CASE AddRuleNumber \/ PublishVersion
  <2>1. /\ w.pc \in {"rule", "version"} /\ w'.pc \in {"version", "return"} /\ w'.rule = w.rule
        /\ w'.k = w.k /\ w.rule \in ended'
        /\ w'.pc = "return" => Via[w.rule] # "replace" \/ w.rule \in published'
    BY <1>1, <1>3, <1>10 DEF AddRuleNumber, PublishVersion, Writers
  <2>2. QED
    BY <1>3, <1>5, <2>1, LaidStays
<1>11. CASE Return
  BY <1>5, <1>11 DEF Return, IdleWriter
<1>12. QED
  BY <1>3, <1>5, <1>6, <1>7, <1>8, <1>9, <1>10, <1>11 DEF Writer

-----------------------------------------------------------------------------
(* Objects around a token.                                                 *)

\* No object is open at the first token.
LEMMA DepthFirst ==
    ASSUME NEW ev
    PROVE  Depth(ev, 1) = 0 /\ Enclosing(ev, 1) = {}
<1>1. 1..1 - 1 = {}
  OBVIOUS
<1>2. {j \in 1..1 - 1 : ev[j].t = "open"} = {} /\ {j \in 1..1 - 1 : ev[j].t = "close"} = {}
  BY <1>1
<1>3. Cardinality({}) = 0
  BY FS_EmptySet
<1>4. QED
  BY <1>1, <1>2, <1>3 DEF Depth, Enclosing

\* The depth changes with objects only.
LEMMA DepthNext ==
    ASSUME NEW ev, NEW i \in Nat \ {0}
    PROVE  /\ Depth(ev, i) \in Int
           /\ ev[i].t = "open" => Depth(ev, i + 1) = Depth(ev, i) + 1
           /\ ev[i].t = "close" => Depth(ev, i + 1) = Depth(ev, i) - 1
           /\ ev[i].t \notin {"open", "close"} => Depth(ev, i + 1) = Depth(ev, i)
<1> DEFINE C(t, n) == {j \in 1..n - 1 : ev[j].t = t}
<1>1. \A t : /\ IsFiniteSet(C(t, i)) /\ Cardinality(C(t, i)) \in Nat
             /\ Cardinality(C(t, i + 1)) =
                   (IF ev[i].t = t THEN Cardinality(C(t, i)) + 1 ELSE Cardinality(C(t, i)))
  <2>1. TAKE t
  <2>2. IsFiniteSet(1..i - 1) /\ C(t, i) \subseteq 1..i - 1 /\ i \notin C(t, i)
    BY FS_Interval
  <2>3. IsFiniteSet(C(t, i)) /\ Cardinality(C(t, i)) \in Nat
    BY <2>2, FS_Subset, FS_CardinalityType
  <2>4. C(t, i + 1) = IF ev[i].t = t THEN C(t, i) \cup {i} ELSE C(t, i)
    OBVIOUS
  <2>5. Cardinality(C(t, i) \cup {i}) = Cardinality(C(t, i)) + 1
    BY <2>2, <2>3, FS_AddElement
  <2> HIDE DEF C
  <2>6. QED
    BY <2>3, <2>4, <2>5
<1>2. \A n : Depth(ev, n) = Cardinality(C("open", n)) - Cardinality(C("close", n))
  BY DEF Depth
<1> HIDE DEF C
<1>3. QED
  BY <1>1, <1>2

\* An enclosing object is an earlier token, at a smaller depth.
LEMMA EnclosingFits ==
    ASSUME NEW ev, NEW i \in Nat \ {0}, NEW j \in Enclosing(ev, i)
    PROVE  j \in 1..i - 1 /\ j \in Nat \ {0} /\ ev[j].t = "open" /\ Depth(ev, j) < Depth(ev, i)
  BY DEF Enclosing

\* An object encloses the tokens up to the one that closes it.
LEMMA EnclosingNext ==
    ASSUME NEW ev, NEW i \in Nat \ {0}
    PROVE  /\ ev[i].t = "value" => Enclosing(ev, i + 1) = Enclosing(ev, i)
           /\ ev[i].t = "open" => Enclosing(ev, i + 1) = Enclosing(ev, i) \cup {i}
           /\ ev[i].t = "close" =>
                 Enclosing(ev, i + 1) = {j \in Enclosing(ev, i) : Depth(ev, j) < Depth(ev, i) - 1}
<1>1. /\ Depth(ev, i) \in Int
      /\ ev[i].t = "open" => Depth(ev, i + 1) = Depth(ev, i) + 1
      /\ ev[i].t = "close" => Depth(ev, i + 1) = Depth(ev, i) - 1
      /\ ev[i].t = "value" => Depth(ev, i + 1) = Depth(ev, i)
  BY DepthNext
<1>2. \A j \in 1..i - 1 : Depth(ev, j) \in Int
  BY DepthNext
<1>3. \A j \in 1..i - 1 : j \in Enclosing(ev, i + 1)
                           <=> j \in Enclosing(ev, i) /\ Depth(ev, j) < Depth(ev, i + 1)
  <2>1. TAKE j \in 1..i - 1
  <2>2. \A k : k \in j + 1..i + 1 <=> k \in j + 1..i \/ k = i + 1
    OBVIOUS
  <2>3. j \in 1..(i + 1) - 1
    OBVIOUS
  <2>4. QED
    BY <2>2, <2>3 DEF Enclosing
<1>4. i \in Enclosing(ev, i + 1) <=> ev[i].t = "open" /\ Depth(ev, i) < Depth(ev, i + 1)
  <2>1. i \in 1..(i + 1) - 1 /\ \A k : k \in i + 1..i + 1 <=> k = i + 1
    OBVIOUS
  <2>2. QED
    BY <2>1 DEF Enclosing
<1>5. /\ Enclosing(ev, i) \subseteq 1..i - 1 /\ Enclosing(ev, i + 1) \subseteq (1..i - 1) \cup {i}
      /\ \A j \in Enclosing(ev, i) : Depth(ev, j) < Depth(ev, i)
  BY DEF Enclosing
<1>6. CASE ev[i].t = "value"
  BY <1>1, <1>2, <1>3, <1>4, <1>5, <1>6
<1>7. CASE ev[i].t = "open"
  BY <1>1, <1>2, <1>3, <1>4, <1>5, <1>7
<1>8. CASE ev[i].t = "close"
  BY <1>1, <1>2, <1>3, <1>4, <1>5, <1>8
<1>9. QED
  BY <1>6, <1>7, <1>8

-----------------------------------------------------------------------------
(* The parser's stacks.                                                    *)

\* A rule about p that needs a value at y, or below it, needs what is in the
\* objects around it.
LEMMA WantedAbove ==
    ASSUME NEW p \in PathNames, NEW y \in PathNames, y = p \/ Wanted(p, y), NEW q \in Parts(y)
    PROVE  Wanted(p, q)
<1>1. /\ Parts(y) \subseteq PathNames /\ NoBase \notin Parts(y)
      /\ BaseOf[p] # NoBase => BaseOf[p] \in Parts(p)
  BY PathParts
<1>2. CASE y = p
  BY <1>2 DEF Wanted
<1>3. CASE y \in Parts(p)
  <2>1. Parts(y) \subseteq Parts(p)
    BY <1>3, PathsAssumption
  <2>2. QED
    BY <2>1 DEF Wanted
<1>4. CASE BaseOf[p] \in Parts(y)
  <2>1. BaseOf[p] \in Parts(p)
    BY <1>1, <1>4
  <2>2. BaseOf[p] = q \/ BaseOf[p] \in Parts(q) \/ q \in Parts(BaseOf[p])
    BY <1>4, PathsAssumption
  <2>3. Parts(BaseOf[p]) \subseteq Parts(p)
    BY <2>1, PathsAssumption
  <2>4. QED
    BY <2>1, <2>2, <2>3 DEF Wanted
<1>5. QED
  BY <1>2, <1>3, <1>4 DEF Wanted

\* The path of an object around a token is a part of the token's path.
LEMMA EnclosingPath ==
    ASSUME NEW ev \in Events, NEW i \in 1..Len(ev), ev[i].t # "close", NEW j \in Enclosing(ev, i)
    PROVE  /\ ev[j].path \in Parts(ev[i].path) /\ ev[j].bases \subseteq Parts(ev[i].path)
           /\ j \in 1..Len(ev) /\ ev[j].t = "open" /\ ev[j].path \in PathNames
           /\ ev[j].bases \subseteq Parts(ev[j].path)
<1>1. i \in Nat \ {0} /\ Len(ev) \in Nat
  BY EventSeq
<1>2. j \in 1..i - 1 /\ ev[j].t = "open"
  BY <1>1, EnclosingFits
<1>3. j \in 1..Len(ev)
  BY <1>1, <1>2
<1>4. QED
  BY <1>2, <1>3, TokenFits

\* Values in an object are recorded if a rule needs them.
LEMMA RecordedThere ==
    ASSUME NEW ev \in Events, NEW i \in 1..Len(ev), ev[i].t # "close", Depth(ev, i) \in Nat,
           NEW open, NEW record, NEW need \in SUBSET PathNames, Stack(ev, i, open, record, need),
           NEW p \in need, ev[i].path = p \/ Wanted(p, ev[i].path)
    PROVE  record[Depth(ev, i) + 1] = TRUE
<1> DEFINE d == Depth(ev, i)
<1>1. CASE d = 0
  BY <1>1 DEF Stack
<1>2. CASE d # 0
  <2>1. d - 1 \in 0..d - 1
    BY <1>2
  <2>2. PICK j \in Enclosing(ev, i) : Depth(ev, j) = d - 1
    BY <2>1 DEF Stack
  <2>3. ev[j].path \in Parts(ev[i].path) /\ ev[i].path \in PathNames
    BY EnclosingPath, TokenFits
  <2>4. Wanted(p, ev[j].path)
    BY <2>3, WantedAbove
  <2>5. record[Depth(ev, j) + 2] = TRUE
    BY <2>4 DEF Stack
  <2>6. Depth(ev, j) + 2 = d + 1
    BY <2>2
  <2>7. QED
    BY <2>5, <2>6
<1>3. QED
  BY <1>1, <1>2

\* The half of an integer.
LEMMA Halves ==
    ASSUME NEW y \in Int
    PROVE  \E q \in Int : 2 * q <= y /\ y <= 2 * q + 1
<1> DEFINE q == y \div 2
<1>1. 2 * q <= y /\ y <= 2 * q + 1 /\ q \in Int
  OBVIOUS
<1> HIDE DEF q
<1>2. QED
  BY <1>1

\* All wildcard paths on the stacks are above the token, and those that a rule
\* needs are on them.
LEMMA OpenedThere ==
    ASSUME NEW ev \in Events, NEW i \in 1..Len(ev), ev[i].t # "close", Depth(ev, i) \in Nat,
           NEW open \in Seq(SUBSET Bases), NEW record, NEW need \in SUBSET PathNames,
           Stack(ev, i, open, record, need),
           Len(open) = 2 * Depth(ev, i) + 2,
           open[2 * Depth(ev, i) + 2] \subseteq ev[i].bases,
           \A p \in need : BaseOf[p] \in ev[i].bases => BaseOf[p] \in open[2 * Depth(ev, i) + 2]
    PROVE  LET opened == UNION {open[x] : x \in 1..Len(open)}
           IN  /\ opened \subseteq Parts(ev[i].path) \cap Bases
               /\ \A p \in need : BaseOf[p] \in Parts(ev[i].path) => BaseOf[p] \in opened
<1> DEFINE d == Depth(ev, i)
           opened == UNION {open[x] : x \in 1..Len(open)}
<1>1. /\ ev[i].path \in PathNames /\ ev[i].bases \subseteq Parts(ev[i].path)
      /\ Parts(ev[i].path) = ev[i].bases \cup UNION {ev[j].bases \cup {ev[j].path} : j \in Enclosing(ev, i)}
  BY TokenFits
<1>2. ASSUME NEW x \in 1..Len(open) PROVE open[x] \subseteq Parts(ev[i].path) \cap Bases
  <2>1. open[x] \subseteq Bases
    OBVIOUS
  <2>2. CASE x = 1
    BY <2>2 DEF Stack
  <2>3. CASE x = 2 * d + 2
    BY <1>1, <2>1, <2>3
  <2>4. CASE x \notin {1, 2 * d + 2}
    <3>1. PICK m \in 0..d - 1 : x = 2 * m + 2 \/ x = 2 * m + 3
      <4>1. x \in 2..2 * d + 1
        BY <2>4
      <4>2. PICK m \in Int : 2 * m <= x - 2 /\ x - 2 <= 2 * m + 1
        <5>1. x - 2 \in Int
          BY <4>1
        <5>2. QED
          BY <5>1, Halves
      <4>3. m \in 0..d - 1 /\ (x = 2 * m + 2 \/ x = 2 * m + 3)
        BY <4>1, <4>2
      <4>4. QED
        BY <4>3
    <3>2. PICK j \in Enclosing(ev, i) :
            open[2 * m + 2] \subseteq ev[j].bases /\ open[2 * m + 3] \subseteq {ev[j].path}
      BY DEF Stack
    <3>3. ev[j].path \in Parts(ev[i].path) /\ ev[j].bases \subseteq Parts(ev[i].path)
      BY EnclosingPath
    <3>4. QED
      BY <2>1, <3>1, <3>2, <3>3
  <2>5. QED
    BY <2>2, <2>3, <2>4
<1>3. ASSUME NEW p \in need, BaseOf[p] \in Parts(ev[i].path) PROVE BaseOf[p] \in opened
  <2>1. CASE BaseOf[p] \in ev[i].bases
    <3>1. 2 * d + 2 \in 1..Len(open) /\ BaseOf[p] \in open[2 * d + 2]
      BY <2>1
    <3>2. QED
      BY <3>1
  <2>2. CASE \E j \in Enclosing(ev, i) : BaseOf[p] \in ev[j].bases \cup {ev[j].path}
    <3>1. PICK j \in Enclosing(ev, i) : BaseOf[p] \in ev[j].bases \cup {ev[j].path}
      BY <2>2
    <3>2. /\ ev[j].bases \subseteq Parts(ev[j].path) /\ ev[j].path \in Parts(ev[i].path)
          /\ ev[j].path \in PathNames
      BY EnclosingPath
    <3>3. BaseOf[p] # NoBase /\ BaseOf[p] \in Parts(p)
      BY <1>1, <1>3, PathParts
    <3>4. Wanted(p, ev[j].path)
      BY <3>1, <3>2, <3>3 DEF Wanted
    <3> DEFINE m == Depth(ev, j)
    <3>5. m \in Nat /\ m < d
      <4>1. i \in Nat \ {0}
        OBVIOUS
      <4>2. m < d /\ j \in Nat \ {0}
        BY <4>1, EnclosingFits
      <4>3. m \in Int
        BY <4>2, DepthNext
      <4>4. m >= 0
        BY DEF Stack
      <4>5. QED
        BY <4>2, <4>3, <4>4
    <3>6. BaseOf[p] \in open[2 * m + 2] \/ BaseOf[p] \in open[2 * m + 3]
      BY <3>1, <3>4 DEF Stack
    <3>7. 2 * m + 2 \in 1..Len(open) /\ 2 * m + 3 \in 1..Len(open)
      BY <3>5
    <3>8. QED
      BY <3>6, <3>7
  <2>3. QED
    BY <1>1, <1>3, <2>1, <2>2
<1>4. QED
  BY <1>2, <1>3

\* The stacks before the first token.
LEMMA StackStart ==
    ASSUME NEW ev, NEW need
    PROVE  Stack(ev, 1, << {} >>, <<TRUE>>, need) /\ Depth(ev, 1) = 0
  BY DepthFirst DEF Stack

\* What is above the enclosing objects does not matter.
LEMMA StackAgrees ==
    ASSUME NEW ev, NEW i \in Nat \ {0}, NEW open, NEW record, NEW need,
           Depth(ev, i) \in Nat, Stack(ev, i, open, record, need), NEW open2, NEW record2,
           \A x \in 1..2 * Depth(ev, i) + 1 : open2[x] = open[x],
           \A x \in 1..Depth(ev, i) + 1 : record2[x] = record[x]
    PROVE  Stack(ev, i, open2, record2, need)
<1> DEFINE d == Depth(ev, i)
<1>1. open2[1] = {} /\ record2[1] = TRUE /\ \A j \in Enclosing(ev, i) : Depth(ev, j) \in Nat
  BY DEF Stack
<1>2. ASSUME NEW m \in 0..d - 1
      PROVE  \E j \in Enclosing(ev, i) :
                /\ Depth(ev, j) = m
                /\ open2[2 * m + 2] \subseteq ev[j].bases
                /\ open2[2 * m + 3] \subseteq {ev[j].path}
  <2>1. open2[2 * m + 2] = open[2 * m + 2] /\ open2[2 * m + 3] = open[2 * m + 3]
    <3>1. 2 * m + 2 \in 1..2 * d + 1 /\ 2 * m + 3 \in 1..2 * d + 1
      OBVIOUS
    <3>2. QED
      BY <3>1
  <2>2. QED
    BY <2>1 DEF Stack
<1>3. ASSUME NEW j \in Enclosing(ev, i), NEW p \in need, Wanted(p, ev[j].path)
      PROVE  /\ record2[Depth(ev, j) + 2] = TRUE
             /\ BaseOf[p] \in ev[j].bases => BaseOf[p] \in open2[2 * Depth(ev, j) + 2]
             /\ BaseOf[p] = ev[j].path => BaseOf[p] \in open2[2 * Depth(ev, j) + 3]
  <2> DEFINE m == Depth(ev, j)
  <2>1. m \in Nat /\ m < d
    BY <1>1, EnclosingFits
  <2>2. /\ record[m + 2] = TRUE
        /\ BaseOf[p] \in ev[j].bases => BaseOf[p] \in open[2 * m + 2]
        /\ BaseOf[p] = ev[j].path => BaseOf[p] \in open[2 * m + 3]
    BY <1>3 DEF Stack
  <2> HIDE DEF m
  <2>3. /\ open2[2 * m + 2] = open[2 * m + 2] /\ open2[2 * m + 3] = open[2 * m + 3]
        /\ record2[m + 2] = record[m + 2]
    <3>1. /\ 2 * m + 2 \in 1..2 * d + 1 /\ 2 * m + 3 \in 1..2 * d + 1
          /\ m + 2 \in 1..d + 1
      BY <2>1
    <3>2. QED
      BY <3>1
  <2>4. QED
    BY <2>2, <2>3 DEF m
<1>4. QED
  BY <1>1, <1>2, <1>3 DEF Stack

\* After a value.
LEMMA StackValue ==
    ASSUME NEW ev, NEW i \in Nat \ {0}, ev[i].t = "value", NEW open, NEW record, NEW need,
           Stack(ev, i, open, record, need)
    PROVE  Stack(ev, i + 1, open, record, need)
<1>1. Depth(ev, i + 1) = Depth(ev, i) /\ Enclosing(ev, i + 1) = Enclosing(ev, i)
  BY DepthNext, EnclosingNext
<1>2. QED
  BY <1>1 DEF Stack

\* After the beginning of an object, with what its key and its path have opened.
LEMMA StackOpen ==
    ASSUME NEW ev, NEW i \in Nat \ {0}, ev[i].t = "open", NEW open, NEW record, NEW need,
           Depth(ev, i) \in Nat, Stack(ev, i, open, record, need),
           open[2 * Depth(ev, i) + 2] \subseteq ev[i].bases,
           open[2 * Depth(ev, i) + 3] \subseteq {ev[i].path},
           \A p \in need : Wanted(p, ev[i].path) =>
              /\ record[Depth(ev, i) + 2] = TRUE
              /\ BaseOf[p] \in ev[i].bases => BaseOf[p] \in open[2 * Depth(ev, i) + 2]
              /\ BaseOf[p] = ev[i].path => BaseOf[p] \in open[2 * Depth(ev, i) + 3]
    PROVE  Stack(ev, i + 1, open, record, need)
<1> DEFINE d == Depth(ev, i)
<1>1. Depth(ev, i + 1) = d + 1 /\ Enclosing(ev, i + 1) = Enclosing(ev, i) \cup {i}
  BY DepthNext, EnclosingNext
<1>2. /\ open[1] = {} /\ record[1] = TRUE
      /\ \A j \in Enclosing(ev, i + 1) : Depth(ev, j) \in Nat
  BY <1>1 DEF Stack
<1>3. ASSUME NEW m \in 0..Depth(ev, i + 1) - 1
      PROVE  \E j \in Enclosing(ev, i + 1) :
                /\ Depth(ev, j) = m
                /\ open[2 * m + 2] \subseteq ev[j].bases
                /\ open[2 * m + 3] \subseteq {ev[j].path}
  <2>1. CASE m = d
    BY <1>1, <2>1
  <2>2. CASE m # d
    <3>1. m \in 0..d - 1
      BY <1>1, <2>2
    <3>2. QED
      BY <1>1, <3>1 DEF Stack
  <2>3. QED
    BY <2>1, <2>2
<1>4. ASSUME NEW j \in Enclosing(ev, i + 1), NEW p \in need, Wanted(p, ev[j].path)
      PROVE  /\ record[Depth(ev, j) + 2] = TRUE
             /\ BaseOf[p] \in ev[j].bases => BaseOf[p] \in open[2 * Depth(ev, j) + 2]
             /\ BaseOf[p] = ev[j].path => BaseOf[p] \in open[2 * Depth(ev, j) + 3]
  BY <1>1, <1>4 DEF Stack
<1>5. QED
  BY <1>2, <1>3, <1>4 DEF Stack

\* After the end of an object.
LEMMA StackClose ==
    ASSUME NEW ev, NEW i \in Nat \ {0}, ev[i].t = "close", NEW open, NEW record, NEW need,
           Depth(ev, i) \in Nat \ {0}, Stack(ev, i, open, record, need)
    PROVE  Stack(ev, i + 1, open, record, need) /\ Depth(ev, i + 1) = Depth(ev, i) - 1
<1> DEFINE d == Depth(ev, i)
<1>1. /\ Depth(ev, i + 1) = d - 1
      /\ Enclosing(ev, i + 1) = {j \in Enclosing(ev, i) : Depth(ev, j) < d - 1}
  BY DepthNext, EnclosingNext
<1>2. /\ open[1] = {} /\ record[1] = TRUE
      /\ \A j \in Enclosing(ev, i + 1) : Depth(ev, j) \in Nat
  BY <1>1 DEF Stack
<1>3. ASSUME NEW m \in 0..Depth(ev, i + 1) - 1
      PROVE  \E j \in Enclosing(ev, i + 1) :
                /\ Depth(ev, j) = m
                /\ open[2 * m + 2] \subseteq ev[j].bases
                /\ open[2 * m + 3] \subseteq {ev[j].path}
  <2>1. m \in 0..d - 1 /\ m < d - 1
    BY <1>1
  <2>2. QED
    BY <1>1, <2>1 DEF Stack
<1>4. ASSUME NEW j \in Enclosing(ev, i + 1), NEW p \in need, Wanted(p, ev[j].path)
      PROVE  /\ record[Depth(ev, j) + 2] = TRUE
             /\ BaseOf[p] \in ev[j].bases => BaseOf[p] \in open[2 * Depth(ev, j) + 2]
             /\ BaseOf[p] = ev[j].path => BaseOf[p] \in open[2 * Depth(ev, j) + 3]
  BY <1>1, <1>4 DEF Stack
<1>5. QED
  BY <1>1, <1>2, <1>3, <1>4 DEF Stack

-----------------------------------------------------------------------------
(* The reader's part.                                                      *)

\* The rules a call is sure of are complete.
LEMMA SureRules ==
    ASSUME TypeFits, WriterFits, LoadsFit, NEW r \in Sure
    PROVE  /\ r \in Rules /\ r \in ended /\ LaidOut(r)
           /\ \A c \in Elems(CondsOf[r]) : c.path \in SurePaths
<1>1. r \in published \cup returned
  BY DEF Sure, LoadsFit
<1>2. r \in Rules
  BY <1>1 DEF TypeFits
<1>3. QED
  BY <1>1, <1>2 DEF WriterFits, RulesFit, SurePaths

\* So their paths are known, with what leads to their values.
LEMMA SureKnown ==
    ASSUME TypeFits, WriterFits, LoadsFit
    PROVE  /\ SurePaths \in SUBSET PathNames
           /\ \A p \in SurePaths :
                 /\ p \in PathNames /\ p \in paths /\ Parts(p) \subseteq prefixes
                 /\ BaseOf[p] # NoBase => BaseOf[p] \in wilds /\ hasWilds
<1>1. ASSUME NEW p \in SurePaths
      PROVE  /\ p \in PathNames /\ p \in paths /\ Parts(p) \subseteq prefixes
             /\ BaseOf[p] # NoBase => BaseOf[p] \in wilds /\ hasWilds
  <2>1. PICK r \in Sure : \E c \in Elems(CondsOf[r]) : p = c.path
    BY DEF SurePaths
  <2>2. PICK c \in Elems(CondsOf[r]) : p = c.path
    BY <2>1
  <2>3. r \in Rules /\ LaidOut(r)
    BY SureRules
  <2>4. PICK k \in 1..Len(CondsOf[r]) : c = CondsOf[r][k]
    BY DEF Elems
  <2>5. p \in paths
    BY <2>3, <2>4, <2>2 DEF LaidOut, Laid
  <2>6. p \in PathNames
    BY <2>5 DEF TypeFits
  <2>7. QED
    BY <2>5, <2>6 DEF WriterFits, PathsFit
<1>2. QED
  BY <1>1

\* Steps of the writer leave a call alone, but for the table it loaded.
LEMMA ReaderKept ==
    ASSUME TypeFits, ReaderFits, Writer
    PROVE  ReaderFits'
<1>1. \/ rd' = rd
      \/ rd.table = "current" /\ rd' = [rd EXCEPT !.table = "old", !.wilds = wilds]
  BY DEF Writer, Start, FollowGroup, FollowAbsent, LinkAbsent, Put, GrowWilds, WildsHaveRoom,
     NextCond, AddRuleNumber, PublishVersion, Return
<1>2. /\ rd'.pc = rd.pc /\ rd'.ev = rd.ev /\ rd'.i = rd.i /\ rd'.version = rd.version
      /\ rd'.limit = rd.limit /\ rd'.absent = rd.absent /\ rd'.open = rd.open
      /\ rd'.dots = rd.dots /\ rd'.record = rd.record /\ rd'.vals = rd.vals /\ rd'.at = rd.at
      /\ rd'.ready = rd.ready /\ rd'.matched = rd.matched
  <2>1. rd \in Scratches
    BY DEF TypeFits
  <2>2. CASE rd' = rd
    BY <2>2
  <2>3. CASE rd' = [rd EXCEPT !.table = "old", !.wilds = wilds]
    BY <2>1, <2>3 DEF Scratches
  <2>4. QED
    BY <1>1, <2>2, <2>3
<1>3. wilds \subseteq wilds'
  BY DEF Writer, Start, FollowGroup, FollowAbsent, LinkAbsent, Put, GrowWilds, WildsHaveRoom,
     NextCond, AddRuleNumber, PublishVersion, Return, known
<1>4. Wilds \subseteq Wilds' /\ (rd.table # "nil" => rd'.table # "nil")
  <2>1. CASE rd' = rd
    BY <1>3, <2>1 DEF Wilds
  <2>2. CASE rd.table = "current" /\ rd' = [rd EXCEPT !.table = "old", !.wilds = wilds]
    <3>1. rd'.table = "old" /\ rd'.wilds = wilds
      BY <2>2 DEF TypeFits, Scratches
    <3>2. QED
      BY <2>2, <3>1 DEF Wilds
  <2>3. QED
    BY <1>1, <2>1, <2>2
<1>5. Sure' = Sure /\ SurePaths' = SurePaths
  BY <1>2 DEF Sure, SurePaths
<1>6. LoadsFit => LoadsFit'
  <2>1. published \subseteq published' /\ returned \subseteq returned'
    BY LaidStays
  <2>2. QED
    BY <1>2, <1>4, <1>5, <2>1 DEF LoadsFit
<1>7. Token' = Token
  BY <1>2 DEF Token
<1>8. (StackFits => StackFits') /\ (TopFits => TopFits')
  BY <1>2, <1>5, <1>7 DEF StackFits, TopFits
<1>9. \A p : ValuesAt(p)' = ValuesAt(p) /\ Passed(p)' = Passed(p)
  BY <1>2 DEF ValuesAt, Passed
<1>10. \A r : Visible(r)' <=> Visible(r)
  BY <1>2 DEF Visible
<1>11. (ValuesFit => ValuesFit') /\ (VisitFits => VisitFits')
  <2>1. ValuesFit => ValuesFit'
    BY <1>5, <1>9 DEF ValuesFit
  <2>2. VisitFits => VisitFits'
    BY <1>2, <1>5, <1>9, <1>10 DEF VisitFits
  <2>3. QED
    BY <2>1, <2>2
<1>12. rd.pc = "done" /\ ReadyRulesMatch => ReadyRulesMatch'
  BY <1>2 DEF ReadyRulesMatch
<1>13. QED
  BY <1>2, <1>6, <1>8, <1>11, <1>12 DEF ReaderFits

\* A step of the call that keeps what begin loaded.
CallKept ==
    /\ UNCHANGED wvars
    /\ rd'.ready = rd.ready /\ rd'.version = rd.version /\ rd'.limit = rd.limit
    /\ rd'.absent = rd.absent /\ rd'.table = rd.table /\ rd'.wilds = rd.wilds /\ rd'.ev = rd.ev
    /\ rd.pc \in Preparing \cup {"visit"} /\ rd'.pc \in Preparing \cup {"visit", "done"}
    /\ rd'.pc \in Preparing => rd.pc \in Preparing

\* The loads still fit.
LEMMA LoadsKept ==
    ASSUME CallKept
    PROVE  /\ LoadsFit => LoadsFit'
           /\ Sure' = Sure /\ SurePaths' = SurePaths /\ Wilds' = Wilds
           /\ \A r : Visible(r)' <=> Visible(r)
<1>1. Sure' = Sure /\ SurePaths' = SurePaths
  BY DEF CallKept, Sure, SurePaths
<1>2. Wilds' = Wilds
  BY DEF CallKept, Wilds, wvars, known
<1>3. published' = published /\ returned' = returned
  BY DEF CallKept, wvars
<1>4. LoadsFit => LoadsFit'
  BY <1>1, <1>2, <1>3 DEF CallKept, LoadsFit, Preparing
<1>5. QED
  BY <1>1, <1>2, <1>4 DEF CallKept, Visible

\* Without a value nothing is recorded.
LEMMA ValuesKept ==
    ASSUME CallKept, ValuesFit, rd.i \in Nat \ {0}, rd'.vals = rd.vals,
           rd'.i = rd.i \/ (rd'.i = rd.i + 1 /\ Token.t # "value")
    PROVE  ValuesFit'
<1>1. SurePaths' = SurePaths
  BY LoadsKept
<1>2. ASSUME NEW p \in SurePaths PROVE ValuesAt(p)' = ValuesAt(p) /\ Passed(p)' = Passed(p)
  <2>1. ValuesAt(p)' = ValuesAt(p)
    BY DEF ValuesAt
  <2> DEFINE Of(n) == {j \in 1..n - 1 : /\ rd.ev[j].t = "value"
                                        /\ rd.ev[j].path = p \/ BaseOf[p] \in Parts(rd.ev[j].path)}
  <2>2. Passed(p) = {rd.ev[k].val : k \in Of(rd.i)}
    BY DEF Passed
  <2>3. rd'.ev = rd.ev
    BY DEF CallKept
  <2>4. Passed(p)' = {rd.ev[k].val : k \in Of(rd'.i)}
    BY <2>3 DEF Passed
  <2>5. Of(rd'.i) = Of(rd.i)
    <3>1. CASE rd'.i = rd.i
      BY <3>1
    <3>2. CASE rd'.i = rd.i + 1 /\ rd.ev[rd.i].t # "value"
      <4>1. \A j : j \in 1..rd'.i - 1 <=> j \in 1..rd.i - 1 \/ j = rd.i
        BY <3>2
      <4>2. \A j : j \in Of(rd'.i) <=> j \in Of(rd.i)
        BY <3>2, <4>1
      <4>3. QED
        BY <4>2
    <3>3. QED
      BY <3>1, <3>2 DEF Token
  <2>6. QED
    BY <2>1, <2>2, <2>4, <2>5
<1>3. QED
  BY <1>1, <1>2 DEF ValuesFit

\* begin.
LEMMA BeginKept ==
    ASSUME TypeFits, WriterFits, ReaderFits,
           \/ \E ev \in Events, json \in BOOLEAN : Match(json, ev)
           \/ LoadVersion \/ LoadIds \/ LoadAbsent
    PROVE  ReaderFits'
<1>1. rd \in Scratches
  BY DEF TypeFits
<1>2. ASSUME NEW ev \in Events, NEW json \in BOOLEAN, Match(json, ev) PROVE ReaderFits'
  <2>1. /\ rd'.pc = "version" /\ rd'.ready = returned /\ rd'.version = {} /\ rd'.i = 1
        /\ rd'.vals = {} /\ rd'.matched = {} /\ rd'.at = [r \in Rules |-> 1]
    BY <1>2 DEF Match, IdleReader
  <2>2. returned' = returned
    BY <1>2 DEF Match, Local, wvars
  <2>3. LoadsFit'
    BY <2>1, <2>2 DEF LoadsFit, Preparing
  <2>4. QED
    BY <2>1, <2>3 DEF ReaderFits, Preparing
<1> DEFINE Kept == /\ rd'.i = rd.i /\ rd'.vals = rd.vals /\ rd'.matched = rd.matched
                   /\ rd'.at = rd.at /\ rd'.ready = rd.ready
                   /\ published' = published /\ returned' = returned
<1>3. CASE LoadVersion
  <2>1. rd.pc = "version" /\ rd'.pc = "ids" /\ rd'.version = published /\ Kept
    BY <1>1, <1>3 DEF LoadVersion, Local, wvars, Scratches
  <2>2. LoadsFit
    BY <2>1 DEF ReaderFits
  <2>3. \A r \in rd.ready : Via[r] = "replace" => r \in published
    BY <2>2 DEF LoadsFit, WriterFits, RulesFit
  <2>4. LoadsFit'
    BY <2>1, <2>2, <2>3 DEF LoadsFit, Preparing
  <2>5. QED
    BY <2>1, <2>4 DEF ReaderFits, Preparing
<1>4. CASE LoadIds
  <2>1. /\ rd.pc = "ids" /\ rd'.pc = "absent" /\ rd'.version = rd.version /\ rd'.limit = numbered
        /\ Kept
    BY <1>1, <1>4 DEF LoadIds, Local, wvars, Scratches
  <2>2. LoadsFit
    BY <2>1 DEF ReaderFits
  <2>3. rd.ready \subseteq numbered
    BY <2>2 DEF LoadsFit, WriterFits, RulesFit
  <2>4. LoadsFit'
    BY <2>1, <2>2, <2>3 DEF LoadsFit, Preparing
  <2>5. QED
    BY <2>1, <2>4 DEF ReaderFits, Preparing
<1>5. CASE LoadAbsent
  <2>1. /\ rd.pc = "absent" /\ rd'.pc = "wilds" /\ rd'.version = rd.version /\ rd'.limit = rd.limit
        /\ rd'.absent = hasAbsent /\ Kept
    BY <1>1, <1>5 DEF LoadAbsent, Local, wvars, Scratches
  <2>2. LoadsFit
    BY <2>1 DEF ReaderFits
  <2>3. ASSUME NEW r \in rd.ready, NEW c \in Elems(CondsOf[r]), c.kind = "absent" PROVE hasAbsent
    <3>1. LaidOut(r)
      BY <2>2, SureRules DEF Sure
    <3>2. QED
      BY <2>3, <3>1 DEF LaidOut, Laid, Elems
  <2>4. LoadsFit'
    BY <2>1, <2>2, <2>3 DEF LoadsFit, Preparing
  <2>5. QED
    BY <2>1, <2>4 DEF ReaderFits, Preparing
<1>6. QED
  BY <1>2, <1>3, <1>4, <1>5

\* The preparation begins with what the loaded table of wildcard paths holds.
LEMMA LoadWildsKept ==
    ASSUME TypeFits, WriterFits, ReaderFits, LoadWilds
    PROVE  ReaderFits'
<1>1. rd \in Scratches
  BY DEF TypeFits
<1>2. /\ rd.pc = "wilds" /\ rd'.pc = "token" /\ rd'.open = << {} >> /\ rd'.record = <<TRUE>>
      /\ rd'.table = IF hasWilds THEN "current" ELSE "nil"
      /\ rd'.i = rd.i /\ rd'.vals = rd.vals /\ rd'.matched = rd.matched /\ rd'.at = rd.at
      /\ rd'.ready = rd.ready /\ rd'.version = rd.version /\ rd'.limit = rd.limit
      /\ rd'.absent = rd.absent /\ rd'.ev = rd.ev
  BY <1>1 DEF LoadWilds, Scratches
<1>3. published' = published /\ returned' = returned /\ wilds' = wilds
  BY DEF LoadWilds, Local, wvars, known
<1>4. LoadsFit /\ rd.i = 1 /\ rd.vals = {} /\ rd.matched = {} /\ rd.at = [r \in Rules |-> 1]
  BY <1>2 DEF ReaderFits
<1>5. SurePaths' = SurePaths
  BY <1>2 DEF SurePaths, Sure
<1>6. ASSUME NEW p \in SurePaths, BaseOf[p] # NoBase
      PROVE  rd'.table # "nil" /\ BaseOf[p] \in Wilds'
  <2>1. BaseOf[p] \in wilds /\ hasWilds
    BY <1>4, <1>6, SureKnown
  <2>2. QED
    BY <1>2, <1>3, <2>1 DEF Wilds
<1>7. LoadsFit'
  BY <1>2, <1>3, <1>4, <1>5, <1>6 DEF LoadsFit, Preparing
<1>8. StackFits'
  <2>1. Stack(rd.ev, 1, << {} >>, <<TRUE>>, SurePaths) /\ Depth(rd.ev, 1) = 0
    BY StackStart
  <2>2. QED
    BY <1>2, <1>4, <1>5, <2>1 DEF StackFits
<1>9. TopFits'
  BY <1>2 DEF TopFits
<1>10. ValuesFit'
  <2>1. ASSUME NEW p \in SurePaths' PROVE ValuesAt(p)' = {} /\ Passed(p)' = {}
    BY <1>2, <1>4 DEF ValuesAt, Passed
  <2>2. QED
    BY <2>1 DEF ValuesFit
<1>11. QED
  BY <1>2, <1>4, <1>7, <1>8, <1>9, <1>10 DEF ReaderFits, Preparing

\* A sequence with one more element.
LEMMA Appended ==
    ASSUME NEW S, NEW s \in Seq(S), NEW x \in S
    PROVE  /\ Len(Append(s, x)) = Len(s) + 1 /\ Append(s, x)[Len(s) + 1] = x
           /\ \A j \in 1..Len(s) : Append(s, x)[j] = s[j]
  OBVIOUS

\* A sequence cut to its first elements.
LEMMA Shortened ==
    ASSUME NEW S, NEW s \in Seq(S), NEW n \in 0..Len(s)
    PROVE  Len(SubSeq(s, 1, n)) = n /\ \A j \in 1..n : SubSeq(s, 1, n)[j] = s[j]
  OBVIOUS

\* Where the parser is.
LEMMA PreparingFits ==
    ASSUME TypeFits, WriterFits, ReaderFits, rd.pc \in Preparing
    PROVE  /\ rd \in Scratches /\ rd.i \in Nat \ {0} /\ rd.ev \in Events /\ Len(rd.ev) \in Nat
           /\ rd.i \in 1..Len(rd.ev) + 1
           /\ rd.pc \in {"lookup", "inside"} => rd.i \in 1..Len(rd.ev)
           /\ LoadsFit /\ StackFits /\ TopFits /\ ValuesFit
           /\ rd.matched = {} /\ rd.at = [r \in Rules |-> 1]
           /\ Depth(rd.ev, rd.i) \in Nat
           /\ rd.open \in Seq(SUBSET Bases) /\ rd.record \in Seq(BOOLEAN)
           /\ SurePaths \in SUBSET PathNames
<1>1. rd \in Scratches /\ rd.ev \in Events
  BY DEF TypeFits, Preparing
<1>2. Len(rd.ev) \in Nat
  BY <1>1, EventSeq
<1>3. LoadsFit /\ StackFits /\ TopFits /\ ValuesFit
      /\ rd.matched = {} /\ rd.at = [r \in Rules |-> 1]
  BY DEF ReaderFits, Preparing
<1>4. SurePaths \in SUBSET PathNames
  BY <1>3, SureKnown
<1>5. Depth(rd.ev, rd.i) \in Nat
  BY <1>3 DEF StackFits
<1>6. rd.i \in 1..Len(rd.ev) + 1 /\ (rd.pc \in {"lookup", "inside"} => rd.i <= Len(rd.ev))
  BY DEF TypeFits
<1>7. rd.open \in Seq(SUBSET Bases) /\ rd.record \in Seq(BOOLEAN) /\ rd.i \in Nat \ {0}
  BY <1>1 DEF Scratches
<1>8. rd.pc \in {"lookup", "inside"} => rd.i \in 1..Len(rd.ev)
  BY <1>2, <1>6, <1>7
<1>9. QED
  BY <1>1, <1>2, <1>3, <1>4, <1>5, <1>6, <1>7, <1>8

\* A key or path before its first lookup.
LEMMA OpenWildsKept ==
    ASSUME TypeFits, WriterFits, ReaderFits, OpenWilds
    PROVE  ReaderFits'
<1> DEFINE d == Depth(rd.ev, rd.i)
           dots == IF rd.table # "nil" /\ Recording /\ Token.t # "close" THEN Token.bases ELSE {}
<1>1. rd.pc = "token" /\ rd.i <= Len(rd.ev)
  BY DEF OpenWilds
<1>2. /\ rd \in Scratches /\ rd.ev \in Events /\ rd.i \in 1..Len(rd.ev) /\ rd.i \in Nat \ {0}
      /\ LoadsFit /\ StackFits /\ ValuesFit
      /\ rd.matched = {} /\ rd.at = [r \in Rules |-> 1]
      /\ d \in Nat /\ rd.open \in Seq(SUBSET Bases) /\ rd.record \in Seq(BOOLEAN)
      /\ SurePaths \in SUBSET PathNames
  BY <1>1, PreparingFits DEF Preparing
<1>3. rd' = [rd EXCEPT !.pc = "lookup", !.dots = dots, !.open = Append(@, {})]
  BY DEF OpenWilds
<1>4. /\ rd'.pc = "lookup" /\ rd'.record = rd.record /\ rd'.dots = dots
      /\ rd'.i = rd.i /\ rd'.ev = rd.ev /\ rd'.vals = rd.vals /\ rd'.matched = rd.matched
      /\ rd'.at = rd.at /\ CallKept
  BY <1>1, <1>2, <1>3 DEF Scratches, CallKept, OpenWilds, Local, Preparing
<1>5. /\ Len(rd.record) = d + 1 /\ Len(rd.open) = 2 * d + 1
      /\ Stack(rd.ev, rd.i, rd.open, rd.record, SurePaths)
  BY <1>1, <1>2 DEF StackFits
<1>6. /\ Len(rd'.open) = 2 * d + 2 /\ rd'.open[2 * d + 2] = {}
      /\ \A x \in 1..2 * d + 1 : rd'.open[x] = rd.open[x]
  <2>1. rd'.open = Append(rd.open, {})
    BY <1>2, <1>3 DEF Scratches
  <2>2. d \in Nat /\ Len(rd.open) = 2 * d + 1 /\ rd.open \in Seq(SUBSET Bases)
    BY <1>2, <1>5
  <2> HIDE DEF d
  <2>3. {} \in SUBSET Bases /\ (2 * d + 1) + 1 = 2 * d + 2
    BY <2>2
  <2>4. QED
    BY <2>1, <2>2, <2>3, Appended
<1>7. LoadsFit' /\ SurePaths' = SurePaths
  BY <1>2, <1>4, LoadsKept
<1>8. StackFits'
  <2>1. Stack(rd.ev, rd.i, rd'.open, rd.record, SurePaths)
    BY <1>2, <1>5, <1>6, StackAgrees
  <2>2. QED
    BY <1>2, <1>4, <1>5, <1>6, <1>7, <2>1 DEF StackFits
<1>9. TopFits'
  <2>1. SUFFICES ASSUME Token.t # "close"
                 PROVE  /\ dots \subseteq Token.bases
                        /\ \A p \in SurePaths : BaseOf[p] \in Token.bases => BaseOf[p] \in dots
    BY <1>4, <1>6, <1>7 DEF TopFits, Token
  <2>2. ASSUME NEW p \in SurePaths, BaseOf[p] \in Token.bases PROVE BaseOf[p] \in dots
    <3>1. BaseOf[p] \in Parts(Token.path) /\ Token.path \in PathNames
      BY <1>2, <2>1, <2>2, TokenFits DEF Token
    <3>2. BaseOf[p] # NoBase
      BY <3>1, PathParts
    <3>3. rd.table # "nil"
      BY <1>1, <1>2, <3>2 DEF LoadsFit, Preparing
    <3>4. Recording
      <4>1. Wanted(p, Token.path)
        BY <3>1 DEF Wanted
      <4>2. rd.record[d + 1] = TRUE
        BY <1>2, <1>5, <2>1, <4>1, RecordedThere DEF Token
      <4>3. QED
        BY <1>5, <4>2 DEF Recording
    <3>5. QED
      BY <2>1, <2>2, <3>3, <3>4
  <2>3. QED
    BY <2>2
<1>10. ValuesFit'
  BY <1>2, <1>4, ValuesKept
<1>11. QED
  BY <1>2, <1>4, <1>7, <1>8, <1>9, <1>10 DEF ReaderFits, Preparing

\* A lookup at one ".": the wildcard paths of sure rules are found.
LEMMA OpenWildKept ==
    ASSUME TypeFits, WriterFits, ReaderFits, NEW base \in PathNames, OpenWild(base)
    PROVE  ReaderFits'
<1> DEFINE d == Depth(rd.ev, rd.i)
           top == rd.open[2 * d + 2] \cup ({base} \cap Wilds)
<1>1. rd.pc = "lookup" /\ base \in rd.dots
  BY DEF OpenWild
<1>2. /\ rd \in Scratches /\ rd.ev \in Events /\ rd.i \in 1..Len(rd.ev) /\ rd.i \in Nat \ {0}
      /\ LoadsFit /\ StackFits /\ TopFits /\ ValuesFit
      /\ rd.matched = {} /\ rd.at = [r \in Rules |-> 1]
      /\ d \in Nat /\ rd.open \in Seq(SUBSET Bases)
      /\ SurePaths \in SUBSET PathNames
  BY <1>1, PreparingFits DEF Preparing
<1>3. rd' = [rd EXCEPT !.dots = @ \ {base},
                       !.open[Len(rd.open)] = @ \cup ({base} \cap Wilds)]
  BY DEF OpenWild
<1>4. /\ rd'.pc = "lookup" /\ rd'.record = rd.record /\ rd'.dots = rd.dots \ {base}
      /\ rd'.i = rd.i /\ rd'.ev = rd.ev /\ rd'.vals = rd.vals /\ rd'.matched = rd.matched
      /\ rd'.at = rd.at /\ CallKept
  BY <1>1, <1>2, <1>3 DEF Scratches, CallKept, OpenWild, Local, Preparing
<1>5. /\ Len(rd.record) = d + 1 /\ Len(rd.open) = 2 * d + 2
      /\ Stack(rd.ev, rd.i, rd.open, rd.record, SurePaths)
  BY <1>1, <1>2 DEF StackFits
<1>6. /\ Len(rd'.open) = 2 * d + 2 /\ rd'.open[2 * d + 2] = top
      /\ \A x \in 1..2 * d + 1 : rd'.open[x] = rd.open[x]
  <2>1. rd'.open = [rd.open EXCEPT ![Len(rd.open)] = @ \cup ({base} \cap Wilds)]
    BY <1>2, <1>3 DEF Scratches
  <2>2. d \in Nat /\ Len(rd.open) = 2 * d + 2 /\ rd.open \in Seq(SUBSET Bases)
    BY <1>2, <1>5
  <2> HIDE DEF d
  <2>3. QED
    BY <2>1, <2>2
<1>7. LoadsFit' /\ SurePaths' = SurePaths
  BY <1>2, <1>4, LoadsKept
<1>8. StackFits'
  <2>1. Stack(rd.ev, rd.i, rd'.open, rd.record, SurePaths)
    BY <1>2, <1>5, <1>6, StackAgrees
  <2>2. QED
    BY <1>2, <1>4, <1>5, <1>6, <1>7, <2>1 DEF StackFits
<1>9. TopFits'
  <2>1. SUFFICES ASSUME Token.t # "close"
                 PROVE  /\ rd'.dots \subseteq Token.bases /\ top \subseteq Token.bases
                        /\ \A p \in SurePaths :
                              BaseOf[p] \in Token.bases => BaseOf[p] \in top \cup rd'.dots
    BY <1>4, <1>6, <1>7 DEF TopFits, Token
  <2>2. /\ rd.dots \subseteq Token.bases /\ rd.open[2 * d + 2] \subseteq Token.bases
        /\ \A p \in SurePaths :
              BaseOf[p] \in Token.bases => BaseOf[p] \in rd.open[2 * d + 2] \cup rd.dots
    BY <1>1, <1>2, <2>1 DEF TopFits
  <2>3. ASSUME NEW p \in SurePaths, BaseOf[p] = base PROVE base \in Wilds
    <3>1. BaseOf[p] # NoBase
      BY <2>3, PathsAssumption
    <3>2. QED
      BY <1>1, <1>2, <2>3, <3>1 DEF LoadsFit, Preparing
  <2>4. QED
    BY <1>1, <1>4, <2>2, <2>3
<1>10. ValuesFit'
  BY <1>2, <1>4, ValuesKept
<1>11. QED
  BY <1>2, <1>4, <1>7, <1>8, <1>9, <1>10 DEF ReaderFits, Preparing

\* The end of an object.
LEMMA CloseObjectKept ==
    ASSUME TypeFits, WriterFits, ReaderFits, CloseObject
    PROVE  ReaderFits'
<1> DEFINE d == Depth(rd.ev, rd.i)
<1>1. rd.pc = "lookup" /\ rd.ev[rd.i].t = "close"
  BY DEF CloseObject, Token
<1>2. /\ rd \in Scratches /\ rd.ev \in Events /\ rd.i \in 1..Len(rd.ev) /\ rd.i \in Nat \ {0}
      /\ LoadsFit /\ StackFits /\ ValuesFit
      /\ rd.matched = {} /\ rd.at = [r \in Rules |-> 1]
      /\ d \in Nat /\ rd.open \in Seq(SUBSET Bases) /\ rd.record \in Seq(BOOLEAN)
  BY <1>1, PreparingFits DEF Preparing
<1>3. /\ rd'.pc = "token" /\ rd'.open = SubSeq(rd.open, 1, Len(rd.open) - 3)
      /\ rd'.record = SubSeq(rd.record, 1, Len(rd.record) - 1)
      /\ rd'.i = rd.i + 1 /\ rd'.ev = rd.ev /\ rd'.vals = rd.vals /\ rd'.matched = rd.matched
      /\ rd'.at = rd.at /\ CallKept
  BY <1>1, <1>2 DEF Scratches, CallKept, CloseObject, Local, Preparing
<1>4. /\ Len(rd.record) = d + 1 /\ Len(rd.open) = 2 * d + 2
      /\ Stack(rd.ev, rd.i, rd.open, rd.record, SurePaths)
  BY <1>1, <1>2 DEF StackFits
<1>5. d \in Nat \ {0}
  BY <1>1, <1>2, TokenFits
<1>6. Stack(rd.ev, rd.i + 1, rd.open, rd.record, SurePaths) /\ Depth(rd.ev, rd.i + 1) = d - 1
  BY <1>1, <1>2, <1>4, <1>5, StackClose
<1>7. /\ Len(rd'.open) = 2 * (d - 1) + 1 /\ Len(rd'.record) = d
      /\ \A x \in 1..2 * (d - 1) + 1 : rd'.open[x] = rd.open[x]
      /\ \A x \in 1..d : rd'.record[x] = rd.record[x]
  <2>1. /\ Len(rd.open) - 3 = 2 * (d - 1) + 1 /\ 2 * (d - 1) + 1 \in 0..Len(rd.open)
        /\ Len(rd.record) - 1 = d /\ d \in 0..Len(rd.record)
    <3>1. Len(rd.record) = d + 1 /\ Len(rd.open) = 2 * d + 2
      BY <1>4
    <3> HIDE DEF d
    <3>2. QED
      BY <1>5, <3>1
  <2>2. /\ rd'.open = SubSeq(rd.open, 1, 2 * (d - 1) + 1)
        /\ rd'.record = SubSeq(rd.record, 1, d)
    BY <1>3, <2>1
  <2> HIDE DEF d
  <2>3. Len(rd'.open) = 2 * (d - 1) + 1 /\ \A x \in 1..2 * (d - 1) + 1 : rd'.open[x] = rd.open[x]
    <3>1. rd.open \in Seq(SUBSET Bases)
      BY <1>2
    <3>2. QED
      BY <2>1, <2>2, <3>1, Shortened
  <2>4. Len(rd'.record) = d /\ \A x \in 1..d : rd'.record[x] = rd.record[x]
    <3>1. rd.record \in Seq(BOOLEAN)
      BY <1>2
    <3>2. QED
      BY <2>1, <2>2, <3>1, Shortened
  <2>5. QED
    BY <2>3, <2>4
<1>8. LoadsFit' /\ SurePaths' = SurePaths
  BY <1>2, <1>3, LoadsKept
<1>9. StackFits'
  <2>1. d - 1 \in Nat /\ (d - 1) + 1 = d /\ rd.i + 1 \in Nat \ {0}
    BY <1>2, <1>5
  <2>2. Depth(rd.ev, rd.i + 1) \in Nat
    BY <1>6, <2>1
  <2>3. /\ \A x \in 1..2 * Depth(rd.ev, rd.i + 1) + 1 : rd'.open[x] = rd.open[x]
        /\ \A x \in 1..Depth(rd.ev, rd.i + 1) + 1 : rd'.record[x] = rd.record[x]
    BY <1>6, <1>7, <2>1
  <2>4. Stack(rd.ev, rd.i + 1, rd'.open, rd'.record, SurePaths)
    BY <1>6, <2>1, <2>2, <2>3, StackAgrees
  <2>5. QED
    BY <1>3, <1>6, <1>7, <1>8, <2>1, <2>4 DEF StackFits
<1>10. TopFits'
  BY <1>3 DEF TopFits
<1>11. ValuesFit'
  BY <1>1, <1>2, <1>3, ValuesKept DEF Token
<1>12. QED
  BY <1>2, <1>3, <1>8, <1>9, <1>10, <1>11 DEF ReaderFits, Preparing

\* What a token's key and the enclosing objects have opened, and whether the
\* values there are recorded.
LEMMA LookupFits ==
    ASSUME TypeFits, WriterFits, ReaderFits, rd.pc = "lookup", rd.dots = {}, Token.t # "close"
    PROVE  /\ Token.path \in PathNames
           /\ Opened \subseteq Parts(Token.path) \cap Bases
           /\ \A p \in SurePaths :
                 /\ BaseOf[p] \in Parts(Token.path) => BaseOf[p] \in Opened
                 /\ Token.path = p \/ Wanted(p, Token.path) => Recording
<1> DEFINE d == Depth(rd.ev, rd.i)
<1>1. /\ rd.ev \in Events /\ rd.i \in 1..Len(rd.ev) /\ StackFits /\ TopFits
      /\ d \in Nat /\ rd.open \in Seq(SUBSET Bases) /\ SurePaths \in SUBSET PathNames
  BY PreparingFits DEF Preparing
<1>2. /\ Len(rd.record) = d + 1 /\ Len(rd.open) = 2 * d + 2
      /\ Stack(rd.ev, rd.i, rd.open, rd.record, SurePaths)
  BY <1>1 DEF StackFits
<1>3. /\ rd.open[2 * d + 2] \subseteq rd.ev[rd.i].bases
      /\ \A p \in SurePaths : BaseOf[p] \in rd.ev[rd.i].bases => BaseOf[p] \in rd.open[2 * d + 2]
  BY <1>1 DEF TopFits, Token
<1>4. rd.ev[rd.i].t # "close" /\ Token = rd.ev[rd.i]
  BY DEF Token
<1>5. /\ Opened \subseteq Parts(Token.path) \cap Bases
      /\ \A p \in SurePaths : BaseOf[p] \in Parts(Token.path) => BaseOf[p] \in Opened
  <2>1. Opened = UNION {rd.open[x] : x \in 1..Len(rd.open)}
    BY DEF Opened
  <2> DEFINE opened == UNION {rd.open[x] : x \in 1..Len(rd.open)}
  <2>2. /\ opened \subseteq Parts(rd.ev[rd.i].path) \cap Bases
        /\ \A p \in SurePaths : BaseOf[p] \in Parts(rd.ev[rd.i].path) => BaseOf[p] \in opened
    <3>1. rd.ev \in Events /\ rd.i \in 1..Len(rd.ev) /\ rd.ev[rd.i].t # "close"
      BY <1>1, <1>4
    <3>2. Depth(rd.ev, rd.i) \in Nat /\ Len(rd.open) = 2 * Depth(rd.ev, rd.i) + 2
      BY <1>1, <1>2
    <3>3. rd.open \in Seq(SUBSET Bases) /\ SurePaths \in SUBSET PathNames
      BY <1>1
    <3> HIDE DEF d
    <3>4. QED
      BY <1>2, <1>3, <3>1, <3>2, <3>3, OpenedThere DEF d
  <2>3. QED
    BY <1>4, <2>1, <2>2
<1>6. ASSUME NEW p \in SurePaths, Token.path = p \/ Wanted(p, Token.path) PROVE Recording
  <2>1. rd.record[d + 1] = TRUE
    BY <1>1, <1>2, <1>4, <1>6, RecordedThere
  <2>2. QED
    BY <1>2, <2>1 DEF Recording
<1>7. Token.path \in PathNames
  BY <1>1, <1>4, TokenFits
<1>8. QED
  BY <1>5, <1>6, <1>7

\* A value is recorded for exactly those paths of sure rules that it counts for.
LEMMA ValueKept ==
    ASSUME TypeFits, WriterFits, ReaderFits, Value
    PROVE  ReaderFits'
<1> DEFINE d == Depth(rd.ev, rd.i)
           own == IF rd.json /\ Token.path \notin paths THEN {} ELSE {Token.path}
           above == {WildPath(b) : b \in Opened}
           new == {<<p, Token.val>> : p \in own \cup above}
<1>1. /\ rd.pc = "lookup" /\ rd.dots = {}
      /\ Token.t = "value" /\ rd.ev[rd.i].t = "value"
  BY DEF Value, Token
<1>2. /\ rd \in Scratches /\ rd.ev \in Events /\ rd.i \in 1..Len(rd.ev) /\ rd.i \in Nat \ {0}
      /\ LoadsFit /\ StackFits /\ ValuesFit
      /\ rd.matched = {} /\ rd.at = [r \in Rules |-> 1]
      /\ d \in Nat /\ rd.open \in Seq(SUBSET Bases)
  BY <1>1, PreparingFits DEF Preparing
<1>3. rd' = [rd EXCEPT !.pc = "token", !.i = @ + 1, !.open = SubSeq(@, 1, Len(@) - 1),
                       !.vals = IF Recording THEN @ \cup new ELSE @]
  BY DEF Value
<1>4. /\ rd'.pc = "token" /\ rd'.open = SubSeq(rd.open, 1, Len(rd.open) - 1)
      /\ rd'.record = rd.record
      /\ rd'.i = rd.i + 1 /\ rd'.ev = rd.ev /\ rd'.matched = rd.matched
      /\ rd'.at = rd.at /\ CallKept
  BY <1>1, <1>2, <1>3 DEF Scratches, CallKept, Value, Local, Preparing
<1>5. rd'.vals = IF Recording THEN rd.vals \cup new ELSE rd.vals
  BY <1>2, <1>3 DEF Scratches
<1> HIDE DEF new
<1>6. /\ Len(rd.record) = d + 1 /\ Len(rd.open) = 2 * d + 2
      /\ Stack(rd.ev, rd.i, rd.open, rd.record, SurePaths)
  BY <1>1, <1>2 DEF StackFits
<1>7. LoadsFit' /\ SurePaths' = SurePaths
  BY <1>2, <1>4, LoadsKept
<1>8. StackFits'
  <2>1. Depth(rd.ev, rd.i + 1) = d
    BY <1>1, <1>2, DepthNext
  <2>2. Len(rd.open) - 1 = 2 * d + 1 /\ 2 * d + 1 \in 0..Len(rd.open)
    <3>1. Len(rd.open) = 2 * d + 2 /\ d \in Nat
      BY <1>2, <1>6
    <3> HIDE DEF d
    <3>2. QED
      BY <3>1
  <2>3. rd'.open = SubSeq(rd.open, 1, 2 * d + 1)
    BY <1>4, <2>2
  <2>4. Len(rd'.open) = 2 * d + 1 /\ \A x \in 1..2 * d + 1 : rd'.open[x] = rd.open[x]
    BY <1>2, <2>2, <2>3, Shortened
  <2>5. Stack(rd.ev, rd.i, rd'.open, rd.record, SurePaths)
    BY <1>2, <1>6, <2>4, StackAgrees
  <2>6. Stack(rd.ev, rd.i + 1, rd'.open, rd.record, SurePaths)
    BY <1>1, <1>2, <2>5, StackValue
  <2>7. QED
    BY <1>2, <1>4, <1>6, <1>7, <2>1, <2>4, <2>6 DEF StackFits
<1>9. TopFits'
  BY <1>4 DEF TopFits
<1>10. ASSUME NEW p \in SurePaths
       PROVE  /\ ValuesAt(p)' = Passed(p)'
  <2> DEFINE counts == Token.path = p \/ BaseOf[p] \in Parts(Token.path)
  <2>1. Recording /\ p \in own \cup above <=> counts
    <3>1. /\ Token.path \in PathNames
          /\ Opened \subseteq Parts(Token.path) \cap Bases
          /\ BaseOf[p] \in Parts(Token.path) => BaseOf[p] \in Opened
          /\ counts => Recording
      BY <1>1, LookupFits DEF Wanted
    <3>2. p \in PathNames /\ p \in paths
      BY <1>2, SureKnown
    <3>3. p \in above <=> BaseOf[p] \in Opened
      <4>1. ASSUME NEW b \in Opened, p = WildPath(b) PROVE BaseOf[p] \in Opened
        <5>1. BaseOf[p] = b
          BY <3>1, <4>1, WildPathOf
        <5>2. QED
          BY <5>1
      <4>2. ASSUME BaseOf[p] \in Opened PROVE p \in above
        <5>1. p = WildPath(BaseOf[p])
          BY <3>1, <3>2, <4>2, WildPathOf
        <5>2. QED
          BY <4>2, <5>1
      <4>3. QED
        BY <4>1, <4>2
    <3>4. p \in own <=> Token.path = p
      BY <3>2
    <3> HIDE DEF own, above
    <3>5. QED
      BY <3>1, <3>3, <3>4
  <2>2. \A v : <<p, v>> \in new <=> p \in own \cup above /\ v = Token.val
    BY DEF new
  <2> HIDE DEF own, above
  <2>3. \A v : v \in ValuesAt(p)' <=> v \in ValuesAt(p) \/ (counts /\ v = Token.val)
    <3>1. rd.vals \subseteq PathNames \X Vals
      BY <1>2 DEF Scratches
    <3>2. \A v : v \in ValuesAt(p) <=> <<p, v>> \in rd.vals
      BY <3>1 DEF ValuesAt
    <3>3. \A x \in new : x = <<x[1], x[2]>>
      BY DEF new
    <3>4. \A x \in rd'.vals : x = <<x[1], x[2]>>
      BY <1>5, <3>1, <3>3
    <3>5. \A v : v \in ValuesAt(p)' <=> <<p, v>> \in rd'.vals
      BY <3>4 DEF ValuesAt
    <3>6. \A v : <<p, v>> \in rd'.vals <=> <<p, v>> \in rd.vals \/ (Recording /\ <<p, v>> \in new)
      BY <1>5
    <3>7. QED
      BY <2>1, <2>2, <3>2, <3>5, <3>6
  <2>4. \A v : v \in Passed(p)' <=> v \in Passed(p) \/ (counts /\ v = Token.val)
    <3> DEFINE Of(n) == {j \in 1..n - 1 : /\ rd.ev[j].t = "value"
                                          /\ rd.ev[j].path = p \/ BaseOf[p] \in Parts(rd.ev[j].path)}
    <3>1. Passed(p) = {rd.ev[k].val : k \in Of(rd.i)}
      BY DEF Passed
    <3>2. Passed(p)' = {rd.ev[k].val : k \in Of(rd.i + 1)}
      BY <1>4 DEF Passed
    <3>3. \A j : j \in 1..(rd.i + 1) - 1 <=> j \in 1..rd.i - 1 \/ j = rd.i
      BY <1>2
    <3>4. \A j : j \in Of(rd.i + 1) <=> j \in Of(rd.i) \/ (counts /\ j = rd.i)
      BY <1>1, <3>3 DEF Token
    <3> HIDE DEF Of
    <3>5. QED
      BY <3>1, <3>2, <3>4 DEF Token
  <2>5. ValuesAt(p) = Passed(p)
    BY <1>2 DEF ValuesFit
  <2>6. QED
    <3>1. \A v : v \in ValuesAt(p)' <=> v \in Passed(p)'
      BY <2>3, <2>4, <2>5
    <3>2. QED
      BY <3>1 DEF ValuesAt, Passed
<1>11. ValuesFit'
  BY <1>7, <1>10 DEF ValuesFit
<1>12. QED
  BY <1>2, <1>4, <1>7, <1>8, <1>9, <1>11 DEF ReaderFits, Preparing

\* The beginning of an object: values in it are recorded if a sure rule may ask
\* for them.
LEMMA OpenObjectKept ==
    ASSUME TypeFits, WriterFits, ReaderFits, OpenObject
    PROVE  ReaderFits'
<1> DEFINE d == Depth(rd.ev, rd.i)
           new == Recording /\ (Opened # {} \/ Token.path \in prefixes)
<1>1. rd.pc = "lookup" /\ rd.dots = {} /\ Token.t = "open"
  BY DEF OpenObject
<1>2. /\ rd \in Scratches /\ rd.ev \in Events /\ rd.i \in 1..Len(rd.ev) /\ rd.i \in Nat \ {0}
      /\ LoadsFit /\ StackFits /\ TopFits /\ ValuesFit
      /\ rd.matched = {} /\ rd.at = [r \in Rules |-> 1]
      /\ d \in Nat /\ rd.record \in Seq(BOOLEAN)
  BY <1>1, PreparingFits DEF Preparing
<1>3. rd' = [rd EXCEPT !.pc = "inside", !.record = Append(@, new)]
  BY DEF OpenObject
<1>4. /\ rd'.pc = "inside" /\ rd'.open = rd.open /\ rd'.dots = {}
      /\ rd'.i = rd.i /\ rd'.ev = rd.ev /\ rd'.vals = rd.vals /\ rd'.matched = rd.matched
      /\ rd'.at = rd.at /\ CallKept
  BY <1>1, <1>2, <1>3 DEF Scratches, CallKept, OpenObject, Local, Preparing
<1>5. /\ Len(rd.record) = d + 1 /\ Len(rd.open) = 2 * d + 2
      /\ Stack(rd.ev, rd.i, rd.open, rd.record, SurePaths)
  BY <1>1, <1>2 DEF StackFits
<1>6. /\ Len(rd'.record) = d + 2 /\ rd'.record[d + 2] = new
      /\ \A x \in 1..d + 1 : rd'.record[x] = rd.record[x]
  <2>1. new \in BOOLEAN
    OBVIOUS
  <2>2. rd'.record = Append(rd.record, new)
    BY <1>2, <1>3 DEF Scratches
  <2>3. d \in Nat /\ Len(rd.record) = d + 1 /\ rd.record \in Seq(BOOLEAN)
    BY <1>2, <1>5
  <2> HIDE DEF new, d
  <2>4. (d + 1) + 1 = d + 2
    BY <2>3
  <2>5. QED
    BY <2>1, <2>2, <2>3, <2>4, Appended
<1>7. LoadsFit' /\ SurePaths' = SurePaths
  BY <1>2, <1>4, LoadsKept
<1>8. StackFits'
  <2>1. Stack(rd.ev, rd.i, rd.open, rd'.record, SurePaths)
    <3>1. rd.i \in Nat \ {0} /\ d \in Nat
      BY <1>2
    <3>2. Stack(rd.ev, rd.i, rd.open, rd.record, SurePaths)
      BY <1>5
    <3>3. /\ \A x \in 1..d + 1 : rd'.record[x] = rd.record[x]
          /\ \A x \in 1..2 * d + 1 : rd.open[x] = rd.open[x]
      BY <1>6
    <3>4. QED
      BY <3>1, <3>2, <3>3, StackAgrees
  <2>2. QED
    BY <1>2, <1>4, <1>5, <1>6, <1>7, <2>1 DEF StackFits
<1>9. TopFits'
  <2>1. ASSUME NEW p \in SurePaths, Wanted(p, Token.path) PROVE new
    <3>1. Recording /\ (BaseOf[p] \in Parts(Token.path) => BaseOf[p] \in Opened)
      BY <1>1, <2>1, LookupFits
    <3>2. Parts(p) \subseteq prefixes
      BY <1>2, SureKnown
    <3>3. QED
      BY <2>1, <3>1, <3>2 DEF Wanted
  <2>2. /\ rd.open[2 * d + 2] \subseteq Token.bases
        /\ \A p \in SurePaths : BaseOf[p] \in Token.bases => BaseOf[p] \in rd.open[2 * d + 2]
    BY <1>1, <1>2 DEF TopFits
  <2>3. Token' = Token
    BY <1>4 DEF Token
  <2>4. \A p \in SurePaths : Wanted(p, Token.path) => rd'.record[d + 2] = TRUE
    BY <1>6, <2>1
  <2> HIDE DEF new
  <2>5. QED
    BY <1>1, <1>4, <1>7, <2>2, <2>3, <2>4 DEF TopFits
<1>10. ValuesFit'
  BY <1>2, <1>4, ValuesKept
<1>11. QED
  BY <1>2, <1>4, <1>7, <1>8, <1>9, <1>10 DEF ReaderFits, Preparing

\* The path of an object opens a wildcard path that ends in it.
LEMMA OpenInsideKept ==
    ASSUME TypeFits, WriterFits, ReaderFits, OpenInside
    PROVE  ReaderFits'
<1> DEFINE d == Depth(rd.ev, rd.i)
           new == IF rd.table # "nil" /\ Recording THEN {Token.path} \cap Wilds ELSE {}
<1>1. rd.pc = "inside"
  BY DEF OpenInside
<1>2. /\ rd \in Scratches /\ rd.ev \in Events /\ rd.i \in 1..Len(rd.ev) /\ rd.i \in Nat \ {0}
      /\ LoadsFit /\ StackFits /\ TopFits /\ ValuesFit
      /\ rd.matched = {} /\ rd.at = [r \in Rules |-> 1]
      /\ d \in Nat /\ rd.open \in Seq(SUBSET Bases)
      /\ SurePaths \in SUBSET PathNames
  BY <1>1, PreparingFits DEF Preparing
<1>3. rd' = [rd EXCEPT !.pc = "token", !.i = @ + 1, !.open = Append(@, new)]
  BY DEF OpenInside
<1>4. /\ rd'.pc = "token" /\ rd'.record = rd.record
      /\ rd'.i = rd.i + 1 /\ rd'.ev = rd.ev /\ rd'.vals = rd.vals /\ rd'.matched = rd.matched
      /\ rd'.at = rd.at /\ CallKept
  BY <1>1, <1>2, <1>3 DEF Scratches, CallKept, OpenInside, Local, Preparing
<1>5. /\ Len(rd.record) = d + 2 /\ Len(rd.open) = 2 * d + 2
      /\ Stack(rd.ev, rd.i, rd.open, rd.record, SurePaths)
  BY <1>1, <1>2 DEF StackFits
<1>6. /\ Token = rd.ev[rd.i] /\ rd.ev[rd.i].t = "open"
      /\ rd.open[2 * d + 2] \subseteq rd.ev[rd.i].bases
      /\ \A p \in SurePaths :
            /\ BaseOf[p] \in rd.ev[rd.i].bases => BaseOf[p] \in rd.open[2 * d + 2]
            /\ Wanted(p, rd.ev[rd.i].path) => rd.record[d + 2] = TRUE
  BY <1>1, <1>2 DEF TopFits, Token
<1>7. /\ Len(rd'.open) = 2 * d + 3 /\ rd'.open[2 * d + 3] = new
      /\ \A x \in 1..2 * d + 2 : rd'.open[x] = rd.open[x]
  <2>1. new \in SUBSET Bases
    BY DEF TypeFits, Scratches, Wilds
  <2>2. rd'.open = Append(rd.open, new)
    BY <1>2, <1>3 DEF Scratches
  <2>3. d \in Nat /\ Len(rd.open) = 2 * d + 2 /\ rd.open \in Seq(SUBSET Bases)
    BY <1>2, <1>5
  <2> HIDE DEF new, d
  <2>4. (2 * d + 2) + 1 = 2 * d + 3
    BY <2>3
  <2>5. QED
    BY <2>1, <2>2, <2>3, <2>4, Appended
<1>8. LoadsFit' /\ SurePaths' = SurePaths
  BY <1>2, <1>4, LoadsKept
<1>9. ASSUME NEW p \in SurePaths, Wanted(p, rd.ev[rd.i].path), BaseOf[p] = rd.ev[rd.i].path
      PROVE  BaseOf[p] \in new
  <2>1. Recording
    <3>1. rd.record[d + 2] = TRUE
      BY <1>6, <1>9
    <3>2. QED
      BY <1>5, <3>1 DEF Recording
  <2>2. BaseOf[p] # NoBase
    <3>1. rd.ev[rd.i].path \in PathNames
      BY <1>2, <1>6, TokenFits
    <3>2. QED
      BY <1>9, <3>1, PathsAssumption
  <2>3. rd.table # "nil" /\ BaseOf[p] \in Wilds
    BY <1>1, <1>2, <2>2 DEF LoadsFit, Preparing
  <2>4. QED
    BY <1>6, <1>9, <2>1, <2>3
<1>10. StackFits'
  <2>1. Depth(rd.ev, rd.i + 1) = d + 1
    BY <1>2, <1>6, DepthNext
  <2>2. Stack(rd.ev, rd.i, rd'.open, rd.record, SurePaths)
    <3>1. \A x \in 1..2 * d + 1 : rd'.open[x] = rd.open[x]
      <4>1. \A x \in 1..2 * d + 1 : x \in 1..2 * d + 2
        <5>1. d \in Nat
          BY <1>2
        <5> HIDE DEF d
        <5>2. QED
          BY <5>1
      <4>2. QED
        BY <1>7, <4>1
    <3>2. QED
      BY <1>2, <1>5, <3>1, StackAgrees
  <2>3. rd'.open[2 * d + 2] = rd.open[2 * d + 2]
    <3>1. 2 * d + 2 \in 1..2 * d + 2
      BY <1>2
    <3>2. QED
      BY <1>7, <3>1
  <2>4. rd'.open[2 * d + 3] \subseteq {rd.ev[rd.i].path}
    BY <1>6, <1>7
  <2>5. \A p \in SurePaths : Wanted(p, rd.ev[rd.i].path) =>
          /\ rd.record[d + 2] = TRUE
          /\ BaseOf[p] \in rd.ev[rd.i].bases => BaseOf[p] \in rd'.open[2 * d + 2]
          /\ BaseOf[p] = rd.ev[rd.i].path => BaseOf[p] \in rd'.open[2 * d + 3]
    <3> HIDE DEF new
    <3>1. QED
      BY <1>6, <1>7, <1>9, <2>3
  <2>6. Stack(rd.ev, rd.i + 1, rd'.open, rd.record, SurePaths)
    <3>1. rd'.open[2 * d + 2] \subseteq rd.ev[rd.i].bases
      BY <1>6, <2>3
    <3>2. QED
      BY <1>2, <1>6, <2>2, <2>4, <2>5, <3>1, StackOpen
  <2>7. d + 1 \in Nat /\ 2 * d + 3 = 2 * (d + 1) + 1 /\ d + 2 = (d + 1) + 1
    <3>1. d \in Nat
      BY <1>2
    <3> HIDE DEF d
    <3>2. QED
      BY <3>1
  <2>8. Len(rd'.open) = 2 * (d + 1) + 1 /\ Len(rd'.record) = (d + 1) + 1
    BY <1>4, <1>5, <1>7, <2>7
  <2>9. QED
    BY <1>4, <1>8, <2>1, <2>6, <2>7, <2>8 DEF StackFits
<1>11. TopFits'
  BY <1>4 DEF TopFits
<1>12. ValuesFit'
  BY <1>2, <1>4, <1>6, ValuesKept
<1>13. QED
  BY <1>2, <1>4, <1>8, <1>10, <1>11, <1>12 DEF ReaderFits, Preparing

\* The end of the preparation.
LEMMA PreparedKept ==
    ASSUME TypeFits, WriterFits, ReaderFits, Prepared
    PROVE  ReaderFits'
<1>1. rd.pc = "token" /\ rd.i > Len(rd.ev)
  BY DEF Prepared
<1>2. /\ rd \in Scratches /\ rd.i \in Nat \ {0} /\ LoadsFit /\ ValuesFit
      /\ rd.i \in 1..Len(rd.ev) + 1 /\ Len(rd.ev) \in Nat
      /\ rd.matched = {} /\ rd.at = [r \in Rules |-> 1]
  BY <1>1, PreparingFits DEF Preparing
<1>3. /\ rd'.pc = "visit" /\ rd'.i = rd.i /\ rd'.ev = rd.ev /\ rd'.vals = rd.vals
      /\ rd'.matched = rd.matched /\ rd'.at = rd.at /\ CallKept
  BY <1>1, <1>2 DEF Scratches, CallKept, Prepared, Local, Preparing
<1>4. LoadsFit' /\ Sure' = Sure
  BY <1>2, <1>3, LoadsKept
<1>5. ValuesFit'
  BY <1>2, <1>3, ValuesKept
<1>6. rd'.i = Len(rd'.ev) + 1
  BY <1>1, <1>2, <1>3
<1>7. VisitFits'
  <2>1. \A r \in Rules : rd'.at[r] = 1 /\ 1 \in 1..Len(CondsOf[r]) + 1
    BY <1>2, <1>3, CondPath
  <2>2. Sure \subseteq Rules
    BY <1>2, SureRules DEF WriterFits, Sure, LoadsFit, Scratches
  <2>3. rd'.matched = {}
    BY <1>2, <1>3
  <2>4. QED
    BY <1>4, <2>1, <2>2, <2>3 DEF VisitFits
<1>8. QED
  BY <1>3, <1>4, <1>5, <1>6, <1>7 DEF ReaderFits, Preparing

\* Where the traversal is.
LEMMA VisitingFits ==
    ASSUME TypeFits, ReaderFits, rd.pc = "visit"
    PROVE  /\ rd \in Scratches /\ rd.i \in Nat \ {0} /\ LoadsFit /\ ValuesFit /\ VisitFits
           /\ rd.i = Len(rd.ev) + 1 /\ Sure \subseteq Rules
<1>1. rd \in Scratches /\ rd.i \in Nat \ {0}
  BY DEF TypeFits, Scratches
<1>2. LoadsFit /\ ValuesFit /\ VisitFits /\ rd.i = Len(rd.ev) + 1
  BY DEF ReaderFits
<1>3. Sure \subseteq Rules
  BY <1>1 DEF Scratches, Sure
<1>4. QED
  BY <1>1, <1>2, <1>3

\* A followed condition holds for the values recorded.
LEMMA VisitKept ==
    ASSUME TypeFits, WriterFits, ReaderFits, NEW r \in Rules, Visit(r)
    PROVE  ReaderFits'
<1>1. rd.pc = "visit" /\ Follows(r)
  BY DEF Visit
<1>2. /\ rd \in Scratches /\ rd.i \in Nat \ {0} /\ LoadsFit /\ ValuesFit /\ VisitFits
      /\ rd.i = Len(rd.ev) + 1 /\ Sure \subseteq Rules
  BY <1>1, VisitingFits
<1>3. /\ rd'.pc = "visit" /\ rd'.i = rd.i /\ rd'.ev = rd.ev /\ rd'.vals = rd.vals
      /\ rd'.matched = rd.matched /\ rd'.at = [rd.at EXCEPT ![r] = @ + 1] /\ CallKept
  BY <1>1, <1>2 DEF Scratches, CallKept, Visit, Local, Preparing
<1>4. LoadsFit' /\ Sure' = Sure /\ \A x : Visible(x)' <=> Visible(x)
  BY <1>2, <1>3, LoadsKept
<1>5. ValuesFit'
  BY <1>2, <1>3, ValuesKept
<1>6. rd.at \in [Rules -> Nat]
  BY <1>2 DEF Scratches
<1>7. /\ rd.at[r] <= Len(CondsOf[r]) /\ rd.at[r] \in Nat \ {0} /\ Len(CondsOf[r]) \in Nat
      /\ CondHolds(CondsOf[r][rd.at[r]], ValuesAt(CondsOf[r][rd.at[r]].path))
  BY <1>1, <1>2, <1>6, CondPath DEF Follows, VisitFits
<1>8. rd'.at[r] = rd.at[r] + 1 /\ \A x \in Rules \ {r} : rd'.at[x] = rd.at[x]
  BY <1>3, <1>6
<1>9. \A p : ValuesAt(p)' = ValuesAt(p)
  BY <1>3 DEF ValuesAt
<1>10. VisitFits'
  <2>1. ASSUME NEW x \in Rules PROVE rd'.at[x] \in 1..Len(CondsOf[x]) + 1
    BY <1>2, <1>7, <1>8 DEF VisitFits
  <2>2. ASSUME NEW x \in Sure, NEW k \in 1..rd'.at[x] - 1
        PROVE  CondHolds(CondsOf[x][k], ValuesAt(CondsOf[x][k].path))
    <3>1. CASE x = r /\ k = rd.at[r]
      BY <1>7, <3>1
    <3>2. CASE ~(x = r /\ k = rd.at[r])
      <4>1. k \in 1..rd.at[x] - 1
        BY <1>2, <1>7, <1>8, <3>2
      <4>2. QED
        BY <1>2, <4>1 DEF VisitFits
    <3>3. QED
      BY <3>1, <3>2
  <2>3. ASSUME NEW x \in rd.matched PROVE Visible(x) /\ rd'.at[x] = Len(CondsOf[x]) + 1
    <3>1. Visible(x) /\ rd.at[x] = Len(CondsOf[x]) + 1 /\ x \in Rules
      BY <1>2 DEF VisitFits, Scratches
    <3>2. x # r
      BY <1>7, <3>1
    <3>3. QED
      BY <1>8, <3>1, <3>2
  <2>4. \A x \in Sure : \A k \in 1..rd'.at[x] - 1 :
            CondHolds(CondsOf[x][k], ValuesAt(CondsOf[x][k].path)')
    BY <1>9, <2>2
  <2>5. QED
    BY <1>3, <1>4, <2>1, <2>3, <2>4 DEF VisitFits
<1>11. QED
  BY <1>2, <1>3, <1>4, <1>5, <1>10 DEF ReaderFits, Preparing

\* What is collected is visible, and all its conditions were followed.
LEMMA CollectKept ==
    ASSUME TypeFits, WriterFits, ReaderFits, NEW r \in Rules, Collect(r)
    PROVE  ReaderFits'
<1>1. rd.pc = "visit" /\ rd.at[r] = Len(CondsOf[r]) + 1 /\ Visible(r)
  BY DEF Collect
<1>2. /\ rd \in Scratches /\ rd.i \in Nat \ {0} /\ LoadsFit /\ ValuesFit /\ VisitFits
      /\ rd.i = Len(rd.ev) + 1 /\ Sure \subseteq Rules
  BY <1>1, VisitingFits
<1>3. /\ rd'.pc = "visit" /\ rd'.i = rd.i /\ rd'.ev = rd.ev /\ rd'.vals = rd.vals
      /\ rd'.matched = rd.matched \cup {r} /\ rd'.at = rd.at /\ CallKept
  BY <1>1, <1>2 DEF Scratches, CallKept, Collect, Local, Preparing
<1>4. LoadsFit' /\ Sure' = Sure /\ \A x : Visible(x)' <=> Visible(x)
  BY <1>2, <1>3, LoadsKept
<1>5. ValuesFit'
  BY <1>2, <1>3, ValuesKept
<1>6. \A p : ValuesAt(p)' = ValuesAt(p)
  BY <1>3 DEF ValuesAt
<1>7. VisitFits'
  BY <1>1, <1>2, <1>3, <1>4, <1>6 DEF VisitFits
<1>8. QED
  BY <1>2, <1>3, <1>4, <1>5, <1>7 DEF ReaderFits, Preparing

\* At the end of an event the values recorded for sure rules are the event's.
LEMMA AllPassed ==
    ASSUME ValuesFit, rd.i = Len(rd.ev) + 1, Len(rd.ev) \in Nat, NEW p \in SurePaths
    PROVE  ValuesAt(p) = ValuesIn(rd.ev, p)
<1>1. rd.i - 1 = Len(rd.ev)
  OBVIOUS
<1>2. \A v : v \in Passed(p) <=> v \in ValuesIn(rd.ev, p)
  BY <1>1 DEF Passed, ValuesIn, Elems, Parts
<1>3. Passed(p) = ValuesIn(rd.ev, p)
  BY <1>2 DEF Passed, ValuesIn
<1>4. QED
  BY <1>3 DEF ValuesFit

\* A traversal does not end before a rule that was ready and holds.
LEMMA FinishKept ==
    ASSUME TypeFits, WriterFits, ReaderFits, Finish
    PROVE  ReaderFits'
<1>1. rd.pc = "visit"
  BY DEF Finish
<1>2. /\ rd \in Scratches /\ rd.i \in Nat \ {0} /\ LoadsFit /\ ValuesFit /\ VisitFits
      /\ rd.i = Len(rd.ev) + 1 /\ Sure \subseteq Rules
  BY <1>1, VisitingFits
<1>3. /\ rd'.pc = "done" /\ rd'.i = rd.i /\ rd'.ev = rd.ev /\ rd'.vals = rd.vals
      /\ rd'.matched = rd.matched /\ rd'.at = rd.at /\ rd'.ready = rd.ready /\ CallKept
  BY <1>1, <1>2 DEF Scratches, CallKept, Finish, Local, Preparing
<1>4. LoadsFit' /\ Sure' = Sure /\ \A x : Visible(x)' <=> Visible(x)
  BY <1>2, <1>3, LoadsKept
<1>5. ValuesFit'
  BY <1>2, <1>3, ValuesKept
<1>6. VisitFits'
  <2>1. \A p : ValuesAt(p)' = ValuesAt(p)
    BY <1>3 DEF ValuesAt
  <2>2. QED
    BY <1>2, <1>3, <1>4, <2>1 DEF VisitFits
<1>7. ASSUME NEW r \in rd.ready, Truth(r, rd.ev) PROVE r \in rd.matched
  <2>1. /\ r \in Rules /\ LaidOut(r)
        /\ \A c \in Elems(CondsOf[r]) : c.path \in SurePaths
    BY <1>2, SureRules DEF Sure
  <2>2. /\ Len(CondsOf[r]) \in Nat /\ rd.at[r] \in 1..Len(CondsOf[r]) + 1
        /\ \A k \in 1..Len(CondsOf[r]) : CondsOf[r][k] \in Elems(CondsOf[r])
    BY <1>2, <2>1, CondPath DEF VisitFits
  <2>3. rd.at[r] = Len(CondsOf[r]) + 1
    <3>1. SUFFICES ASSUME rd.at[r] \in 1..Len(CondsOf[r]) PROVE FALSE
      BY <2>2
    <3> DEFINE c == CondsOf[r][rd.at[r]]
    <3>2. c \in Elems(CondsOf[r])
      BY <2>2, <3>1
    <3>3. <<r, rd.at[r]>> \in edges
      BY <2>1, <3>1 DEF LaidOut, Laid
    <3>4. c.kind = "absent" => rd.absent
      BY <1>1, <1>2, <3>2 DEF LoadsFit
    <3>5. CondHolds(c, ValuesAt(c.path))
      <4>1. CondHolds(c, ValuesIn(rd.ev, c.path))
        BY <1>7, <3>2 DEF Truth
      <4>2. Len(rd.ev) \in Nat
        BY <1>1, EventSeq DEF TypeFits
      <4>3. ValuesAt(c.path) = ValuesIn(rd.ev, c.path)
        BY <1>2, <2>1, <3>2, <4>2, AllPassed
      <4>4. QED
        BY <4>1, <4>3
    <3>6. rd.at[r] <= Len(CondsOf[r])
      BY <2>2, <3>1
    <3>7. Follows(r)
      BY <3>3, <3>4, <3>5, <3>6 DEF Follows
    <3>8. QED
      BY <3>7 DEF Finish
  <2>4. Visible(r)
    <3>1. Via[r] = "add" => r \in rd.limit
      BY <1>1, <1>2 DEF LoadsFit
    <3>2. Via[r] # "add" => r \in rd.version
      <4>1. Via[r] \in {"add", "replace"}
        BY <2>1, PathsAssumption
      <4>2. QED
        BY <1>1, <1>2, <4>1 DEF LoadsFit
    <3>3. QED
      BY <3>1, <3>2 DEF Visible
  <2>5. QED
    BY <2>3, <2>4 DEF Finish
<1>8. ReadyRulesMatch'
  BY <1>3, <1>7 DEF ReadyRulesMatch
<1>9. QED
  BY <1>2, <1>3, <1>4, <1>5, <1>6, <1>8 DEF ReaderFits, Preparing

-----------------------------------------------------------------------------
(* The theorems.                                                           *)

\* Everything addPath records and everything a call keeps fit together.
THEOREM PrepareInductive == Spec => []PrepareInv
<1>1. Init => PrepareInv
  <2>1. SUFFICES ASSUME Init PROVE PrepareInv
    OBVIOUS
  <2>2. ReaderFits
    BY <2>1 DEF Init, IdleReader, ReaderFits, Preparing
  <2>3. QED
    BY <2>1, <2>2, TypeInit, PathsInit, RulesInit DEF PrepareInv, WriterFits
<1>2. PrepareInv /\ [Next]_vars => PrepareInv'
  <2>1. SUFFICES ASSUME PrepareInv, [Next]_vars PROVE PrepareInv'
    OBVIOUS
  <2>2. TypeFits /\ WriterFits /\ PathsFit /\ RulesFit /\ ReaderFits
    BY <2>1 DEF PrepareInv, WriterFits
  <2>3. CASE Writer
    BY <2>2, <2>3, TypeWriter, PathsStep, RulesStep, ReaderKept DEF PrepareInv, WriterFits
  <2>4. CASE Reader
    <3>1. TypeFits'
      BY <2>2, <2>4, TypeReader
    <3>2. UNCHANGED wvars
      BY <2>4 DEF Reader, Match, LoadVersion, LoadIds, LoadAbsent, LoadWilds, OpenWilds, OpenWild,
         Value, OpenObject, OpenInside, CloseObject, Prepared, Visit, Collect, Finish, Rest, Local
    <3>3. WriterFits'
      BY <2>2, <3>2 DEF wvars, known, WriterFits, PathsFit, PutsLeft, RulesFit, LaidOut, Laid, Cond
    <3>4. ASSUME Rest PROVE ReaderFits'
      BY <3>4 DEF Rest, IdleReader, ReaderFits, Preparing
    <3>5. ReaderFits'
      BY <2>2, <2>4, <3>4, BeginKept, LoadWildsKept, OpenWildsKept, OpenWildKept, ValueKept,
         OpenObjectKept, OpenInsideKept, CloseObjectKept, PreparedKept, VisitKept, CollectKept, FinishKept
         DEF Reader, Events
    <3>6. QED
      BY <3>1, <3>3, <3>5 DEF PrepareInv
  <2>5. CASE UNCHANGED vars
    <3>1. /\ UNCHANGED <<numbered, published, known>> /\ UNCHANGED <<hasAbsent, ended, returned>>
          /\ UNCHANGED <<edges, w, rd>>
      BY <2>5 DEF vars, wvars
    <3>2. TypeFits'
      <4>1. hasWilds' \in BOOLEAN /\ hasAbsent' \in BOOLEAN
        <5>1. UNCHANGED <<hasWilds, hasAbsent>>
          BY <3>1 DEF known
        <5>2. QED
          BY <2>2, <5>1 DEF TypeFits
      <4>2. QED
        BY <2>2, <3>1, <4>1 DEF known, TypeFits
    <3>3. WriterFits'
      BY <2>2, <3>1 DEF known, WriterFits, PathsFit, PutsLeft, RulesFit, LaidOut, Laid, Cond
    <3>4. ReaderFits'
      <4>1. rd' = rd /\ published' = published /\ returned' = returned /\ wilds' = wilds
        BY <3>1 DEF known
      <4>2. Sure' = Sure /\ SurePaths' = SurePaths /\ Wilds' = Wilds /\ Token' = Token
        BY <4>1 DEF Sure, SurePaths, Wilds, Token
      <4>3. LoadsFit => LoadsFit'
        BY <4>1, <4>2 DEF LoadsFit
      <4>4. (StackFits => StackFits') /\ (TopFits => TopFits')
        BY <4>1, <4>2 DEF StackFits, TopFits
      <4>5. \A p : ValuesAt(p)' = ValuesAt(p) /\ Passed(p)' = Passed(p)
        BY <4>1 DEF ValuesAt, Passed
      <4>6. (ValuesFit => ValuesFit') /\ (VisitFits => VisitFits')
        BY <4>1, <4>2, <4>5 DEF ValuesFit, VisitFits, Visible
      <4>7. ReadyRulesMatch => ReadyRulesMatch'
        BY <4>1 DEF ReadyRulesMatch
      <4>8. QED
        BY <2>2, <4>1, <4>3, <4>4, <4>6, <4>7 DEF ReaderFits
    <3>5. QED
      BY <3>2, <3>3, <3>4 DEF PrepareInv
  <2>6. QED
    BY <2>1, <2>3, <2>4, <2>5 DEF Next
<1>3. QED
  BY <1>1, <1>2, PTL DEF Spec

\* A rule whose call returned before Match began is reported if it holds,
\* whatever rules and paths are added meanwhile.
THEOREM ReadyRulesAreFound == Spec => []ReadyRulesMatch
<1>1. PrepareInv => ReadyRulesMatch
  BY DEF PrepareInv, ReaderFits, ReadyRulesMatch
<1>2. QED
  BY <1>1, PrepareInductive, PTL

\* The rules of which no conditions are hidden: replacements, whose version is
\* published last, and rules that were ready.
SureMatchesHold ==
    rd.pc = "done" =>
        \A r \in rd.matched : Via[r] = "replace" \/ r \in rd.ready => Truth(r, rd.ev)

\* A reported rule holds unless its AddRule ran during the call.
THEOREM SureMatches == Spec => []SureMatchesHold
<1>1. PrepareInv => SureMatchesHold
  <2>1. SUFFICES ASSUME PrepareInv, rd.pc = "done", NEW r \in rd.matched,
                        Via[r] = "replace" \/ r \in rd.ready
                 PROVE  Truth(r, rd.ev)
    BY DEF SureMatchesHold
  <2>2. /\ TypeFits /\ WriterFits /\ LoadsFit /\ ValuesFit /\ VisitFits
        /\ rd.i = Len(rd.ev) + 1
    BY <2>1 DEF PrepareInv, ReaderFits
  <2>3. r \in Sure
    BY <2>1, <2>2 DEF VisitFits, Visible, Sure
  <2>4. r \in Rules /\ \A c \in Elems(CondsOf[r]) : c.path \in SurePaths
    BY <2>2, <2>3, SureRules
  <2>5. Len(rd.ev) \in Nat /\ Len(CondsOf[r]) \in Nat
    BY <2>1, <2>2, <2>4, CondPath, EventSeq DEF TypeFits
  <2>6. ASSUME NEW c \in Elems(CondsOf[r]) PROVE CondHolds(c, ValuesIn(rd.ev, c.path))
    <3>1. PICK k \in 1..Len(CondsOf[r]) : c = CondsOf[r][k]
      BY DEF Elems
    <3>2. k \in 1..rd.at[r] - 1
      BY <2>2, <2>5 DEF VisitFits
    <3>3. CondHolds(c, ValuesAt(c.path))
      BY <2>2, <2>3, <3>1, <3>2 DEF VisitFits
    <3>4. ValuesAt(c.path) = ValuesIn(rd.ev, c.path)
      BY <2>2, <2>4, <2>5, AllPassed
    <3>5. QED
      BY <3>3, <3>4
  <2>7. QED
    BY <2>6 DEF Truth
<1>2. QED
  BY <1>1, PrepareInductive, PTL

\* Where every rule replaces one, all matches hold: the records of known paths
\* hide no value from a rule that a call reports.
THEOREM MatchesAreTrue ==
    ASSUME \A r \in Rules : Via[r] = "replace"
    PROVE  Spec => []MatchesHold
<1>1. PrepareInv /\ SureMatchesHold => MatchesHold
  BY DEF SureMatchesHold, MatchesHold, PrepareInv, TypeFits, Scratches
<1>2. QED
  BY <1>1, PrepareInductive, SureMatches, PTL

=============================================================================
