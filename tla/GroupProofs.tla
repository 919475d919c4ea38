----------------------------- MODULE GroupProofs -----------------------------
(***************************************************************************)
(* Theorems about one group of the trie: a Match call follows only         *)
(* conditions that hold and, of those compiled before it began, all that   *)
(* do, for any conditions, leaves and number of readers, whatever the      *)
(* writer publishes meanwhile.  What a formula says is an assumption of    *)
(* Group; the steps of the writer and the readers are what is proved.      *)
(***************************************************************************)
EXTENDS Group, SequenceTheorems, TLAPS

-----------------------------------------------------------------------------
(* The inductive invariant.                                                *)

Edge == [cond : Conds, negIndex : Nat]
Kinds == {KindOf[l] : l \in Leaves}

WriterType ==
    [pc : {"idle", "compile", "kind", "edges"}, leaves : SUBSET Leaves, at : SUBSET Leaves,
     edge : [cond : Conds \cup {"-"}, negIndex : Nat]]

ReaderType ==
    [pc : {"idle", "neg", "kinds", "lookup", "gather", "done"}, match : SUBSET Leaves, neg : Nat,
     kinds : SUBSET Kinds, look : SUBSET Leaves, hits : SUBSET Leaves, cand : SUBSET Edge,
     followed : SUBSET Conds, ready : SUBSET Conds]

\* Every variable has its type.
TypeOK ==
    /\ index \in SUBSET Leaves
    /\ kinds \in SUBSET Kinds
    /\ edgesAt \in [Leaves -> SUBSET Edge]
    /\ neg \in Seq(Edge)
    /\ byKey \in SUBSET Conds
    /\ w \in WriterType
    /\ rd \in [Readers -> ReaderType]

\* A reader that loads the kinds now finds these leaves.
Findable(seen) == {l \in index : KindOf[l] \in seen}

\* The condition being compiled: its leaves are still to come or published, and
\* only the kind of the last one may be missing.
Compiling ==
    /\ w.pc # "idle" => w.edge.cond \in Conds \ byKey
    /\ w.pc \in {"compile", "kind"} =>
        w.edge.negIndex = 0 /\ LeavesOf(w.edge.cond) \subseteq index \cup w.leaves
    /\ w.pc = "kind" => w.at \subseteq index
    /\ \A l \in index : KindOf[l] \in kinds \/ (w.pc = "kind" /\ l \in w.at)

\* Where an edge belongs: a monotone one at triggers, a refutable negation at
\* the leaves that refute it.
Belongs(e, l) ==
    \/ e.negIndex = 0 /\ Monotone(e.cond) /\ l \in Triggers(e.cond)
    \/ e.negIndex # 0 /\ Refutable(e.cond) /\ l \in LeavesOf(e.cond)

\* The edge being registered.
Registering ==
    w.pc = "edges" =>
        /\ LeavesOf(w.edge.cond) \subseteq Findable(kinds)
        /\ \A l \in w.at : Belongs(w.edge, l)
        /\ \A l \in Leaves \ w.at : Belongs(w.edge, l) => w.edge \in edgesAt[l]
        /\ w.edge.negIndex # 0 => w.edge.negIndex = Len(neg) + 1 /\ Refutable(w.edge.cond)

\* All that compiling a condition leaves behind.
Compiled(c) ==
    /\ LeavesOf(c) \subseteq Findable(kinds)
    /\ Monotone(c) => \A l \in Triggers(c) : [cond |-> c, negIndex |-> 0] \in edgesAt[l]
    /\ ~Monotone(c) => \E k \in 1..Len(neg) : neg[k].cond = c

\* A published negation is compiled, and one with a position is at its leaves.
Negated(k) ==
    /\ neg[k].cond \in byKey
    /\ ~Monotone(neg[k].cond)
    /\ neg[k].negIndex # 0 =>
        /\ neg[k].negIndex = k
        /\ Refutable(neg[k].cond)
        /\ \A l \in LeavesOf(neg[k].cond) : neg[k] \in edgesAt[l]

\* The edges at a leaf belong there; a negation's is published or about to be.
Registered(l) ==
    \A e \in edgesAt[l] :
        /\ Belongs(e, l)
        /\ e.negIndex # 0 => \/ e.negIndex <= Len(neg) /\ neg[e.negIndex] = e
                             \/ e.negIndex = Len(neg) + 1 /\ w.pc = "edges" /\ e = w.edge

GroupInv ==
    /\ Compiling
    /\ Registering
    /\ \A c \in byKey : Compiled(c)
    /\ \A k \in 1..Len(neg) : Negated(k)
    /\ \A l \in Leaves : Registered(l)

\* The conditions that reader r decides about.
Needed(r) == rd[r].ready \cup {neg[k].cond : k \in 1..rd[r].neg}

\* What the reader loads after the negations covers their leaves.
LoadedNeg(r) ==
    rd[r].pc \notin {"idle", "neg"} =>
        \A c \in rd[r].ready : ~Monotone(c) => \E k \in 1..rd[r].neg : neg[k].cond = c

LoadedKinds(r) ==
    rd[r].pc \in {"lookup", "gather"} =>
        \A c \in Needed(r) : LeavesOf(c) \subseteq Findable(rd[r].kinds)

LookedUpInv(r) ==
    /\ rd[r].hits \subseteq rd[r].match
    /\ rd[r].pc = "lookup" =>
        /\ rd[r].look \subseteq rd[r].match
        /\ \A c \in Needed(r) : LeavesOf(c) \cap rd[r].match \subseteq rd[r].hits \cup rd[r].look
    /\ rd[r].pc = "gather" =>
        /\ rd[r].look \subseteq rd[r].hits
        /\ \A c \in Needed(r) : LeavesOf(c) \cap rd[r].match \subseteq rd[r].hits

\* A candidate belongs to a hit, and if it is a negation that the reader has
\* loaded, it is the one at its position.
Candidate(r, e) ==
    /\ \E l \in rd[r].hits : Belongs(e, l)
    /\ e.negIndex # 0 => \/ e.negIndex <= rd[r].neg /\ neg[e.negIndex] = e
                         \/ e.negIndex > rd[r].neg

Gathered(r) ==
    /\ rd[r].pc \notin {"gather", "done"} => rd[r].cand = {}
    /\ rd[r].pc = "gather" => \A e \in rd[r].cand : Candidate(r, e)
    /\ rd[r].pc = "gather" => \A l \in rd[r].hits \ rd[r].look :
        /\ \A c \in rd[r].ready : Monotone(c) /\ l \in Triggers(c) =>
            [cond |-> c, negIndex |-> 0] \in rd[r].cand
        /\ \A k \in 1..rd[r].neg : neg[k].negIndex # 0 /\ l \in LeavesOf(neg[k].cond) =>
            neg[k] \in rd[r].cand

ReaderInv(r) ==
    /\ rd[r].ready \subseteq byKey
    /\ rd[r].neg <= Len(neg)
    /\ LoadedNeg(r)
    /\ LoadedKinds(r)
    /\ LookedUpInv(r)
    /\ Gathered(r)

Exact(r) ==
    rd[r].pc = "done" =>
        /\ \A c \in rd[r].followed : Eval(c, rd[r].match)
        /\ \A c \in rd[r].ready : Eval(c, rd[r].match) => c \in rd[r].followed

Inv ==
    /\ TypeOK
    /\ GroupInv
    /\ \A r \in Readers : ReaderInv(r) /\ Exact(r)

-----------------------------------------------------------------------------
(* Types.                                                                  *)

\* A sequence of edges with one more at its end.
LEMMA Longer ==
    ASSUME NEW s \in Seq(Edge), NEW e \in Edge
    PROVE  /\ Append(s, e) \in Seq(Edge)
           /\ Len(s) \in Nat
           /\ Len(Append(s, e)) = Len(s) + 1
           /\ \A k \in 1..Len(s) : Append(s, e)[k] = s[k]
           /\ Append(s, e)[Len(s) + 1] = e
<1> QED BY AppendProperties, LenProperties

\* The initial state has the types.
LEMMA InitType == Init => TypeOK
<1> SUFFICES ASSUME Init PROVE TypeOK
  OBVIOUS
<1>1. IdleWriter \in WriterType
  BY DEF IdleWriter, WriterType, NoEdge
<1>2. IdleReader \in ReaderType
  BY DEF IdleReader, ReaderType
<1>3. rd \in [Readers -> ReaderType]
  BY <1>2 DEF Init
<1>4. neg \in Seq(Edge)
  BY EmptySeq DEF Init
<1>5. edgesAt \in [Leaves -> SUBSET Edge]
  BY DEF Init
<1> QED BY <1>1, <1>3, <1>4, <1>5 DEF Init, TypeOK

\* The leaves and triggers of a condition.
LEMMA LeavesType ==
    ASSUME NEW c \in Conds
    PROVE  LeavesOf(c) \subseteq Leaves /\ Triggers(c) \subseteq LeavesOf(c)
<1> QED BY FormulaAssumption

\* While a condition is compiled, the writer's edge is an edge.
LEMMA EdgeType ==
    ASSUME TypeOK, Compiling, w.pc # "idle"
    PROVE  w.edge \in Edge /\ w.edge.cond \in Conds \ byKey
<1> QED BY DEF TypeOK, Compiling, WriterType, Edge

\* What Register makes of the writer's locals.
Position(c) == IF Refutable(c) /\ Len(neg) + 1 < MaxNeg THEN Len(neg) + 1 ELSE 0
Places(c) ==
    IF Monotone(c) THEN Triggers(c) ELSE IF Position(c) # 0 THEN LeavesOf(c) ELSE {}

LEMMA RegisterDef ==
    ASSUME TypeOK, Compiling, Register
    PROVE  /\ w.pc = "compile" /\ w.leaves = {}
           /\ w' = [w EXCEPT !.pc = "edges", !.at = Places(w.edge.cond),
                             !.edge.negIndex = Position(w.edge.cond)]
           /\ Position(w.edge.cond) \in Nat
           /\ Places(w.edge.cond) \subseteq LeavesOf(w.edge.cond)
<1>1. Len(neg) \in Nat
  BY LenProperties DEF TypeOK
<1>2. w.edge.cond \in Conds
  BY EdgeType DEF Register
<1> DEFINE c == w.edge.cond
           refutable == Refutable(c) /\ Len(neg) + 1 < MaxNeg
           at == CASE Monotone(c) -> Triggers(c) [] refutable -> LeavesOf(c) [] OTHER -> {}
<1>3. /\ w.pc = "compile" /\ w.leaves = {}
      /\ w' = [w EXCEPT !.pc = "edges", !.at = at,
                        !.edge.negIndex = IF refutable THEN Len(neg) + 1 ELSE 0]
  BY DEF Register
<1>4. Monotone(c) => ~Refutable(c)
  BY DEF Monotone, Refutable
<1>5. at = Places(c)
  BY <1>1, <1>4 DEF Places, Position
<1>6. Position(c) = IF refutable THEN Len(neg) + 1 ELSE 0
  BY DEF Position
<1>7. Position(c) \in Nat /\ Places(c) \subseteq LeavesOf(c)
  BY <1>1, <1>2, LeavesType DEF Position, Places
<1> HIDE DEF at, refutable
<1> QED BY <1>3, <1>5, <1>6, <1>7

\* Every step of the writer keeps the types.
LEMMA WriterTypes ==
    ASSUME TypeOK, Compiling, Writer
    PROVE  TypeOK'
<1> USE DEF WriterType
<1>0. /\ w \in WriterType
      /\ rd' = rd
      /\ rd \in [Readers -> ReaderType]
  BY DEF TypeOK, Writer, AddCondition, PublishLeaf, OrKind, Register, AddEdge, Finish
<1>1. ASSUME NEW c \in Conds, AddCondition(c)
      PROVE  TypeOK'
  <2>1. LeavesOf(c) \subseteq Leaves
    BY LeavesType
  <2>2. w' = [IdleWriter EXCEPT !.pc = "compile", !.leaves = LeavesOf(c) \ index, !.edge.cond = c]
    BY <1>1 DEF AddCondition
  <2>3. w' \in WriterType
    BY <2>1, <2>2 DEF IdleWriter, NoEdge
  <2> QED BY <1>0, <1>1, <2>3 DEF AddCondition, TypeOK
<1>2. ASSUME PublishLeaf
      PROVE  TypeOK'
  <2>1. PICK l \in w.leaves :
            /\ index' = index \cup {l}
            /\ w' = [w EXCEPT !.pc = "kind", !.leaves = @ \ {l}, !.at = {l}]
    BY <1>2 DEF PublishLeaf
  <2>2. l \in Leaves
    BY <1>0
  <2>3. w' \in WriterType
    BY <1>0, <2>1, <2>2
  <2> QED BY <1>0, <1>2, <2>1, <2>2, <2>3 DEF PublishLeaf, TypeOK
<1>3. ASSUME OrKind
      PROVE  TypeOK'
  <2>1. w' \in WriterType
    BY <1>0, <1>3 DEF OrKind
  <2>2. kinds' \in SUBSET Kinds
    BY <1>0, <1>3 DEF OrKind, TypeOK, Kinds
  <2> QED BY <1>0, <1>3, <2>1, <2>2 DEF OrKind, TypeOK
<1>4. ASSUME Register
      PROVE  TypeOK'
  <2>1. LeavesOf(w.edge.cond) \subseteq Leaves
    BY <1>4, EdgeType, LeavesType DEF Register
  <2>2. /\ w' = [w EXCEPT !.pc = "edges", !.at = Places(w.edge.cond),
                          !.edge.negIndex = Position(w.edge.cond)]
        /\ Position(w.edge.cond) \in Nat
        /\ Places(w.edge.cond) \subseteq Leaves
    BY <1>4, <2>1, RegisterDef
  <2>3. w' \in WriterType
    BY <1>0, <2>2
  <2> QED BY <1>0, <1>4, <2>3 DEF Register, TypeOK
<1>5. ASSUME AddEdge
      PROVE  TypeOK'
  <2>1. PICK l \in w.at :
            /\ edgesAt' = [edgesAt EXCEPT ![l] = @ \cup {w.edge}]
            /\ w' = [w EXCEPT !.at = @ \ {l}]
    BY <1>5 DEF AddEdge
  <2>2. w.edge \in Edge
    BY <1>5, EdgeType DEF AddEdge
  <2>3. edgesAt' \in [Leaves -> SUBSET Edge]
    BY <1>0, <2>1, <2>2 DEF TypeOK
  <2>4. w' \in WriterType
    BY <1>0, <2>1
  <2> QED BY <1>0, <1>5, <2>3, <2>4 DEF AddEdge, TypeOK
<1>6. ASSUME Finish
      PROVE  TypeOK'
  <2>1. w.edge \in Edge /\ w.edge.cond \in Conds
    BY <1>6, EdgeType DEF Finish
  <2>2. neg' \in Seq(Edge)
    BY <1>6, <2>1, Longer DEF Finish, TypeOK
  <2>3. w' \in WriterType
    BY <1>6 DEF Finish, IdleWriter, NoEdge
  <2> QED BY <1>0, <1>6, <2>1, <2>2, <2>3 DEF Finish, TypeOK
<1> QED BY <1>1, <1>2, <1>3, <1>4, <1>5, <1>6 DEF Writer

\* Every step of a reader keeps the types, and the group as it is.
LEMMA ReaderTypes ==
    ASSUME TypeOK, \A r \in Readers : ReaderInv(r), NEW r \in Readers, Reader(r)
    PROVE  /\ UNCHANGED gvars
           /\ \A q \in Readers \ {r} : rd'[q] = rd[q]
           /\ rd' \in [Readers -> ReaderType]
           /\ TypeOK'
<1> USE DEF ReaderType
<1>0. rd \in [Readers -> ReaderType] /\ rd[r] \in ReaderType
  BY DEF TypeOK
<1>1. UNCHANGED gvars
  BY DEF Reader, Eval0, LoadNeg, LoadKinds, Lookup, LookedUp, Gather, Choose, Rest
<1>2. \E me \in ReaderType : rd' = [rd EXCEPT ![r] = me]
  <2>1. ASSUME NEW match \in SUBSET Leaves, Eval0(r, match)
        PROVE  \E me \in ReaderType : rd' = [rd EXCEPT ![r] = me]
    <3>1. [IdleReader EXCEPT !.pc = "neg", !.match = match, !.ready = byKey] \in ReaderType
      BY DEF IdleReader, TypeOK
    <3> QED BY <2>1, <3>1 DEF Eval0
  <2>2. ASSUME LoadNeg(r)
        PROVE  \E me \in ReaderType : rd' = [rd EXCEPT ![r] = me]
    <3>1. Len(neg) \in Nat
      BY LenProperties DEF TypeOK
    <3>2. rd' = [rd EXCEPT ![r] = [rd[r] EXCEPT !.pc = "kinds", !.neg = Len(neg)]]
      BY <1>0, <2>2 DEF LoadNeg
    <3> QED BY <1>0, <3>1, <3>2
  <2>3. ASSUME LoadKinds(r)
        PROVE  \E me \in ReaderType : rd' = [rd EXCEPT ![r] = me]
    <3>1. rd' = [rd EXCEPT ![r] = [rd[r] EXCEPT !.pc = "lookup", !.kinds = kinds, !.look = rd[r].match]]
      BY <1>0, <2>3 DEF LoadKinds
    <3> QED BY <1>0, <3>1 DEF TypeOK
  <2>4. ASSUME NEW l \in rd[r].look, Lookup(r, l)
        PROVE  \E me \in ReaderType : rd' = [rd EXCEPT ![r] = me]
    <3>1. rd' = [rd EXCEPT ![r] = [rd[r] EXCEPT !.look = @ \ {l},
                    !.hits = IF l \in index /\ KindOf[l] \in rd[r].kinds THEN @ \cup {l} ELSE @]]
      BY <1>0, <2>4 DEF Lookup
    <3>2. l \in Leaves
      BY <1>0
    <3> QED BY <1>0, <3>1, <3>2
  <2>5. ASSUME LookedUp(r)
        PROVE  \E me \in ReaderType : rd' = [rd EXCEPT ![r] = me]
    <3>1. rd' = [rd EXCEPT ![r] = [rd[r] EXCEPT !.pc = "gather", !.look = rd[r].hits]]
      BY <1>0, <2>5 DEF LookedUp
    <3> QED BY <1>0, <3>1
  <2>6. ASSUME NEW l \in rd[r].look, Gather(r, l)
        PROVE  \E me \in ReaderType : rd' = [rd EXCEPT ![r] = me]
    <3>1. rd' = [rd EXCEPT ![r] = [rd[r] EXCEPT !.look = @ \ {l}, !.cand = @ \cup edgesAt[l]]]
      BY <1>0, <2>6 DEF Gather
    <3>2. edgesAt[l] \subseteq Edge
      BY <1>0 DEF TypeOK
    <3> QED BY <1>0, <3>1, <3>2
  <2>7. ASSUME Choose(r)
        PROVE  \E me \in ReaderType : rd' = [rd EXCEPT ![r] = me]
    <3>1. rd' = [rd EXCEPT ![r] = [rd[r] EXCEPT !.pc = "done", !.followed = {c.cond : c \in Followed(r)}]]
      BY <1>0, <2>7 DEF Choose
    <3>2. Followed(r) \subseteq rd[r].cand \cup {neg[k] : k \in 1..rd[r].neg}
      BY DEF Followed
    <3>3. \A k \in 1..rd[r].neg : neg[k] \in Edge
      BY <1>0, ElementOfSeq, LenProperties DEF TypeOK, ReaderInv
    <3>4. Followed(r) \subseteq Edge
      BY <1>0, <3>2, <3>3
    <3>5. {c.cond : c \in Followed(r)} \subseteq Conds
      BY <3>4 DEF Edge
    <3> QED BY <1>0, <3>1, <3>5
  <2>8. ASSUME Rest(r)
        PROVE  \E me \in ReaderType : rd' = [rd EXCEPT ![r] = me]
    <3>1. IdleReader \in ReaderType
      BY DEF IdleReader
    <3> QED BY <2>8, <3>1 DEF Rest
  <2> QED BY <2>1, <2>2, <2>3, <2>4, <2>5, <2>6, <2>7, <2>8 DEF Reader
<1>3. rd' \in [Readers -> ReaderType] /\ \A q \in Readers \ {r} : rd'[q] = rd[q]
  BY <1>0, <1>2
<1> QED BY <1>1, <1>3 DEF TypeOK, gvars

-----------------------------------------------------------------------------
(* The writer.                                                             *)

\* What the writer has published stays: every step only adds.
Grows ==
    /\ index \subseteq index' /\ kinds \subseteq kinds' /\ byKey \subseteq byKey'
    /\ \A l \in Leaves : edgesAt[l] \subseteq edgesAt'[l]
    /\ Len(neg) \in Nat /\ Len(neg') \in Nat /\ Len(neg) <= Len(neg')
    /\ \A k \in 1..Len(neg) : neg'[k] = neg[k]

\* Every step of the writer publishes more and takes nothing back.
LEMMA WriterGrows ==
    ASSUME TypeOK, Compiling, Writer
    PROVE  Grows /\ rd' = rd
<1>0. Len(neg) \in Nat /\ edgesAt \in [Leaves -> SUBSET Edge]
  BY LenProperties DEF TypeOK
<1>1. ASSUME NEW c \in Conds, AddCondition(c)
      PROVE  Grows /\ rd' = rd
  BY <1>0, <1>1 DEF AddCondition, Grows
<1>2. ASSUME PublishLeaf
      PROVE  Grows /\ rd' = rd
  BY <1>0, <1>2 DEF PublishLeaf, Grows
<1>3. ASSUME OrKind
      PROVE  Grows /\ rd' = rd
  BY <1>0, <1>3 DEF OrKind, Grows
<1>4. ASSUME Register
      PROVE  Grows /\ rd' = rd
  <2>1. UNCHANGED <<index, kinds, edgesAt, neg, byKey, rd>>
    BY <1>4 DEF Register
  <2> QED BY <1>0, <2>1 DEF Grows
<1>5. ASSUME AddEdge
      PROVE  Grows /\ rd' = rd
  BY <1>0, <1>5 DEF AddEdge, Grows
<1>6. ASSUME Finish
      PROVE  Grows /\ rd' = rd
  <2>1. /\ Len(neg') \in Nat /\ Len(neg) <= Len(neg')
        /\ \A k \in 1..Len(neg) : neg'[k] = neg[k]
    BY <1>0, <1>6, EdgeType, Longer DEF Finish, TypeOK
  <2> QED BY <1>0, <1>6, <2>1 DEF Finish, Grows
<1> QED BY <1>1, <1>2, <1>3, <1>4, <1>5, <1>6 DEF Writer

\* What is compiled stays compiled while more is published.
LEMMA CompiledStays ==
    ASSUME Grows, NEW c \in Conds, Compiled(c)
    PROVE  Compiled(c)'
<1>1. LeavesOf(c) \subseteq Findable(kinds)'
  BY DEF Compiled, Findable, Grows
<1>2. ASSUME Monotone(c), NEW l \in Triggers(c)
      PROVE  [cond |-> c, negIndex |-> 0] \in edgesAt'[l]
  BY <1>2, LeavesType DEF Compiled, Grows
<1>3. ~Monotone(c) => \E k \in 1..Len(neg') : neg'[k].cond = c
  BY DEF Compiled, Grows
<1> QED BY <1>1, <1>2, <1>3 DEF Compiled

\* The same of a negation with its position.
LEMMA NegatedStays ==
    ASSUME Grows, TypeOK, NEW k \in 1..Len(neg), Negated(k)
    PROVE  Negated(k)'
<1>1. neg'[k] = neg[k] /\ neg[k].cond \in byKey /\ byKey \subseteq byKey'
  BY DEF Grows, Negated
<1>2. neg[k].cond \in Conds
  BY <1>1 DEF TypeOK
<1>3. \A l \in LeavesOf(neg[k].cond) : edgesAt[l] \subseteq edgesAt'[l]
  BY <1>2, LeavesType DEF Grows
<1> QED BY <1>1, <1>3 DEF Negated

\* Steps before the edges are registered leave what is at the leaves alone.
LEMMA RegisteredStays ==
    ASSUME TypeOK, UNCHANGED <<edgesAt, neg>>, w.pc = "edges" => w'.pc = "edges" /\ w'.edge = w.edge,
           NEW l \in Leaves, Registered(l)
    PROVE  Registered(l)'
<1> QED BY DEF Registered, Belongs

\* AddCondition keeps the invariant: a condition begins with no leaf published
\* but those that others have.
LEMMA AddConditionInv ==
    ASSUME TypeOK, GroupInv, NEW c \in Conds, AddCondition(c)
    PROVE  GroupInv'
<1>0. Grows
  BY WriterGrows DEF Writer, GroupInv
<1>1. /\ w.pc = "idle" /\ c \notin byKey
      /\ w' = [pc |-> "compile", leaves |-> LeavesOf(c) \ index, at |-> {},
               edge |-> [cond |-> c, negIndex |-> 0]]
      /\ UNCHANGED <<index, kinds, edgesAt, neg, byKey, rd>>
  BY DEF AddCondition, IdleWriter, NoEdge
<1>2. Compiling'
  BY <1>1 DEF GroupInv, Compiling
<1>3. Registering'
  BY <1>1 DEF Registering
<1>4. \A d \in byKey' : Compiled(d)'
  BY <1>0, <1>1, CompiledStays DEF GroupInv, TypeOK
<1>5. \A k \in 1..Len(neg') : Negated(k)'
  BY <1>0, <1>1, NegatedStays DEF GroupInv
<1>6. \A l \in Leaves : Registered(l)'
  BY <1>1, RegisteredStays DEF GroupInv
<1> QED BY <1>2, <1>3, <1>4, <1>5, <1>6 DEF GroupInv

\* PublishLeaf keeps it: only the kind of the new leaf may be missing.
LEMMA PublishLeafInv ==
    ASSUME TypeOK, GroupInv, PublishLeaf
    PROVE  GroupInv'
<1>0. Grows
  BY WriterGrows DEF Writer, GroupInv
<1>1. PICK l \in w.leaves :
        /\ index' = index \cup {l}
        /\ w' = [w EXCEPT !.pc = "kind", !.leaves = @ \ {l}, !.at = {l}]
  BY DEF PublishLeaf
<1>2. w.pc = "compile" /\ UNCHANGED <<kinds, edgesAt, neg, byKey, rd>>
  BY DEF PublishLeaf
<1>3. /\ w'.pc = "kind" /\ w'.leaves = w.leaves \ {l} /\ w'.at = {l} /\ w'.edge = w.edge
  BY <1>1 DEF TypeOK, WriterType
<1>4. Compiling'
  BY <1>1, <1>2, <1>3 DEF GroupInv, Compiling
<1>5. Registering'
  BY <1>3 DEF Registering
<1>6. \A d \in byKey' : Compiled(d)'
  BY <1>0, <1>2, CompiledStays DEF GroupInv, TypeOK
<1>7. \A k \in 1..Len(neg') : Negated(k)'
  BY <1>0, <1>2, NegatedStays DEF GroupInv
<1>8. \A m \in Leaves : Registered(m)'
  BY <1>2, RegisteredStays DEF GroupInv
<1> QED BY <1>4, <1>5, <1>6, <1>7, <1>8 DEF GroupInv

\* OrKind keeps it: the leaf is now found by its kind.
LEMMA OrKindInv ==
    ASSUME TypeOK, GroupInv, OrKind
    PROVE  GroupInv'
<1>0. Grows
  BY WriterGrows DEF Writer, GroupInv
<1>1. /\ w.pc = "kind" /\ kinds' = kinds \cup {KindOf[l] : l \in w.at}
      /\ UNCHANGED <<index, edgesAt, neg, byKey, rd>>
  BY DEF OrKind
<1>2. /\ w'.pc = "compile" /\ w'.leaves = w.leaves /\ w'.edge = w.edge
  BY DEF OrKind, TypeOK, WriterType
<1>3. Compiling'
  BY <1>1, <1>2 DEF GroupInv, Compiling
<1>4. Registering'
  BY <1>2 DEF Registering
<1>5. \A d \in byKey' : Compiled(d)'
  BY <1>0, <1>1, CompiledStays DEF GroupInv, TypeOK
<1>6. \A k \in 1..Len(neg') : Negated(k)'
  BY <1>0, <1>1, NegatedStays DEF GroupInv
<1>7. \A l \in Leaves : Registered(l)'
  BY <1>1, RegisteredStays DEF GroupInv
<1> QED BY <1>3, <1>4, <1>5, <1>6, <1>7 DEF GroupInv

\* Register keeps it: all leaves of the condition can be found, and its edge
\* belongs exactly at the places that are chosen for it, where it is missing.
LEMMA RegisterInv ==
    ASSUME TypeOK, GroupInv, Register
    PROVE  GroupInv'
<1> DEFINE c == w.edge.cond
<1>0. Grows
  BY WriterGrows DEF Writer, GroupInv
<1>1. /\ w.pc = "compile" /\ w.leaves = {}
      /\ UNCHANGED <<index, kinds, edgesAt, neg, byKey, rd>>
      /\ w' = [w EXCEPT !.pc = "edges", !.at = Places(c), !.edge.negIndex = Position(c)]
  BY RegisterDef DEF Register, GroupInv
<1>2. /\ w'.pc = "edges" /\ w'.leaves = {} /\ w'.at = Places(c)
      /\ w'.edge.cond = c /\ w'.edge.negIndex = Position(c)
  BY <1>1 DEF TypeOK, WriterType
<1>3. c \in Conds \ byKey
  BY <1>1, EdgeType DEF GroupInv
<1>4. Compiling'
  BY <1>1, <1>2, <1>3 DEF GroupInv, Compiling
<1>5. Registering'
  <2>1. LeavesOf(c) \subseteq Findable(kinds)
    BY <1>1 DEF GroupInv, Compiling, Findable
  <2>2. \A l \in Leaves : Belongs(w.edge, l)' <=> l \in Places(c)
    <3>1. Len(neg) \in Nat
      BY LenProperties DEF TypeOK
    <3>2. Refutable(c) => ~Monotone(c)
      BY DEF Refutable, Monotone
    <3> QED BY <1>2, <3>1, <3>2 DEF Belongs, Places, Position
  <2>3. Position(c) # 0 => Position(c) = Len(neg) + 1 /\ Refutable(c)
    BY DEF Position
  <2>4. Places(c) \subseteq Leaves
    BY <1>1, <1>3, RegisterDef, LeavesType DEF GroupInv
  <2> QED BY <1>1, <1>2, <2>1, <2>2, <2>3, <2>4 DEF Registering, Findable
<1>6. \A d \in byKey' : Compiled(d)'
  BY <1>0, <1>1, CompiledStays DEF GroupInv, TypeOK
<1>7. \A k \in 1..Len(neg') : Negated(k)'
  BY <1>0, <1>1, NegatedStays DEF GroupInv
<1>8. \A l \in Leaves : Registered(l)'
  BY <1>1, RegisteredStays DEF GroupInv
<1> QED BY <1>4, <1>5, <1>6, <1>7, <1>8 DEF GroupInv

\* AddEdge keeps it: the edge goes where it belongs.
LEMMA AddEdgeInv ==
    ASSUME TypeOK, GroupInv, AddEdge
    PROVE  GroupInv'
<1>0. Grows
  BY WriterGrows DEF Writer, GroupInv
<1>1. PICK l \in w.at :
        /\ edgesAt' = [edgesAt EXCEPT ![l] = @ \cup {w.edge}]
        /\ w' = [w EXCEPT !.at = @ \ {l}]
  BY DEF AddEdge
<1>2. w.pc = "edges" /\ UNCHANGED <<index, kinds, neg, byKey, rd>>
  BY DEF AddEdge
<1>3. /\ w'.pc = "edges" /\ w'.at = w.at \ {l} /\ w'.edge = w.edge
      /\ l \in Leaves
  BY <1>1, <1>2 DEF TypeOK, WriterType
<1>4. Compiling'
  BY <1>2, <1>3 DEF GroupInv, Compiling
<1>5. \A m \in Leaves : edgesAt'[m] = IF m = l THEN edgesAt[m] \cup {w.edge} ELSE edgesAt[m]
  BY <1>1 DEF TypeOK
<1>6. Registering'
  <2>1. \A m \in w'.at : Belongs(w.edge, m)
    BY <1>2, <1>3 DEF GroupInv, Registering
  <2>2. \A m \in Leaves \ w'.at : Belongs(w.edge, m) => w.edge \in edgesAt'[m]
    BY <1>2, <1>3, <1>5 DEF GroupInv, Registering
  <2>3. /\ LeavesOf(w.edge.cond) \subseteq Findable(kinds)'
        /\ w.edge.negIndex # 0 => w.edge.negIndex = Len(neg) + 1 /\ Refutable(w.edge.cond)
    BY <1>2 DEF GroupInv, Registering, Findable
  <2> QED BY <1>2, <1>3, <2>1, <2>2, <2>3 DEF Registering, Belongs
<1>7. \A d \in byKey' : Compiled(d)'
  BY <1>0, <1>2, CompiledStays DEF GroupInv, TypeOK
<1>8. \A k \in 1..Len(neg') : Negated(k)'
  BY <1>0, <1>2, NegatedStays DEF GroupInv
<1>9. ASSUME NEW m \in Leaves, NEW e \in edgesAt'[m]
      PROVE  /\ Belongs(e, m)'
             /\ e.negIndex # 0 => \/ e.negIndex <= Len(neg') /\ neg'[e.negIndex] = e
                                  \/ e.negIndex = Len(neg') + 1 /\ w'.pc = "edges" /\ e = w'.edge
  <2>1. CASE e \in edgesAt[m]
    BY <1>2, <1>3, <2>1 DEF GroupInv, Registered, Belongs
  <2>2. CASE m = l /\ e = w.edge
    BY <1>1, <1>2, <1>3, <2>2 DEF GroupInv, Registering, Belongs
  <2> QED BY <1>5, <1>9, <2>1, <2>2
<1>10. \A m \in Leaves : Registered(m)'
  BY <1>9 DEF Registered
<1> QED BY <1>4, <1>6, <1>7, <1>8, <1>10 DEF GroupInv

\* Finish keeps it: the condition has all that compiling leaves behind.
LEMMA FinishInv ==
    ASSUME TypeOK, GroupInv, Finish
    PROVE  GroupInv'
<1>c. PICK c : c = w.edge.cond
  OBVIOUS
<1>0. Grows
  BY WriterGrows DEF Writer, GroupInv
<1>1. /\ w.pc = "edges" /\ w.at = {}
      /\ neg' = IF Monotone(c) THEN neg ELSE Append(neg, w.edge)
      /\ byKey' = byKey \cup {c}
      /\ w' = IdleWriter
      /\ UNCHANGED <<index, kinds, edgesAt, rd>>
  BY <1>c DEF Finish
<1>2. w.edge \in Edge /\ c \in Conds \ byKey
  BY <1>1, <1>c, EdgeType DEF GroupInv
<1>3. w'.pc = "idle"
  BY <1>1 DEF IdleWriter
<1>4. Len(neg) \in Nat /\ neg \in Seq(Edge)
  BY LenProperties DEF TypeOK
<1>5. ~Monotone(c) => /\ Len(neg') = Len(neg) + 1
                      /\ neg'[Len(neg) + 1] = w.edge
  BY <1>1, <1>2, <1>4, Longer
<1>6. \A l \in Leaves : Belongs(w.edge, l) => w.edge \in edgesAt[l]
  BY <1>1 DEF GroupInv, Registering
<1>7. Compiling'
  BY <1>1, <1>3 DEF GroupInv, Compiling
<1>8. Registering'
  BY <1>3 DEF Registering
<1>9. Compiled(c)'
  <2>1. LeavesOf(c) \subseteq Findable(kinds)'
    BY <1>1, <1>c DEF GroupInv, Registering, Findable
  <2>2. ASSUME Monotone(c), NEW l \in Triggers(c)
        PROVE  [cond |-> c, negIndex |-> 0] \in edgesAt'[l]
    <3>1. w.edge.negIndex = 0
      BY <1>1, <1>c, <2>2 DEF GroupInv, Registering, Monotone, Refutable
    <3>2. w.edge = [cond |-> c, negIndex |-> 0]
      BY <1>2, <1>c, <3>1 DEF Edge
    <3>3. l \in Leaves /\ Belongs(w.edge, l)
      BY <1>2, <1>c, <2>2, <3>1, LeavesType DEF Belongs
    <3> QED BY <1>1, <1>6, <3>2, <3>3
  <2>3. ~Monotone(c) => \E k \in 1..Len(neg') : neg'[k].cond = c
    BY <1>4, <1>5, <1>c
  <2> QED BY <2>1, <2>2, <2>3 DEF Compiled
<1>10. \A d \in byKey' : Compiled(d)'
  BY <1>0, <1>1, <1>9, CompiledStays DEF GroupInv, TypeOK
<1>11. ASSUME ~Monotone(c), NEW n, n = Len(neg) + 1
       PROVE  Negated(n)'
  <2>1. w.edge.negIndex # 0 => w.edge.negIndex = Len(neg) + 1 /\ Refutable(c)
    BY <1>1, <1>c DEF GroupInv, Registering
  <2>2. \A l \in LeavesOf(c) : w.edge.negIndex # 0 => w.edge \in edgesAt'[l]
    BY <1>1, <1>2, <1>c, <1>6, <2>1, LeavesType DEF Belongs
  <2> QED BY <1>1, <1>5, <1>c, <1>11, <2>1, <2>2 DEF Negated
<1>12. \A k \in 1..Len(neg') : Negated(k)'
  <2>1. \A k \in 1..Len(neg) : Negated(k)'
    BY <1>0, NegatedStays DEF GroupInv
  <2>2. CASE Monotone(c)
    BY <1>1, <2>1, <2>2
  <2>3. CASE ~Monotone(c)
    BY <1>4, <1>5, <1>11, <2>1, <2>3
  <2> QED BY <2>2, <2>3
<1>13. ASSUME NEW l \in Leaves, NEW e \in edgesAt[l]
       PROVE  /\ Belongs(e, l)
              /\ e.negIndex # 0 => e.negIndex <= Len(neg') /\ neg'[e.negIndex] = e
  <2>1. e \in Edge /\ Registered(l) /\ Belongs(e, l)
    BY <1>13 DEF TypeOK, GroupInv, Registered
  <2>2. CASE e.negIndex # 0 /\ e.negIndex <= Len(neg) /\ neg[e.negIndex] = e
    <3>1. e.negIndex \in 1..Len(neg)
      BY <1>4, <2>1, <2>2 DEF Edge
    <3> QED BY <1>0, <1>4, <2>1, <2>2, <3>1 DEF Grows
  <2>3. CASE e.negIndex = Len(neg) + 1 /\ e = w.edge
    <3>1. ~Monotone(c)
      BY <1>4, <1>c, <2>1, <2>3 DEF Belongs, Refutable, Monotone
    <3> QED BY <1>4, <1>5, <2>1, <2>3, <3>1
  <2> QED BY <1>13, <2>1, <2>2, <2>3 DEF Registered
<1>14. \A l \in Leaves : Registered(l)'
  BY <1>1, <1>13 DEF Registered, Belongs
<1> QED BY <1>7, <1>8, <1>10, <1>12, <1>14 DEF GroupInv

\* Every step of the writer keeps the group's invariant.
LEMMA WriterInv == ASSUME TypeOK, GroupInv, Writer PROVE GroupInv'
<1> QED BY AddConditionInv, PublishLeafInv, OrKindInv, RegisterInv, AddEdgeInv, FinishInv DEF Writer

-----------------------------------------------------------------------------
(* The readers.                                                            *)

\* What a reader has loaded stays true while the writer publishes more.
LEMMA ReaderStays ==
    ASSUME TypeOK, GroupInv, Writer, NEW r \in Readers, ReaderInv(r), Exact(r)
    PROVE  ReaderInv(r)' /\ Exact(r)'
<1>0. Grows /\ rd' = rd
  BY WriterGrows DEF GroupInv
<1>1. rd[r] \in ReaderType /\ rd[r].neg \in Nat
  BY DEF TypeOK, ReaderType
<1>2. \A k \in 1..rd[r].neg : k \in 1..Len(neg) /\ neg'[k] = neg[k]
  BY <1>0, <1>1 DEF Grows, ReaderInv
<1>3. Needed(r)' = Needed(r)
  BY <1>0, <1>2 DEF Needed
<1>4. Findable(rd[r].kinds) \subseteq Findable(rd[r].kinds)'
  BY <1>0 DEF Findable, Grows
<1>5. rd[r].ready \subseteq byKey' /\ rd[r].neg <= Len(neg')
  BY <1>0, <1>1 DEF Grows, ReaderInv
<1>6. LoadedNeg(r)'
  BY <1>0, <1>2 DEF ReaderInv, LoadedNeg
<1>7. LoadedKinds(r)'
  BY <1>0, <1>3, <1>4 DEF ReaderInv, LoadedKinds
<1>8. LookedUpInv(r)'
  BY <1>0, <1>3 DEF ReaderInv, LookedUpInv
<1>9. ASSUME NEW e \in rd[r].cand, Candidate(r, e)
      PROVE  Candidate(r, e)'
  <2>1. e.negIndex \in Nat
    BY <1>1, <1>9 DEF ReaderType, Edge
  <2>2. e.negIndex # 0 /\ e.negIndex <= rd[r].neg => e.negIndex \in 1..rd[r].neg
    BY <1>1, <2>1
  <2> QED BY <1>0, <1>2, <1>9, <2>1, <2>2 DEF Candidate, Belongs
<1>10. rd[r].pc = "gather" => \A e \in rd[r].cand : Candidate(r, e)'
  BY <1>9 DEF ReaderInv, Gathered
<1>11. Gathered(r)'
  BY <1>0, <1>2, <1>10 DEF ReaderInv, Gathered
<1>12. Exact(r)'
  BY <1>0 DEF Exact
<1> QED BY <1>0, <1>5, <1>6, <1>7, <1>8, <1>11, <1>12 DEF ReaderInv

\* A reader's step leaves what the other readers know alone.
LEMMA OthersStay ==
    ASSUME UNCHANGED gvars, NEW r \in Readers, rd'[r] = rd[r], ReaderInv(r), Exact(r)
    PROVE  ReaderInv(r)' /\ Exact(r)'
<1> QED BY DEF gvars, ReaderInv, Exact, LoadedNeg, LoadedKinds, LookedUpInv, Gathered, Candidate,
               Needed, Findable, Belongs

\* Eval0 and LoadNeg: whatever was compiled before has its negations loaded.
LEMMA Eval0Inv ==
    ASSUME TypeOK, NEW r \in Readers, NEW match \in SUBSET Leaves, Eval0(r, match)
    PROVE  ReaderInv(r)' /\ Exact(r)'
<1>1. /\ rd'[r] = [IdleReader EXCEPT !.pc = "neg", !.match = match, !.ready = byKey]
      /\ UNCHANGED gvars
  BY DEF Eval0, TypeOK
<1>2. /\ rd'[r].pc = "neg" /\ rd'[r].ready = byKey /\ rd'[r].neg = 0
      /\ rd'[r].hits = {} /\ rd'[r].cand = {}
  BY <1>1 DEF IdleReader
<1>3. Len(neg) \in Nat
  BY LenProperties DEF TypeOK
<1> QED BY <1>1, <1>2, <1>3 DEF gvars, ReaderInv, Exact, LoadedNeg, LoadedKinds, LookedUpInv, Gathered

LEMMA LoadNegInv ==
    ASSUME TypeOK, GroupInv, NEW r \in Readers, ReaderInv(r), LoadNeg(r)
    PROVE  ReaderInv(r)' /\ Exact(r)'
<1>1. /\ rd'[r] = [rd[r] EXCEPT !.pc = "kinds", !.neg = Len(neg)]
      /\ UNCHANGED gvars
      /\ rd[r].pc = "neg"
  BY DEF LoadNeg, TypeOK, ReaderType
<1>2. /\ rd'[r].pc = "kinds" /\ rd'[r].neg = Len(neg)
      /\ rd'[r].ready = rd[r].ready /\ rd'[r].hits = rd[r].hits /\ rd'[r].match = rd[r].match
      /\ rd'[r].cand = rd[r].cand
  BY <1>1 DEF TypeOK, ReaderType
<1>3. \A c \in rd[r].ready : Compiled(c)
  BY DEF GroupInv, ReaderInv
<1>4. LoadedNeg(r)'
  BY <1>1, <1>2, <1>3 DEF LoadedNeg, Compiled, gvars
<1>5. Len(neg) \in Nat
  BY LenProperties DEF TypeOK
<1> QED BY <1>1, <1>2, <1>4, <1>5 DEF gvars, ReaderInv, Exact, LoadedKinds, LookedUpInv, Gathered

\* LoadKinds: the kinds of everything compiled before and of every loaded
\* negation are there.
LEMMA LoadKindsInv ==
    ASSUME TypeOK, GroupInv, NEW r \in Readers, ReaderInv(r), LoadKinds(r)
    PROVE  ReaderInv(r)' /\ Exact(r)'
<1>1. /\ rd'[r] = [rd[r] EXCEPT !.pc = "lookup", !.kinds = kinds, !.look = rd[r].match]
      /\ UNCHANGED gvars
      /\ rd[r].pc = "kinds"
  BY DEF LoadKinds, TypeOK, ReaderType
<1>2. /\ rd'[r].pc = "lookup" /\ rd'[r].kinds = kinds /\ rd'[r].look = rd[r].match
      /\ rd'[r].ready = rd[r].ready /\ rd'[r].hits = rd[r].hits /\ rd'[r].match = rd[r].match
      /\ rd'[r].neg = rd[r].neg /\ rd'[r].cand = rd[r].cand
  BY <1>1 DEF TypeOK, ReaderType
<1>3. rd[r].neg \in Nat /\ Len(neg) \in Nat
  BY LenProperties DEF TypeOK, ReaderType
<1>4. Needed(r) \subseteq byKey
  BY <1>3 DEF Needed, ReaderInv, GroupInv, Negated
<1>5. Needed(r)' = Needed(r)
  BY <1>1, <1>2 DEF Needed, gvars
<1>6. LoadedKinds(r)'
  BY <1>1, <1>2, <1>4, <1>5 DEF LoadedKinds, GroupInv, Compiled, Findable, gvars
<1>7. LoadedNeg(r)'
  BY <1>1, <1>2 DEF ReaderInv, LoadedNeg, gvars
<1>8. LookedUpInv(r)'
  BY <1>2, <1>5 DEF ReaderInv, LookedUpInv
<1> QED BY <1>1, <1>2, <1>6, <1>7, <1>8 DEF gvars, ReaderInv, Exact, Gathered

\* Lookup and LookedUp: every leaf of these conditions that matches is found.
LEMMA LookupInv ==
    ASSUME TypeOK, NEW r \in Readers, ReaderInv(r), NEW l \in rd[r].look, Lookup(r, l)
    PROVE  ReaderInv(r)' /\ Exact(r)'
<1>1. /\ rd'[r] = [rd[r] EXCEPT !.look = @ \ {l},
                !.hits = IF l \in index /\ KindOf[l] \in rd[r].kinds THEN @ \cup {l} ELSE @]
      /\ UNCHANGED gvars
      /\ rd[r].pc = "lookup"
  BY DEF Lookup, TypeOK, ReaderType
<1>2. /\ rd'[r].pc = "lookup" /\ rd'[r].kinds = rd[r].kinds /\ rd'[r].look = rd[r].look \ {l}
      /\ rd'[r].hits = IF l \in Findable(rd[r].kinds) THEN rd[r].hits \cup {l} ELSE rd[r].hits
      /\ rd'[r].ready = rd[r].ready /\ rd'[r].match = rd[r].match /\ rd'[r].neg = rd[r].neg
      /\ rd'[r].cand = rd[r].cand
  BY <1>1 DEF TypeOK, ReaderType, Findable
<1>3. Needed(r)' = Needed(r)
  BY <1>1, <1>2 DEF Needed, gvars
<1>4. LoadedKinds(r)'
  BY <1>1, <1>2, <1>3 DEF ReaderInv, LoadedKinds, Findable, gvars
<1>5. LoadedNeg(r)'
  BY <1>1, <1>2 DEF ReaderInv, LoadedNeg, gvars
<1>6. LookedUpInv(r)'
  BY <1>1, <1>2, <1>3 DEF ReaderInv, LookedUpInv, LoadedKinds
<1> QED BY <1>1, <1>2, <1>4, <1>5, <1>6 DEF gvars, ReaderInv, Exact, Gathered

LEMMA LookedUpStep ==
    ASSUME TypeOK, NEW r \in Readers, ReaderInv(r), LookedUp(r)
    PROVE  ReaderInv(r)' /\ Exact(r)'
<1>1. /\ rd'[r] = [rd[r] EXCEPT !.pc = "gather", !.look = rd[r].hits]
      /\ UNCHANGED gvars
      /\ rd[r].pc = "lookup" /\ rd[r].look = {}
  BY DEF LookedUp, TypeOK, ReaderType
<1>2. /\ rd'[r].pc = "gather" /\ rd'[r].kinds = rd[r].kinds /\ rd'[r].look = rd[r].hits
      /\ rd'[r].hits = rd[r].hits /\ rd'[r].cand = rd[r].cand
      /\ rd'[r].ready = rd[r].ready /\ rd'[r].match = rd[r].match /\ rd'[r].neg = rd[r].neg
  BY <1>1 DEF TypeOK, ReaderType
<1>3. Needed(r)' = Needed(r)
  BY <1>1, <1>2 DEF Needed, gvars
<1>4. LoadedKinds(r)'
  BY <1>1, <1>2, <1>3 DEF ReaderInv, LoadedKinds, Findable, gvars
<1>5. LoadedNeg(r)'
  BY <1>1, <1>2 DEF ReaderInv, LoadedNeg, gvars
<1>6. LookedUpInv(r)'
  BY <1>1, <1>2, <1>3 DEF ReaderInv, LookedUpInv
<1> QED BY <1>1, <1>2, <1>4, <1>5, <1>6 DEF gvars, ReaderInv, Exact, Gathered

\* Gather: the edges at a hit are candidates, those of an unfinished negation
\* with a position above the loaded ones.
LEMMA GatherInv ==
    ASSUME TypeOK, GroupInv, NEW r \in Readers, ReaderInv(r), NEW l \in rd[r].look, Gather(r, l)
    PROVE  ReaderInv(r)' /\ Exact(r)'
<1>1. /\ rd'[r] = [rd[r] EXCEPT !.look = @ \ {l}, !.cand = @ \cup edgesAt[l]]
      /\ UNCHANGED gvars
      /\ rd[r].pc = "gather"
  BY DEF Gather, TypeOK, ReaderType
<1>2. /\ rd'[r].pc = "gather" /\ rd'[r].kinds = rd[r].kinds /\ rd'[r].look = rd[r].look \ {l}
      /\ rd'[r].hits = rd[r].hits /\ rd'[r].cand = rd[r].cand \cup edgesAt[l]
      /\ rd'[r].ready = rd[r].ready /\ rd'[r].match = rd[r].match /\ rd'[r].neg = rd[r].neg
  BY <1>1 DEF TypeOK, ReaderType
<1>3. l \in Leaves /\ rd[r].neg \in Nat /\ Len(neg) \in Nat /\ rd[r].neg <= Len(neg)
  BY LenProperties DEF TypeOK, ReaderType, ReaderInv
<1>4. Needed(r)' = Needed(r)
  BY <1>1, <1>2 DEF Needed, gvars
<1>5. LoadedKinds(r)'
  BY <1>1, <1>2, <1>4 DEF ReaderInv, LoadedKinds, Findable, gvars
<1>6. LoadedNeg(r)'
  BY <1>1, <1>2 DEF ReaderInv, LoadedNeg, gvars
<1>7. LookedUpInv(r)'
  BY <1>1, <1>2, <1>4 DEF ReaderInv, LookedUpInv
<1>8. ASSUME NEW e \in rd'[r].cand
      PROVE  Candidate(r, e)
  <2>1. CASE e \in rd[r].cand
    BY <1>1, <2>1 DEF ReaderInv, Gathered
  <2>2. CASE e \in edgesAt[l]
    <3>1. e \in Edge /\ Belongs(e, l)
      BY <1>3, <2>2 DEF TypeOK, GroupInv, Registered
    <3>2. e.negIndex # 0 => \/ e.negIndex <= Len(neg) /\ neg[e.negIndex] = e
                            \/ e.negIndex = Len(neg) + 1
      BY <1>3, <2>2 DEF GroupInv, Registered
    <3>3. e.negIndex \in Nat
      BY <3>1 DEF Edge
    <3>4. l \in rd[r].hits
      BY <1>1 DEF ReaderInv, LookedUpInv
    <3> QED BY <1>3, <3>1, <3>2, <3>3, <3>4 DEF Candidate
  <2> QED BY <1>2, <1>8, <2>1, <2>2
<1>9. \A e : Candidate(r, e)' <=> Candidate(r, e)
  BY <1>1, <1>2 DEF Candidate, Belongs, gvars
<1>10. ASSUME NEW m \in rd'[r].hits \ rd'[r].look
       PROVE  /\ \A c \in rd[r].ready : Monotone(c) /\ m \in Triggers(c) =>
                    [cond |-> c, negIndex |-> 0] \in rd'[r].cand
              /\ \A k \in 1..rd[r].neg : neg[k].negIndex # 0 /\ m \in LeavesOf(neg[k].cond) =>
                    neg[k] \in rd'[r].cand
  <2>1. CASE m = l
    <3>1. \A c \in rd[r].ready : Compiled(c)
      BY DEF GroupInv, ReaderInv
    <3>2. \A k \in 1..rd[r].neg : Negated(k)
      BY <1>3 DEF GroupInv
    <3> QED BY <1>2, <2>1, <3>1, <3>2 DEF Compiled, Negated
  <2>2. CASE m \in rd[r].hits \ rd[r].look
    BY <1>1, <1>2, <2>2 DEF ReaderInv, Gathered
  <2> QED BY <1>2, <1>10, <2>1, <2>2
<1>11. Gathered(r)'
  BY <1>1, <1>2, <1>8, <1>9, <1>10 DEF Gathered, gvars
<1> QED BY <1>1, <1>2, <1>5, <1>6, <1>7, <1>11 DEF gvars, ReaderInv, Exact

\* Rest leaves nothing to know.
LEMMA RestInv ==
    ASSUME TypeOK, NEW r \in Readers, Rest(r)
    PROVE  ReaderInv(r)' /\ Exact(r)'
<1>1. rd'[r] = IdleReader /\ UNCHANGED gvars
  BY DEF Rest, TypeOK
<1>2. Len(neg) \in Nat
  BY LenProperties DEF TypeOK
<1> QED BY <1>1, <1>2 DEF IdleReader, gvars, ReaderInv, Exact, LoadedNeg, LoadedKinds, LookedUpInv,
                        Gathered

-----------------------------------------------------------------------------
(* The decision.                                                           *)

\* A needed condition is judged by the hits as it would be by all leaves that
\* match: the reader has looked all of its leaves up.
LEMMA NeededIsJudged ==
    ASSUME TypeOK, NEW r \in Readers, ReaderInv(r), rd[r].pc = "gather",
           NEW c \in Needed(r), c \in Conds
    PROVE  /\ LeavesOf(c) \cap rd[r].hits = LeavesOf(c) \cap rd[r].match
           /\ Eval(c, rd[r].hits) <=> Eval(c, rd[r].match)
<1> DEFINE hits == rd[r].hits
           match == rd[r].match
<1>1. hits \in SUBSET Leaves /\ match \in SUBSET Leaves
  BY DEF TypeOK, ReaderType
<1>2. hits \cap LeavesOf(c) = match \cap LeavesOf(c)
  BY DEF ReaderInv, LookedUpInv
<1>3. \A some \in SUBSET Leaves : Eval(c, some) <=> Eval(c, some \cap LeavesOf(c))
  BY FormulaAssumption
<1>4. Eval(c, hits) <=> Eval(c, match)
  BY <1>1, <1>2, <1>3 DEF Eval
<1> QED BY <1>2, <1>4

\* A monotone condition that holds for the hits holds for all that match.
LEMMA MonotoneHolds ==
    ASSUME TypeOK, NEW r \in Readers, rd[r].hits \subseteq rd[r].match,
           NEW c \in Conds, Monotone(c), Eval(c, rd[r].hits)
    PROVE  Eval(c, rd[r].match)
<1>1. rd[r].hits \in SUBSET Leaves /\ rd[r].match \in SUBSET Leaves
  BY DEF TypeOK, ReaderType
<1>2. \A hits, more \in SUBSET Leaves : Eval(c, hits) => Eval(c, hits \cup more)
  BY FormulaAssumption
<1>3. rd[r].hits \cup rd[r].match = rd[r].match
  OBVIOUS
<1> QED BY <1>1, <1>2, <1>3

\* What is kept of the candidates holds: a simple condition because one of its
\* triggers is a hit, another one by its formula.
LEMMA KeptHold ==
    ASSUME TypeOK, NEW r \in Readers, ReaderInv(r), rd[r].pc = "gather",
           NEW e \in rd[r].cand, rd[r].neg = 0 \/ e.negIndex = 0,
           Simple(e.cond) \/ Eval(e.cond, rd[r].hits)
    PROVE  Eval(e.cond, rd[r].match)
<1> DEFINE c == e.cond
           hits == rd[r].hits
           match == rd[r].match
<1>1. e \in Edge /\ c \in Conds /\ hits \in SUBSET Leaves /\ match \in SUBSET Leaves
  BY DEF TypeOK, ReaderType, Edge
<1>2. hits \subseteq match
  BY DEF ReaderInv, LookedUpInv
<1>3. PICK l \in hits : Belongs(e, l)
  BY DEF ReaderInv, Gathered, Candidate
<1>4. CASE e.negIndex = 0
  <2>1. Monotone(c) /\ l \in Triggers(c)
    BY <1>3, <1>4 DEF Belongs
  <2>2. CASE Simple(c)
    <3>1. Triggers(c) \cap match # {}
      BY <1>2, <1>3, <2>1
    <3> QED BY <1>1, <2>2, <3>1, FormulaAssumption
  <2>3. CASE Eval(c, hits)
    BY <1>1, <1>2, <2>1, <2>3, MonotoneHolds
  <2> QED BY <2>2, <2>3
<1>5. CASE e.negIndex # 0
  <2>1. Refutable(c) /\ l \in LeavesOf(c)
    BY <1>3, <1>5 DEF Belongs
  <2>2. ~Simple(c)
    BY <2>1 DEF Refutable, Simple
  <2>3. ~Eval(c, hits)
    BY <1>1, <1>3, <2>1, FormulaAssumption
  <2> QED BY <2>2, <2>3
<1> QED BY <1>4, <1>5

\* Of a loaded negation with a position, a leaf that matches is a hit, and the
\* negation is a candidate exactly if there is one.
LEMMA RefutedExactly ==
    ASSUME TypeOK, GroupInv, NEW r \in Readers, ReaderInv(r), rd[r].pc = "gather", rd[r].look = {},
           NEW k \in 1..rd[r].neg, neg[k].negIndex # 0
    PROVE  Eval(neg[k].cond, rd[r].match) <=> k \notin {e.negIndex : e \in rd[r].cand}
<1> DEFINE c == neg[k].cond
<1>0. rd[r].neg \in Nat /\ rd[r].match \in SUBSET Leaves /\ k \in 1..Len(neg)
  BY LenProperties DEF TypeOK, ReaderType, ReaderInv
<1>1. neg[k] \in Edge /\ c \in Conds /\ c \in Needed(r)
  <2>1. neg[k] \in Edge
    BY <1>0, ElementOfSeq DEF TypeOK
  <2> QED BY <2>1 DEF Edge, Needed
<1>2. neg[k].negIndex = k /\ Refutable(c)
  BY <1>0 DEF GroupInv, Negated
<1>3. Eval(c, rd[r].match) <=> LeavesOf(c) \cap rd[r].match = {}
  BY <1>0, <1>1, <1>2, FormulaAssumption
<1>4. LeavesOf(c) \cap rd[r].match = LeavesOf(c) \cap rd[r].hits
  BY <1>1, NeededIsJudged
<1>5. ASSUME NEW l \in LeavesOf(c) \cap rd[r].hits
      PROVE  k \in {e.negIndex : e \in rd[r].cand}
  <2>1. neg[k] \in rd[r].cand
    BY <1>5 DEF ReaderInv, Gathered
  <2> QED BY <1>2, <2>1
<1>6. ASSUME NEW e \in rd[r].cand, e.negIndex = k
      PROVE  LeavesOf(c) \cap rd[r].hits # {}
  <2>1. Candidate(r, e)
    BY <1>6 DEF ReaderInv, Gathered
  <2>2. e = neg[k]
    BY <1>0, <1>6, <2>1 DEF Candidate
  <2>3. PICK l \in rd[r].hits : Belongs(e, l)
    BY <2>1 DEF Candidate
  <2> QED BY <1>0, <1>6, <2>2, <2>3 DEF Belongs
<1> QED BY <1>3, <1>4, <1>5, <1>6

\* The two parts of what a reader follows.
LEMMA FollowedDef ==
    ASSUME NEW r \in Readers
    PROVE  LET n == rd[r].neg
               refuted == {e.negIndex : e \in rd[r].cand} \cap 1..n
           IN  \A e : e \in Followed(r) <=>
                \/ /\ e \in rd[r].cand
                   /\ n > 0 => e.negIndex = 0
                   /\ Simple(e.cond) \/ Eval(e.cond, rd[r].hits)
                \/ \E k \in 1..n \ refuted :
                    /\ neg[k].negIndex # 0 \/ Eval(neg[k].cond, rd[r].hits)
                    /\ e = neg[k]
<1> QED BY DEF Followed

\* Choose: what is followed holds, and what was compiled and holds is followed.
LEMMA ChooseExact ==
    ASSUME TypeOK, GroupInv, NEW r \in Readers, ReaderInv(r), rd[r].pc = "gather", rd[r].look = {}
    PROVE  /\ \A e \in Followed(r) : Eval(e.cond, rd[r].match)
           /\ \A c \in rd[r].ready : Eval(c, rd[r].match) => \E e \in Followed(r) : e.cond = c
<1> DEFINE n == rd[r].neg
           refuted == {e.negIndex : e \in rd[r].cand} \cap 1..n
<1>0. n \in Nat /\ Len(neg) \in Nat /\ n <= Len(neg)
  BY LenProperties DEF TypeOK, ReaderType, ReaderInv
<1>1. \A k \in 1..n : neg[k].cond \in Conds /\ neg[k].cond \in Needed(r) /\ Negated(k)
  <2>1. \A k \in 1..n : k \in 1..Len(neg) /\ neg[k] \in Edge
    BY <1>0, ElementOfSeq DEF TypeOK
  <2> QED BY <2>1 DEF Edge, Needed, GroupInv
<1>2. ASSUME NEW k \in 1..n \ refuted, neg[k].negIndex # 0 \/ Eval(neg[k].cond, rd[r].hits)
      PROVE  Eval(neg[k].cond, rd[r].match)
  <2>1. CASE neg[k].negIndex # 0
    BY <2>1, RefutedExactly
  <2>2. CASE neg[k].negIndex = 0
    BY <1>1, <1>2, <2>2, NeededIsJudged
  <2> QED BY <2>1, <2>2
<1>3. ASSUME NEW e \in Followed(r)
      PROVE  Eval(e.cond, rd[r].match)
  <2>1. CASE /\ e \in rd[r].cand
             /\ n > 0 => e.negIndex = 0
             /\ Simple(e.cond) \/ Eval(e.cond, rd[r].hits)
    BY <1>0, <2>1, KeptHold
  <2>2. CASE \E k \in 1..n \ refuted :
                /\ neg[k].negIndex # 0 \/ Eval(neg[k].cond, rd[r].hits)
                /\ e = neg[k]
    BY <1>2, <2>2
  <2> QED BY <1>3, <2>1, <2>2, FollowedDef
<1>4. ASSUME NEW c \in rd[r].ready, Eval(c, rd[r].match)
      PROVE  \E e \in Followed(r) : e.cond = c
  <2>1. c \in Conds /\ c \in Needed(r) /\ Eval(c, rd[r].hits)
    <3>1. c \in Conds /\ c \in Needed(r)
      BY DEF TypeOK, ReaderType, Needed
    <3> QED BY <1>4, <3>1, NeededIsJudged
  <2>2. CASE Monotone(c)
    <3>1. PICK l \in Triggers(c) : l \in rd[r].hits
      <4>1. rd[r].hits \in SUBSET Leaves
        BY DEF TypeOK, ReaderType
      <4>2. Triggers(c) \cap rd[r].hits # {}
        BY <2>1, <2>2, <4>1, FormulaAssumption
      <4> QED BY <4>2
    <3> DEFINE e == [cond |-> c, negIndex |-> 0]
    <3>2. e \in rd[r].cand
      BY <2>2, <3>1 DEF ReaderInv, Gathered
    <3>3. e.cond = c /\ e.negIndex = 0
      OBVIOUS
    <3> HIDE DEF e
    <3>4. e \in Followed(r)
      BY <2>1, <3>2, <3>3, FollowedDef
    <3> QED BY <3>3, <3>4
  <2>3. CASE ~Monotone(c)
    <3>1. PICK k \in 1..n : neg[k].cond = c
      BY <2>3 DEF ReaderInv, LoadedNeg
    <3>2. k \notin refuted
      <4>1. CASE neg[k].negIndex # 0
        BY <1>4, <3>1, <4>1, RefutedExactly
      <4>2. ASSUME neg[k].negIndex = 0, NEW e \in rd[r].cand, e.negIndex = k
            PROVE  FALSE
        <5>1. e = neg[k]
          BY <1>0, <4>2 DEF ReaderInv, Gathered, Candidate
        <5> QED BY <4>2, <5>1
      <4> QED BY <4>1, <4>2
    <3>3. neg[k] \in Followed(r)
      BY <2>1, <3>1, <3>2, FollowedDef
    <3> QED BY <3>1, <3>3
  <2> QED BY <2>2, <2>3
<1> QED BY <1>3, <1>4

LEMMA ChooseInv ==
    ASSUME TypeOK, GroupInv, NEW r \in Readers, ReaderInv(r), Choose(r)
    PROVE  ReaderInv(r)' /\ Exact(r)'
<1>1. /\ rd'[r] = [rd[r] EXCEPT !.pc = "done", !.followed = {c.cond : c \in Followed(r)}]
      /\ UNCHANGED gvars
      /\ rd[r].pc = "gather" /\ rd[r].look = {}
  BY DEF Choose, TypeOK, ReaderType
<1>2. /\ rd'[r].pc = "done" /\ rd'[r].followed = {e.cond : e \in Followed(r)}
      /\ rd'[r].hits = rd[r].hits /\ rd'[r].match = rd[r].match
      /\ rd'[r].ready = rd[r].ready /\ rd'[r].neg = rd[r].neg
  BY <1>1 DEF TypeOK, ReaderType
<1>3. Exact(r)'
  BY <1>1, <1>2, ChooseExact DEF Exact
<1>4. LoadedNeg(r)'
  BY <1>1, <1>2 DEF ReaderInv, LoadedNeg, gvars
<1> QED BY <1>1, <1>2, <1>3, <1>4 DEF gvars, ReaderInv, LoadedKinds, LookedUpInv, Gathered

\* Every step of a reader keeps its own invariant.
LEMMA ReaderStep ==
    ASSUME TypeOK, GroupInv, NEW r \in Readers, ReaderInv(r), Reader(r)
    PROVE  ReaderInv(r)' /\ Exact(r)'
<1> QED BY Eval0Inv, LoadNegInv, LoadKindsInv, LookupInv, LookedUpStep, GatherInv, ChooseInv, RestInv
        DEF Reader

-----------------------------------------------------------------------------
(* Theorems.                                                               *)

\* The invariant holds at first.
LEMMA InvInit == Init => Inv
<1> SUFFICES ASSUME Init PROVE Inv
  OBVIOUS
<1>1. TypeOK
  BY InitType
<1>2. Len(neg) = 0
  BY DEF Init
<1>3. GroupInv
  BY <1>2 DEF Init, IdleWriter, GroupInv, Compiling, Registering, Registered
<1>4. ASSUME NEW r \in Readers
      PROVE  ReaderInv(r) /\ Exact(r)
  <2>1. rd[r] = IdleReader
    BY DEF Init
  <2> QED BY <1>2, <2>1 DEF IdleReader, ReaderInv, Exact, LoadedNeg, LoadedKinds, LookedUpInv, Gathered,
                        Init
<1> QED BY <1>1, <1>3, <1>4 DEF Inv

\* Every step keeps the invariant.
LEMMA InvNext == Inv /\ [Next]_vars => Inv'
<1> SUFFICES ASSUME Inv, [Next]_vars PROVE Inv'
  OBVIOUS
<1>0. TypeOK /\ GroupInv /\ Compiling /\ \A r \in Readers : ReaderInv(r) /\ Exact(r)
  BY DEF Inv, GroupInv
<1>1. CASE Writer
  BY <1>0, <1>1, WriterTypes, WriterInv, ReaderStays DEF Inv
<1>2. ASSUME NEW r \in Readers, Reader(r)
      PROVE  Inv'
  <2>1. UNCHANGED gvars /\ TypeOK' /\ \A q \in Readers \ {r} : rd'[q] = rd[q]
    BY <1>0, <1>2, ReaderTypes
  <2>2. GroupInv'
    BY <1>0, <2>1 DEF gvars, GroupInv, Compiling, Registering, Compiled, Negated, Registered, Belongs,
                      Findable
  <2>3. ReaderInv(r)' /\ Exact(r)'
    BY <1>0, <1>2, ReaderStep
  <2>4. \A q \in Readers \ {r} : ReaderInv(q)' /\ Exact(q)'
    BY <1>0, <2>1, OthersStay
  <2> QED BY <2>1, <2>2, <2>3, <2>4 DEF Inv
<1>3. CASE UNCHANGED vars
  BY <1>0, <1>3 DEF vars, Inv, TypeOK, GroupInv, Compiling, Registering, Compiled, Negated, Registered,
     Belongs, Findable, ReaderInv, Exact, LoadedNeg, LoadedKinds, LookedUpInv, Gathered, Candidate, Needed
<1> QED BY <1>1, <1>2, <1>3 DEF Next

\* Every reachable state satisfies the invariant.
LEMMA Invariance == Spec => []Inv
<1> QED BY InvInit, InvNext, PTL DEF Spec

\* Every condition that evalGroup follows holds for the values of the event,
\* for any conditions and readers, also while follow is compiling it.
THEOREM OnlyHolding == Spec => []FollowedConditionsHold
<1>1. Inv => FollowedConditionsHold
  BY DEF Inv, Exact, FollowedConditionsHold
<1> QED BY <1>1, Invariance, PTL

\* Every condition that follow had compiled when evalGroup began is followed if
\* it holds, whatever is registered at its leaves meanwhile.
THEOREM AllHolding == Spec => []HoldingConditionsFollowed
<1>1. Inv => HoldingConditionsFollowed
  BY DEF Inv, Exact, HoldingConditionsFollowed
<1> QED BY <1>1, Invariance, PTL
=============================================================================
