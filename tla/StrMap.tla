------------------------------- MODULE StrMap -------------------------------
(***************************************************************************)
(* strMap of concurrent.go: an open-addressing hash table with linear      *)
(* probing, one writer (put) and readers (get) that never lock.  The trie  *)
(* finds groups, leaves and known paths with it.  A reader probes slot by  *)
(* slot while the writer stores entries and publishes larger tables.       *)
(***************************************************************************)
EXTENDS Integers, Sequences, FiniteSets

CONSTANTS
    Keys, Vals,
    HashOf,   \* [Keys -> Nat]: maphash.String
    NoEntry,  \* an empty slot
    InitSize, \* 8 in the code
    Readers,
    MaxPuts   \* bound: calls of put

ASSUME StrMapAssumption ==
    /\ HashOf \in [Keys -> Nat]
    /\ NoEntry \notin Keys \X Vals
    /\ InitSize \in Nat \ {0, 1}
    /\ MaxPuts \in Nat

VARIABLES
    tables,  \* the tables published so far, each [0..n-1 -> entry or NoEntry]
    used,    \* of the last one, which is current
    w,       \* the writer in put; new, i and used belong to the loop of grow
    rd,      \* the readers in get
    history  \* per key the values put, latest last, the one being stored included

vars == <<tables, used, w, rd, history>>

Empty(size) == [i \in 0..size - 1 |-> NoEntry]
Size(t) == Cardinality(DOMAIN t)
Least(S) == CHOOSE i \in S : \A j \in S : i <= j

IdleWriter == [pc |-> "idle", entry |-> NoEntry, new |-> Empty(0), i |-> 0, used |-> 0]
IdleReader == [pc |-> "idle", key |-> NoEntry, table |-> 0, i |-> 0, found |-> NoEntry, since |-> 0]

Init ==
    /\ tables = <<>> /\ used = 0
    /\ w = IdleWriter
    /\ rd = [r \in Readers |-> IdleReader]
    /\ history = [k \in Keys |-> <<>>]

-----------------------------------------------------------------------------
(* Writer.                                                                 *)

\* The slot after j others on key's way: from hash & mask on, around the end.
Slot(t, key, j) ==
    LET i == (HashOf[key] % Size(t)) + j
    IN  IF i < Size(t) THEN i ELSE i - Size(t)

\* Faulty variants like the next ones show which mistake a property would catch;
\* nothing uses them.  Here insert takes the first empty slot for any entry.
SlotForAny(t, e) ==
    Slot(t, e[1], Least({j \in 0..Size(t) - 1 : t[Slot(t, e[1], j)] = NoEntry}))

\* Where insert stops: the first slot on the entry's way that is empty or has
\* its key.
SlotFor(t, e) ==
    Slot(t, e[1], Least({j \in 0..Size(t) - 1 :
        LET cur == t[Slot(t, e[1], j)] IN cur = NoEntry \/ cur[1] = e[1]}))

Insert(t, e) == [t EXCEPT ![SlotFor(t, e)] = e]

Current == tables[Len(tables)]

\* Faulty: the table is filled up.
NeedsGrowthLate ==
    tables = <<>> \/ used = Size(Current)

\* put grows the table when it would be more than three quarters full.
NeedsGrowth ==
    tables = <<>> \/ (used + 1) * 4 > Size(Current) * 3

Put(k, v) ==
    /\ w.pc = "idle"
    /\ w' = [IdleWriter EXCEPT !.pc = IF NeedsGrowth THEN "grow" ELSE "insert", !.entry = <<k, v>>]
    /\ history' = [history EXCEPT ![k] = Append(@, v)]
    /\ UNCHANGED <<tables, used, rd>>

Grow ==
    /\ w.pc = "grow"
    /\ w' = [w EXCEPT !.pc = "copy",
                      !.new = Empty(IF tables = <<>> THEN InitSize ELSE 2 * Size(Current))]
    /\ UNCHANGED <<tables, used, rd, history>>

OldSize == IF tables = <<>> THEN 0 ELSE Size(Current)

\* Faulty: grow keeps every entry at its old index.
CopyInPlace ==
    LET e == Current[w.i]
    IN  /\ w.pc = "copy" /\ w.i < OldSize
        /\ w' = [w EXCEPT !.i = @ + 1, !.new[w.i] = e, !.used = IF e = NoEntry THEN @ ELSE @ + 1]
        /\ UNCHANGED <<tables, used, rd, history>>

\* One turn of grow's loop over the old slots.
Copy ==
    LET e == Current[w.i]
    IN  /\ w.pc = "copy" /\ w.i < OldSize
        /\ w' = IF e = NoEntry THEN [w EXCEPT !.i = @ + 1]
                ELSE [w EXCEPT !.i = @ + 1, !.new = Insert(@, e), !.used = @ + 1]
        /\ UNCHANGED <<tables, used, rd, history>>

\* The larger table is published before the new entry is in it.
Publish ==
    /\ w.pc = "copy" /\ w.i = OldSize
    /\ tables' = Append(tables, w.new)
    /\ used' = w.used
    /\ w' = [IdleWriter EXCEPT !.pc = "insert", !.entry = w.entry]
    /\ UNCHANGED <<rd, history>>

\* insert stores the entry in one word, also in the place of an older one.
Store ==
    /\ w.pc = "insert"
    /\ used' = IF Current[SlotFor(Current, w.entry)] = NoEntry THEN used + 1 ELSE used
    /\ tables' = [tables EXCEPT ![Len(tables)] = Insert(@, w.entry)]
    /\ w' = IdleWriter
    /\ UNCHANGED <<rd, history>>

-----------------------------------------------------------------------------
(* Readers.                                                                *)

\* What put has returned for key k.
Stored(k) ==
    Len(history[k]) - (IF w.entry # NoEntry /\ w.entry[1] = k THEN 1 ELSE 0)

\* m.t.Load() of get.
Get(r, k) ==
    /\ rd[r].pc = "idle"
    /\ rd' = [rd EXCEPT ![r] =
                [IdleReader EXCEPT !.pc = IF tables = <<>> THEN "done" ELSE "probe",
                                   !.key = k, !.table = Len(tables), !.since = Stored(k)]]
    /\ UNCHANGED <<tables, used, w, history>>

\* One turn of the loop in lookup.
Probe(r) ==
    LET t == tables[rd[r].table]
        e == t[Slot(t, rd[r].key, rd[r].i)]
    IN  /\ rd[r].pc = "probe"
        /\ rd' = CASE e = NoEntry -> [rd EXCEPT ![r].pc = "done"]
                   [] e # NoEntry /\ e[1] = rd[r].key ->
                        [rd EXCEPT ![r].pc = "done", ![r].found = e]
                   [] OTHER -> [rd EXCEPT ![r].i = (@ + 1) % Size(t)]
        /\ UNCHANGED <<tables, used, w, history>>

Rest(r) ==
    /\ rd[r].pc = "done"
    /\ rd' = [rd EXCEPT ![r] = IdleReader]
    /\ UNCHANGED <<tables, used, w, history>>

Puts == Cardinality(UNION {{<<k, i>> : i \in 1..Len(history[k])} : k \in Keys})

Next ==
    \/ Puts < MaxPuts /\ \E k \in Keys, v \in Vals : Put(k, v)
    \/ Grow \/ Copy \/ Publish \/ Store
    \/ \E r \in Readers :
        \/ \E k \in Keys : Get(r, k)
        \/ Probe(r)
        \/ Rest(r)

Spec == Init /\ [][Next]_vars

\* A reader in get keeps running; nothing is assumed of the writer.
FairSpec == Spec /\ \A r \in Readers : WF_vars(Probe(r))

-----------------------------------------------------------------------------
(* Properties.                                                             *)

\* A lookup returns a value put for its key, none older than the last put that
\* had returned when it began, and misses no key put before it began, whatever
\* is stored and however often the table grows while it probes (lookup, put).
LookupIsRegular ==
    \A r \in Readers : rd[r].pc = "done" =>
        IF rd[r].found = NoEntry THEN rd[r].since = 0
        ELSE \E i \in 1..Len(history[rd[r].key]) :
                i >= rd[r].since /\ rd[r].found = <<rd[r].key, history[rd[r].key][i]>>

\* A key has one slot: put replaces the value of a present key, also in a table
\* that grow has copied (insert).  A second slot would keep a stale value.
KeysAreUnique ==
    \A n \in 1..Len(tables) : \A i, j \in DOMAIN tables[n] :
        /\ tables[n][i] # NoEntry /\ tables[n][j] # NoEntry
        /\ tables[n][i][1] = tables[n][j][1]
        => i = j

\* The loop in lookup ends: its only exits are the key and an empty slot, and no
\* table a reader may hold fills up (put, grow).
LookupEnds == \A r \in Readers : rd[r].pc = "probe" ~> rd[r].pc # "probe"
=============================================================================
