------------------------------- MODULE Lists -------------------------------
(***************************************************************************)
(* list of concurrent.go: an append-only slice with one writer and readers *)
(* that never lock.  Elements are written with plain stores; a reader that *)
(* met a half-written array would race.  The lists of hypermatch (ids,     *)
(* rule numbers, groups, edges, negations) are all of this type.           *)
(***************************************************************************)
EXTENDS Integers, Sequences

CONSTANTS
    Values,
    Unwritten, \* what a fresh array cell holds
    Readers,
    MaxInt     \* largest length an Int32 holds: 2^31 - 1 in the code

ASSUME ListAssumption ==
    /\ Unwritten \notin Values
    /\ MaxInt \in Nat \ {0}

VARIABLES
    arrays, \* the backing arrays published so far
    data,   \* the current one, 0 is nil
    n,      \* the published length
    log,    \* history: the values added
    w,      \* the writer in add
    rd      \* the readers in load and in what they do with its result

vars == <<arrays, data, n, log, w, rd>>

IdleWriter == [pc |-> "idle", val |-> Unwritten]
IdleReader == [pc |-> "idle", n |-> 0, arr |-> 0, i |-> 0]

\* newNumber, the caller that bounds a list, adds nothing at the length
\* math.MaxUint32, which is beyond what the published length can hold.
Limit == 2 * MaxInt + 1

\* The length as an Int32 stores it.
Wrap(k) == IF k <= MaxInt THEN k ELSE k - 2 * (MaxInt + 1)

Init ==
    /\ arrays = <<>> /\ data = 0 /\ n = 0 /\ log = <<>>
    /\ w = IdleWriter
    /\ rd = [r \in Readers |-> IdleReader]

-----------------------------------------------------------------------------
(* Writer.                                                                 *)

Cells == IF data = 0 THEN <<>> ELSE arrays[data]

\* A length that wrapped indexes the array below 0: the program panics, in the
\* caller's own load already if the caller is newNumber.
Add(v) ==
    /\ w.pc = "idle"
    /\ n # Limit
    /\ w' = [pc |-> IF n < 0 THEN "panic" ELSE IF n = Len(Cells) THEN "grow" ELSE "write",
             val |-> v]
    /\ UNCHANGED <<arrays, data, n, log, rd>>

\* Faulty variants like the next ones show which mistake a property would catch;
\* nothing uses them.  Here the grown array does not get the old elements, ...
GrowUncopied ==
    /\ w.pc = "grow"
    /\ arrays' = Append(arrays,
                    [i \in 1..(IF 2 * n > 1 THEN 2 * n ELSE 1) |-> Unwritten])
    /\ data' = data + 1
    /\ w' = [w EXCEPT !.pc = "write"]
    /\ UNCHANGED <<n, log, rd>>

\* ... the first array has no room, ...
GrowDoubling ==
    /\ w.pc = "grow"
    /\ arrays' = Append(arrays,
                    [i \in 1..2 * n |-> IF i <= Len(Cells) THEN Cells[i] ELSE Unwritten])
    /\ data' = data + 1
    /\ w' = [w EXCEPT !.pc = "write"]
    /\ UNCHANGED <<n, log, rd>>

\* ... and the last published slot is written again.
WriteLast ==
    /\ w.pc = "write"
    /\ arrays' = [arrays EXCEPT ![data] = [@ EXCEPT ![IF n > 0 THEN n ELSE 1] = w.val]]
    /\ w' = [w EXCEPT !.pc = "publish"]
    /\ UNCHANGED <<data, n, log, rd>>

\* The grown array is private until it is stored.
Grow ==
    LET len == IF 2 * n > 1 THEN 2 * n ELSE 1
    IN  /\ w.pc = "grow"
        /\ arrays' = Append(arrays,
                [i \in 1..len |-> IF i <= Len(Cells) THEN Cells[i] ELSE Unwritten])
        /\ data' = data + 1
        /\ w' = [w EXCEPT !.pc = "write"]
        /\ UNCHANGED <<n, log, rd>>

\* data[n] = v, a plain store.
Write ==
    /\ w.pc = "write"
    /\ arrays' = [arrays EXCEPT ![data] = [@ EXCEPT ![n + 1] = w.val]]
    /\ w' = [w EXCEPT !.pc = "publish"]
    /\ UNCHANGED <<data, n, log, rd>>

Publish ==
    /\ w.pc = "publish"
    /\ n' = Wrap(n + 1)
    /\ log' = Append(log, w.val)
    /\ w' = IdleWriter
    /\ UNCHANGED <<arrays, data, rd>>

-----------------------------------------------------------------------------
(* Readers.                                                                *)

LoadLen(r) ==
    /\ rd[r].pc = "idle"
    /\ n # 0
    /\ rd' = [rd EXCEPT ![r].pc = "data", ![r].n = n]
    /\ UNCHANGED <<arrays, data, n, log, w>>

\* (*l.data.Load())[:n]: a negative length, or one beyond the array, panics.
LoadData(r) ==
    /\ rd[r].pc = "data"
    /\ rd' = [rd EXCEPT ![r].arr = data,
                        ![r].pc = IF rd[r].n < 0 \/ rd[r].n > Len(Cells)
                                  THEN "panic" ELSE "read"]
    /\ UNCHANGED <<arrays, data, n, log, w>>

\* The reader looks at element i of its slice, in any order, any number of times.
Read(r) ==
    /\ rd[r].pc = "read"
    /\ \E i \in 1..rd[r].n : rd' = [rd EXCEPT ![r].i = i]
    /\ UNCHANGED <<arrays, data, n, log, w>>

Drop(r) ==
    /\ rd[r].pc = "read"
    /\ rd' = [rd EXCEPT ![r] = IdleReader]
    /\ UNCHANGED <<arrays, data, n, log, w>>

Next ==
    \/ \E v \in Values : Add(v)
    \/ Grow \/ Write \/ Publish
    \/ \E r \in Readers : LoadLen(r) \/ LoadData(r) \/ Read(r) \/ Drop(r)

Spec == Init /\ [][Next]_vars

-----------------------------------------------------------------------------
(* Properties.                                                             *)

\* Every element of a loaded slice is what was added at that position, never a
\* cell that is still to be written, although the writer appends and replaces
\* the array between and during the loads (load, add).
SlicesAreComplete ==
    \A r \in Readers : rd[r].pc = "read" =>
        \A i \in 1..rd[r].n :
            i <= Len(log) /\ arrays[rd[r].arr][i] = log[i]

\* The cell the writer stores to with a plain store lies in no slice a reader
\* holds: list has no data race (add).
NoRace ==
    [][ \A r \in Readers : rd[r].pc = "read" =>
            \A i \in 1..rd[r].n : arrays'[rd[r].arr][i] = arrays[rd[r].arr][i] ]_vars

\* load and add leave the bounds of an array only once more elements were added
\* than an Int32 counts: the length wraps before the caller's check for "too many
\* rules" can refuse an element, and nothing else makes list panic, however the
\* loads interleave with growth (load, add, newNumber).
PanicsOnlyWhenFull ==
    (w.pc = "panic" \/ \E r \in Readers : rd[r].pc = "panic") => Len(log) > MaxInt
=============================================================================
