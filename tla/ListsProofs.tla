----------------------------- MODULE ListsProofs -----------------------------
(***************************************************************************)
(* Proofs about Lists, for any number of readers, any values and any width *)
(* of the length: what was added is counted by Len(log), the published     *)
(* length n agrees with it until it wraps.                                 *)
(***************************************************************************)
EXTENDS Lists, TLAPS

Cell == Values \cup {Unwritten}

ReaderType == [pc : {"idle", "data", "read", "panic"}, n : Int, arr : Nat, i : Nat]

\* The types, what relates the published length to the values added, and that
\* the writer stops at a length that wrapped.
Typed ==
    /\ arrays \in Seq(Seq(Cell))
    /\ data = Len(arrays)
    /\ log \in Seq(Values) /\ Len(log) <= MaxInt + 1
    /\ n = Wrap(Len(log))
    /\ w \in [pc : {"idle", "grow", "write", "publish", "panic"}, val : Cell]
    /\ w.pc \in {"grow", "write", "publish"} => w.val \in Values /\ Len(log) <= MaxInt
    /\ w.pc = "panic" => Len(log) > MaxInt
    /\ rd \in [Readers -> ReaderType]

\* Every array agrees with what was added, as far as both reach; only the
\* current one has room, and what the writer is about to do fits it.
Arrays ==
    /\ \A a \in 1..Len(arrays), i \in 1..Len(log) :
            i <= Len(arrays[a]) => arrays[a][i] = log[i]
    /\ \A a \in 1..Len(arrays) : a < data => Len(arrays[a]) <= Len(log)
    /\ Len(log) <= Len(Cells)
    /\ w.pc = "grow" => Len(log) = Len(Cells)
    /\ w.pc \in {"write", "publish"} => Len(log) < Len(Cells)
    /\ w.pc = "publish" => Cells[Len(log) + 1] = w.val

\* A reader's length was published before it wrapped, and its array holds that
\* many elements; or it is the wrapped one, with which the reader panics.
Slices ==
    \A r \in Readers :
        /\ rd[r].pc \in {"data", "read"} =>
              rd[r].n \in 1..Len(log) \/ (rd[r].n < 0 /\ Len(log) > MaxInt)
        /\ rd[r].pc = "read" => /\ rd[r].n \in 1..Len(log)
                                /\ rd[r].arr \in 1..Len(arrays)
                                /\ rd[r].n <= Len(arrays[rd[r].arr])
        /\ rd[r].pc = "panic" => Len(log) > MaxInt

Inv == Typed /\ Arrays /\ Slices

\* An empty list without arrays and idle readers satisfy the invariant.
LEMMA InvInit == Init => Inv
<1> SUFFICES ASSUME Init PROVE Inv
  OBVIOUS
<1>1. Typed
  BY ListAssumption DEF Init, Typed, Cell, Wrap, IdleWriter, IdleReader, ReaderType
<1>2. Arrays /\ Slices
  BY DEF Init, Arrays, Slices, Cells, IdleWriter, IdleReader
<1>3. QED
  BY <1>1, <1>2 DEF Inv

\* The types of the arrays and of a reader.
LEMMA Lengths ==
    ASSUME Typed
    PROVE  /\ Len(arrays) \in Nat
           /\ \A a \in 1..Len(arrays) : arrays[a] \in Seq(Cell) /\ Len(arrays[a]) \in Nat
           /\ \A r \in Readers : rd[r] \in ReaderType
<1>1. Len(arrays) \in Nat /\ \A a \in 1..Len(arrays) : arrays[a] \in Seq(Cell)
  BY DEF Typed
<1>2. QED
  BY <1>1 DEF Typed

\* The published length is the number of values added until it wraps, and
\* negative from then on.
LEMMA PublishedLength ==
    ASSUME Typed
    PROVE  /\ Len(log) \in Nat /\ n \in Int
           /\ Len(log) <= MaxInt => n = Len(log)
           /\ Len(log) > MaxInt => n < 0
<1>1. Len(log) \in Nat /\ Len(log) <= MaxInt + 1 /\ n = Wrap(Len(log))
  BY DEF Typed
<1>2. QED
  BY <1>1, ListAssumption DEF Wrap

\* The array that data points to is one of those published.
LEMMA CurrentArray ==
    ASSUME Typed, Arrays
    PROVE  /\ Cells \in Seq(Cell)
           /\ data # 0 => data \in 1..Len(arrays) /\ Cells = arrays[data]
           /\ data = 0 => Cells = <<>> /\ Len(log) = 0
<1>1. CASE data = 0
  BY <1>1 DEF Typed, Arrays, Cells
<1>2. CASE data # 0
  <2>1. data \in 1..Len(arrays)
    BY <1>2 DEF Typed
  <2>2. arrays[data] \in Seq(Cell)
    BY <2>1 DEF Typed
  <2>3. QED
    BY <1>2, <2>1, <2>2 DEF Cells
<1>3. QED
  BY <1>1, <1>2

\* Every step of load and add preserves the invariant.
LEMMA InvNext ==
    ASSUME Inv, [Next]_vars
    PROVE  Inv'
<1> USE ListAssumption
<1>a. Typed /\ Arrays /\ Slices
  BY DEF Inv
<1>b. /\ Cells \in Seq(Cell)
      /\ data # 0 => data \in 1..Len(arrays) /\ Cells = arrays[data]
      /\ data = 0 => Cells = <<>> /\ Len(log) = 0
  BY <1>a, CurrentArray
<1>c. /\ Len(arrays) \in Nat
      /\ \A a \in 1..Len(arrays) : arrays[a] \in Seq(Cell) /\ Len(arrays[a]) \in Nat
      /\ \A r \in Readers : rd[r] \in ReaderType
  BY <1>a, Lengths
<1>d. /\ Len(log) \in Nat /\ n \in Int
      /\ Len(log) <= MaxInt => n = Len(log)
      /\ Len(log) > MaxInt => n < 0
  BY <1>a, PublishedLength
<1>1. ASSUME NEW v \in Values, Add(v) PROVE Inv'
  <2> DEFINE pc == IF n < 0 THEN "panic" ELSE IF n = Len(Cells) THEN "grow" ELSE "write"
  <2>0. w' = [pc |-> pc, val |-> v] /\ UNCHANGED <<arrays, data, n, log, rd>>
    BY <1>1 DEF Add
  <2>0a. pc = "panic" <=> Len(log) > MaxInt
    BY <1>d
  <2>0b. pc # "panic" => n = Len(log) /\ (pc = "grow" <=> n = Len(Cells))
    BY <1>d
  <2>1. Typed'
    <3>1. w' \in [pc : {"idle", "grow", "write", "publish", "panic"}, val : Cell]
          /\ w'.val \in Values /\ w'.pc = pc
      BY <2>0 DEF Cell
    <3>2. pc # "panic" => Len(log) <= MaxInt
      BY <2>0a, <1>d
    <3>3. QED
      BY <2>0, <2>0a, <3>1, <3>2, <1>a DEF Typed
  <2>2. Arrays'
    <3>1. w'.pc = pc /\ pc \in {"panic", "grow", "write"} /\ Len(log) <= Len(Cells)
      BY <2>0, <1>a DEF Arrays
    <3>2. pc = "write" => Len(log) < Len(Cells)
      BY <2>0b, <3>1, <1>b, <1>d
    <3>3. Cells' = Cells
      BY <2>0 DEF Cells
    <3>4. QED
      BY <2>0, <2>0b, <3>1, <3>2, <3>3, <1>a DEF Arrays
  <2>3. Slices'
    BY <1>1, <1>a DEF Add, Slices
  <2>4. QED
    BY <2>1, <2>2, <2>3 DEF Inv
<1>2. CASE Grow
  <2> DEFINE len == IF 2 * n > 1 THEN 2 * n ELSE 1
             grown == [i \in 1..len |-> IF i <= Len(Cells) THEN Cells[i] ELSE Unwritten]
  <2>1. len \in Nat /\ n < len /\ n = Len(Cells) /\ n <= MaxInt /\ n = Len(log)
    BY <1>2, <1>a, <1>d DEF Grow, Typed, Arrays
  <2>2. grown \in Seq(Cell) /\ Len(grown) = len
    <3>1. \A i \in 1..len : (IF i <= Len(Cells) THEN Cells[i] ELSE Unwritten) \in Cell
      BY <1>b DEF Cell
    <3>2. QED
      BY <3>1, <2>1
  <2>2a. \A i \in 1..n : grown[i] = log[i]
    <3>1. n # 0 => data \in 1..Len(arrays) /\ Cells = arrays[data]
      BY <2>1, <1>b
    <3>2. \A i \in 1..n : grown[i] = Cells[i]
      BY <2>1
    <3>3. \A a \in 1..Len(arrays), i \in 1..n : i <= Len(arrays[a]) => arrays[a][i] = log[i]
      BY <2>1, <1>a DEF Arrays
    <3>4. SUFFICES ASSUME NEW i \in 1..n PROVE grown[i] = log[i]
      OBVIOUS
    <3>5. n # 0 /\ i \in 1..Len(log) /\ i <= Len(Cells)
      BY <2>1, <3>4
    <3>6. Cells[i] = log[i]
      BY <3>1, <3>3, <3>4, <3>5
    <3>7. QED
      BY <3>2, <3>6
  <2>3. arrays' = Append(arrays, grown) /\ data' = data + 1 /\ UNCHANGED <<n, log, rd>>
        /\ w' = [w EXCEPT !.pc = "write"]
    BY <1>2 DEF Grow
  <2> HIDE DEF len, grown
  <2>4. /\ Len(arrays') = Len(arrays) + 1
        /\ \A a \in 1..Len(arrays) : arrays'[a] = arrays[a]
        /\ arrays'[data'] = grown
        /\ arrays' \in Seq(Seq(Cell))
    <3>1. arrays \in Seq(Seq(Cell)) /\ data' = Len(arrays) + 1
      BY <2>3, <1>a DEF Typed
    <3>2. QED
      BY <3>1, <2>2, <2>3
  <2>5. Typed'
    <3>1. data' = Len(arrays')
      BY <2>3, <2>4, <1>a DEF Typed
    <3>2. w' \in [pc : {"idle", "grow", "write", "publish", "panic"}, val : Cell]
          /\ w'.val \in Values /\ w'.pc = "write"
      BY <1>2, <2>3, <1>a DEF Grow, Typed
    <3>3. QED
      BY <2>1, <2>3, <2>4, <3>1, <3>2, <1>a DEF Typed
  <2>6. Cells' = grown
    BY <2>4, <2>3, <1>a DEF Cells, Typed
  <2>8. Arrays'
    <3>1. \A a \in 1..Len(arrays'), i \in 1..Len(log') : i <= Len(arrays'[a]) => arrays'[a][i] = log'[i]
      <4>1. \A a \in 1..Len(arrays), i \in 1..Len(log) : i <= Len(arrays[a]) => arrays[a][i] = log[i]
        BY <1>a DEF Arrays
      <4>2. data' = Len(arrays')
        BY <2>3, <2>4, <1>a DEF Typed
      <4>3. QED
        BY <2>1, <2>2, <2>2a, <2>3, <2>4, <4>1, <4>2, <1>c
    <3>2. \A a \in 1..Len(arrays') : a < data' => Len(arrays'[a]) <= Len(log')
      <4>1. \A a \in 1..Len(arrays) : a < data => Len(arrays[a]) <= Len(log)
        BY <1>a DEF Arrays
      <4>2. data = Len(arrays) /\ (data # 0 => Len(arrays[data]) = Len(log))
        BY <2>1, <1>a, <1>b DEF Typed
      <4>3. QED
        BY <2>3, <2>4, <4>1, <4>2, <1>c
    <3>3. Len(log') <= Len(Cells') /\ Len(log') < Len(Cells') /\ w'.pc = "write"
      BY <2>1, <2>2, <2>3, <2>6
    <3>4. QED
      BY <3>1, <3>2, <3>3 DEF Arrays
  <2>9. Slices'
    BY <2>3, <2>4, <1>a DEF Slices, Typed
  <2>10. QED
    BY <2>5, <2>8, <2>9 DEF Inv
<1>3. CASE Write
  <2>1. /\ n = Len(log) /\ n \in Nat /\ w.pc = "write" /\ Len(log) < Len(Cells)
        /\ w.val \in Values
    BY <1>3, <1>a, <1>d DEF Write, Typed, Arrays
  <2>1a. /\ data \in 1..Len(arrays) /\ n < Len(arrays[data]) /\ Cells = arrays[data]
         /\ arrays[data] \in Seq(Cell)
    BY <2>1, <1>b
  <2> DEFINE new == [arrays[data] EXCEPT ![n + 1] = w.val]
  <2>2. arrays' = [arrays EXCEPT ![data] = new] /\ UNCHANGED <<data, n, log, rd>>
        /\ w' = [w EXCEPT !.pc = "publish"]
    BY <1>3 DEF Write
  <2>3. new \in Seq(Cell) /\ Len(new) = Len(arrays[data]) /\ new[n + 1] = w.val
        /\ \A i \in 1..n : new[i] = arrays[data][i]
    BY <2>1, <2>1a DEF Cell
  <2> HIDE DEF new
  <2>4. /\ Len(arrays') = Len(arrays)
        /\ \A a \in 1..Len(arrays) : a # data => arrays'[a] = arrays[a]
        /\ arrays'[data] = new
        /\ arrays' \in Seq(Seq(Cell))
    <3>1. arrays \in Seq(Seq(Cell))
      BY <1>a DEF Typed
    <3>2. QED
      BY <3>1, <2>1a, <2>2, <2>3
  <2>5. Typed'
    <3>1. w' \in [pc : {"idle", "grow", "write", "publish", "panic"}, val : Cell]
          /\ w'.val = w.val /\ w'.pc = "publish"
      BY <2>2, <1>a DEF Typed
    <3>2. QED
      BY <2>1, <2>2, <2>4, <3>1, <1>a DEF Typed
  <2>6. Cells' = new
    BY <2>1a, <2>2, <2>4 DEF Cells
  <2>7. \A a \in 1..Len(arrays) : Len(arrays'[a]) = Len(arrays[a])
    BY <2>3, <2>4
  <2>8. Arrays'
    <3>1. \A a \in 1..Len(arrays'), i \in 1..Len(log') : i <= Len(arrays'[a]) => arrays'[a][i] = log'[i]
      BY <2>1, <2>1a, <2>2, <2>3, <2>4, <2>7, <1>a DEF Arrays
    <3>2. \A a \in 1..Len(arrays') : a < data' => Len(arrays'[a]) <= Len(log')
      BY <2>2, <2>4, <2>7, <1>a DEF Arrays
    <3>3. Len(log') <= Len(Cells') /\ Len(log') < Len(Cells') /\ w'.pc = "publish" /\ Cells'[Len(log') + 1] = w'.val
      <4>1. w'.pc = "publish" /\ w'.val = w.val
        BY <2>2, <1>a DEF Typed
      <4>2. QED
        BY <4>1, <2>1, <2>1a, <2>2, <2>3, <2>6
    <3>4. QED
      BY <3>1, <3>2, <3>3 DEF Arrays
  <2>9. Slices'
    BY <2>2, <2>4, <2>7, <1>a DEF Slices, Typed
  <2>10. QED
    BY <2>5, <2>8, <2>9 DEF Inv
<1>4. CASE Publish
  <2>1. /\ n = Len(log) /\ n \in Nat /\ n <= MaxInt /\ w.val \in Values
        /\ Len(log) < Len(Cells) /\ Cells[Len(log) + 1] = w.val
    BY <1>4, <1>a, <1>d DEF Publish, Typed, Arrays
  <2>1a. data \in 1..Len(arrays) /\ n < Len(arrays[data]) /\ Cells = arrays[data]
    BY <2>1, <1>b
  <2>2. n' = Wrap(n + 1) /\ log' = Append(log, w.val) /\ UNCHANGED <<arrays, data, rd>>
        /\ w' = IdleWriter
    BY <1>4 DEF Publish
  <2>3. Len(log') = n + 1 /\ log'[n + 1] = w.val /\ log' \in Seq(Values)
        /\ \A i \in 1..n : log'[i] = log[i]
    <3>1. log \in Seq(Values) /\ w.val \in Values
      BY <2>1, <1>a DEF Typed
    <3>2. QED
      BY <2>1, <2>2, <3>1
  <2>4. Typed'
    <3>1. Len(log') <= MaxInt + 1 /\ n' = Wrap(Len(log'))
      BY <2>1, <2>2, <2>3
    <3>2. w' \in [pc : {"idle", "grow", "write", "publish", "panic"}, val : Cell] /\ w'.pc = "idle"
      BY <2>2 DEF IdleWriter, Cell
    <3>3. QED
      BY <2>2, <2>3, <3>1, <3>2, <1>a DEF Typed
  <2>5. Arrays'
    <3>1. \A a \in 1..Len(arrays'), i \in 1..Len(log') : i <= Len(arrays'[a]) => arrays'[a][i] = log'[i]
      <4>1. /\ \A a \in 1..Len(arrays), i \in 1..Len(log) : i <= Len(arrays[a]) => arrays[a][i] = log[i]
            /\ \A a \in 1..Len(arrays) : a < data => Len(arrays[a]) <= Len(log)
        BY <1>a DEF Arrays
      <4>2. n = Len(log) /\ n \in Nat /\ data = Len(arrays)
        BY <2>1, <1>a DEF Typed
      <4>3. SUFFICES ASSUME NEW a \in 1..Len(arrays), NEW i \in 1..n + 1, i <= Len(arrays[a])
                     PROVE  arrays[a][i] = log'[i]
        BY <2>2, <2>3
      <4>4. CASE i <= n
        BY <4>1, <4>2, <4>3, <4>4, <2>3
      <4>5. CASE i = n + 1
        <5>1. a = data
          BY <4>1, <4>2, <4>3, <4>5, <1>c
        <5>2. QED
          BY <5>1, <4>5, <2>1, <2>1a, <2>2, <2>3
      <4>6. QED
        BY <4>2, <4>4, <4>5
    <3>2. \A a \in 1..Len(arrays') : a < data' => Len(arrays'[a]) <= Len(log')
      BY <2>1, <2>2, <2>3, <1>a, <1>c DEF Arrays
    <3>3. Len(log') <= Len(Cells') /\ w'.pc = "idle"
      BY <2>1, <2>1a, <2>2, <2>3, <1>b DEF Cells, IdleWriter
    <3>4. QED
      BY <3>1, <3>2, <3>3 DEF Arrays
  <2>6. Slices'
    <3>1. Len(log) <= Len(log') /\ Len(log') \in Nat
      BY <2>1, <2>3
    <3>2. QED
      BY <2>1, <2>2, <3>1, <1>a DEF Slices
  <2>7. QED
    BY <2>4, <2>5, <2>6 DEF Inv
<1>5. ASSUME NEW r \in Readers, LoadLen(r) \/ LoadData(r) \/ Read(r) \/ Drop(r) PROVE Inv'
  <2>1. UNCHANGED <<arrays, data, n, log, w>>
    BY <1>5 DEF LoadLen, LoadData, Read, Drop
  <2>2. Arrays'
    BY <2>1, <1>a DEF Arrays, Cells
  <2> DEFINE Fits(x) == /\ x \in ReaderType
                        /\ x.pc \in {"data", "read"} =>
                              x.n \in 1..Len(log) \/ (x.n < 0 /\ Len(log) > MaxInt)
                        /\ x.pc = "read" => /\ x.n \in 1..Len(log)
                                            /\ x.arr \in 1..Len(arrays)
                                            /\ x.n <= Len(arrays[x.arr])
                        /\ x.pc = "panic" => Len(log) > MaxInt
  <2>3. \A q \in Readers : Fits(rd[q])
    BY <1>a, <1>c DEF Slices
  <2>4. rd \in [Readers -> ReaderType]
    BY <1>a DEF Typed
  <2>5. \E x : rd' = [rd EXCEPT ![r] = x] /\ Fits(x)
    <3>1. CASE LoadLen(r)
      <4> DEFINE x == [rd[r] EXCEPT !.pc = "data", !.n = n]
      <4>1. rd' = [rd EXCEPT ![r] = x] /\ n # 0
        BY <3>1 DEF LoadLen
      <4>2. x \in ReaderType /\ x.pc = "data" /\ x.n = n
        BY <2>3, <1>d DEF ReaderType
      <4>3. n \in 1..Len(log) \/ (n < 0 /\ Len(log) > MaxInt)
        BY <4>1, <1>d, ListAssumption
      <4> HIDE DEF x
      <4>4. Fits(x)
        BY <4>2, <4>3
      <4>5. QED
        BY <4>1, <4>4
    <3>2. CASE LoadData(r)
      <4> DEFINE bad == rd[r].n < 0 \/ rd[r].n > Len(Cells)
                 x == [rd[r] EXCEPT !.arr = data, !.pc = IF bad THEN "panic" ELSE "read"]
      <4>1. rd' = [rd EXCEPT ![r] = x] /\ rd[r].pc = "data"
        BY <3>2 DEF LoadData
      <4>2. /\ rd[r].n \in Int /\ Len(log) <= Len(Cells) /\ Len(Cells) \in Nat
            /\ rd[r].n \in 1..Len(log) \/ (rd[r].n < 0 /\ Len(log) > MaxInt)
        BY <4>1, <1>a, <1>b, <1>c DEF Slices, Arrays, ReaderType
      <4>3. x \in ReaderType /\ x.n = rd[r].n /\ x.arr = data
            /\ x.pc = (IF bad THEN "panic" ELSE "read")
        <5>1. rd[r] \in ReaderType /\ data \in Nat
          BY <1>a, <1>c DEF Typed
        <5>2. QED
          BY <5>1 DEF ReaderType
      <4>4. CASE bad
        <5>1. x.pc = "panic" /\ Len(log) > MaxInt
          BY <4>2, <4>3, <4>4, <1>d
        <5> HIDE DEF x, bad
        <5>2. Fits(x)
          BY <4>3, <5>1
        <5>3. QED
          BY <4>1, <5>2
      <4>5. CASE ~bad
        <5>1. x.pc = "read" /\ rd[r].n \in 1..Len(log) /\ rd[r].n <= Len(Cells)
          BY <4>2, <4>3, <4>5, <1>d
        <5>2. data \in 1..Len(arrays) /\ Cells = arrays[data]
          BY <5>1, <1>b, <1>d
        <5> HIDE DEF x, bad
        <5>3. Fits(x)
          BY <4>3, <5>1, <5>2
        <5>4. QED
          BY <4>1, <5>3
      <4>6. QED
        BY <4>4, <4>5
    <3>3. CASE Read(r)
      <4>1. PICK i \in 1..rd[r].n : rd' = [rd EXCEPT ![r] = [rd[r] EXCEPT !.i = i]]
        BY <3>3 DEF Read
      <4> DEFINE x == [rd[r] EXCEPT !.i = i]
      <4>2. Fits(x)
        <5>1. rd[r] \in ReaderType /\ i \in Nat /\ rd[r].pc = "read" /\ rd[r].n \in 1..Len(log)
          BY <3>3, <4>1, <1>a, <1>c, <1>d DEF Read, Slices
        <5>2. x \in ReaderType /\ x.pc = rd[r].pc /\ x.n = rd[r].n /\ x.arr = rd[r].arr
          BY <5>1 DEF ReaderType
        <5> HIDE DEF x
        <5>3. QED
          BY <2>3, <5>2
      <4>3. QED
        BY <4>1, <4>2
    <3>4. CASE Drop(r)
      <4>1. rd' = [rd EXCEPT ![r] = IdleReader]
        BY <3>4 DEF Drop
      <4>2. Fits(IdleReader)
        BY DEF IdleReader, ReaderType
      <4>3. QED
        BY <4>1, <4>2
    <3>5. QED
      BY <1>5, <3>1, <3>2, <3>3, <3>4
  <2>6. \A q \in Readers : Fits(rd'[q])
    <3>1. PICK x : rd' = [rd EXCEPT ![r] = x] /\ Fits(x)
      BY <2>5
    <3> HIDE DEF Fits
    <3>2. QED
      BY <2>3, <2>4, <3>1
  <2>7. Typed'
    BY <2>1, <2>4, <2>5, <1>a DEF Typed
  <2>8. Slices'
    BY <2>1, <2>6 DEF Slices
  <2>9. QED
    BY <2>2, <2>7, <2>8 DEF Inv
<1>6. CASE UNCHANGED vars
  BY <1>6, <1>a DEF vars, Inv, Typed, Arrays, Slices, Cells
<1>7. QED
  BY <1>1, <1>2, <1>3, <1>4, <1>5, <1>6 DEF Next

\* The invariant of list: it holds in every state of every behaviour.
THEOREM Invariance == Spec => []Inv
<1>1. Inv /\ [Next]_vars => Inv'
  BY InvNext
<1>2. QED
  BY InvInit, <1>1, PTL DEF Spec

\* A slice that load returned holds what add was given at each position, for
\* any interleaving of any number of readers with the writer.
THEOREM Completeness == Spec => []SlicesAreComplete
<1>1. ASSUME Inv PROVE SlicesAreComplete
  <2>1. \A a \in 1..Len(arrays), i \in 1..Len(log) : i <= Len(arrays[a]) => arrays[a][i] = log[i]
    BY <1>1 DEF Inv, Arrays
  <2>2. SUFFICES ASSUME NEW r \in Readers, rd[r].pc = "read", NEW i \in 1..rd[r].n
                 PROVE  i <= Len(log) /\ arrays[rd[r].arr][i] = log[i]
    BY DEF SlicesAreComplete
  <2>3. /\ rd[r].n \in 1..Len(log) /\ rd[r].arr \in 1..Len(arrays)
        /\ rd[r].n <= Len(arrays[rd[r].arr])
    BY <1>1, <2>2 DEF Inv, Slices
  <2>4. Len(arrays[rd[r].arr]) \in Nat /\ Len(log) \in Nat
    BY <1>1, <2>3, Lengths, PublishedLength DEF Inv
  <2>5. i \in 1..Len(log) /\ i <= Len(arrays[rd[r].arr])
    BY <2>2, <2>3, <2>4
  <2>6. QED
    BY <2>1, <2>3, <2>4, <2>5
<1>2. QED
  BY Invariance, <1>1, PTL

\* list leaves the bounds of an array only after more elements than an Int32
\* counts were added, whatever the caller's limit and however readers interleave.
THEOREM BoundsSafety == Spec => []PanicsOnlyWhenFull
<1>1. Inv => PanicsOnlyWhenFull
  BY DEF Inv, Typed, Slices, PanicsOnlyWhenFull
<1>2. QED
  BY Invariance, <1>1, PTL

\* The plain stores of add never touch a cell that a reader may look at.
THEOREM RaceFreedom == Spec => NoRace
<1> DEFINE Kept == \A r \in Readers : rd[r].pc = "read" =>
              \A i \in 1..rd[r].n : arrays'[rd[r].arr][i] = arrays[rd[r].arr][i]
<1>1. ASSUME Inv, [Next]_vars PROVE Kept
  <2> SUFFICES ASSUME NEW r \in Readers, rd[r].pc = "read", NEW i \in 1..rd[r].n
               PROVE  arrays'[rd[r].arr][i] = arrays[rd[r].arr][i]
    OBVIOUS
  <2>1. /\ rd[r].arr \in 1..Len(arrays) /\ rd[r].n \in 1..Len(log) /\ Len(log) \in Nat
        /\ n \in Int
        /\ Len(log) <= MaxInt => n = Len(log)
        /\ arrays \in Seq(Seq(Cell)) /\ data = Len(arrays)
        /\ w.pc = "write" => Len(log) <= MaxInt
    BY <1>1, PublishedLength DEF Inv, Typed, Slices
  <2>2. CASE Grow
    BY <2>1, <2>2 DEF Grow
  <2>3. CASE Write
    BY <2>1, <2>3 DEF Write
  <2>4. CASE UNCHANGED arrays
    BY <2>4
  <2>5. QED
    BY <1>1, <2>2, <2>3, <2>4 DEF Next, vars, Add, Publish, LoadLen, LoadData, Read, Drop
<1>2. Inv /\ [Next]_vars => [Kept]_vars
  BY <1>1
<1>3. QED
  BY Invariance, <1>2, PTL DEF Spec, NoRace
=============================================================================
