# hypermatch, specified

TLA+ models of hypermatch, a Go library that compiles rules ("conditions on
the properties of an event") into a trie and tells which rules an event
matches. Rules may be added, replaced and removed by one goroutine at a time
while any number of goroutines match events without taking a lock. That
combination is what the models are about: each atomic store of a writer and
each atomic load of a reader is a step, and the properties say what a `Match`
call may return whatever the writer does in between.

## 1. Inventory

| Component (source) | State | Operations | Modelled in |
|---|---|---|---|
| Rule set: `HyperMatch`, `table` (`hypermatch.go`) | `tab`, `nums`, `removed`, `count`; per table `ids`, `removed`, `version`, `meta` | `AddRule`, `ReplaceRule`, `RemoveRule`, `compact` | `RuleBook`, `HyperMatch`, `HyperMatchCalls` |
| Match calls (`hypermatch.go`, `engine.go`) | a pooled `scratch` | `begin`, `visit`, `consider`, `improve`, `visible`, `results`, `MatchFirst` | `HyperMatch`, `HyperMatchCalls` |
| Trie of states (`engine.go`) | states, groups, edges, `minKey`, `hasAbsent` | `insert`, `follow`, `followAbsent`, `addRule`, `copyRules` | `HyperMatch` (whole rules), `Group` (one group), `Paths` (recorded paths) |
| Groups, leaves, formulas (`engine.go`) | leaves with edges, `kinds`, `neg` | `compile`, `addEdge`, `evalGroup`, `triggers`, `eval` | `Group`, `Formula` |
| Normalization (`normalize.go`) | none | `normalizeRule`, `normalizeSets`, `normalizePattern`, `combine`, `negate`, `parseKey` | `Rules`, `Formula`, `Keys`, `Patterns` |
| Event preparation (`engine.go`) | `paths`, `prefixes`, `wilds`; spans in the scratch | `addPath`, `reset`, `addWild` | `Paths` (against the writer), `Scratch` (the buffers) |
| `MatchJSON` (`matchjson.go`) | parser position, open wildcard paths, buffers | `resetJSON`, `value`, `object`, `openWilds`, `record`, `groupJSONValues` | `Paths`, `Scratch` |
| `list` (`concurrent.go`) | array, length | `load`, `add` | `Lists` |
| `strMap` (`concurrent.go`) | open-addressing table | `get`, `put`, `grow` | `StrMap` |
| `bitset`, `ruleMeta` (`concurrent.go`) | growing arrays of words | `has`, `set`, `metaSpan`, `metaOrder` | `HyperMatch` |
| `byteMap` (`concurrent.go`) | four words of keys, bases, values by rank | `get`, `put` | `ValueIndex` |
| Value index (`index.go`) | tables by key, lengths, `kinds` | `add`, `collect` | `ValueIndex`, `Group` |
| Glob automaton (`index.go`) | nodes with kids, spinner, `final`, `reach` | `insert`, `match` | `ValueIndex`, `Patterns` |
| Number index (`number.go`) | four lists, sorted and recent part, `maxHi` | `with`, `collect` | `Numbers`, `ValueIndex` |
| CIDR index (`cidr.go`) | table by masked prefix, lengths per family | `add`, `collect` | `ValueIndex` |
| `Explain` (`explain.go`) | none | whether a rule, a pattern, a value match; values at a path | `Rules`, `Patterns`, `Scratch`, as the reference the engine is compared with |
| JSON form of rules (`conditions.go`) | none | `MarshalJSON`, `UnmarshalJSON` of a condition set | `Rules` |
| Shorthand, JSON of patterns | none | pure | not modelled |

How they interact. A writer holds `HyperMatch.mu`, normalizes a rule, gives it
a number (`ids`, `nums`), walks the trie and creates what is missing: paths
(`addPath`), groups, leaves, edges, states; it puts the number into the last
state. `ReplaceRule` gives the rule a second number, whose span of versions
begins where the old one's ends, and publishes the version last. `RemoveRule`
sets a bit. When a quarter of the numbers is dead, `compact` builds a new table
and publishes it with one store. A reader loads the table once, then version,
`ids`, `meta`, `removed` and `hasAbsent` in this order, prepares the event with
the known paths, traverses the trie, filters the numbers it met by visibility,
sorts them by order key and turns them into identifiers.

What is hard about it, and the properties that answer it (each hazard with its
line is in `PROJECT.json`):

- A call of the writer is many stores; `ReplaceRule` must look like one
  (`ImplementsRuleBook`, `MatchIsRegular`), and no identifier may be lost,
  doubled or reordered by it (`ReportedOnceIfKept`, `ResultsInOrder`).
- Readers go on in a table that `compact` has replaced, with arrays that
  `bitset.set` and `ruleMeta.set` have replaced (`ReadersInBounds`,
  `KeysAreStable`).
- Long sequences of legal calls must keep numbers, counters and the threshold
  of `compact` right (`NumbersAreExact`, `TypeOK`).
- `MatchFirst` prunes by a `minKey` that the writer lowers from the root down
  (`MatchFirstIsFirst`).
- A negation and the leaves that make it false are published one by one
  (`FollowedConditionsHold`, `HoldingConditionsFollowed`).
- Events are prepared with records that change meanwhile (`MatchesHold`,
  `ReadyRulesMatch`).
- Lock-free structures: partial arrays, lookups in tables that grow
  (`SlicesAreComplete`, `NoRace`, `LookupIsRegular`, `LookupEnds`).
- A value is looked up by kinds, lengths, bytes, bounds and prefixes that the
  writer publishes one after the other, and patterns share nodes of an
  automaton that grows (`HitsMatch`, `AddedLeavesAreFound`, `NeverPanics`,
  `NodesAreVisitedOnce`, `NumbersFound`).
- Algebra of conditions that is only wrong for rare nestings, and alternatives
  that multiply (`MeaningKept`, `KeyRoundTrip`, `TriggersSuffice`,
  `ShortcutsAreExact`, `LimitsAreExact`, `JSONRoundTrip`).
- Scratches are pooled, and a call may fail in the middle of an event
  (`PropertiesAreGrouped`, `JSONValuesAreGrouped`, `TableHasRoom`,
  `FormulasSeeHits`).
- The list of identifiers is bounded by a check that comes too late for its
  Int32 length (`PanicsOnlyWhenFull`).

That readers never wait for the writer's lock (`ReadersNeverWait`) is checked
too; the code takes no lock on the way of a reader, so it is no hazard today.

## 2. Plan

1. `RuleBook`, `HyperMatch`, `HyperMatchCalls`: the rule set, its writers and
   its readers; refinement of the rule book. *Done.*
2. `Lists`, `StrMap`: the structures the first models take as atomic. *Done.*
3. `Formula`, `Group`: one group while it is extended. *Done.*
4. `Paths`: preparing events while paths are added. *Done.*
5. `Rules`, `Keys`, `Patterns`: rules with alternatives, the text of their keys
   and single patterns, compared with `Explain`. *Done.*
6. `ValueIndex` on `Numbers`: every kind of lookup, `byteMap`, the glob
   automaton, numbers and prefixes, while leaves are added. *Done.*
7. `Scratch`: the buffers of two calls in a row. *Done.*
8. Proofs of `Lists`, of the rule set's types and bounds, of its keys and
   counters, of the order and uniqueness of results, of `StrMap`'s lookups.
   *Done.*
9. Proofs of which identifiers `Match` and `MatchFirst` return, and of the
   refinement `HyperMatchCalls` => `RuleBook`, store by store. *Done.*
10. Proofs of what events and rules with any paths get from the records of
    `Paths`. *Done.*
11. Proofs of which edges a group follows while it is extended, and of the span table
    and the bit set of a scratch. *Done.*
12. Proofs that the value index finds exactly the leaves that match, and that the
    leaf of a pattern means what `Explain` says of it. *Done.*
13. Left: `Scratch` against a writer, beyond what `Paths` says of single paths.

## 3. Modules

### RuleBook
What the calls promise, without tables or numbers: a book `[Ids -> SUBSET
Bodies]`, the identifiers that are present, which of them was added after which
(a set of pairs), and the call in progress. Each step is one instant at which a
reader may look: `Replace` and `Remove` are one instant, `AddBody` adds one set.
`full` says that numbers have run out.

### HyperMatch
One writer and `Readers`, at the grain of their atomic operations. `table` is
`h.tab`'s table; `old[r]` is the table that reader `r` keeps when `compact` has
replaced it. Steps on data that only the lock holder touches are merged with a
neighbour. `w` holds the writer's locals and program counter, `rd[r]` the
scratch of a reader.

- A *condition* is a value that an event makes true or not; a *body* is a
  normalized condition set as a sequence; a state of the trie is the sequence
  of conditions that leads to it. `RuleSets` is what `normalizeRule` may
  return: one body, or several for `$or`.
- `NewNumber`, `MetaGrow`, `MetaSpan`, `MetaOrder`, `PublishId`,
  `LowerMinKey`, `Follow`, `LinkAbsent`, `AddNumber`, `PublishVersion`,
  `Retire`, `BitGrow`, `BitSet`, `Forget`, `Compact` are the stores of the
  three calls in the order of the code. `Compact` is one step because the new
  table is private until `h.tab.Store`.
- `meta` and `removed` are sequences of all arrays published; a grown array is
  a copy and the old one is frozen, as in `bitset.set` and `ruleMeta.set`.
- Readers: `Match`, the five loads of `begin`, `Visit` per state, `Consider`
  per number (`MatchFirst`), `Filter` per number and `ReturnMatches`
  (`results`), `ReturnFirst`. The order of the traversal is left open.
- A value that only rejects a call (`isComparable`, invalid rules) is left out.

### HyperMatchCalls
Adds history: the rules before and after the call in progress, the order in
which identifiers were added, and what each reader's call may and must report.
The properties of results are stated over it, and `Book`, the instance of
`RuleBook` with what a `Match` call starting now would see: `ShownBook`,
`ShownIds`, `ShownOrder` and `ShownCall`.

### HyperMatchProofs and HyperMatchBookProofs
`HyperMatchProofs` has lemmas about the operators and the types (sorting, ranks,
tables, one lemma per store of the writer), then the theorems about types, bounds,
the writer's bookkeeping and the order of results. `HyperMatchBookProofs` extends it
with those about which identifiers are returned and about the refinement of
`RuleBook`. See section 6.

### Lists and ListsProofs
`list`: a published length and a backing array, loaded in two steps. Cells are
written with plain stores, so `NoRace` says that the stored cell lies in no
slice a reader holds. `Wrap` is the Int32 of `list.n`. `Limit` is the length at
which the caller `newNumber` stops (`math.MaxUint32`, for an Int32 up to
`MaxInt` the number 2 * `MaxInt` + 1): the length wraps before it is reached, and
`add` or `load` panic on the negative length (`"panic"`). `PanicsOnlyWhenFull`
says that nothing else makes them panic.

### StrMap and StrMapProofs
`strMap`: linear probing slot by slot. `put` grows first if it would use more
than three quarters of the slots: `Grow` makes the private copy, `Copy` inserts
one old slot into it, `Publish` is the store of the new table, `Store` that of the entry. Old tables
are kept apart, so that a reader finishes in the one it loaded.

### Patterns
Single patterns as sequences of bytes: `splitWildcard`, the leaf that
`normalize.go` chooses (a wildcard without `*` is an equals, `a*` a prefix,
`*b` a suffix, an interval that holds one number a point), `fold` for ASCII,
and `ValueMatches`, which is what `explain.go` says a pattern means. A value
comes with the number and the address that its text stands for.

### Numbers, ValueIndex and ValueIndexProofs
`Numbers` has `numList.with` (the recent list, the merge into the sorted one,
`maxHi`) and the binary searches of `collect`. `ValueIndex` has the index of a
group: `Add` puts a leaf into its table, then its length, then its kind; a
wildcard goes into the automaton node by node (`byteMap` is copied and
published per byte). A reader loads kinds first and does each lookup in turn;
`Step`, `NextByte`, `EnterSpin` and `Final` are the simulation of the
automaton. `strMap` and `list` are atomic here, they have modules of their own.
Loops are recursive functions over the number of rounds (`Merged`, `SearchLo`), of
which `ValueIndexProofs` shows what they compute.

### Formula, Keys and Rules
`Formula` has the expressions of `normalize.go` with `combine`, `negate`,
and what `engine.go` derives (`monotone`, `simple`, `refutable`,
`triggers`, `eval`). Subexpressions are sets, since the code keeps them sorted
by key without duplicates.

`Keys` has the keys as the sequences of bytes they are: `Key` writes a leaf as
its tag, the length of its value in decimal, a colon and the value, and an
operator as its tag and the sorted keys of its subs in parentheses; `ParseKey`
scans such a text byte by byte, by the tag, the first colon and the length. What
makes the Go code panic gives `Invalid`. `KeyRoundTrip` says that parsing the
key of an expression gives the expression back. Hence no two expressions have the
same key, which is what makes the code's removal of duplicates by key that of a
set. The values of `MCLeaves` consist of bytes that have a meaning in keys, among
them colons, parentheses, tags and digits, and one needs a length of two digits.

`Rules` adds condition sets: `NormalizeSets` combines
alternatives and counts them, `NormalizeConditions` merges the conditions on a
path, `Explained` is what `explainSet` says without normalizing, and `Marshal`
and `Unmarshal` are the JSON form, in which alternatives share the key of a path
that may be named `$or` too. `MCRules` grows rules one operator, condition or
alternative at a time, and its action `Malform` makes rules that must be rejected:
a condition without a path, and alternatives with a path or a pattern beside them.

### Group and GroupProofs
`Group` compiles one condition after the other (leaf, kind bit, registrations,
negation) while a reader runs `evalGroup`. Which lookup finds a leaf is
abstracted to its kind (`ValueIndex` has the lookups); they are done in every
order. Of a formula it knows its leaves, its triggers, which of the three shortcuts
apply to it and for which hits it holds (`FormulaOf`); `FormulaAssumption` is what
it relies on. `MCGroup` takes these from `Formula`, and the run `formula` checks the
laws for every rule it generates (`TriggersSuffice`, `ShortcutsAreExact`).

### Paths and PathsProofs
What `addPath` records and what readers consult: known paths, prefixes,
wildcard bases. An event is a sequence of tokens; `Match` looks up wildcard
bases per value, `MatchJSON` per key, one "." after the other (`OpenWild`), with
steps of the writer between them. `MatchJSON` also drops values at unknown paths and below
objects no rule looks into. `Opened` is the parser's stack of open wildcard
paths. How full the table of wildcard paths is is left open (`GrowWilds` or
`WildsHaveRoom`). `PathsAssumption` and `EventsAssumption` say what names and
events are: the parts before the dots of a path are nested, a wildcard path's
base is its last part, objects are closed after they are opened, and a key is
appended to the path of the object it is in.

### Scratch and ScratchProofs
What one call leaves to the next. `ResetProperty` and `AddWild` enter the
properties of an event into the span table and chain values of one path; for
JSON, each token is a step (`Key`, `OpenObject`, `Scalar`, ...) that moves the
path buffer and the open wildcard paths, and `Fail` may end the call at any
token; if the token is a string, its path may have a span by then
(`FailInString`). `GroupValues` is the counting sort of `groupJSONValues`. `EvalGroup`
folds and hashes values on first use and sets the bits of hits, `ClearHits` and
`ClearBits` clear them, and `Release` shortens the buffers without overwriting
them, so that what an earlier call wrote is still there. The rules of a call do
not change here.

### Faulty variants
Some modules have operators commented "Faulty". They state a plausible mistake
in the operator they stand before (a dropped guard, a wrong order) and nothing
uses them; with the mistake in place, the property named for it in
`PROJECT.json` ("mutants") fails.

## 4. Runs

| Run | Question | Bounds |
|---|---|---|
| `writer` | numbers, counters, keys; tables implement `RuleBook` | two identifiers, a third that is never called for, 4 numbers, no reader |
| `match` | what `Match` and `MatchFirst` return, and that they never wait | one identifier is changed beside another, up to 2 calls during one match, 3 numbers |
| `duplicate` | *finding*: an identifier is returned twice | 8 rules, 3 calls during one match, the code's factors 4 and 64 |
| `list` | slices, races, bounds, a length that wraps | 2 readers, `MaxInt` 3: 4 elements, 3 arrays, then the wrapped length |
| `strmap` | lookups and their end | 4 keys, 2 values, 4 puts, tables of 2, 4, 8 slots |
| `formula` | algebra of conditions, keys, alternatives, limits, JSON form | 3 leaves whose values look like keys, 2 nestings, 2 paths, 4 steps of alternatives |
| `group` | evaluation during compilation | 5 conditions in every order, 3 leaves, every set of matching leaves |
| `index` | lookups during additions | 8 sets of patterns, each in every order, with the values that tell them apart |
| `paths` | preparation during additions | 3 rules by `ReplaceRule`, 4 JSON events, 3 property events |
| `scratch` | buffers across calls | 2 calls, 3 groups each, 3 property events, 5 documents, failure at every token |
| `wild_race` | *finding*: partial values of a wildcard path | 1 rule by `AddRule` |
| `json_race` | *finding*: dropped value and `exists: false` | 1 rule by `AddRule` |

Why the bounds are enough. Readers share nothing but the table, which they do
not write, so one reader meets every interleaving. The properties of `writer` and
`match` but `ReadersNeverWait`, those of `list` and `paths`, and those of `strmap`
but `LookupEnds`, are proved for any constants besides (section 6); the runs then show
that the interesting cases occur and that the mistakes of the faulty variants are
noticed. `CompactFactor` is 2
instead of 4 and `WordBits` 2 instead of 64, so that compaction with live rules
left, growth of both arrays and numbers in a second word occur with 3 or 4
numbers. With `MaxRules` 4 the writer alone reaches replacement of a
replacement, removal of a replaced rule, adding again after removal, compaction
after each, and "too many rules". `MaxOverlap` bounds the writer calls that
*start* during one match (the one in progress when it starts comes on top): two
suffice for a replacement and a removal with compaction while a match is
suspended, and three give the finding of `duplicate`. `InitSize` is 2 instead of
8: the table grows to 4 and 8 slots, with two keys whose probes wrap; `MaxPuts`
bounds calls of `put`. `MaxInt` is 3 instead of 2^31 - 1, so that the array grows
three times before the length wraps to -4; what the caller checks, `Limit`, is 7,
beyond it as in the code. `MaxNeg` is 3 instead of 2^24, so that negations with
and without a position occur.

`MaxNesting` bounds operators around a leaf and `MaxOrs` the steps that add
alternatives; `MaxConditionSets` 2 instead of 1024 and `MaxOrDepth` 2 instead of
32 are both reached and exceeded. `MaxRecent` is 2 instead of 64, so that five
ranges or seven bounds go through the recent list and are merged more than
once. Addresses have 2 bits for IPv4 and 3 for IPv6, one of which marks an
IPv4 address written as IPv6. Bytes of patterns lie in three words of a
`byteMap`. In `scratch` the span tables begin with 2 slots instead of 8 and 16,
so that they are rehashed; `MaxDepth` is 4 instead of 10000 and one document
exceeds it; `MaxCalls` 2 lets each event, failed or not, come before each other
one; `MaxEvals` bounds the groups evaluated per call, which may be any.

Deadlock is checked in all runs but `list`, `formula` and `scratch`: the program
ends where `list` panics, rules stop growing at their bounds, and after
`MaxCalls` calls no other begins.

Fairness. `StrMap!FairSpec` assumes that a reader inside `get` keeps running, as
the scheduler does for a runnable goroutine; nothing is assumed of the writer,
which may stop anywhere with the lock held. Under it `LookupEnds`. For a whole
match the same is stated without fairness: in every state, whatever the writer
is doing, a reader inside a call has a step (`ReadersNeverWait`).

## 5. Findings

- `duplicate`: the doc of `AddRule` says an identifier "is reported only once".
  A `Match` call that overlaps `ReplaceRule(A)`, `RemoveRule(A)` and
  `AddRule(A)` returns A twice. For identifiers that are not removed during the
  call the claim holds (`ReportedOnceIfKept`).
- `wild_race`, `json_race`: the test of concurrent readers says they "must
  never see a rule match that does not hold". A call that overlaps the
  `AddRule` of the first wildcard path, or of `{"exists": false}` on a new path
  for `MatchJSON`, may report such a rule. With `ReplaceRule` it may not: the
  version hides the rule until all records are in place (`paths`).

Besides, "too many rules" is checked at `math.MaxUint32` (`src/hypermatch.go:197`),
while the length of `list` is an Int32: with 2^31 rules the length wraps, and the
next call of `AddRule` or `Match` panics instead of returning the error. The run
`list` reaches that state, and `PanicsOnlyWhenFull` says that nothing else does. No
doc of the repository claims more, and memory ends before, so it is a remark.

## 6. Proofs

`ListsProofs`: for any values, number of readers and `MaxInt`,
`SlicesAreComplete`, `PanicsOnlyWhenFull` and `NoRace` are theorems of `Spec`. No
hypothesis bounds the number of elements: the published length is that of the log
until it wraps, and then negative (lemma `PublishedLength`). The inductive invariant is
`Typed /\ Arrays /\ Slices`: published arrays agree with the log as far as
both reach, only the current array has room, and a reader's length is no larger
than the array it loaded *after* it. The properties alone are not inductive:
that the array loaded second is long enough depends on older arrays being filled
to at most the published length.

`StrMapProofs`: for any keys, values, hash function, initial size, number of
readers and of `put` calls, `KeysAreUnique` and `LookupIsRegular` are theorems
of `Spec`. Neither is inductive. That a lookup which meets a gap may return
nothing needs that every entry is reached from its hash without a gap
(`Reached`), in tables that readers still hold as well as in the current one and
in the copy of `grow`; that `insert` keeps this, and stores over an entry of the
same key rather than beside it, is the lemma `InsertGood`. It also needs an empty slot: `used` counts at least the
occupied slots (`FreshInv`), and the copy has no more of them than slots passed
(`CopyInv`). A reader in the middle of a probe has passed neither a gap nor its
key, and its table holds an entry that is recent enough (`Probing`): stores only
fill gaps or renew values, so this lasts. What a lookup finds is recent because
the copy is complete when `Publish` stores it, and what the writer put before is
in the current table. `IInv` is the conjunction; it was model-checked before it
was proved.

`HyperMatchProofs`, its first parts: for any sets of identifiers, rules, events and readers and
any `WordBits`, `CompactFactor` and `MaxRules` that `ConstantsAssumption`
allows, `TypeOK` and `ReadersInBounds` are theorems of `Spec`, `KeysAreStable`
and `NumbersAreExact` of `CallSpec`. None of them is inductive:

- `TypeOK` says that `h.nums` stays within `ids`. `Compact` renumbers only the
  numbers it keeps, so one needs that every present identifier's number is
  kept: it is not removed, not replaced, and its own (`Numbered`). `Forget` and
  `Retire` restore that only if the call in progress ended the right number
  (`CallFits`), and if words beyond `ids` are clean when a number is given out
  (`Unused`). With `Owned` (a current number belongs to the identifier it
  stands for, or is the one a `ReplaceRule` is about to take) this is
  `NumbersFit`. `WriterInv` adds the types and what the writer's locals mean at
  each program counter (`WriterFits`): the slots and states it stores to exist.
- `ReadersInBounds` needs only what a scratch holds at rest and that a best
  number exists if there is a best key (`ReaderInv`); the writer's side of it
  is `Grown`: within one table, arrays and `ids` only get longer, and `Compact`
  leaves the old table to the readers that hold it.
- The invariant of both is `Inv`, the conjunction of `WriterInv`, `NumbersFit`
  and `ReaderInv` (theorem `Inductive`).
- `KeysAreStable` needs in addition that `ReplaceRule` stores, for both
  numbers, the key the replaced one has (`KeyFits`). `w.pc = "compact"` is
  excluded because the keys after it are those of another table.
- `NumbersAreExact` needs the counters in the middle of a call (`CountsFit`):
  `count` is the number of present identifiers, and `h.removed` the number of
  all others but for the one that `ReplaceRule` has published and not yet
  retired (`Surplus`). That `compact` leaves as many numbers as identifiers is
  a bijection, `nums` between the present identifiers and `Live`; that it
  numbers them without gaps is `RankBelow` and `RankUnique`. Together with
  `Inv` they are `BookInv` (theorem `BookInductive`).

`HyperMatchProofs`, its last part: `ReportedOnceIfKept` and
`ResultsInOrder` are theorems of `CallSpec`. Both follow from `ResultsInv`, which has two parts.

- `WriterPart` says that the keys of the current table tell in which order the
  identifiers were added (`InOrder`). For a new identifier this needs that no
  key is larger than its number and no number beyond `ids` has one; for
  `ReplaceRule`, that it gives the new number the old one's key and keeps that
  one's beginning (`PlaceFits`); `Compact` numbers by rank, so that the position
  takes the place of the key (`CompactOrder`). A call knows of every removal
  that is in progress while it runs (`GoneFits`).
- `ReaderPart` is about the numbers that a call may still return (`Alive`): not
  hidden by what it has loaded already, or by what it would load now, or kept by
  `results`. Each stands for an identifier of its own, and their keys are in the
  order of the identifiers (`AliveFits`). For a call that has loaded nothing it
  follows from `WriterPart`: the version hides exactly one of the two numbers of
  an identifier that is being replaced (`FreshFits`, `CurrentOwner`). After
  that, no store of the writer makes a number reappear that the call has once
  lost (`Evolves`: bits are only set, spans only end, words are stored before
  the version that makes them visible, copies are exact), a number that `ids`
  gains between the loads of `version` and `ids` is of a later version or of a
  new identifier (`SteadyFits`), and `Compact` leaves the call its table
  (`CompactFits`, `StaleFits`). The sort then puts the identifiers in order,
  because ranks are (`ReturnStep`).

The parts were model-checked as invariants before they were proved.

`HyperMatchBookProofs`, its first part: `MatchIsRegular` and `MatchFirstIsFirst` are theorems
of `CallSpec`. What a call may and must report is about the rule book before and
after each call of a writer (`before`, `after`), what it does report about the
trie of the table it holds. `RegularInv` is `ResultsInv` with the two parts that
tie them together (theorem `RegularInductive`).

- `RegularWriter` is about the current table. `TrieFits`: all edges to a number's
  state exist, and no `minKey` on the way is above its key, up to the place that
  `insert` has reached; `hasAbsent` is set before the first edge on an absent
  path. `BookFits`: the bodies at which the trie has an identifier's number are
  those of the rule book, and for the call in progress, at each store, `before`,
  what it has inserted, or `after`. `LimitFits`: spans begin no later than the
  current version, and keys stay below the `minKey` of a new state. `RemovalFits`:
  a removal leaves nothing.
- `RegularReader` is about a call. `MayFits`: every number that it can see where
  its event leads is of an identifier that it may report. `MustFits`: for each
  identifier that it must report, some number (`Witnesses`) is visible, the trie
  leads to it, and once the traversal has begun the call has it, has a better one
  (`MatchFirst`), or still has a state on the way to it in `todo` (`Ahead`).
  `OnTheWay`: the event leads to whatever the call has met. `ReturnFits` is about
  the result. Before the loads of `begin` a witness is the number that
  the rule book stands for; `ReplaceRule` may take its place by the new one only
  by the version, which the call has then loaded, or not, for good.

`HyperMatchBookProofs`, its second part: `ImplementsRuleBook` is a theorem of `CallSpec`. Its
invariant, `ShownInv`, is the writer's half of the above (`WriterPart`,
`RegularWriter`) and `KindFits`: where a call is in the code tells which of the
three it is, its outcome is the one it promises, and no two identifiers were each
added after the other (theorem `ShownInductive`). The lemma `BookIs` says what a
`Match` call starting now would see: exactly the identifiers with a number that
is not removed (`Stands`), each with the bodies of one number (`Standing`; the
replaced one until the version is published), in the order in which they were
added. Then there is a lemma for each store.

| Store | Step of `RuleBook` |
|---|---|
| the start of a call | `Begin` |
| `NewNumber` | `Register` |
| `AddNumber` | `AddBody`; nothing for the new number of a `ReplaceRule` |
| `PublishVersion` | `Replace` |
| `BitSet` | `Remove` |
| `TooManyRules`, `Unlock`, `Compact`, and `Retire` or `Forget` without compaction | `End` |
| `PublishId` | `Renumber` if it takes the last number, else nothing |
| all others, and every step of a reader | nothing |

Which guard of `RuleBook` holds is where the work is: a `Register` must be of an
identifier that is absent, an `End` of a call that has had its whole effect or,
rejected, none.

`PathsProofs`: for any rules, paths and events, `ReadyRulesMatch` is a theorem of
`Spec`, and `MatchesHold` is one under the hypothesis that every rule is added by
`ReplaceRule`, as in the run `paths`; without it, it is false (section 5). What
holds without it is `SureMatchesHold`: a reported rule holds if it is a
replacement or its call had returned. The invariant is `PrepareInv` (theorem
`PrepareInductive`), whose parts were model-checked on the rules of `paths`,
`wild_race` and `json_race` before they were proved.

- The writer's part. A path is known only after its prefixes, and after its
  wildcard's base, which `addPath` puts into a table that exists (`PathsFit`,
  `PutsLeft`). A rule whose version is published, or whose call returned, has all
  its edges, and `hasAbsent` if it needs it (`RulesFit`).
- What `begin` loaded. The rules that were complete then are the *sure* ones: the
  replacements of the loaded version and the rules that were ready. The table of
  wildcard paths, loaded last, holds all of theirs, also after a larger one has
  replaced it (`LoadsFit`).
- The parser's stacks. For each enclosing object they hold what its key and its
  path have opened, and whether values in it are recorded; that a rule about a
  path `p` wants what is in an object at `q` (`Wanted`) carries over to all
  objects around `q`, since the parts of a path are nested (`Stack`, `StackFits`,
  `TopFits`, lemma `WantedAbove`).
- Hence a value is recorded for a path of a sure rule if and only if the event
  says so (`ValuesFit`, lemma `ValueKept`), and conditions of sure rules are
  evaluated on the values of the whole event (`VisitFits`).

The properties alone are not inductive, because they are about whole events and
a call sees one token at a time.

`GroupProofs`: for any conditions, leaves, readers and `MaxNeg`,
`FollowedConditionsHold` and `HoldingConditionsFollowed` are theorems of `Spec`. The
invariant is `TypeOK`, `GroupInv` and `ReaderInv(r)` for every reader.

- The writer's part. A leaf is in `index` before its kind is in `kinds`, and both
  before the edge of its condition is registered anywhere (`Compiling`,
  `Registering`). A compiled condition leaves all of them behind (`Compiled`); a
  negation is published with its position only when all leaves that refute it have
  its edge (`Negated`), and an edge at a leaf is of a published negation or of the
  one about to be (`Registered`).
- A call's part. It loads the negations, then the kinds, then the leaves, so that
  the kinds cover the leaves of every negation it has loaded (`LoadedKinds`), and
  the hits of those leaves are all of those that match (`LookedUpInv`). A negation
  that a candidate refutes is one it has loaded, at its own position, or one beyond
  what it has loaded (`Candidate`). With the opposite order of loads, as in
  `FollowedLate`, `LoadedKinds` does not hold.

`ScratchProofs`: for any rules, events, documents, hash function, sizes of tables,
and any number of calls, failed ones included, `TableHasRoom` and `FormulasSeeHits`
are theorems of `Spec`. The invariant is `ScratchInv` (theorem `ScratchFits`), which
was model-checked on the run's values before it was proved.

- A slot holds 0 or the index of a span, each index once (`TableFits`), so that a
  table with fewer spans than slots has an empty slot, by which every probe comes
  (lemmas `EmptySlot` and `ProbeEnds`).
- `reset` makes the table large enough for all properties and enters them without a
  check; `addWild` checks, and so each property adds at most one span to a table that
  was half empty (`ResetFits`). `jsonSpan` checks each time (`HalfEmpty`).
- A frame of an open object remembers how long `jwild` was before and after its own
  entry, in the order of the stack, and `jwild` is never shorter than the innermost
  object remembers (`StackFits`): cutting it back at `}` never reads beyond it, so that
  what `record` stores into it are spans of paths.
- The words of the bit set are the hits of the group being evaluated, and zero at any
  other time (`ScratchInv`). That `ClearBits` clears the hits' words only is enough
  because nothing else is ever set.

`Scratch` uses recursive functions (over values, spans, dots). That they exist is
proved where they are used, by the smallest argument at which a function of that
length is missing.

`ValueIndexProofs`: for any valid patterns, folded values, readers, `MaxRecent`,
widths of addresses and any order in which leaves are added, `HitsMatch`,
`AddedLeavesAreFound`, `NeverPanics`, `NodesAreVisitedOnce` and `NumbersFound` are
theorems of `Spec`. Its first half is about operators, for all of their arguments:

- `CollectFits`: if a number index holds a set of intervals (`NumbersFit`: each in the
  sorted or the recent half of the list of its kind, the sorted half ascending,
  `maxHi` no less than any upper bound before it), `collect` returns those that contain
  the number, each once; that `ListWith` keeps this is `ListWithFits`. The binary
  searches and the loop of the merge are invariants of their rounds.
- `GetIs` and `WithByteFits`: a byte map that holds a set of bytes returns the node of
  each, and after `put` holds one more, `rank` being the number of smaller bytes.
- `GlobFits`: `globMatch` of `explain.go`, which finds the parts
  between stars from left to right at their earliest places, accepts a text if and only
  if the tokens of the pattern lead the automaton there (`Runs`). That the earliest place is
  enough is the induction over parts.
- `Meaning`: the leaf that `normalizePattern` chooses matches the values that
  the pattern matches by itself, for each type of pattern; the leaf is well formed.

The second half is the invariant. It has three parts, each inductive only with
those before it (theorems `IndexIsKept`, `ReadersAreKept`, `ReadersAreCovered`).

- `IndexFits`, the writer's part. Every table, length and automaton node is of leaves that
  the patterns have (`TablesFit`, `GlobIs`): a node's links are those of the nodes
  that extend it, its spinner included, and it accepts the leaves whose tokens end
  there. A leaf whose `add` is done, or has only its kind left, is in all its
  structures (`Published`), and `WriterFits` says how far the current one has come.
- `ReadersFit`. The hits of a call match, what it still looks up would only find
  leaves that match, and the nodes of its two lists are reached by as many bytes of
  the text as it has read, no node twice (`GlobState`). Distinctness needs where each
  node came from: from an earlier node of `cur` by the current byte, or by the
  spinner of one that was entered just before.
- `ReadersCover`. A leaf that had been added and matches has been found or is
  `Ahead`: in a later stage, in a lookup that is left, or in the automaton. Within the
  automaton, all nodes of old patterns that the text leads to are in `next` or still to
  be entered (`Pending`), and a pattern that ends in a star has been found once its last node
  has been passed (`GlobCovers`). `kinds` is loaded first and stored last, so that
  no stage that holds such a leaf is skipped.

The properties alone are not inductive: they speak of calls that are done, or of one
list at a time. The three parts were model-checked on the values of the run `index`
before they were proved.

The proofs take no assumption but `ConstantsAssumption`, `ListAssumption`,
`StrMapAssumption`, `PathsAssumption`, `EventsAssumption`, `GroupAssumption`,
`FormulaAssumption`, `ScratchAssumption` (events are sequences of properties or of
tokens, tables begin with two slots or more), `NumbersAssumption` and
`ValueIndexAssumption` (patterns have passed validation, values come with the number
and the address of their text, an IPv6 address that stands for IPv4 begins with at least one
bit of its own, `Nil` is no record), which TLC evaluates
on the runs' values, and the hypothesis on `MatchesHold` named above. The sets need not be finite: `count` is a number because `Preload`
is a sequence and each call adds one identifier.

Only model-checked:

- `LookupEnds` and `ReadersNeverWait`: the prover does not reason about fairness
  or `ENABLED`.
- What `Formula` and `Rules` promise (`MeaningKept`, `KeyRoundTrip`, `TriggersSuffice`,
  `ShortcutsAreExact`, `LimitsAreExact`, `JSONRoundTrip`): their operators are
  recursive over expressions and rules of any depth, which needs induction over data and
  recursive operators, and the prover has neither.
- `PropertiesAreGrouped` and `JSONValuesAreGrouped` of `Scratch`: they compare what two
  recursive functions compute of a whole event with what the buffers hold after many
  steps.

Induction over numbers is done in `ScratchProofs` and `ValueIndexProofs` without
an induction rule: of the arguments at which a claim fails, one would be the
smallest (lemma `Smallest`).

## 7. Not modelled, and why

- Shorthand and JSON of patterns: sequential translation of text to patterns
  and back.
- The text within the keys of numbers and prefixes (`numInterval.key`,
  `parseInterval`, the canonical text of a CIDR prefix): `Keys` takes the value of a
  leaf as the bytes it has, and `ValueIndex` an interval or a prefix as what it is.
- The bytes of JSON (white space, escapes, the syntax of numbers), the text of
  addresses, parsing and rounding of float64: a token, a value or a number
  comes with what it stands for, small integers for numbers.
- Case folding beyond ASCII: tables of Unicode without state.
- The report that `Explain` makes: its verdicts are modelled, its text is not.
- Rejections that read nothing else: `isComparable`, fields that a pattern must
  not have.
- Replacing the value of a present key of a `byteMap`: no caller does it.
- The Go memory model below atomics: atomic operations are sequentially
  consistent; plain stores are covered by `NoRace`.
