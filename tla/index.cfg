SPECIFICATION Spec
CONSTANTS
  Inf = 7
  NoNum = NoNum
  NoAddr = NoAddr
  Mapped <- MCMapped
  MaxRecent = 2
  PatternSets <- MCPatternSets
  ValuesOf <- MCValuesOf
  Width4 = 2
  Readers = {"r"}
  Nil = Nil
INVARIANTS HitsMatch AddedLeavesAreFound NeverPanics NodesAreVisitedOnce NumbersFound
