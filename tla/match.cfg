SPECIFICATION CallSpec
CONSTANTS
  A = A
  B = B
  C = C
  Ids <- SmallIds
  Targets = {A}
  Bodies <- MCBodies
  AbsentConds <- MCAbsent
  RuleSets <- OrSets
  Events <- MCEvents
  Readers = {"r"}
  Firsts = {FALSE, TRUE}
  Preload <- TwoRules
  WordBits = 2
  CompactFactor = 2
  MaxRules = 3
  MaxOverlap = 2
INVARIANTS MatchIsRegular MatchFirstIsFirst ReportedOnceIfKept ResultsInOrder ReadersInBounds ReadersNeverWait
