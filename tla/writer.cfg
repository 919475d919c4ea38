SPECIFICATION CallSpec
CONSTANTS
  A = A
  B = B
  C = C
  Ids <- SmallIds
  Targets = {A, B}
  Bodies <- MCBodies
  AbsentConds <- MCAbsent
  RuleSets <- OrSets
  Events <- OneEvent
  Readers = {}
  Firsts = {FALSE}
  Preload <- TwoRules
  WordBits = 2
  CompactFactor = 2
  MaxRules = 4
  MaxOverlap = 0
INVARIANTS TypeOK NumbersAreExact
PROPERTIES KeysAreStable ImplementsRuleBook
