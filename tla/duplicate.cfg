SPECIFICATION CallSpec
CONSTANTS
  A = A
  B = B
  C = C
  Ids <- FillerIds
  Targets = {A}
  Bodies <- MCBodies
  AbsentConds <- MCAbsent
  RuleSets <- SingleSets
  Events <- OneEvent
  Readers = {"r"}
  Firsts = {FALSE}
  Preload <- EightRules
  WordBits = 64
  CompactFactor = 4
  MaxRules = 10
  MaxOverlap = 3
INVARIANT ReportedOnce
