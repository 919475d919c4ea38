SPECIFICATION Spec
CONSTANTS
  Leaves <- MCLeaves
  PathOrder <- MCPathOrder
  MaxConditionSets = 2
  MaxOrDepth = 2
  NoOr = NoOr
  MaxNesting = 2
  MaxOrs = 4
INVARIANTS MeaningKept KeyRoundTrip TriggersSuffice ShortcutsAreExact LimitsAreExact JSONRoundTrip
CHECK_DEADLOCK FALSE
