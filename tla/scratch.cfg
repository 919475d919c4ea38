SPECIFICATION Spec
CONSTANTS
  Values = {"x", "X", "y", "z", "Z"}
  FoldOf <- MCFoldOf
  LeafId <- MCLeafId
  HashOf <- MCHashOf
  RulePaths <- MCRulePaths
  Events <- MCEvents
  Documents <- MCDocuments
  MinSlots = 2
  MinJSONSlots = 2
  MaxDepth = 4
  WordBits = 2
  MaxCalls = 2
  MaxEvals = 3
INVARIANTS PropertiesAreGrouped JSONValuesAreGrouped TableHasRoom FormulasSeeHits
CHECK_DEADLOCK FALSE
