SPECIFICATION Spec
CONSTANTS
  Leaves <- MCLeaves
  KindOf <- MCKindOf
  Conds <- MCConds
  FormulaOf <- MCFormulaOf
  Readers = {"r"}
  MaxNeg = 3
INVARIANTS FollowedConditionsHold HoldingConditionsFollowed
