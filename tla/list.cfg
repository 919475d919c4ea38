SPECIFICATION Spec
CONSTANTS
  Values = {"u", "v"}
  Unwritten = "-"
  Readers = {"r", "s"}
  MaxInt = 3
INVARIANTS SlicesAreComplete PanicsOnlyWhenFull
PROPERTY NoRace
CHECK_DEADLOCK FALSE
