SPECIFICATION FairSpec
CONSTANTS
  Keys <- MCKeys
  Vals = {"u", "v"}
  HashOf <- MCHashOf
  NoEntry = NoEntry
  InitSize = 2
  Readers = {"r"}
  MaxPuts = 4
INVARIANTS LookupIsRegular KeysAreUnique
PROPERTY LookupEnds
