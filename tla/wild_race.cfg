SPECIFICATION Spec
CONSTANTS
  Rules <- WildRule
  CondsOf <- WildCondsOf
  Via <- WildAdded
  PrefixesOf <- MCPrefixesOf
  BaseOf <- MCBaseOf
  NoBase <- None
  PropertyEvents <- MCPropertyEvents
  JsonEvents <- NoEvents
INVARIANT MatchesHold
