SPECIFICATION Spec
CONSTANTS
  Rules <- MCRules
  CondsOf <- MCCondsOf
  Via <- Replaced
  PrefixesOf <- MCPrefixesOf
  BaseOf <- MCBaseOf
  NoBase <- None
  PropertyEvents <- MCPropertyEvents
  JsonEvents <- MCJsonEvents
INVARIANTS MatchesHold ReadyRulesMatch
