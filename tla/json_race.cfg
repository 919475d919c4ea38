SPECIFICATION Spec
CONSTANTS
  Rules <- AbsentRule
  CondsOf <- AbsentCondsOf
  Via <- AbsentAdded
  PrefixesOf <- MCPrefixesOf
  BaseOf <- MCBaseOf
  NoBase <- None
  PropertyEvents <- NoEvents
  JsonEvents <- MCJsonEvents
INVARIANT MatchesHold
