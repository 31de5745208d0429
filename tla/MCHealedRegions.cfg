SPECIFICATION DecisionsSpec
CHECK_DEADLOCK FALSE
INVARIANTS
  HealedRegionsAreShown
