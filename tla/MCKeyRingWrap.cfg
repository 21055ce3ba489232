SPECIFICATION Spec
CONSTANTS
  Tags <- MCTags
  Bags <- MCBags
CHECK_DEADLOCK FALSE
INVARIANTS
  WrapIsOptional
