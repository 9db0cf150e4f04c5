CONSTANTS
  MaxLength = 5
  MaxAttempts = 1
SPECIFICATION Spec
INVARIANTS DeltasInOpenBlocks
CHECK_DEADLOCK FALSE
