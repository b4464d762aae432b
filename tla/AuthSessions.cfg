CONSTANTS
  MaxRetries = 1
  MaxTokens = 3
  MaxFaults = 1
SPECIFICATION Spec
INVARIANT TypeOK
INVARIANT SignedInLives
INVARIANT SessionAgrees
PROPERTY LoadingEnds
CHECK_DEADLOCK FALSE
