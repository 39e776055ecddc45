SPECIFICATION Spec
CONSTANTS
  MaxRotations = 3
  MaxRetries = 2
  MaxReattempts = 2
  MaxAttempts = 3
INVARIANT FailedTestReverts
CHECK_DEADLOCK FALSE
