SPECIFICATION Spec
CONSTANTS
  Replicas = {"r2"}
  Operators = {"o1"}
  Provider = FALSE
  OneInstance = FALSE
  MaxKeys = 3
  MaxGens = 3
  MaxCrashes = 2
  MaxRevocations = 1
INVARIANT RevocationsKept
CHECK_DEADLOCK FALSE
