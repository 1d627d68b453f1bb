SPECIFICATION ServerSpec
CONSTANTS
  Calls = {r1}
INVARIANTS
  GracefulShutdown
CHECK_DEADLOCK FALSE
