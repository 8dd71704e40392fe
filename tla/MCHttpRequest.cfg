\* Seven data callbacks in a bufferful.
CONSTANT MaxCalls = 7
SPECIFICATION RequestSpec
CHECK_DEADLOCK FALSE
INVARIANTS
  RequestMatchesCalls
  LosesOnlyReplaced
