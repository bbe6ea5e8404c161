SPECIFICATION MCSpec
CONSTANTS
  MaxPauseCalls = 4
  Calls = {a, b, c}
  MaxPairs = 2
  MaxPipeCalls = 2
  DataConsumers = {c1, c2, c3}
  MIS = 2
INVARIANTS
  FlagsAgree EventsAgree OnePair FailedLeavesNothing PipedTogether StreamsExact
PROPERTIES CallsSettle PipeReturns
CHECK_DEADLOCK FALSE
