SPECIFICATION SafetySpec
CONSTANTS
  A = A
  NoService = NoService
  Services = {A}
  Kinds = {"connect", "call"}
  MaxRequests = 3
  MaxOwn = 0
  MaxSessions = 1
  MayClose = FALSE
INVARIANTS RetryIsHandled
CHECK_DEADLOCK FALSE
