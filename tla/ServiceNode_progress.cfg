SPECIFICATION Spec
CONSTANTS
  A = A
  NoService = NoService
  Services = {A}
  Kinds = {"create", "connect", "disconnect", "test", "query", "keepalive", "oneway", "call", "badcall", "garbled"}
  MaxRequests = 2
  MaxOwn = 1
  MaxSessions = 1
  MayClose = FALSE
PROPERTIES RequestTaken LossNotified
CHECK_DEADLOCK FALSE
