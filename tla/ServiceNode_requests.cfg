SPECIFICATION SafetySpec
CONSTANTS
  A = A
  B = B
  NoService = NoService
  Services = {A, B}
  Kinds = {"connect", "disconnect", "keepalive", "call", "garbled"}
  MaxRequests = 3
  MaxOwn = 0
  MaxSessions = 2
  MayClose = TRUE
INVARIANTS IInv AnswersInOrder KeepAliveAnswered OnlyClientsServed GoneAfterThere
PROPERTIES UsesChannel
CHECK_DEADLOCK FALSE
