SPECIFICATION SafetySpec
CONSTANTS
  FirstId = 0
  Owners = {"request"}
  Strays = {"test", "garbled"}
  Refused = {"type"}
  MaxRepeated = 3
  MaxUnasked = 1
  MaxCalls = 1
  MaxBeats = 1
  MaxSessions = 2
  MayClose = TRUE
INVARIANTS IInv RequestsAccounted OwnAnswer AskedInOrder NoticesInOrder
PROPERTIES UsesChannel
CHECK_DEADLOCK FALSE
