SPECIFICATION Spec
CONSTANTS
  FirstId = 0
  Owners = {"request", "client", "nobody"}
  Strays = {"packet"}
  Refused = {"type"}
  MaxRepeated = 0
  MaxUnasked = 3
  MaxCalls = 1
  MaxBeats = 0
  MaxSessions = 2
  MayClose = FALSE
PROPERTIES HandshakeEnds RequestEnds LossTold
CHECK_DEADLOCK FALSE
