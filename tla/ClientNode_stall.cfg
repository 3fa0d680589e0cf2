SPECIFICATION Spec
CONSTANTS
  FirstId = 0
  Owners = {"client"}
  Strays = {}
  Refused = {}
  MaxRepeated = 0
  MaxUnasked = 0
  MaxCalls = 0
  MaxBeats = 1
  MaxSessions = 1
  MayClose = FALSE
PROPERTIES HandshakeResumes
CHECK_DEADLOCK FALSE
