\* A failed connection attempt is not where is_error looks for it.
SPECIFICATION SafetySpec
CONSTANTS
  MagicLen = 2
  PreambleLen = 4
  HeaderRead = 4
  RecvBufLen = 8
  MsgSizes = {4}
  SendSizes = {2}
  MaxIn = 0
  MaxOut = 0
  MaxSessions = 1
INVARIANT
  ConnectErrorReported
