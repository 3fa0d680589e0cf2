\* Two sessions one after the other in one slot: two messages in, read partly or wholly
\* together, and one out, with a client's own opening request.
SPECIFICATION SafetySpec
CONSTANTS
  MagicLen = 1
  PreambleLen = 2
  HeaderRead = 4
  RecvBufLen = 6
  MsgSizes = {3, 4}
  SendSizes = {2}
  MaxIn = 2
  MaxOut = 1
  MaxSessions = 2
INVARIANTS
  InOrder
  WholeMessage
  IInv
  NeverSleepsOnWork
PROPERTIES
  PendingIsStable
  ClosedIsLast
  IsChannel
