\* Messages come and go, two each way, and the slot comes back.
SPECIFICATION Spec
CONSTANTS
  MagicLen = 1
  PreambleLen = 2
  HeaderRead = 2
  RecvBufLen = 4
  MsgSizes = {2}
  SendSizes = {2}
  MaxIn = 2
  MaxOut = 2
  MaxSessions = 1
INVARIANTS
  NeverOverwritten
PROPERTIES
  ReceiveProgress
  SlotReturns
  SendSlotFrees
