SPECIFICATION Spec
CONSTANTS
  MagicLen = 2
  TextLens <- Texts
  PreambleLen = 2
  FirstRead = 3
  ShortMax = 5
  FrameMax = 6
  MaskLen = 4
  BufLen = 10
  Sizes = {2, 6}
  MaxMessages = 2
INVARIANTS
  Intact
PROPERTIES
  Delivered
CHECK_DEADLOCK FALSE
