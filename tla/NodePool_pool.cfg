SPECIFICATION Spec
CONSTANTS
  Objects <- TwoSlots
  Descriptors = {1, 2}
  MaxEvents = 1
  MaxCycles = 3
INVARIANTS
  EachItsOwn
PROPERTIES
  EventsSeen
  PeersAccepted
