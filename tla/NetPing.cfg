CONSTANTS
  MaxPings = 2
  Interval = 2
  Deadline = 4
  SocketSlots = 1
  BridgeSlots = 2
  MaxArps = 2
  MaxOther = 1
  MaxStep = 2
SPECIFICATION Spec
INVARIANTS
  TypeOK
  FramesAccounted
  NoSpuriousTrap
  VerdictEarned
PROPERTIES
  FrameDrained
  VerdictReached
