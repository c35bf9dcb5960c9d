CONSTANTS
  Stations = {s1, s2}
  Activity = "sle"
  DhcpSlots = 1
  EchoRxSlots = 3
  EchoTxSlots = 2
  EventSlots = 1
  EchoGoal = 2
  MaxEchoes = 4
  MaxXid = 0
  MaxEvents = 3
SPECIFICATION SafeSpec
INVARIANT TypeOK
INVARIANT EchoConserved
INVARIANT NoSilentDrop
PROPERTY EchoRefined
