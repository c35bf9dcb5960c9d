CONSTANTS
  Stations = {s1}
  Activity = "none"
  DhcpSlots = 2
  EchoRxSlots = 2
  EchoTxSlots = 1
  EventSlots = 1
  EchoGoal = 1
  MaxEchoes = 1
  MaxXid = 3
  MaxEvents = 0
SPECIFICATION Spec
INVARIANT ReplyReachesClient
PROPERTY DhcpRefined
PROPERTY RequestsServed
