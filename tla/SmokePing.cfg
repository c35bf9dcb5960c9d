CONSTANTS
  Count = 2
  PingTimeout = 2
  DhcpTimeout = 2
  ArpSteps = 2
  RxSlots = 2
  TxSlots = 1
  MaxOther = 1
  MaxDelay = 2
SPECIFICATION Spec
INVARIANTS
  TypeOK
  SamplesHonest
PROPERTIES
  SeriesRefined
CHECK_DEADLOCK FALSE
