CONSTANTS
  gateway = gateway
  peer = peer
  address1 = address1
  address2 = address2
  NoHost = NoHost
  NoAddress = NoAddress
  NoLease = NoLease
  Hosts <- MCHosts
  Addresses <- MCAddresses
  Leases <- MCLeases
  DnsTargets <- MCDnsTargets
  TransactionBase = 22355
  DhcpTimeout = 3
  RestartAfter = 3
  ProbeTimeout = 7
  RecoveryDelay = 4
  ProbeInterval = 2
  PrimaryAttempts = 1
  ProbeAttempts = 3
  AttemptsPerTarget = 2
  DnsTimeout = 2
  MaxDelay = 2
  Burst = 1
  EventCap = 2
  OtherEvents = 1
SPECIFICATION Spec
INVARIANT TypeOK
INVARIANT LeaseAgreement
INVARIANT ProbeEvidence
INVARIANT ProbePacing
INVARIANT AnswerIsOwn
PROPERTY RestartDeadlineKept
PROPERTY ProbesTerminate
PROPERTY SessionRefined
