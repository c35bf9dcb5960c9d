-------------------------- MODULE StationNetProofs --------------------------
(***************************************************************************)
(* Theorems about StationNet, for every network, every set of leases and   *)
(* every value of the timing constants.                                    *)
(***************************************************************************)
EXTENDS StationNet, FiniteSetTheorems, SequenceTheorems, TLAPS

\* What the DHCP client of the stack keeps to: a configuration exactly when it
\* is bound, and then no event left to deliver.
ClientOK(c) ==
  /\ c \in Client
  /\ HasConfig(c) <=> c.config # NoLease
  /\ HasConfig(c) => ~c.changed

LeaseInv == TypeOK /\ ClientOK(client) /\ LeaseAgreement

-----------------------------------------------------------------------------
(***************************************************************************)
(* The DHCP client and poll_network                                        *)
(***************************************************************************)
\* A step of the client keeps its configuration and the event that tells of it
\* together: without an event pending, nothing changed.
LEMMA StackStep ==
  ASSUME NEW c, ClientOK(c), NEW s \in StackSteps(c)
  PROVE  /\ s.client \in Client
         /\ s.tx \in BOOLEAN /\ s.rx \in BOOLEAN /\ s.renewed \in BOOLEAN
         /\ HasConfig(s.client) <=> s.client.config # NoLease
         /\ ~s.client.changed => s.client.config = c.config
<1> DEFINE Good(t) ==
             /\ t.client \in Client
             /\ t.tx \in BOOLEAN /\ t.rx \in BOOLEAN /\ t.renewed \in BOOLEAN
             /\ HasConfig(t.client) <=> t.client.config # NoLease
             /\ ~t.client.changed => t.client.config = c.config
<1> SUFFICES Good(s)
  OBVIOUS
<1>1. Good(Step(c, FALSE, FALSE, FALSE)) /\ Good(Step(c, TRUE, FALSE, FALSE))
  BY DEF Step, ClientOK
<1>2. ASSUME c.state = "discovering"
      PROVE  Good(Step(In(c, "requesting"), TRUE, TRUE, FALSE))
  BY <1>2 DEF Step, In, ClientOK, Client, ClientStates, HasConfig
<1>3. ASSUME c.state = "bound"
      PROVE  Good(Step(In(c, "renewing"), TRUE, FALSE, FALSE))
  BY <1>3 DEF Step, In, ClientOK, Client, ClientStates, HasConfig
<1>4. ASSUME NEW rx \in BOOLEAN
      PROVE  Good(Step(ResetClient(c), FALSE, rx, FALSE))
  BY DEF Step, ResetClient, ClientOK, Client, ClientStates, HasConfig
<1>5. ASSUME NEW l \in Leases, NEW ack \in BOOLEAN
      PROVE  Good(Step(Bind(c, l), FALSE, TRUE, ack))
  BY LeaseAssumption DEF Step, Bind, ClientOK, Client, ClientStates, HasConfig
<1> HIDE DEF Good
<1>6. ASSUME NEW ack \in BOOLEAN, NEW t \in RequestSteps(c, ack)
      PROVE  Good(t)
  BY <1>1, <1>4, <1>5 DEF RequestSteps
<1>7. c.state \in ClientStates
  BY DEF ClientOK, Client
<1>8. CASE c.state = "discovering"
  BY <1>1, <1>2, <1>8 DEF StackSteps, DiscoverySteps
<1>9. CASE c.state = "requesting"
  <2>1. s \in {Step(c, FALSE, FALSE, FALSE)} \cup RequestSteps(c, FALSE)
    BY <1>9 DEF StackSteps
  <2>2. QED
    BY <1>1, <1>6, <2>1
<1>10. CASE c.state = "bound"
  BY <1>1, <1>3, <1>10 DEF StackSteps
<1>11. CASE c.state = "renewing"
  <2>1. s \in {Step(c, FALSE, FALSE, FALSE)} \cup RequestSteps(c, TRUE)
    BY <1>11 DEF StackSteps
  <2>2. QED
    BY <1>1, <1>6, <2>1
<1>12. QED
  BY <1>7, <1>8, <1>9, <1>10, <1>11 DEF ClientStates

\* poll_network re-establishes the agreement of lease, interface and client.
LEMMA PollAgrees ==
  ASSUME LeaseInv, NEW s \in StackSteps(client)
  PROVE  /\ LeaseAfter(s.client) \in Leases \cup {NoLease}
         /\ AddrAfter(s.client) \in Addresses \cup {NoAddress}
         /\ RouteAfter(s.client) \in Hosts \cup {NoHost}
         /\ ClientOK(ClientAfter(s.client))
         /\ LeaseAfter(s.client) = IF HasConfig(ClientAfter(s.client))
                                   THEN ClientAfter(s.client).config ELSE NoLease
         /\ AddrAfter(s.client) = IF LeaseAfter(s.client) = NoLease
                                  THEN NoAddress ELSE LeaseAfter(s.client).address
         /\ RouteAfter(s.client) = IF LeaseAfter(s.client) = NoLease
                                   THEN NoHost ELSE LeaseAfter(s.client).router
<1> DEFINE c == s.client
<1>1. /\ c \in Client
      /\ HasConfig(c) <=> c.config # NoLease
      /\ ~c.changed => c.config = client.config
  BY StackStep DEF LeaseInv
<1>2. c.config # NoLease => /\ c.config \in Leases
                            /\ c.config.address \in Addresses
                            /\ c.config.router \in Hosts \cup {NoHost}
  BY <1>1, LeaseAssumption DEF Client, Lease
<1>3. /\ lease = client.config
      /\ lease \in Leases \cup {NoLease} /\ addr \in Addresses \cup {NoAddress}
      /\ route \in Hosts \cup {NoHost}
  BY DEF LeaseInv, TypeOK, NetworkOK, LeaseAgreement, ClientOK
<1>4. CASE ~c.changed
  <2>1. ClientAfter(c) = c
    BY <1>1, <1>4 DEF ClientAfter, Client
  <2>2. ClientOK(c)
    BY <1>1, <1>4 DEF ClientOK
  <2>3. /\ LeaseAfter(c) = lease /\ AddrAfter(c) = addr /\ RouteAfter(c) = route
    BY <1>4 DEF LeaseAfter, AddrAfter, RouteAfter
  <2>4. QED
    BY <1>1, <1>3, <1>4, <2>1, <2>2, <2>3 DEF LeaseInv, LeaseAgreement
<1>5. CASE c.changed /\ HasConfig(c)
  <2>1. ClientAfter(c) = [c EXCEPT !.changed = FALSE]
    BY <1>5 DEF ClientAfter
  <2>2. /\ ClientOK(ClientAfter(c)) /\ HasConfig(ClientAfter(c))
        /\ ClientAfter(c).config = c.config
    BY <1>1, <1>5, <2>1 DEF ClientOK, Client, HasConfig
  <2>3. /\ LeaseAfter(c) = c.config /\ AddrAfter(c) = c.config.address
        /\ RouteAfter(c) = c.config.router
    BY <1>5 DEF LeaseAfter, AddrAfter, RouteAfter
  <2>4. QED
    BY <1>1, <1>2, <1>5, <2>2, <2>3
<1>6. CASE c.changed /\ ~HasConfig(c)
  <2>1. ClientOK(ClientAfter(c)) /\ ~HasConfig(ClientAfter(c))
    BY <1>1, <1>6 DEF ClientAfter, ResetClient, ClientOK, Client, ClientStates, HasConfig
  <2>2. /\ LeaseAfter(c) = NoLease /\ AddrAfter(c) = NoAddress /\ RouteAfter(c) = NoHost
    BY <1>6 DEF LeaseAfter, AddrAfter, RouteAfter
  <2>3. QED
    BY <2>1, <2>2
<1>7. QED
  BY <1>4, <1>5, <1>6, <1>1 DEF Client

\* A reset of a client without a configuration loses nothing.
LEMMA ResetUnbound ==
  ASSUME NEW c, ClientOK(c), ~HasConfig(c)
  PROVE  ClientOK(ResetClient(c)) /\ ~HasConfig(ResetClient(c))
BY DEF ClientOK, Client, ClientStates, HasConfig, ResetClient

-----------------------------------------------------------------------------
(***************************************************************************)
(* The inductive invariant: types, and lease, interface and client agree   *)
(***************************************************************************)
\* What a poll does to the variables it writes, as far as LeaseInv speaks of
\* them.  The client is the one after the poll, or that client reset again
\* when the poll left no lease.
LEMMA PollStep ==
  ASSUME LeaseInv, NEW s \in StackSteps(client), PollInterface(s),
         \/ client' = ClientAfter(s.client)
         \/ /\ LeaseAfter(s.client) = NoLease
            /\ client' = ResetClient(ClientAfter(s.client))
  PROVE  /\ lease' \in Leases \cup {NoLease}
         /\ addr' \in Addresses \cup {NoAddress}
         /\ route' \in Hosts \cup {NoHost}
         /\ sawClient' \in BOOLEAN /\ sawServer' \in BOOLEAN /\ renewed' \in BOOLEAN
         /\ ClientOK(client)' /\ client' \in Client
         /\ LeaseAgreement'
<1> DEFINE c == ClientAfter(s.client)
<1>1. /\ LeaseAfter(s.client) = IF HasConfig(c) THEN c.config ELSE NoLease
      /\ ClientOK(c)
      /\ LeaseAfter(s.client) \in Leases \cup {NoLease}
      /\ AddrAfter(s.client) \in Addresses \cup {NoAddress}
      /\ RouteAfter(s.client) \in Hosts \cup {NoHost}
      /\ AddrAfter(s.client) = IF LeaseAfter(s.client) = NoLease
                               THEN NoAddress ELSE LeaseAfter(s.client).address
      /\ RouteAfter(s.client) = IF LeaseAfter(s.client) = NoLease
                                THEN NoHost ELSE LeaseAfter(s.client).router
  BY PollAgrees
<1>2. s.tx \in BOOLEAN /\ s.rx \in BOOLEAN /\ s.renewed \in BOOLEAN
  BY StackStep DEF LeaseInv
<1>3. /\ lease' = LeaseAfter(s.client) /\ addr' = AddrAfter(s.client)
      /\ route' = RouteAfter(s.client)
  BY DEF PollInterface
<1>4. /\ ClientOK(client')
      /\ lease' = IF HasConfig(client') THEN client'.config ELSE NoLease
  <2>1. CASE client' = c
    BY <1>1, <1>3, <2>1
  <2>2. CASE LeaseAfter(s.client) = NoLease /\ client' = ResetClient(c)
    <3>1. ~HasConfig(c)
      BY <1>1, <2>2, LeaseAssumption DEF ClientOK, Client
    <3>2. QED
      BY <1>1, <1>3, <2>2, <3>1, ResetUnbound
  <2>3. QED
    BY <2>1, <2>2
<1>5. client' \in Client
  BY <1>4 DEF ClientOK
<1>6. sawClient' \in BOOLEAN /\ sawServer' \in BOOLEAN /\ renewed' \in BOOLEAN
  BY <1>2 DEF PollInterface
<1>7. ClientOK(client)'
  BY <1>4 DEF ClientOK, HasConfig
<1>8. LeaseAgreement'
  BY <1>1, <1>3, <1>4 DEF LeaseAgreement, HasConfig
<1>9. QED
  BY <1>1, <1>3, <1>5, <1>6, <1>7, <1>8

\* The largest word is a number, and which one matters nowhere but in the ids.
LEMMA MaxWordIsNat == MaxWord \in Nat /\ MaxWord > 0
BY DEF MaxWord

\* The constants, as numbers.
LEMMA Numbers ==
  /\ DhcpTimeout \in Nat /\ DhcpTimeout > 0
  /\ RestartAfter \in Nat /\ RestartAfter > 0
  /\ ProbeTimeout \in Nat /\ ProbeTimeout > 0
  /\ RecoveryDelay \in Nat /\ RecoveryDelay > 0
  /\ ProbeInterval \in Nat /\ ProbeInterval > 0
  /\ DnsTimeout \in Nat /\ DnsTimeout > 0
  /\ MaxDelay \in Nat /\ MaxDelay > 0
  /\ PrimaryAttempts \in Nat /\ PrimaryAttempts > 0
  /\ ProbeAttempts \in Nat /\ ProbeAttempts > 0
  /\ Burst \in Nat /\ Burst > 0
  /\ EventCap \in Nat /\ EventCap > 0
  /\ OtherEvents \in Nat
  /\ DnsAttempts \in 1 .. MaxWord
<1>1. /\ AttemptsPerTarget \in Nat /\ AttemptsPerTarget > 0
      /\ Len(DnsTargets) \in Nat /\ Len(DnsTargets) > 0
  BY BoundAssumption
<1>2. DnsAttempts \in 1 .. MaxWord
  <2>1. \A m, n \in Nat : m * n \in Nat /\ (m > 0 /\ n > 0 => m * n > 0)
    OBVIOUS
  <2> DEFINE product == AttemptsPerTarget * Len(DnsTargets)
  <2>2. product \in Nat /\ product > 0
    BY <1>1, <2>1
  <2>3. (DnsAttempts = product /\ product <= MaxWord) \/ DnsAttempts = MaxWord
    BY DEF DnsAttempts
  <2> HIDE DEF product
  <2>4. QED
    BY ONLY <2>2, <2>3, MaxWordIsNat
<1>3. QED
  BY <1>2, TimeAssumption, BoundAssumption

\* The runner starts without a lease, an address and a route.
LEMMA InitLeaseInv == Init => LeaseInv
<1> SUFFICES ASSUME Init PROVE LeaseInv
  OBVIOUS
<1> USE DEF Init
<1>1. ClientOK(client) /\ LeaseAgreement
  BY LeaseAssumption DEF ClientOK, Client, ClientStates, HasConfig, LeaseAgreement
<1>2. ControlOK
  BY DEF ControlOK, Running, NoTimer
<1>3. NetworkOK
  BY <1>1 DEF NetworkOK, ClientOK
<1>4. ProbeOK
  <2>1. 0 \in 0 .. ProbeAttempts
    BY Numbers
  <2>2. QED
    BY <2>1 DEF ProbeOK
<1>5. DnsOK
  <2>1. 0 \in 0 .. DnsAttempts
    BY Numbers
  <2>2. QED
    BY <2>1 DEF DnsOK
<1>6. RadioOK
  <2>1. <<>> \in Seq({"disconnected", "failed", "other"})
    OBVIOUS
  <2>2. QED
    BY <2>1, Numbers DEF RadioOK
<1>7. QED
  BY <1>1, <1>2, <1>3, <1>4, <1>5, <1>6 DEF LeaseInv, TypeOK

\* Parts of the invariant that a step leaves alone.
LEMMA Untouched ==
  /\ NetworkOK /\ ClientOK(client) /\ LeaseAgreement
     /\ UNCHANGED <<dhcpVars, renewVars>>
       => NetworkOK' /\ ClientOK(client)' /\ LeaseAgreement'
  /\ ProbeOK /\ UNCHANGED <<txBusy, probeVars>> => ProbeOK'
  /\ DnsOK /\ UNCHANGED <<phase, dnsVars, reportVars>> => DnsOK'
  /\ ControlOK /\ UNCHANGED <<phase, pc, elapsed, active, restartIn>> => ControlOK'
  /\ RadioOK /\ UNCHANGED radioVars => RadioOK'
<1>1. ASSUME NetworkOK, ClientOK(client), LeaseAgreement,
             UNCHANGED <<dhcpVars, renewVars>>
      PROVE  NetworkOK' /\ ClientOK(client)' /\ LeaseAgreement'
  BY <1>1 DEF NetworkOK, ClientOK, LeaseAgreement, HasConfig, dhcpVars, renewVars
<1>2. ProbeOK /\ UNCHANGED <<txBusy, probeVars>> => ProbeOK'
  BY DEF ProbeOK, probeVars
<1>3. DnsOK /\ UNCHANGED <<phase, dnsVars, reportVars>> => DnsOK'
  BY DEF DnsOK, dnsVars, reportVars
<1>4. ControlOK /\ UNCHANGED <<phase, pc, elapsed, active, restartIn>> => ControlOK'
  BY DEF ControlOK
<1>5. RadioOK /\ UNCHANGED radioVars => RadioOK'
  BY DEF RadioOK, radioVars
<1>6. QED
  BY <1>1, <1>2, <1>3, <1>4, <1>5

\* PollNetwork keeps the network part of the invariant.
LEMMA NetworkPolled ==
  ASSUME LeaseInv, PollNetwork, UNCHANGED renewReported
  PROVE  NetworkOK' /\ ClientOK(client)' /\ LeaseAgreement'
<1>1. PICK s \in StackSteps(client) :
        PollInterface(s) /\ client' = ClientAfter(s.client)
  BY DEF PollNetwork
<1>2. renewReported' \in BOOLEAN
  BY DEF LeaseInv, TypeOK, NetworkOK
<1>3. QED
  BY <1>1, <1>2, PollStep DEF NetworkOK

\* The transmit slot after a poll.
LEMMA SlotPolled == ASSUME TypeOK PROVE \A busy \in SlotAfterPoll : busy \in BOOLEAN
BY DEF SlotAfterPoll, TypeOK, ProbeOK

\* The ticks of a wait keep the clocks in their ranges.
LEMMA Passed ==
  ASSUME TypeOK, NEW d \in 0 .. MaxDelay, Pass(d)
  PROVE  /\ elapsed' \in Nat /\ sinceSend' \in Nat
         /\ restartIn' \in (0 .. RestartAfter) \cup {NoTimer}
<1>1. /\ elapsed \in Nat /\ sinceSend \in Nat /\ d \in Nat
      /\ restartIn \in (0 .. RestartAfter) \cup {NoTimer}
  BY Numbers DEF TypeOK, ControlOK, ProbeOK
<1>2. QED
  BY <1>1, Numbers DEF Pass, NoTimer

\* The datagrams of a poll are of the kind asked for.
LEMMA ArrivedSubset ==
  ASSUME NEW S, NEW D \in Arrivals(S)
  PROVE  D \subseteq S
<1>1. D = {} \/ \E f \in [1 .. Burst -> S] : D = {f[i] : i \in 1 .. Burst}
  BY DEF Arrivals
<1>2. ASSUME NEW f \in [1 .. Burst -> S], D = {f[i] : i \in 1 .. Burst}
      PROVE  D \subseteq S
  BY <1>2
<1>3. QED
  BY <1>1, <1>2

\* One iteration of the echo probe: the sequences credited were sent, and the
\* number of probes stays within the limit.
LEMMA ProbeStep ==
  ASSUME TypeOK, NEW D \in Arrivals(Echo), CountReplies(D),
         NEW busy \in SlotAfterPoll, SendProbe(busy)
  PROVE  ProbeOK'
<1>1. Credited(D) \subseteq Sequences
  <2>1. D \subseteq Echo
    BY ArrivedSubset
  <2>2. \A d \in D : d.seq \in Sequences
    BY <2>1 DEF Echo
  <2>3. QED
    BY <2>2 DEF Credited
<1>2. replies' \in Nat
  <2>1. IsFiniteSet(Credited(D) \ received)
    <3>1. IsFiniteSet(Sequences)
      BY FS_Interval, Numbers DEF Sequences
    <3>2. QED
      BY <1>1, <3>1, FS_Subset
  <2>2. Cardinality(Credited(D) \ received) \in Nat
    BY <2>1, FS_CardinalityType
  <2>3. QED
    BY <2>2 DEF CountReplies, TypeOK, ProbeOK
<1>3. sent' \in 0 .. ProbeAttempts /\ sinceSend' \in Nat /\ txBusy' \in BOOLEAN
  <2>1. CASE ProbeDue /\ ~busy
    <3>1. sent \in Nat /\ sent < ProbeAttempts
      BY <2>1, Numbers DEF ProbeDue, TypeOK, ProbeOK
    <3>2. sent' = sent + 1 /\ sinceSend' = 0
      BY <2>1 DEF SendProbe
    <3>3. txBusy' \in BOOLEAN
      BY <2>1 DEF SendProbe
    <3>4. QED
      BY <3>1, <3>2, <3>3, Numbers
  <2>2. CASE ~(ProbeDue /\ ~busy)
    BY <2>2, SlotPolled DEF SendProbe, TypeOK, ProbeOK
  <2>3. QED
    BY <2>1, <2>2
<1>4. QED
  BY <1>1, <1>2, <1>3 DEF ProbeOK, TypeOK, CountReplies

\* The end of the probes keeps the reports Boolean.
LEMMA Kept ==
  ASSUME KeepFromNow, localEcho' \in BOOLEAN
  PROVE  /\ asked' \in SUBSET (1 .. DnsAttempts)
         /\ localEcho' \in BOOLEAN /\ dataPathOk' \in BOOLEAN /\ dnsOk' \in BOOLEAN
<1>1. dataPathOk' \in BOOLEAN
  BY ZenonT(20) DEF KeepFromNow
<1>2. dnsOk' \in BOOLEAN
  BY DEF KeepFromNow
<1>3. QED
  BY <1>1, <1>2 DEF KeepFromNow

\* The DNS loop moves on to its next attempt, or is over.
LEMMA Attempted ==
  ASSUME TypeOK, phase = "dns", NextAttempt,
         UNCHANGED <<active, restartIn, accepted, localEcho>>
  PROVE  ControlOK' /\ DnsOK'
<1>1. /\ attempt' \in 0 .. DnsAttempts
      /\ phase' = "dns" => attempt' > 0
      /\ phase' \in {"dns", "steady"} /\ pc' \in {"send", "body"}
  BY Numbers DEF NextAttempt, Attempt, KeepFromNow, TypeOK, DnsOK
<1>2. elapsed' = 0
  BY DEF NextAttempt, Attempt, KeepFromNow
<1>3. ControlOK'
  BY <1>1, <1>2 DEF TypeOK, ControlOK, Running
<1>4. /\ asked' \in SUBSET (1 .. DnsAttempts)
      /\ dataPathOk' \in BOOLEAN /\ dnsOk' \in BOOLEAN
  BY DEF NextAttempt, Attempt, KeepFromNow, TypeOK, DnsOK
<1>5. DnsOK'
  BY <1>1, <1>4 DEF TypeOK, DnsOK
<1>6. QED
  BY <1>3, <1>5

\* One poll of the wait for an answer: accepted, or the wait goes on.
LEMMA Answered ==
  ASSUME TypeOK, AwaitAnswer
  PROVE  ControlOK' /\ DnsOK' /\ txBusy' \in BOOLEAN
<1>1. phase = "dns" /\ UNCHANGED <<active, restartIn, localEcho>>
  BY DEF AwaitAnswer
<1>2. attempt \in 1 .. DnsAttempts
  BY <1>1, Numbers DEF TypeOK, DnsOK
<1>3. PICK busy \in SlotAfterPoll :
       /\ txBusy' = busy
       /\ \E D \in Arrivals(Answers(LeftBy(busy))) :
            \/ \E a \in D :
                 /\ Accepts(a)
                 /\ accepted' = accepted \cup {[answer |-> a, attempt |-> attempt]}
                 /\ KeepFromNow
            \/ /\ \A a \in D : ~Accepts(a)
               /\ asked' = LeftBy(busy)
               /\ pc' = "wait"
               /\ UNCHANGED <<accepted, phase, elapsed, attempt, dataPathOk, dnsOk>>
  BY DEF AwaitAnswer
<1>4. txBusy' \in BOOLEAN
  BY <1>3, SlotPolled
<1>5. PICK D \in Arrivals(Answers(LeftBy(busy))) :
       \/ \E a \in D :
            /\ Accepts(a)
            /\ accepted' = accepted \cup {[answer |-> a, attempt |-> attempt]}
            /\ KeepFromNow
       \/ /\ \A a \in D : ~Accepts(a)
          /\ asked' = LeftBy(busy)
          /\ pc' = "wait"
          /\ UNCHANGED <<accepted, phase, elapsed, attempt, dataPathOk, dnsOk>>
  BY <1>3
<1>6. CASE /\ asked' = LeftBy(busy) /\ pc' = "wait"
           /\ UNCHANGED <<accepted, phase, elapsed, attempt, dataPathOk, dnsOk>>
  <2>1. ControlOK'
    BY <1>1, <1>6 DEF TypeOK, ControlOK
  <2>2. asked' \in SUBSET (1 .. DnsAttempts)
    BY <1>2, <1>6 DEF LeftBy, TypeOK, DnsOK
  <2>3. DnsOK'
    BY <1>1, <1>6, <2>2 DEF TypeOK, DnsOK
  <2>4. QED
    BY <1>4, <2>1, <2>3
<1>7. ASSUME NEW a \in D,
             accepted' = accepted \cup {[answer |-> a, attempt |-> attempt]},
             KeepFromNow
      PROVE  ControlOK' /\ DnsOK'
  <2>1. ControlOK'
    BY <1>1, <1>7 DEF KeepFromNow, TypeOK, ControlOK, Running
  <2>2. a \in Answer
    BY <1>7, ArrivedSubset DEF Answers
  <2>3. accepted' \in SUBSET Acceptance
    BY <1>2, <1>7, <2>2 DEF TypeOK, DnsOK, Acceptance
  <2>4. 0 \in 0 .. DnsAttempts
    BY Numbers
  <2>5. DnsOK'
    BY <1>1, <1>7, <2>3, <2>4 DEF KeepFromNow, TypeOK, DnsOK
  <2>6. QED
    BY <2>1, <2>5
<1>8. QED
  BY <1>4, <1>5, <1>6, <1>7

\* Every action of StationNet preserves the invariant.
LEMMA StepLeaseInv == LeaseInv /\ [Next]_vars => LeaseInv'
<1> SUFFICES ASSUME LeaseInv, [Next]_vars PROVE LeaseInv'
  OBVIOUS
<1> USE DEF LeaseInv, TypeOK
<1>1. CASE AcquireLease
  <2>1. NetworkOK' /\ ClientOK(client)' /\ LeaseAgreement'
    BY <1>1, NetworkPolled DEF AcquireLease
  <2>2. ControlOK'
    BY <1>1 DEF AcquireLease, ControlOK
  <2>3. QED
    BY <1>1, <2>1, <2>2, Untouched DEF AcquireLease
<1>2. CASE DhcpTimedOut
  <2>1. ControlOK' /\ DnsOK'
    BY <1>2 DEF DhcpTimedOut, ControlOK, DnsOK, dnsVars, reportVars
  <2>2. QED
    BY <1>2, <2>1, Untouched DEF DhcpTimedOut
<1>3. CASE StartProbe
  <2>1. ControlOK'
    BY <1>3 DEF StartProbe, ControlOK, NetworkOK, Running
  <2>2. DnsOK'
    BY <1>3 DEF StartProbe, DnsOK, dnsVars, reportVars
  <2>3. ProbeOK'
    <3>1. 0 \in 0 .. ProbeAttempts /\ 0 \in Nat /\ ProbeInterval \in Nat
      BY Numbers
    <3>2. QED
      BY <1>3, <3>1 DEF StartProbe, ProbeOK
  <2>4. NetworkOK' /\ ClientOK(client)' /\ LeaseAgreement'
    BY <1>3 DEF StartProbe, NetworkOK, ClientOK, HasConfig, LeaseAgreement, dhcpVars
  <2>5. QED
    BY <1>3, <2>1, <2>2, <2>3, <2>4, Untouched DEF StartProbe
<1>4. CASE ProbeNeighbor
  <2>1. NetworkOK' /\ ClientOK(client)' /\ LeaseAgreement'
    BY <1>4, NetworkPolled DEF ProbeNeighbor
  <2>2. ControlOK'
    BY <1>4 DEF ProbeNeighbor, ControlOK
  <2>3. ProbeOK'
    BY <1>4, ProbeStep DEF ProbeNeighbor
  <2>4. QED
    BY <1>4, <2>1, <2>2, <2>3, Untouched DEF ProbeNeighbor
<1>5. CASE ProbeDone
  <2>1. ControlOK'
    BY <1>5 DEF ProbeDone, KeepFromNow, ControlOK, Running
  <2>2. ProbeOK'
    <3>1. 0 \in 0 .. ProbeAttempts /\ 0 \in Nat
      BY Numbers
    <3>2. QED
      BY <1>5, <3>1 DEF ProbeDone, KeepFromNow, ProbeOK
  <2>3. DnsOK'
    <3>1. 0 \in 0 .. DnsAttempts /\ 1 \in 0 .. DnsAttempts /\ 1 > 0
      BY Numbers
    <3>2. /\ asked' \in SUBSET (1 .. DnsAttempts)
          /\ localEcho' \in BOOLEAN /\ dataPathOk' \in BOOLEAN /\ dnsOk' \in BOOLEAN
      <4>1. localEcho' \in BOOLEAN
        BY <1>5 DEF ProbeDone, PathReachable
      <4>2. CASE UNCHANGED <<asked, dataPathOk, dnsOk>>
        BY <4>1, <4>2 DEF DnsOK
      <4>3. CASE KeepFromNow
        BY <4>1, <4>3, Kept
      <4>4. QED
        BY <1>5, <4>2, <4>3 DEF ProbeDone
    <3>3. (phase' = "dns" /\ attempt' = 1) \/ (phase' = "steady" /\ attempt' = 0)
      BY <1>5 DEF ProbeDone, KeepFromNow
    <3>4. attempt' \in 0 .. DnsAttempts /\ (phase' = "dns" => attempt' > 0)
      BY <3>1, <3>3
    <3>5. accepted' \in SUBSET Acceptance
      BY <1>5 DEF ProbeDone, DnsOK
    <3>6. QED
      BY <3>2, <3>4, <3>5 DEF DnsOK
  <2>4. QED
    BY <1>5, <2>1, <2>2, <2>3, Untouched DEF ProbeDone, KeepFromNow
<1>6. CASE SendQuery
  <2>1. ControlOK' /\ DnsOK' /\ txBusy' \in BOOLEAN
    <3>1. CASE txBusy
      <4>1. txBusy' \in BOOLEAN
        BY <1>6, <3>1 DEF SendQuery, ProbeOK
      <4>2. QED
        BY <1>6, <3>1, <4>1, Attempted DEF SendQuery
    <3>2. CASE ~txBusy
      <4>1. txBusy' \in BOOLEAN
        BY <1>6, <3>2 DEF SendQuery
      <4>2. ControlOK'
        BY <1>6, <3>2 DEF SendQuery, ControlOK
      <4>3. DnsOK'
        BY <1>6, <3>2 DEF SendQuery, DnsOK
      <4>4. QED
        BY <4>1, <4>2, <4>3
    <3>3. QED
      BY <3>1, <3>2
  <2>2. ProbeOK'
    BY <1>6, <2>1 DEF SendQuery, ProbeOK, probeVars
  <2>3. QED
    BY <1>6, <2>1, <2>2, Untouched DEF SendQuery
<1>7. CASE AwaitAnswer
  <2>1. NetworkOK' /\ ClientOK(client)' /\ LeaseAgreement'
    BY <1>7, NetworkPolled DEF AwaitAnswer
  <2>2. ControlOK' /\ DnsOK' /\ txBusy' \in BOOLEAN
    BY <1>7, Answered
  <2>3. ProbeOK'
    BY <1>7, <2>2 DEF AwaitAnswer, ProbeOK, probeVars
  <2>4. QED
    BY <1>7, <2>1, <2>2, <2>3, Untouched DEF AwaitAnswer
<1>8. CASE AnswerTimedOut
  <2>1. ControlOK' /\ DnsOK'
    BY <1>8, Attempted DEF AnswerTimedOut
  <2>2. QED
    BY <1>8, <2>1, Untouched DEF AnswerTimedOut
<1>9. CASE KeepPolling
  <2>1. PICK s \in StackSteps(client) :
          /\ PollInterface(s)
          /\ client' = IF RestartDue(LeaseAfter(s.client))
                       THEN ResetClient(ClientAfter(s.client)) ELSE ClientAfter(s.client)
          /\ restartIn' = RestartTimer(LeaseAfter(s.client))
          /\ renewReported' = (renewReported \/ RenewSeen(s))
    BY <1>9 DEF KeepPolling
  <2>2. \/ client' = ClientAfter(s.client)
        \/ /\ LeaseAfter(s.client) = NoLease
           /\ client' = ResetClient(ClientAfter(s.client))
    BY <2>1 DEF RestartDue
  <2>3. NetworkOK' /\ ClientOK(client)' /\ LeaseAgreement'
    <3>1. renewReported' \in BOOLEAN
      BY <2>1, StackStep DEF NetworkOK, RenewSeen
    <3>2. QED
      BY <2>1, <2>2, <3>1, PollStep DEF NetworkOK
  <2>4. restartIn' \in (0 .. RestartAfter) \cup {NoTimer}
    BY <2>1, Numbers DEF RestartTimer, ControlOK
  <2>5. ControlOK'
    BY <1>9, <2>4 DEF KeepPolling, ControlOK
  <2>6. ProbeOK'
    BY <1>9, SlotPolled DEF KeepPolling, ProbeOK, probeVars
  <2>7. QED
    BY <1>9, <2>3, <2>5, <2>6, Untouched DEF KeepPolling
<1>10. CASE IntervalElapsed
  <2>1. PICK d \in 0 .. MaxDelay : Pass(d)
    BY <1>10, Numbers DEF IntervalElapsed
  <2>2. elapsed' \in Nat /\ sinceSend' \in Nat
        /\ restartIn' \in (0 .. RestartAfter) \cup {NoTimer}
    BY <2>1, Passed
  <2>3. ControlOK'
    BY <1>10, <2>2 DEF IntervalElapsed, ControlOK
  <2>4. ProbeOK'
    BY <1>10, <2>2 DEF IntervalElapsed, ProbeOK
  <2>5. QED
    BY <1>10, <2>3, <2>4, Untouched DEF IntervalElapsed
<1>11. CASE EventIgnored
  <2>1. PICK d \in 0 .. MaxDelay : Pass(d)
    BY <1>11 DEF EventIgnored
  <2>2. elapsed' \in Nat /\ sinceSend' \in Nat
        /\ restartIn' \in (0 .. RestartAfter) \cup {NoTimer}
    BY <2>1, Passed
  <2>3. ControlOK'
    BY <1>11, <2>2 DEF EventIgnored, ControlOK
  <2>4. ProbeOK'
    BY <1>11, <2>2 DEF EventIgnored, ProbeOK
  <2>5. RadioOK'
    BY <1>11 DEF EventIgnored, RadioOK
  <2>6. QED
    BY <1>11, <2>3, <2>4, <2>5, Untouched DEF EventIgnored
<1>12. CASE SessionEnds
  <2>1. ControlOK' /\ DnsOK'
    BY <1>12 DEF SessionEnds, ControlOK, DnsOK, Exits, Running, dnsVars, reportVars
  <2>2. RadioOK'
    BY <1>12 DEF SessionEnds, RadioOK
  <2>3. QED
    BY <1>12, <2>1, <2>2, Untouched DEF SessionEnds
<1>13. CASE RadioPosts
  <2>1. RadioOK'
    BY <1>13 DEF RadioPosts, RadioOK
  <2>2. QED
    BY <1>13, <2>1, Untouched DEF RadioPosts
<1>14. CASE Start
  <2>1. ControlOK' /\ DnsOK'
    BY <1>14 DEF Start, ControlOK, DnsOK, dnsVars, reportVars
  <2>2. QED
    BY <1>14, <2>1, Untouched DEF Start
<1>15. CASE UNCHANGED vars
  BY <1>15, Untouched DEF vars
<1>16. QED
  BY <1>1, <1>2, <1>3, <1>4, <1>5, <1>6, <1>7, <1>8, <1>9, <1>10, <1>11, <1>12,
     <1>13, <1>14, <1>15 DEF Next, Runner, Ended

\* LeaseInv is an invariant of the runner: the theorems below rest on it.
THEOREM LeaseInvariant == Spec => []LeaseInv
<1>1. Init => LeaseInv
  BY InitLeaseInv
<1>2. LeaseInv /\ [Next]_vars => LeaseInv'
  BY StepLeaseInv
<1>3. QED
  BY <1>1, <1>2, PTL DEF Spec, SafeSpec

\* Every variable of the runner keeps to its range, whatever the timing
\* constants, the network and the radio do.
THEOREM TypeCorrect == Spec => []TypeOK
<1>1. LeaseInv => TypeOK
  BY DEF LeaseInv
<1>2. QED
  BY <1>1, LeaseInvariant, PTL

\* The lease, the interface's address and route and the DHCP client agree
\* between any two polls of poll_network and of keep_polling's restarts.
THEOREM LeaseAgrees == Spec => []LeaseAgreement
<1>1. LeaseInv => LeaseAgreement
  BY DEF LeaseInv
<1>2. QED
  BY <1>1, LeaseInvariant, PTL

-----------------------------------------------------------------------------
(***************************************************************************)
(* The restart deadline                                                    *)
(***************************************************************************)
\* Between an iteration of keep_polling and the next, the deadline is armed
\* exactly when there is no lease.
DeadlineInv ==
  phase = "steady" /\ pc = "wait" => (restartIn = NoTimer <=> lease # NoLease)

\* An iteration of keep_polling arms, clears or leaves alone the deadline as it
\* should; every other step of the steady loop can only bring it nearer.
LEMMA StepDeadline ==
  ASSUME LeaseInv, DeadlineInv, [Next]_vars
  PROVE  DeadlineInv' /\ DeadlineStep
<1>1. CASE KeepPolling
  <2>1. PICK s \in StackSteps(client) :
          /\ lease' = LeaseAfter(s.client)
          /\ client' = IF RestartDue(lease')
                       THEN ResetClient(ClientAfter(s.client)) ELSE ClientAfter(s.client)
          /\ restartIn' = RestartTimer(lease')
    BY <1>1 DEF KeepPolling, PollInterface
  <2>2. restartIn' = NoTimer <=> lease' # NoLease
    BY <2>1, Numbers DEF RestartTimer, NoTimer
  <2>3. ASSUME lease' = NoLease, restartIn' > restartIn
        PROVE  restartIn = NoTimer \/ (restartIn = 0 /\ client'.state = "discovering")
    <3>1. restartIn = NoTimer \/ restartIn = 0
      BY <2>1, <2>3 DEF RestartTimer, LeaseInv, TypeOK, ControlOK, NoTimer
    <3>2. CASE restartIn = 0
      BY <2>1, <2>3, <3>2 DEF RestartDue, ResetClient
    <3>3. QED
      BY <3>1, <3>2
  <2>4. QED
    BY <2>2, <2>3 DEF DeadlineInv, DeadlineStep
<1>2. CASE IntervalElapsed \/ EventIgnored
  <2>1. PICK d \in 0 .. MaxDelay : Pass(d)
    BY <1>2, Numbers DEF IntervalElapsed, EventIgnored
  <2>2. restartIn' <= restartIn
    BY <2>1, Numbers DEF Pass, LeaseInv, TypeOK, ControlOK, NoTimer
  <2>3. pc' = "body" /\ restartIn' \in Int /\ restartIn \in Int
    BY <1>2, <2>1, Passed DEF IntervalElapsed, EventIgnored, LeaseInv, TypeOK, ControlOK, NoTimer
  <2>4. QED
    BY <2>2, <2>3 DEF DeadlineInv, DeadlineStep
<1>3. CASE SessionEnds
  BY <1>3 DEF SessionEnds, Exits, DeadlineInv, DeadlineStep
<1>4. CASE RadioPosts \/ UNCHANGED vars
  <2>1. UNCHANGED <<phase, pc, lease, restartIn>>
    BY <1>4 DEF RadioPosts, vars, dhcpVars
  <2>2. ~(restartIn' > restartIn)
    BY <2>1 DEF LeaseInv, TypeOK, ControlOK, NoTimer
  <2>3. QED
    BY <2>1, <2>2 DEF DeadlineInv, DeadlineStep
<1>5. CASE Start \/ AcquireLease \/ DhcpTimedOut \/ StartProbe \/ ProbeNeighbor
           \/ ProbeDone \/ SendQuery \/ AwaitAnswer \/ AnswerTimedOut
  <2>1. phase # "steady" /\ (phase' = "steady" => pc' # "wait")
    BY <1>5 DEF Start, AcquireLease, DhcpTimedOut, StartProbe, ProbeNeighbor, ProbeDone,
                SendQuery, AwaitAnswer, AnswerTimedOut, NextAttempt, Attempt, KeepFromNow
  <2>2. QED
    BY <2>1 DEF DeadlineInv, DeadlineStep
<1>6. QED
  BY <1>1, <1>2, <1>3, <1>4, <1>5 DEF Next, Runner, Ended

\* The deadline of keep_polling is armed while there is no lease and only moves
\* out by firing, so no outage postpones the restart of DHCP.
THEOREM DeadlineKept == Spec => RestartDeadlineKept
<1>1. Init => LeaseInv /\ DeadlineInv
  BY InitLeaseInv DEF Init, DeadlineInv
<1>2. LeaseInv /\ DeadlineInv /\ [Next]_vars => (LeaseInv /\ DeadlineInv)'
  BY StepLeaseInv, StepDeadline
<1>3. LeaseInv /\ DeadlineInv /\ [Next]_vars => [DeadlineStep]_vars
  BY StepDeadline
<1>4. Spec => [][DeadlineStep]_vars
  BY <1>1, <1>2, <1>3, PTL DEF Spec, SafeSpec
<1>5. QED
  BY <1>4 DEF RestartDeadlineKept

-----------------------------------------------------------------------------
(***************************************************************************)
(* The echo probe                                                          *)
(***************************************************************************)
\* Adding to a finite set what it lacks adds its number.
LEMMA CountedOnce ==
  ASSUME NEW S, NEW T, IsFiniteSet(S), IsFiniteSet(T)
  PROVE  Cardinality(S \cup T) = Cardinality(S) + Cardinality(T \ S)
<1>1. IsFiniteSet(T \ S)
  BY FS_Difference
<1>2. Cardinality(S \cup (T \ S))
        = Cardinality(S) + Cardinality(T \ S) - Cardinality(S \cap (T \ S))
  BY <1>1, FS_Union
<1>3. S \cup (T \ S) = S \cup T /\ S \cap (T \ S) = {}
  OBVIOUS
<1>4. Cardinality(S) \in Nat /\ Cardinality(T \ S) \in Nat
  BY <1>1, FS_CardinalityType
<1>5. QED
  BY <1>2, <1>3, <1>4, FS_EmptySet

\* A range grows with its bound.
LEMMA LongerRange == \A m, n \in Int : m <= n => 0 .. m - 1 \subseteq 0 .. n - 1
OBVIOUS

\* The evidence outlives every step: a drain credits only probes that were
\* sent, and counts those not credited before.
LEMMA StepEvidence ==
  ASSUME LeaseInv, ProbeEvidence, [Next]_vars
  PROVE  ProbeEvidence'
<1>1. CASE ProbeNeighbor
  <2>1. PICK D \in Arrivals(Echo) : CountReplies(D)
    BY <1>1 DEF ProbeNeighbor
  <2>2. PICK busy \in SlotAfterPoll : SendProbe(busy)
    BY <1>1 DEF ProbeNeighbor
  <2>3. sent \in Nat /\ sent' \in {sent, sent + 1}
    BY <2>2, Numbers DEF SendProbe, LeaseInv, TypeOK, ProbeOK
  <2>4. Credited(D) \subseteq 0 .. sent - 1
    <3>1. D \subseteq Echo
      BY ArrivedSubset
    <3>2. \A d \in D : d.seq \in Nat
      BY <3>1, Numbers DEF Echo, Sequences
    <3>3. QED
      BY <2>3, <3>2 DEF Credited
  <2>5. received' \subseteq 0 .. sent' - 1
    <3>1. 0 .. sent - 1 \subseteq 0 .. sent' - 1
      <4>1. sent \in Int /\ sent' \in Int /\ sent <= sent'
        BY <2>3
      <4>2. QED
        BY <4>1, LongerRange
    <3>2. received' = received \cup Credited(D)
      BY <2>1 DEF CountReplies
    <3>3. QED
      BY <2>4, <3>1, <3>2 DEF ProbeEvidence
  <2>6. IsFiniteSet(received) /\ IsFiniteSet(Credited(D))
    <3>1. IsFiniteSet(0 .. sent - 1)
      BY <2>3, FS_Interval
    <3>2. QED
      BY <2>4, <3>1, FS_Subset DEF ProbeEvidence
  <2>7. Cardinality(received \cup Credited(D))
          = Cardinality(received) + Cardinality(Credited(D) \ received)
    BY <2>6, CountedOnce
  <2>8. QED
    BY <2>1, <2>5, <2>7 DEF CountReplies, ProbeEvidence
<1>2. CASE StartProbe \/ ProbeDone
  BY <1>2, FS_EmptySet DEF StartProbe, ProbeDone, ProbeEvidence
<1>3. CASE UNCHANGED <<sent, received, replies>>
  BY <1>3 DEF ProbeEvidence
<1>4. QED
  BY <1>1, <1>2, <1>3 DEF Next, Runner, Ended, vars, probeVars, Start, AcquireLease,
     DhcpTimedOut, SendQuery, AwaitAnswer, AnswerTimedOut, KeepPolling,
     IntervalElapsed, EventIgnored, SessionEnds, RadioPosts

\* A reply is counted once, for a probe that was sent, for every number of
\* probes and whatever is duplicated, reordered or late.
THEOREM EvidenceKept == Spec => []ProbeEvidence
<1>1. Init => LeaseInv /\ ProbeEvidence
  BY InitLeaseInv, FS_EmptySet DEF Init, ProbeEvidence
<1>2. LeaseInv /\ ProbeEvidence /\ [Next]_vars => (LeaseInv /\ ProbeEvidence)'
  BY StepLeaseInv, StepEvidence
<1>3. QED
  BY <1>1, <1>2, PTL DEF Spec, SafeSpec

\* Multiplying by one more.
LEMMA OneMore == \A n, k \in Int : (n + 1) * k = n * k + k /\ n * k \in Int
OBVIOUS

\* A probe is sent when an interval has passed since the last; time passes for
\* both clocks alike.
LEMMA StepPacing ==
  ASSUME LeaseInv, ProbePacing, [Next]_vars
  PROVE  ProbePacing'
<1> DEFINE Early == (sent - 1) * ProbeInterval
           Late == (sent - PrimaryAttempts - 1) * ProbeInterval
<1>1. /\ sent \in Nat /\ sinceSend \in Nat /\ elapsed \in Nat
      /\ ProbeInterval \in Nat /\ RecoveryDelay \in Nat /\ PrimaryAttempts \in Nat
      /\ PrimaryAttempts > 0
  BY Numbers DEF LeaseInv, TypeOK, ControlOK, ProbeOK
<1>2. Early \in Int /\ Late \in Int
  BY <1>1, OneMore
<1>3. CASE ProbeNeighbor
  <2>1. PICK busy \in SlotAfterPoll : SendProbe(busy)
    BY <1>3 DEF ProbeNeighbor
  <2>2. phase = "probe" /\ phase' = "probe" /\ elapsed' = elapsed
    BY <1>3 DEF ProbeNeighbor
  <2>3. CASE UNCHANGED <<sent, sinceSend>>
    BY <2>2, <2>3 DEF ProbePacing
  <2>4. CASE ProbeDue /\ sent' = sent + 1 /\ sinceSend' = 0
    <3>1. sinceSend >= ProbeInterval
      BY <2>4 DEF ProbeDue
    <3>2. (sent' - 1) * ProbeInterval = Early + ProbeInterval
      <4>1. sent' - 1 = (sent - 1) + 1 /\ sent - 1 \in Int
        BY <1>1, <2>4
      <4>2. QED
        BY <1>1, <4>1, OneMore
    <3>3. (sent' - 1) * ProbeInterval + sinceSend' <= elapsed'
      <4>1. CASE sent = 0
        <5>1. sent' - 1 = 0 /\ 0 * ProbeInterval = 0
          BY <1>1, <2>4, <4>1
        <5>2. QED
          BY <1>1, <2>2, <2>4, <5>1
      <4>2. CASE sent > 0
        <5>1. Early + sinceSend <= elapsed
          BY <2>2, <4>2 DEF ProbePacing
        <5>2. QED
          BY <1>1, <1>2, <2>2, <2>4, <3>1, <3>2, <5>1
      <4>3. QED
        BY <1>1, <4>1, <4>2
    <3>4. ASSUME sent' > PrimaryAttempts
          PROVE  RecoveryDelay + (sent' - PrimaryAttempts - 1) * ProbeInterval + sinceSend'
                   <= elapsed'
      <4>1. elapsed >= RecoveryDelay
        BY <1>1, <2>4, <3>4 DEF ProbeDue, RecoveryReady
      <4>2. CASE sent = PrimaryAttempts
        <5>1. sent' - PrimaryAttempts - 1 = 0 /\ 0 * ProbeInterval = 0
          BY <1>1, <2>4, <4>2
        <5>2. QED
          BY <1>1, <2>2, <2>4, <4>1, <5>1
      <4>3. CASE sent > PrimaryAttempts
        <5>1. RecoveryDelay + Late + sinceSend <= elapsed
          BY <2>2, <4>3 DEF ProbePacing
        <5>2. (sent' - PrimaryAttempts - 1) * ProbeInterval = Late + ProbeInterval
          <6>1. /\ sent' - PrimaryAttempts - 1 = (sent - PrimaryAttempts - 1) + 1
                /\ sent - PrimaryAttempts - 1 \in Int
            BY <1>1, <2>4
          <6>2. QED
            BY <1>1, <6>1, OneMore
        <5>3. QED
          BY <1>1, <1>2, <2>2, <2>4, <3>1, <5>1, <5>2
      <4>4. QED
        BY <1>1, <2>4, <3>4, <4>2, <4>3
    <3>5. QED
      BY <3>3, <3>4 DEF ProbePacing
  <2>5. QED
    BY <2>1, <2>3, <2>4 DEF SendProbe
<1>4. CASE StartProbe
  BY <1>1, <1>4 DEF StartProbe, ProbePacing
<1>5. CASE IntervalElapsed \/ EventIgnored
  <2>1. PICK d \in 0 .. MaxDelay : Pass(d)
    BY <1>5, Numbers DEF IntervalElapsed, EventIgnored
  <2>2. UNCHANGED <<phase, sent>> /\ d \in Nat
    BY <1>5, <2>1, Numbers DEF IntervalElapsed, EventIgnored
  <2>3. phase = "probe" => elapsed' = elapsed + d /\ sinceSend' = sinceSend + d
    BY <2>1 DEF Pass
  <2>4. SUFFICES ASSUME phase = "probe" PROVE ProbePacing'
    BY <2>2 DEF ProbePacing
  <2>5. /\ sent > 0 => Early + sinceSend <= elapsed
        /\ sent > PrimaryAttempts => RecoveryDelay + Late + sinceSend <= elapsed
    BY <2>4 DEF ProbePacing
  <2>6. /\ sent > 0 => Early + sinceSend' <= elapsed'
        /\ sent > PrimaryAttempts => RecoveryDelay + Late + sinceSend' <= elapsed'
    <3> HIDE DEF Early, Late
    <3>1. QED
      BY <1>1, <1>2, <2>2, <2>3, <2>4, <2>5
  <2>7. QED
    BY <2>2, <2>6 DEF ProbePacing
<1>6. CASE phase' # "probe"
  BY <1>6 DEF ProbePacing
<1>7. CASE UNCHANGED <<phase, elapsed, sent, sinceSend>>
  BY <1>7 DEF ProbePacing
<1>8. QED
  <2>1. CASE SendQuery \/ AwaitAnswer \/ AnswerTimedOut
    BY <2>1, <1>6 DEF SendQuery, AwaitAnswer, AnswerTimedOut, NextAttempt, Attempt, KeepFromNow
  <2>2. CASE Start \/ AcquireLease \/ DhcpTimedOut \/ ProbeDone \/ KeepPolling \/ SessionEnds
    BY <2>2, <1>6 DEF KeepFromNow, Start, AcquireLease, DhcpTimedOut, ProbeDone, KeepPolling, SessionEnds,
                      Exits
  <2>3. CASE RadioPosts \/ UNCHANGED vars
    BY <2>3, <1>7 DEF RadioPosts, vars, probeVars
  <2>4. QED
    BY <1>3, <1>4, <1>5, <2>1, <2>2, <2>3 DEF Next, Runner, Ended

\* Probes keep their distance and the recovery probes wait, for every interval,
\* delay and number of attempts and however long the waits between polls take.
THEOREM PacingKept == Spec => []ProbePacing
<1>1. Init => LeaseInv /\ ProbePacing
  BY InitLeaseInv DEF Init, ProbePacing
<1>2. LeaseInv /\ ProbePacing /\ [Next]_vars => (LeaseInv /\ ProbePacing)'
  BY StepLeaseInv, StepPacing
<1>3. QED
  BY <1>1, <1>2, PTL DEF Spec, SafeSpec

-----------------------------------------------------------------------------
(***************************************************************************)
(* The DNS probe                                                           *)
(***************************************************************************)
\* The ids of two queries, as sums that wrap at most once.
LEMMA WrapsOnce ==
  /\ \A s \in Int : 0 <= s /\ s <= MaxWord => s % (MaxWord + 1) = s
  /\ \A s \in Int : MaxWord < s /\ s <= 2 * MaxWord => s % (MaxWord + 1) = s - MaxWord - 1
<1>1. ASSUME NEW s \in Int, 0 <= s, s <= MaxWord
      PROVE  s % (MaxWord + 1) = s
  BY ONLY <1>1 DEF MaxWord
<1>2. ASSUME NEW s \in Int, MaxWord < s, s <= 2 * MaxWord
      PROVE  s % (MaxWord + 1) = s - MaxWord - 1
  BY ONLY <1>2 DEF MaxWord
<1>3. QED
  BY <1>1, <1>2

\* Attempts of one probe have ids of their own: the counter wraps, but there are
\* fewer attempts than ids.
LEMMA OwnId ==
  ASSUME NEW m \in 1 .. DnsAttempts, NEW n \in 1 .. DnsAttempts,
         TransactionId(m) = TransactionId(n)
  PROVE  m = n
<1> DEFINE b == TransactionBase
           Id(s) == s % (MaxWord + 1)
<1>1. /\ b \in Int /\ m \in Int /\ n \in Int /\ 0 <= b /\ 0 < m /\ 0 < n
      /\ b <= MaxWord /\ m <= MaxWord /\ n <= MaxWord
  <2>1. DnsAttempts \in Int /\ DnsAttempts <= MaxWord
    BY Numbers, MaxWordIsNat
  <2>2. b \in Int /\ 0 <= b /\ b <= MaxWord
    BY BoundAssumption, MaxWordIsNat DEF Word
  <2>3. QED
    BY <2>1, <2>2, MaxWordIsNat
<1>2. \A s \in Int : 0 <= s /\ s <= MaxWord => Id(s) = s
  BY WrapsOnce
<1>3. \A s \in Int : MaxWord < s /\ s <= 2 * MaxWord => Id(s) = s - MaxWord - 1
  BY WrapsOnce
<1>4. Id(b + m) = Id(b + n)
  BY DEF TransactionId
<1> HIDE DEF b, Id
<1>5. Id(b + m) = b + m \/ Id(b + m) = b + m - MaxWord - 1
  BY ONLY <1>1, <1>2, <1>3, MaxWordIsNat
<1>6. Id(b + n) = b + n \/ Id(b + n) = b + n - MaxWord - 1
  BY ONLY <1>1, <1>2, <1>3, MaxWordIsNat
<1>7. QED
  BY ONLY <1>1, <1>4, <1>5, <1>6, MaxWordIsNat

\* A server's response passes validate_response only with the id it was asked
\* under and only if the name was resolved.
LEMMA Validated ==
  ASSUME NEW outcome \in Outcomes, NEW asking, NEW id,
         ValidateResponse(Response(BuildQuery(asking), outcome), id)
  PROVE  asking = id /\ outcome = "answered"
<1> DEFINE q == BuildQuery(asking)
           r == Response(q, outcome)
<1>1. /\ r.id = id /\ Succeeds(r.flags) /\ r.answers # 0 /\ r.length >= QueryLen
      /\ r.question = "example.com"
  BY DEF ValidateResponse, BuildQuery
<1>2. ~Succeeds(33155)
  BY ONLY TRUE DEF Succeeds, ResponseCode
<1>3. ~Succeeds(33664)
  BY ONLY TRUE DEF Succeeds, IsTruncated
<1>4. ~(12 >= QueryLen)
  BY ONLY TRUE DEF QueryLen
<1>5. CASE outcome = "answered"
  <2>1. r = Respond(q, 33152, 1)
    BY <1>5 DEF Response
  <2>2. r.id = asking
    BY <2>1 DEF Respond, BuildQuery
  <2>3. QED
    BY <1>1, <1>5, <2>2
<1>6. CASE outcome = "noSuchName"
  <2>1. r = Respond(q, 33155, 1)
    BY <1>6 DEF Response
  <2>2. r.flags = 33155
    BY <2>1 DEF Respond, BuildQuery
  <2>3. QED
    BY <1>1, <1>2, <2>2
<1>7. CASE outcome = "noRecords"
  <2>1. r = Respond(q, 33152, 0)
    BY <1>7 DEF Response
  <2>2. r.answers = 0
    BY <2>1 DEF Respond, BuildQuery
  <2>3. QED
    BY <1>1, <2>2
<1>8. CASE outcome = "truncated"
  <2>1. r = Respond(q, 33664, 1)
    BY <1>8 DEF Response
  <2>2. r.flags = 33664
    BY <2>1 DEF Respond, BuildQuery
  <2>3. QED
    BY <1>1, <1>3, <2>2
<1>9. CASE outcome = "reflected"
  <2>1. r = q
    BY <1>9 DEF Response
  <2>2. r.answers = 0
    BY <2>1 DEF BuildQuery
  <2>3. QED
    BY <1>1, <2>2
<1>10. CASE outcome = "misread"
  <2>1. r = [Respond(q, 33152, 1) EXCEPT !.question = "other"]
    BY <1>10 DEF Response
  <2>2. r.question = "other"
    BY <2>1 DEF Respond, BuildQuery
  <2>3. QED
    BY <1>1, <2>2
<1>11. CASE outcome = "cut"
  <2>1. r = [Respond(q, 33152, 0) EXCEPT !.length = 12]
    BY <1>11 DEF Response
  <2>2. r.length = 12
    BY <2>1 DEF Respond, BuildQuery
  <2>3. QED
    BY <1>1, <1>4, <2>2
<1>12. QED
  BY <1>5, <1>6, <1>7, <1>8, <1>9, <1>10, <1>11 DEF Outcomes

\* While a probe of `run` is still to come or under way nothing was accepted:
\* the answer that is accepted ends it.
AnswerInv ==
  /\ AnswerIsOwn
  /\ phase \in {"dhcp", "probe", "dns"} => accepted = {}

\* An answer that is accepted is the current query's.
LEMMA AcceptedOwn ==
  ASSUME NEW a \in Answer, attempt \in 1 .. DnsAttempts, Accepts(a)
  PROVE  a.query = attempt /\ a.outcome = "answered" /\ a.from = TargetOf(attempt)
<1>1. a.query \in 1 .. DnsAttempts /\ a.outcome \in Outcomes
  BY DEF Answer
<1>2. TransactionId(a.query) = TransactionId(attempt) /\ a.outcome = "answered"
  BY <1>1, Validated DEF Accepts, Received
<1>3. QED
  BY <1>1, <1>2, OwnId DEF Accepts

\* Only AwaitAnswer accepts an answer, and it leaves the probe; the report says
\* whether there is one.
LEMMA StepAnswer ==
  ASSUME TypeOK, AnswerInv, [Next]_vars
  PROVE  AnswerInv'
<1>1. CASE AwaitAnswer
  <2>1. phase = "dns" /\ accepted = {} /\ attempt \in 1 .. DnsAttempts
    BY <1>1, Numbers DEF AwaitAnswer, AnswerInv, TypeOK, DnsOK
  <2>2. PICK busy \in SlotAfterPoll :
          \E D \in Arrivals(Answers(LeftBy(busy))) :
            \/ \E a \in D :
                 /\ Accepts(a)
                 /\ accepted' = accepted \cup {[answer |-> a, attempt |-> attempt]}
                 /\ KeepFromNow
            \/ UNCHANGED <<accepted, phase, dnsOk>>
    BY <1>1 DEF AwaitAnswer
  <2>3. CASE UNCHANGED <<accepted, phase, dnsOk>>
    BY <2>3 DEF AnswerInv, AnswerIsOwn
  <2>4. ASSUME NEW D \in Arrivals(Answers(LeftBy(busy))), NEW a \in D, Accepts(a),
               accepted' = accepted \cup {[answer |-> a, attempt |-> attempt]},
               KeepFromNow
        PROVE  AnswerInv'
    <3>1. a \in Answer
      BY <2>4, ArrivedSubset DEF Answers
    <3>2. a.query = attempt /\ a.outcome = "answered" /\ a.from = TargetOf(attempt)
      BY <2>1, <2>4, <3>1, AcceptedOwn
    <3>3. accepted' = {[answer |-> a, attempt |-> attempt]}
      BY <2>1, <2>4
    <3>4. dnsOk' = TRUE /\ phase' = "steady"
      BY <2>4, <3>3 DEF KeepFromNow
    <3>5. QED
      BY <3>2, <3>3, <3>4 DEF AnswerInv, AnswerIsOwn
  <2>5. QED
    BY <2>2, <2>3, <2>4
<1>2. CASE ProbeDone \/ SendQuery \/ AnswerTimedOut
  <2>1. accepted = {} /\ accepted' = {}
    BY <1>2 DEF ProbeDone, SendQuery, AnswerTimedOut, AnswerInv
  <2>2. UNCHANGED dnsOk \/ dnsOk' = FALSE
    BY <1>2, <2>1 DEF ProbeDone, SendQuery, AnswerTimedOut, NextAttempt, Attempt, KeepFromNow
  <2>3. QED
    BY <2>1, <2>2 DEF AnswerInv, AnswerIsOwn
<1>3. CASE /\ UNCHANGED <<accepted, dnsOk>>
           /\ phase' \in {"dhcp", "probe", "dns"} => phase \in {"dhcp", "probe", "dns"}
  BY <1>3 DEF AnswerInv, AnswerIsOwn
<1>4. QED
  BY <1>1, <1>2, <1>3 DEF Next, Runner, Ended, vars, dnsVars, reportVars, Start,
     AcquireLease, DhcpTimedOut, StartProbe, ProbeNeighbor, KeepPolling,
     IntervalElapsed, EventIgnored, SessionEnds, RadioPosts, Exits

\* The success of the DNS probe is the affirmative answer to the very query of
\* the attempt then in progress, for every list of targets, every number of
\* attempts and every transaction base, and there is only one.
THEOREM AnswersAreOwn == Spec => []AnswerIsOwn
<1>1. Init => LeaseInv /\ AnswerInv
  BY InitLeaseInv DEF Init, AnswerInv, AnswerIsOwn
<1>2. LeaseInv /\ AnswerInv /\ [Next]_vars => (LeaseInv /\ AnswerInv)'
  BY StepLeaseInv, StepAnswer DEF LeaseInv
<1>3. AnswerInv => AnswerIsOwn
  BY DEF AnswerInv
<1>4. QED
  BY <1>1, <1>2, <1>3, PTL DEF Spec, SafeSpec

-----------------------------------------------------------------------------
(***************************************************************************)
(* The runner implements NetSession                                        *)
(***************************************************************************)
StatusOf(p) == IF p \in Running THEN "running" ELSE p

\* Every step of the runner is one of the session or a stutter.
LEMMA StepSession ==
  ASSUME TypeOK, [Next]_vars
  PROVE  [Session!SessionNext]_<<events, StatusOf(phase)>>
<1> USE DEF StatusOf, Running
<1>1. CASE DhcpTimedOut \/ (Start /\ phase' = "halted")
  <2>1. Session!Halt
    BY <1>1 DEF DhcpTimedOut, Start, Session!Halt, radioVars
  <2>2. QED
    BY <2>1 DEF Session!SessionNext
<1>2. CASE EventIgnored
  <2>1. Session!Ignore
    BY <1>2 DEF EventIgnored, Session!Ignore, Session!ExitEvents, Exits
  <2>2. QED
    BY <2>1 DEF Session!SessionNext, Session!Consume
<1>3. CASE SessionEnds
  <2>1. Session!Leave
    BY <1>3 DEF SessionEnds, Session!Leave, Session!ExitEvents, Exits
  <2>2. QED
    BY <2>1 DEF Session!SessionNext, Session!Consume
<1>4. CASE RadioPosts
  <2>1. \E e \in {"disconnected", "failed", "other"} :
          Len(events) < EventCap /\ events' = Append(events, e)
    BY <1>4 DEF RadioPosts
  <2>2. \E e \in Session!RadioEvents : Session!Post(e)
    BY <1>4, <2>1 DEF RadioPosts, Session!Post, Session!RadioEvents
  <2>3. QED
    BY <2>2 DEF Session!SessionNext
<1>5. CASE AcquireLease \/ StartProbe \/ ProbeNeighbor \/ ProbeDone \/ KeepPolling
           \/ IntervalElapsed
  BY <1>5 DEF KeepFromNow, AcquireLease, StartProbe, ProbeNeighbor, ProbeDone, KeepPolling,
              IntervalElapsed, radioVars
<1>6. CASE SendQuery \/ AwaitAnswer \/ AnswerTimedOut
  BY <1>6 DEF SendQuery, AwaitAnswer, AnswerTimedOut, NextAttempt, Attempt, KeepFromNow,
     radioVars
<1>7. CASE UNCHANGED vars
  BY <1>7 DEF vars, radioVars
<1>8. CASE Start /\ UNCHANGED phase
  BY <1>8 DEF Start, radioVars
<1>9. QED
  BY <1>1, <1>2, <1>3, <1>4, <1>5, <1>6, <1>7, <1>8 DEF Next, Runner, Ended, Start

\* The safety half of SessionRefined: events are consumed once and in order and
\* the session ends only with the event that ended it, however long the queue.
THEOREM SessionImplemented == Spec => Session!SafeSession
<1>1. Init => Session!SessionInit
  BY DEF Init, Session!SessionInit, Running
<1>2. LeaseInv /\ [Next]_vars => [Session!SessionNext]_(Session!sessionVars)
  BY StepSession DEF LeaseInv, TypeOK, Session!sessionVars, StatusOf
<1>3. QED
  BY <1>1, <1>2, LeaseInvariant, PTL DEF Spec, SafeSpec, Session!SafeSession
=============================================================================
