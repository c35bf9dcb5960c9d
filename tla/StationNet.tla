----------------------------- MODULE StationNet -----------------------------
(***************************************************************************)
(* The station's IPv4 runner (wifi_connectivity/src/network_runner.rs):    *)
(* DHCP acquisition, the local UDP echo probe, the public DNS probe and    *)
(* the steady loop that keeps the lease, all polling one smoltcp stack and *)
(* all waiting between two polls for a radio event that ends the session.  *)
(*                                                                         *)
(* The smoltcp DHCP client, the network and the radio are external: they   *)
(* are modelled from what the runner observes of them.  Time is in ticks;  *)
(* a wait lets 1 to MaxDelay ticks pass, or none when it is cut short.     *)
(***************************************************************************)
EXTENDS DnsContract, Sequences, FiniteSets

CONSTANTS
  Hosts,            \* the other hosts of the network
  NoHost,           \* "none": no router in a lease, no default route
  Addresses,        \* the addresses a server may lease
  NoAddress,        \* the interface has no address
  Leases,           \* the leases the DHCP servers may grant
  NoLease,          \* Option::None
  DnsTargets,       \* the public DNS servers, in the order they are tried
  TransactionBase,  \* DNS_TRANSACTION_BASE
  DhcpTimeout,      \* DHCP_TIMEOUT_MS
  RestartAfter,     \* DHCP_RECOVERY_RESTART_MS
  ProbeTimeout,     \* LOCAL_PROBE_TIMEOUT_MS
  RecoveryDelay,    \* LOCAL_PROBE_RECOVERY_DELAY_MS
  ProbeInterval,    \* LOCAL_PROBE_INTERVAL_MS
  PrimaryAttempts,  \* LOCAL_PROBE_PRIMARY_ATTEMPTS
  ProbeAttempts,    \* LOCAL_PROBE_ATTEMPTS
  AttemptsPerTarget,\* DNS_ATTEMPTS_PER_TARGET
  DnsTimeout,       \* DNS_TIMEOUT_MS
  MaxDelay,         \* the longest time between two iterations of a loop
  Burst,            \* datagrams that one poll of the interface may deliver
  EventCap,         \* room in the radio's event queue
  OtherEvents       \* radio events, of no interest to the runner, in a session

Lease == [address : Addresses, server : Hosts, router : Hosts \cup {NoHost}]

ASSUME LeaseAssumption ==
  /\ Leases \subseteq Lease
  /\ NoLease \notin Lease
  /\ NoHost \notin Hosts
  /\ NoAddress \notin Addresses

ASSUME TimeAssumption ==
  /\ {DhcpTimeout, RestartAfter, ProbeTimeout, RecoveryDelay, ProbeInterval,
      DnsTimeout, MaxDelay} \subseteq Nat \ {0}

ASSUME BoundAssumption ==
  /\ {PrimaryAttempts, ProbeAttempts, AttemptsPerTarget, Burst, EventCap} \subseteq Nat \ {0}
  /\ PrimaryAttempts <= ProbeAttempts
  /\ DnsTargets \in Seq(Hosts) /\ DnsTargets # <<>>
  /\ TransactionBase \in Word
  /\ OtherEvents \in Nat

VARIABLES
  phase,          \* the loop `run` is in, or how it ended
  pc,             \* "start", or where in the loop: "body", "wait" or, between
                  \* queries, "send"
  elapsed,        \* ticks since the started_at of the current loop
  client,         \* external: the smoltcp DHCP client
  lease,          \* the runner's lease
  addr, route,    \* the interface's address and default route
  active,         \* active_lease, the copy taken when DHCP completed
  restartIn,      \* ticks until dhcp_restart_at, or NoTimer
  sawClient,      \* client_packets > dhcp_baseline.client_packets
  sawServer,      \* server_packets > dhcp_baseline.server_packets
  renewReported,  \* A4_DHCP_RENEW_OK was written
  renewed,        \* history: a server acknowledged a renewal since the baseline
  txBusy,         \* the one slot of the UDP socket's transmit buffer is taken
  sent,           \* echo probes handed to the socket
  sinceSend,      \* ticks since last_send_at
  received,       \* received_sequences
  replies,        \* echo replies counted
  attempt,        \* number of the DNS query
  asked,          \* external: the queries that have left, whose answers may come
  accepted,       \* history: the DNS answers accepted, each with the attempt
  localEcho,      \* what local_neighbor_probe returned
  dataPathOk,     \* RF5C_LOCAL_DATA_PATH_OK was written
  dnsOk,          \* RF5C_PUBLIC_DNS_OK was written
  events,         \* external: the radio's event queue
  others          \* external: uninteresting events still to come

dhcpVars == <<client, lease, addr, route>>
renewVars == <<sawClient, sawServer, renewed, renewReported>>
probeVars == <<sent, sinceSend, received, replies>>
dnsVars == <<attempt, asked, accepted>>
reportVars == <<localEcho, dataPathOk, dnsOk>>
radioVars == <<events, others>>
vars == <<phase, pc, elapsed, dhcpVars, active, restartIn, renewVars, txBusy,
          probeVars, dnsVars, reportVars, radioVars>>

\* Variant: a failed backend is taken for an event of no interest.
ExitsDisconnectOnly == {"disconnected"}

Exits == {"disconnected", "failed"}
Running == {"dhcp", "probe", "dns", "steady"}
NoTimer == -1

\* total_attempts, a u16 that saturates.
DnsAttempts ==
  IF AttemptsPerTarget * Len(DnsTargets) <= MaxWord
  THEN AttemptsPerTarget * Len(DnsTargets) ELSE MaxWord

\* The DNS target of a query: `targets[(attempt - 1) % targets.len()]`.
TargetOf(n) == DnsTargets[((n - 1) % Len(DnsTargets)) + 1]

\* Variant: an id for each target.
TransactionIdOfTarget(n) ==
  (TransactionBase + ((n - 1) % Len(DnsTargets)) + 1) % (MaxWord + 1)

TransactionId(n) == (TransactionBase + n) % (MaxWord + 1)

Sequences == 0 .. ProbeAttempts - 1
Echo == [from : Hosts, seq : Sequences]

\* What a server may send back, from the address that was asked or another of
\* its own, to a query that has left, however late and however often.
Answer == [query : 1 .. DnsAttempts, from : Hosts, outcome : Outcomes]
Acceptance == [answer : Answer, attempt : 1 .. DnsAttempts]

-----------------------------------------------------------------------------
(***************************************************************************)
(* External: the DHCP client of smoltcp.  "bound" and "renewing" are its   *)
(* one Renewing state, before and after it has asked for a renewal.        *)
(* `changed` is the event that dhcp.poll() has still to deliver.           *)
(***************************************************************************)
ClientStates == {"discovering", "requesting", "bound", "renewing"}
Client == [state : ClientStates, config : Leases \cup {NoLease}, changed : BOOLEAN]

HasConfig(c) == c.state \in {"bound", "renewing"}

\* Socket::reset: back to discovery; losing a configuration is an event.
ResetClient(c) ==
  [state |-> "discovering", config |-> NoLease, changed |-> c.changed \/ HasConfig(c)]

\* A step of the client: its new state, and whether it sent or received a
\* packet or had a renewal acknowledged.
Step(c, tx, rx, ack) == [client |-> c, tx |-> tx, rx |-> rx, renewed |-> ack]

In(c, state) == [c EXCEPT !.state = state]

Bind(c, l) ==
  [state |-> "bound", config |-> l, changed |-> c.changed \/ l # c.config]

\* DISCOVER; OFFER, answered by a REQUEST.
DiscoverySteps(c) ==
  {Step(c, TRUE, FALSE, FALSE), Step(In(c, "requesting"), TRUE, TRUE, FALSE)}

\* REQUEST again; no more retries, or NAK; ACK, of a lease or of its renewal.
RequestSteps(c, renewal) ==
  {Step(c, TRUE, FALSE, FALSE),
   Step(ResetClient(c), FALSE, FALSE, FALSE),
   Step(ResetClient(c), FALSE, TRUE, FALSE)}
  \cup {Step(Bind(c, l), FALSE, TRUE, renewal) : l \in Leases}

\* What one interface.poll may do to the client: nothing, or a step of its
\* own.  A bound client asks for a renewal at T1 and loses an expired lease.
StackSteps(c) ==
  {Step(c, FALSE, FALSE, FALSE)} \cup
  CASE c.state = "discovering" -> DiscoverySteps(c)
    [] c.state = "requesting"  -> RequestSteps(c, FALSE)
    [] c.state = "bound"       -> {Step(In(c, "renewing"), TRUE, FALSE, FALSE)}
    [] c.state = "renewing"    -> RequestSteps(c, TRUE)

-----------------------------------------------------------------------------
(***************************************************************************)
(* poll_network, given the step c the client took in interface.poll: the   *)
(* lease, the interface and the client once dhcp.poll()'s event is handled.*)
(***************************************************************************)
LeaseAfter(c) ==
  IF ~c.changed THEN lease ELSE IF HasConfig(c) THEN c.config ELSE NoLease

AddrAfter(c) ==
  IF ~c.changed THEN addr ELSE IF HasConfig(c) THEN c.config.address ELSE NoAddress

\* Variant: losing the lease leaves the default route behind.
RouteAfterKept(c) ==
  IF c.changed /\ HasConfig(c) THEN c.config.router ELSE route

RouteAfter(c) ==
  IF ~c.changed THEN route ELSE IF HasConfig(c) THEN c.config.router ELSE NoHost

\* Delivering the event clears it; losing a lease also resets the client.
ClientAfter(c) ==
  LET told == [c EXCEPT !.changed = FALSE] IN
  IF c.changed /\ ~HasConfig(c) /\ lease # NoLease THEN ResetClient(told) ELSE told

PollInterface(s) ==
  /\ lease' = LeaseAfter(s.client)
  /\ addr' = AddrAfter(s.client)
  /\ route' = RouteAfter(s.client)
  /\ sawClient' = (sawClient \/ s.tx)
  /\ sawServer' = (sawServer \/ s.rx)
  /\ renewed' = (renewed \/ s.renewed)

\* poll_network as the probes and the DHCP loop use it.
PollNetwork ==
  \E s \in StackSteps(client) :
    /\ PollInterface(s)
    /\ client' = ClientAfter(s.client)

\* A poll may send the datagram in the UDP transmit slot, or keep it, while
\* its neighbour is unknown.
SlotAfterPoll == {FALSE, txBusy}

\* What a poll may put in the UDP receive buffer: at most Burst datagrams.
Arrivals(S) == {{}} \cup {{f[i] : i \in 1 .. Burst} : f \in [1 .. Burst -> S]}

-----------------------------------------------------------------------------
(***************************************************************************)
(* `run`: wait for the lease.                                              *)
(***************************************************************************)
\* A device without a hardware address is the end.
Start ==
  /\ phase = "dhcp" /\ pc = "start"
  /\ \/ pc' = "body" /\ UNCHANGED phase
     \/ phase' = "halted" /\ UNCHANGED pc
  /\ UNCHANGED <<elapsed, dhcpVars, active, restartIn, renewVars, txBusy,
                 probeVars, dnsVars, reportVars, radioVars>>

AcquireLease ==
  /\ phase = "dhcp" /\ pc = "body"
  /\ lease = NoLease /\ elapsed < DhcpTimeout
  /\ PollNetwork
  /\ pc' = "wait"
  /\ UNCHANGED <<phase, elapsed, active, restartIn, renewReported, txBusy,
                 probeVars, dnsVars, reportVars, radioVars>>

\* No lease in time: diagnostics, then halt.
DhcpTimedOut ==
  /\ phase = "dhcp" /\ pc = "body"
  /\ lease = NoLease /\ elapsed >= DhcpTimeout
  /\ phase' = "halted"
  /\ UNCHANGED <<pc, elapsed, dhcpVars, active, restartIn, renewVars, txBusy,
                 probeVars, dnsVars, reportVars, radioVars>>

\* The lease is copied, the packet counters are the baseline from here on and
\* the echo probe starts.
StartProbe ==
  /\ phase = "dhcp" /\ pc = "body"
  /\ lease # NoLease
  /\ phase' = "probe"
  /\ elapsed' = 0
  /\ active' = lease
  /\ sawClient' = FALSE /\ sawServer' = FALSE /\ renewed' = FALSE
  /\ sent' = 0 /\ sinceSend' = ProbeInterval /\ received' = {} /\ replies' = 0
  /\ UNCHANGED <<pc, dhcpVars, restartIn, renewReported, txBusy, dnsVars,
                 reportVars, radioVars>>

-----------------------------------------------------------------------------
(***************************************************************************)
(* local_neighbor_probe                                                    *)
(***************************************************************************)
ProbeTarget == IF active.router # NoHost THEN active.router ELSE active.server

\* The sequences that one drain of the socket credits.
Credited(D) == {e.seq : e \in {d \in D : d.from = ProbeTarget /\ d.seq < sent}}

RecoveryReady == sent < PrimaryAttempts \/ elapsed >= RecoveryDelay

\* Variant: no interval between two probes.
ProbeDueUnpaced == sent < ProbeAttempts /\ RecoveryReady

ProbeDue ==
  /\ sent < ProbeAttempts
  /\ RecoveryReady
  /\ sinceSend >= ProbeInterval

\* send_slice: the next probe goes to the transmit slot if that is free.
SendProbe(busy) ==
  IF ProbeDue /\ ~busy
  THEN /\ sent' = sent + 1
       /\ sinceSend' = 0
       /\ txBusy' = TRUE
  ELSE /\ txBusy' = busy
       /\ UNCHANGED <<sent, sinceSend>>

\* Variant: every datagram counts, a duplicate of an earlier reply too.
CountEveryReply(D) ==
  /\ received' = received \cup Credited(D)
  /\ replies' = replies + Cardinality(Credited(D))

\* The replies a drain adds: a sequence counts once.
CountReplies(D) ==
  /\ received' = received \cup Credited(D)
  /\ replies' = replies + Cardinality(Credited(D) \ received)

ProbeNeighbor ==
  /\ phase = "probe" /\ pc = "body"
  /\ elapsed < ProbeTimeout
  /\ PollNetwork
  /\ \E D \in Arrivals(Echo) : CountReplies(D)
  /\ \E busy \in SlotAfterPoll : SendProbe(busy)
  /\ pc' = "wait"
  /\ UNCHANGED <<phase, elapsed, active, restartIn, renewReported, dnsVars,
                 reportVars, radioVars>>

\* local_path_reachable: LOCAL_PROBE_REQUIRED_REPLIES is 1.
PathReachable == replies >= 1

\* The probes are over: the reports are written and keep_polling begins, which
\* does not read the UDP socket.  The data path needs direct ARP evidence too.
KeepFromNow ==
  /\ phase' = "steady" /\ pc' = "body"
  /\ elapsed' = 0
  /\ attempt' = 0 /\ asked' = {}
  /\ \E arp \in BOOLEAN : dataPathOk' = (arp /\ localEcho')
  /\ dnsOk' = (accepted' # {})

\* The probe's time is up.  A lease without a router skips the DNS probe.
ProbeDone ==
  /\ phase = "probe" /\ pc = "body"
  /\ elapsed >= ProbeTimeout
  /\ localEcho' = PathReachable
  /\ UNCHANGED accepted
  /\ IF active.router # NoHost
     THEN /\ phase' = "dns" /\ pc' = "send" /\ elapsed' = 0 /\ attempt' = 1
          /\ UNCHANGED <<asked, dataPathOk, dnsOk>>
     ELSE KeepFromNow
  /\ sent' = 0 /\ sinceSend' = 0 /\ received' = {} /\ replies' = 0
  /\ UNCHANGED <<dhcpVars, active, restartIn, renewVars, txBusy, radioVars>>

-----------------------------------------------------------------------------
(***************************************************************************)
(* dns_probe                                                               *)
(***************************************************************************)
\* The loop goes on with attempt n.
Attempt(n) ==
  /\ phase' = "dns" /\ pc' = "send" /\ elapsed' = 0 /\ attempt' = n
  /\ UNCHANGED <<asked, dataPathOk, dnsOk>>

\* Variant: a failed attempt is tried again.
SameAttempt == Attempt(attempt)

\* Variant: one attempt too many.
AttemptBeyond ==
  IF attempt <= DnsAttempts THEN Attempt(attempt + 1) ELSE KeepFromNow

\* The loop over the attempts: on to the next one, or to the steady loop.
NextAttempt ==
  IF attempt < DnsAttempts THEN Attempt(attempt + 1) ELSE KeepFromNow

\* A transmit slot that is still taken is a tx_error: the attempt is over at
\* once, with no poll and no wait.
SendQuery ==
  /\ phase = "dns" /\ pc = "send"
  /\ UNCHANGED <<accepted, localEcho>>
  /\ IF txBusy
     THEN NextAttempt /\ UNCHANGED txBusy
     ELSE /\ txBusy' = TRUE
          /\ pc' = "body" /\ elapsed' = 0
          /\ UNCHANGED <<phase, attempt, asked, dataPathOk, dnsOk>>
  /\ UNCHANGED <<dhcpVars, active, restartIn, renewVars, probeVars, radioVars>>

\* The queries that have left after a poll: while an attempt waits for its
\* answer, a transmit slot that is taken holds its query.
LeftBy(busy) == IF txBusy /\ ~busy THEN asked \cup {attempt} ELSE asked

\* The answers that may have come with the poll.
Answers(queries) == {a \in Answer : a.query \in queries}

\* The answer as it comes in: the server repeats the id of its query.
Received(a) == Response(BuildQuery(TransactionId(a.query)), a.outcome)

\* The endpoint must be the one queried and validate_response must accept the
\* datagram for this transaction id.
Accepts(a) ==
  /\ a.from = TargetOf(attempt)
  /\ ValidateResponse(Received(a), TransactionId(attempt))

\* One poll of the wait for an answer; an accepted one ends the probe.
AwaitAnswer ==
  /\ phase = "dns" /\ pc = "body"
  /\ elapsed < DnsTimeout
  /\ PollNetwork
  /\ UNCHANGED localEcho
  /\ \E busy \in SlotAfterPoll :
       LET queries == LeftBy(busy)
       IN  /\ txBusy' = busy
           /\ \E D \in Arrivals(Answers(queries)) :
                \/ \E a \in D :
                     /\ Accepts(a)
                     /\ accepted' = accepted \cup {[answer |-> a, attempt |-> attempt]}
                     /\ KeepFromNow
                \/ /\ \A a \in D : ~Accepts(a)
                   /\ asked' = queries
                   /\ pc' = "wait"
                   /\ UNCHANGED <<accepted, phase, elapsed, attempt, dataPathOk, dnsOk>>
  /\ UNCHANGED <<active, restartIn, renewReported, probeVars, radioVars>>

AnswerTimedOut ==
  /\ phase = "dns" /\ pc = "body"
  /\ elapsed >= DnsTimeout
  /\ UNCHANGED <<accepted, localEcho>>
  /\ NextAttempt
  /\ UNCHANGED <<dhcpVars, active, restartIn, renewVars, txBusy, probeVars, radioVars>>

-----------------------------------------------------------------------------
(***************************************************************************)
(* keep_polling                                                            *)
(***************************************************************************)
\* The restart deadline after a poll that left lease l and client c: it is
\* cleared by a lease, armed by its absence, and fires once it is reached.
RestartDue(l) == l = NoLease /\ restartIn = 0

\* Variant: every iteration without a lease arms the deadline again.
RestartTimerRearmed(l) == IF l # NoLease THEN NoTimer ELSE RestartAfter

RestartTimer(l) ==
  IF l # NoLease THEN NoTimer
  ELSE IF restartIn = NoTimer \/ restartIn = 0 THEN RestartAfter
  ELSE restartIn

\* The renewal marker is written once both packet counters have moved.
RenewSeen(s) == (sawClient \/ s.tx) /\ (sawServer \/ s.rx)

KeepPolling ==
  /\ phase = "steady" /\ pc = "body"
  /\ \E s \in StackSteps(client) :
       LET l == LeaseAfter(s.client)
           c == ClientAfter(s.client)
       IN  /\ PollInterface(s)
           /\ client' = IF RestartDue(l) THEN ResetClient(c) ELSE c
           /\ restartIn' = RestartTimer(l)
           /\ renewReported' = (renewReported \/ RenewSeen(s))
  /\ txBusy' \in SlotAfterPoll
  /\ pc' = "wait"
  /\ UNCHANGED <<phase, elapsed, active, probeVars, dnsVars, reportVars, radioVars>>

-----------------------------------------------------------------------------
(***************************************************************************)
(* wait_poll_interval: a queued event is consumed, else the interval ends. *)
(***************************************************************************)
\* d ticks pass for the clocks that the current loop reads.
Pass(d) ==
  /\ elapsed' = IF phase = "steady" THEN elapsed ELSE elapsed + d
  /\ sinceSend' = IF phase = "probe" THEN sinceSend + d ELSE sinceSend
  /\ restartIn' = IF restartIn = NoTimer THEN NoTimer
                  ELSE IF restartIn > d THEN restartIn - d ELSE 0

IntervalElapsed ==
  /\ pc = "wait" /\ phase \in Running
  /\ events = <<>>
  /\ \E d \in 1 .. MaxDelay : Pass(d)
  /\ pc' = "body"
  /\ UNCHANGED <<phase, dhcpVars, active, renewVars, txBusy, sent, received,
                 replies, dnsVars, reportVars, radioVars>>

EventIgnored ==
  /\ pc = "wait" /\ phase \in Running
  /\ events # <<>> /\ Head(events) \notin Exits
  /\ events' = Tail(events)
  /\ \E d \in 0 .. MaxDelay : Pass(d)
  /\ pc' = "body"
  /\ UNCHANGED <<phase, dhcpVars, active, renewVars, txBusy, sent, received,
                 replies, dnsVars, reportVars, others>>

\* Disconnected or Failed: every loop returns the exit to its caller.
SessionEnds ==
  /\ pc = "wait" /\ phase \in Running
  /\ events # <<>> /\ Head(events) \in Exits
  /\ events' = Tail(events)
  /\ phase' = Head(events)
  /\ UNCHANGED <<pc, elapsed, dhcpVars, active, restartIn, renewVars, txBusy,
                 probeVars, dnsVars, reportVars, others>>

\* External: the radio queues an event.  Its task shares the executor, in which
\* `halt` spins for ever.
RadioPosts ==
  /\ phase # "halted"
  /\ Len(events) < EventCap
  /\ \/ /\ others > 0
        /\ others' = others - 1
        /\ events' = Append(events, "other")
     \/ /\ \E e \in {"disconnected", "failed"} : events' = Append(events, e)
        /\ UNCHANGED others
  /\ UNCHANGED <<phase, pc, elapsed, dhcpVars, active, restartIn, renewVars, txBusy,
                 probeVars, dnsVars, reportVars>>

\* The runner has returned or halted.
Ended ==
  /\ phase \notin Running
  /\ UNCHANGED vars

-----------------------------------------------------------------------------
Init ==
  /\ phase = "dhcp" /\ pc = "start" /\ elapsed = 0
  \* A new client has a first Deconfigured event to deliver.
  /\ client = [state |-> "discovering", config |-> NoLease, changed |-> TRUE]
  /\ lease = NoLease /\ addr = NoAddress /\ route = NoHost
  /\ active = NoLease
  /\ restartIn = NoTimer
  /\ sawClient = FALSE /\ sawServer = FALSE
  /\ renewed = FALSE /\ renewReported = FALSE
  /\ txBusy = FALSE
  /\ sent = 0 /\ sinceSend = 0 /\ received = {} /\ replies = 0
  /\ attempt = 0 /\ asked = {} /\ accepted = {}
  /\ localEcho = FALSE /\ dataPathOk = FALSE /\ dnsOk = FALSE
  /\ events = <<>> /\ others = OtherEvents

Runner ==
  \/ Start \/ AcquireLease \/ DhcpTimedOut \/ StartProbe
  \/ ProbeNeighbor \/ ProbeDone
  \/ SendQuery \/ AwaitAnswer \/ AnswerTimedOut
  \/ KeepPolling
  \/ IntervalElapsed \/ EventIgnored \/ SessionEnds

Next == Runner \/ RadioPosts \/ Ended

SafeSpec == Init /\ [][Next]_vars

\* The executor polls the task again whenever it is ready: the runner never
\* stops between two of its steps.  Nothing is assumed of radio and network.
Spec == SafeSpec /\ WF_vars(Runner)

-----------------------------------------------------------------------------
(***************************************************************************)
(* Properties                                                              *)
(***************************************************************************)
ControlOK ==
  /\ phase \in Running \cup {"disconnected", "failed", "halted"}
  /\ pc \in {"start", "body", "wait", "send"}
  /\ elapsed \in Nat
  /\ restartIn \in (0 .. RestartAfter) \cup {NoTimer}
  /\ active \in Leases \cup {NoLease}
  /\ phase \in {"probe", "dns", "steady"} => active # NoLease

NetworkOK ==
  /\ client \in Client
  /\ lease \in Leases \cup {NoLease}
  /\ addr \in Addresses \cup {NoAddress}
  /\ route \in Hosts \cup {NoHost}
  /\ sawClient \in BOOLEAN /\ sawServer \in BOOLEAN
  /\ renewed \in BOOLEAN /\ renewReported \in BOOLEAN

ProbeOK ==
  /\ txBusy \in BOOLEAN
  /\ sent \in 0 .. ProbeAttempts
  /\ sinceSend \in Nat
  /\ received \in SUBSET Sequences
  /\ replies \in Nat

DnsOK ==
  /\ attempt \in 0 .. DnsAttempts
  /\ phase = "dns" => attempt > 0
  /\ asked \in SUBSET (1 .. DnsAttempts)
  /\ accepted \in SUBSET Acceptance
  /\ localEcho \in BOOLEAN /\ dataPathOk \in BOOLEAN /\ dnsOk \in BOOLEAN

RadioOK ==
  /\ events \in Seq({"disconnected", "failed", "other"})
  /\ others \in Nat

\* Every variable keeps to its range: the attempts, sequences and timers
\* never leave the limits the constants of network_runner.rs set.
TypeOK == ControlOK /\ NetworkOK /\ ProbeOK /\ DnsOK /\ RadioOK

\* Between two polls the runner's lease is the configuration of the DHCP
\* client, and the interface has the address and the default route of that
\* lease and no other: through renewals that change the router or remove it,
\* the loss of the lease, the reset in the Deconfigured handler and the
\* restarts of keep_polling, none of which may drop a lease just obtained.
LeaseAgreement ==
  /\ lease = IF HasConfig(client) THEN client.config ELSE NoLease
  /\ addr = IF lease = NoLease THEN NoAddress ELSE lease.address
  /\ route = IF lease = NoLease THEN NoHost ELSE lease.router

\* A restart deadline runs exactly while keep_polling has no lease, and while
\* the lease stays down it only moves out by firing: no iteration postpones
\* it, so DHCP is restarted every RestartAfter however long the outage lasts.
DeadlineStep ==
  phase = "steady" /\ phase' = "steady" =>
    /\ pc' = "wait" => (restartIn' = NoTimer <=> lease' # NoLease)
    /\ lease = NoLease /\ lease' = NoLease /\ restartIn' > restartIn
         => \/ restartIn = NoTimer
            \/ restartIn = 0 /\ client'.state = "discovering"

RestartDeadlineKept == [][DeadlineStep]_vars

\* Whatever datagrams arrive, in any order and any number of times, a reply is
\* counted once for a probe that was sent: `lost = sent - replies` is what it
\* says and RF5C_LOCAL_ECHO_OK needs a probe that was answered.
ProbeEvidence ==
  /\ received \subseteq 0 .. sent - 1
  /\ replies = Cardinality(received)

\* The probe never floods its target, whatever the delays between two polls:
\* probes are an interval apart and those past the primary attempts all come
\* after the recovery delay, again an interval apart.
ProbePacing ==
  phase = "probe" =>
    /\ sent > 0 => (sent - 1) * ProbeInterval + sinceSend <= elapsed
    /\ sent > PrimaryAttempts =>
         RecoveryDelay + (sent - PrimaryAttempts - 1) * ProbeInterval + sinceSend <= elapsed

\* RF5C_PUBLIC_DNS_OK is earned by this attempt alone: the server asked last
\* answered the very query of the attempt in progress, and in the affirmative.
\* An answer that comes late, after its attempt was given up, is never credited
\* to another one, though attempts take turns at the same servers, some fail
\* before they are sent and others leave long after they were queued.
AnswerIsOwn ==
  /\ \A a \in accepted :
       /\ a.answer.query = a.attempt
       /\ a.answer.from = TargetOf(a.attempt)
       /\ a.answer.outcome = "answered"
  /\ \A a, b \in accepted : a = b
  /\ dnsOk <=> accepted # {}

\* The probes of `run` come to an end: it reaches the steady loop, returns or
\* halts, whatever the network does.
ProbesTerminate == phase = "dhcp" ~> phase \notin {"dhcp", "probe", "dns"}

\* The runner keeps what NetSession promises: each event is consumed once, in
\* order and without being left behind, and the session ends with exactly the
\* event that ended it, in all four loops.
Session == INSTANCE NetSession WITH
  status <- IF phase \in Running THEN "running" ELSE phase
SessionRefined == Session!SessionSpec

\* What CHANGELOG.md says the fixture proves: the marker A4_DHCP_RENEW_OK means
\* that a lease was renewed.
RenewOkMeansRenewed == renewReported => renewed
=============================================================================
