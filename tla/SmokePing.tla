----------------------------- MODULE SmokePing ------------------------------
(***************************************************************************)
(* The pings of the Wi-Fi smoke test, in its two builds.  "smoltcp" is     *)
(* wifi_init_smoke/src/network_runner.rs: the IPv4 stack is polled until   *)
(* it has a lease, and each sample polls it and drains its ICMP socket.    *)
(* "raw" is run_arp_probe of main.rs: frames are built by hand, and each   *)
(* step of a sample takes at most one frame from the receive queue.        *)
(*                                                                         *)
(* External: the network may answer a request any number of times, at any  *)
(* later time, or never, and sends frames of no interest; the DHCP client  *)
(* gains, changes and loses its lease in any poll; sending may fail.  A    *)
(* lease is "routed" or, without a router, "bare".                         *)
(***************************************************************************)
EXTENDS Integers, Sequences

CONSTANTS
  Count,        \* PING_COUNT, SAMPLE_COUNT
  PingTimeout,  \* PING_TIMEOUT_MS in ticks, SAMPLE_TIMEOUT_STEPS in steps
  DhcpTimeout,  \* DHCP_TIMEOUT_MS in ticks
  ArpSteps,     \* steps run_arp_probe waits for the gateway
  RxSlots,      \* frames that the receive queue or the socket has room for
  TxSlots,      \* packets that the socket's transmit buffer has room for
  MaxOther,     \* bound: frames of no interest that the network sends
  MaxDelay      \* bound: ticks that a sleep takes

ASSUME SmokePingAssumption ==
  /\ {DhcpTimeout, ArpSteps, MaxOther} \subseteq Nat
  /\ {Count, PingTimeout, RxSlots, TxSlots, MaxDelay} \subseteq Nat \ {0}

VARIABLES
  build,     \* "raw" or "smoltcp"
  phase,     \* "dhcp", "arp", a series, "steady" (keep_polling) or "ended"
  pc,        \* "sample": before a sample; "head": of a loop; "poll": in it
  waited,    \* ticks since started_at, or steps made, of the loop
  lease,     \* "none", "bare" or "routed"
  sequence,  \* the sample under way
  stats,     \* PingStats of each series
  reports,   \* the status written for each sample
  txq,       \* the ICMP socket's transmit buffer
  rxq,       \* its receive buffer, or the receive queue of the raw build
  air,       \* external: frames that may still arrive
  others,    \* frames of no interest sent so far
  heard      \* history: the samples whose answer was received in their time

progressVars == <<phase, pc, waited, sequence>>
reportVars == <<stats, reports>>
networkVars == <<air, others, heard>>
vars == <<build, progressVars, lease, reportVars, txq, rxq, networkVars>>

Series == {"gateway", "public"}
Outcomes == {"ok", "timeout", "tx_error"}
Echo(target, n) == [kind |-> "echo", from |-> target, seq |-> n]
Echoes == {Echo(target, n) : target \in Series, n \in 1 .. Count}
Frames == Echoes \cup [kind : {"arp_reply", "other"}]

Raw == build = "raw"
Waiting == phase \in Series /\ pc # "sample"

\* The loop's time or steps are used up; keep_polling has no limit.
Limit ==
  CASE phase = "dhcp" -> DhcpTimeout
    [] phase = "arp" -> ArpSteps
    [] OTHER -> PingTimeout

\* Variant: one step more.
ExpiredAfter == waited > Limit

Expired == waited >= Limit

-----------------------------------------------------------------------------
(***************************************************************************)
(* A sample and its verdict, the same in both builds                       *)
(***************************************************************************)
\* Variant: the sequence number alone decides.
MatchesSequence(frame) == frame.kind = "echo" /\ frame.seq = sequence

\* The reply to the sample under way.
Matches(frame) ==
  /\ frame.kind = "echo"
  /\ frame.from = phase /\ frame.seq = sequence

\* Variant: a request that was not sent is counted as sent.
CountAsSent == [stats EXCEPT ![phase].tx = @ + 1]

CountSent == [stats EXCEPT ![phase].tx = @ + 1]
CountFailed == [stats EXCEPT ![phase].errors = @ + 1]
CountAnswered == [stats EXCEPT ![phase].rx = @ + 1]

\* Writes the status and goes on to the next sample.
Report(outcome) ==
  /\ reports' = [reports EXCEPT ![phase] = Append(@, outcome)]
  /\ sequence' = sequence + 1
  /\ pc' = "sample"
  /\ UNCHANGED phase

\* Begins a loop that waits, or a series.
Enter(p, start) == phase' = p /\ pc' = start /\ waited' = 0 /\ sequence' = 1

\* The request is handed over: to the socket if it has room, or to the device.
SendSample ==
  /\ phase \in Series /\ pc = "sample" /\ sequence <= Count
  /\ waited' = 0
  /\ \/ /\ IF Raw
           THEN air' = air \cup {Echo(phase, sequence)} /\ UNCHANGED txq
           ELSE /\ Len(txq) < TxSlots
                /\ txq' = Append(txq, Echo(phase, sequence)) /\ UNCHANGED air
        /\ stats' = CountSent
        /\ pc' = "head"
        /\ UNCHANGED <<phase, sequence, reports>>
     \/ /\ Raw \/ Len(txq) = TxSlots
        /\ stats' = CountFailed
        /\ Report("tx_error")
        /\ UNCHANGED <<txq, air>>
  /\ UNCHANGED <<build, lease, rxq, others, heard>>

SampleTimedOut ==
  /\ phase \in Series /\ pc = "head" /\ Expired
  /\ Report("timeout")
  /\ UNCHANGED <<build, waited, lease, stats, txq, rxq, networkVars>>

SeriesEnds ==
  /\ phase \in Series /\ pc = "sample" /\ sequence > Count
  /\ IF phase = "gateway" THEN Enter("public", "sample")
     ELSE Enter(IF Raw THEN "ended" ELSE "steady", "head")
  /\ UNCHANGED <<build, lease, reportVars, txq, rxq, networkVars>>

-----------------------------------------------------------------------------
(***************************************************************************)
(* External: what arrives.  A frame is received while there is room.       *)
(***************************************************************************)
Receive(frame) ==
  /\ rxq' = IF Len(rxq) < RxSlots THEN Append(rxq, frame) ELSE rxq
  /\ heard' = IF Waiting /\ frame = Echo(phase, sequence) /\ Len(rxq) < RxSlots
              THEN heard \cup {<<phase, sequence>>} ELSE heard
  /\ UNCHANGED <<build, progressVars, lease, reportVars, txq>>

\* The stack receives only while it is polled.
FrameArrives ==
  /\ Raw \/ pc = "poll"
  /\ \E frame \in air :
       /\ Receive(frame)
       /\ air' \in {air, air \ {frame}}
       /\ UNCHANGED others

\* A request for our address in the raw build, or a frame that is discarded.
OtherArrives ==
  /\ Raw \/ pc = "poll"
  /\ others < MaxOther
  /\ Receive([kind |-> "other"])
  /\ others' = others + 1
  /\ UNCHANGED air

-----------------------------------------------------------------------------
(***************************************************************************)
(* "raw": run_arp_probe and run_ping_series                                *)
(***************************************************************************)
\* dhcp_probe returns; without a gateway, or if the request is not sent, the
\* probe is over.
DhcpReturns ==
  /\ Raw /\ phase = "dhcp"
  /\ \/ /\ lease' \in {"none", "bare", "routed"}
        /\ Enter("ended", "head")
        /\ UNCHANGED air
     \/ /\ lease' = "routed"
        /\ Enter("arp", "head")
        /\ air' = air \cup {[kind |-> "arp_reply"]}
  /\ UNCHANGED <<build, reportVars, txq, rxq, others, heard>>

\* One step: a frame, if there is one, and a sleep.
ArpStep ==
  /\ Raw /\ phase = "arp" /\ ~Expired
  /\ IF rxq # <<>> /\ Head(rxq).kind = "arp_reply"
     THEN Enter("gateway", "sample")
     ELSE waited' = waited + 1 /\ UNCHANGED <<phase, pc, sequence>>
  /\ rxq' = IF rxq = <<>> THEN rxq ELSE Tail(rxq)
  /\ UNCHANGED <<build, lease, reportVars, txq, networkVars>>

ArpTimedOut ==
  /\ Raw /\ phase = "arp" /\ Expired
  /\ Enter("ended", "head")
  /\ UNCHANGED <<build, lease, reportVars, txq, rxq, networkVars>>

\* Takes one frame, whatever it is: a request for our address is answered, and a
\* reply to an earlier sample is discarded.
SampleStep ==
  /\ Raw /\ phase \in Series /\ pc = "head" /\ ~Expired
  /\ rxq' = IF rxq = <<>> THEN rxq ELSE Tail(rxq)
  /\ IF rxq # <<>> /\ Matches(Head(rxq))
     THEN Report("ok") /\ stats' = CountAnswered /\ UNCHANGED waited
     ELSE waited' = waited + 1 /\ UNCHANGED <<phase, pc, sequence, reportVars>>
  /\ UNCHANGED <<build, lease, txq, networkVars>>

RawStep == DhcpReturns \/ ArpStep \/ ArpTimedOut \/ SampleStep

-----------------------------------------------------------------------------
(***************************************************************************)
(* "smoltcp": run, poll_network, ping_series and keep_polling              *)
(***************************************************************************)
PollBegins ==
  /\ ~Raw /\ pc = "head" /\ ~Expired
  /\ phase = "dhcp" => lease = "none"
  /\ pc' = "poll"
  /\ UNCHANGED <<build, phase, waited, sequence, lease, reportVars, txq, rxq, networkVars>>

\* A packet leaves the transmit buffer; without an address or a route it is lost.
PollTransmits ==
  /\ ~Raw /\ pc = "poll" /\ txq # <<>>
  /\ txq' = Tail(txq)
  /\ air' = IF lease = "routed" \/ (lease = "bare" /\ Head(txq).from = "gateway")
            THEN air \cup {Head(txq)} ELSE air
  /\ UNCHANGED <<build, progressVars, lease, reportVars, rxq, others, heard>>

\* The client's event: none, configured, anew or otherwise, or deconfigured.
LeaseAfterPoll == {"none", "bare", "routed"}

\* Variant: the drain looks at one frame only.
HeadReply == {i \in DOMAIN rxq : i = 1 /\ Matches(rxq[i])}

\* Where in the socket the reply is; duplicates may follow.
Replies == {i \in DOMAIN rxq : Matches(rxq[i])}

\* A series drains its socket up to the reply, and its sample is over.
Answered ==
  /\ phase \in Series
  /\ \E i \in Replies :
       /\ \A j \in Replies : i <= j
       /\ rxq' = SubSeq(rxq, i + 1, Len(rxq))
  /\ stats' = CountAnswered
  /\ Report("ok")
  /\ UNCHANGED waited

\* No reply: the socket is empty, and the loop sleeps.
Unanswered ==
  /\ phase \in Series => Replies = {}
  /\ rxq' = IF phase \in Series THEN <<>> ELSE rxq
  /\ pc' = "head"
  /\ waited' \in IF phase = "steady" THEN {0} ELSE waited + 1 .. waited + MaxDelay
  /\ UNCHANGED <<phase, sequence, reportVars>>

\* The event of the DHCP client is handled, then the socket.
PollEnds ==
  /\ ~Raw /\ pc = "poll"
  /\ lease' \in LeaseAfterPoll
  /\ Answered \/ Unanswered
  /\ UNCHANGED <<build, txq, networkVars>>

\* The first lease, which active_lease keeps: its router is pinged if it has one.
LeaseFound ==
  /\ ~Raw /\ phase = "dhcp" /\ pc = "head" /\ lease # "none"
  /\ Enter(IF lease = "routed" THEN "gateway" ELSE "public", "sample")
  /\ UNCHANGED <<build, lease, reportVars, txq, rxq, networkVars>>

DhcpTimedOut ==
  /\ ~Raw /\ phase = "dhcp" /\ pc = "head" /\ lease = "none" /\ Expired
  /\ Enter("steady", "head")
  /\ UNCHANGED <<build, lease, reportVars, txq, rxq, networkVars>>

StackStep == PollBegins \/ PollEnds \/ LeaseFound \/ DhcpTimedOut

-----------------------------------------------------------------------------
Init ==
  /\ build \in {"raw", "smoltcp"}
  /\ phase = "dhcp" /\ pc = "head" /\ waited = 0 /\ sequence = 1
  /\ lease = "none"
  /\ stats = [s \in Series |-> [tx |-> 0, rx |-> 0, errors |-> 0]]
  /\ reports = [s \in Series |-> <<>>]
  /\ txq = <<>> /\ rxq = <<>>
  /\ air = {} /\ others = 0 /\ heard = {}

\* The steps of the program itself.
Smoke == SendSample \/ SampleTimedOut \/ SeriesEnds \/ RawStep \/ StackStep

Next == Smoke \/ PollTransmits \/ FrameArrives \/ OtherArrives

\* The task runs again after each sleep, and a poll ends.
Spec == Init /\ [][Next]_vars /\ WF_vars(Smoke)

-----------------------------------------------------------------------------
(***************************************************************************)
(* Properties                                                              *)
(***************************************************************************)
TypeOK ==
  /\ build \in {"raw", "smoltcp"}
  /\ phase \in Series \cup {"dhcp", "arp", "steady", "ended"}
  /\ pc \in {"sample", "head", "poll"}
  /\ waited \in 0 .. Limit + MaxDelay - 1 /\ sequence \in 1 .. Count + 1
  /\ lease \in {"none", "bare", "routed"}
  /\ stats \in [Series -> [tx : 0 .. Count, rx : 0 .. Count, errors : 0 .. Count]]
  /\ reports \in [Series -> Seq(Outcomes)] /\ \A s \in Series : Len(reports[s]) <= Count
  /\ txq \in Seq(Echoes) /\ Len(txq) <= TxSlots
  /\ rxq \in Seq(Frames) /\ Len(rxq) <= RxSlots
  /\ air \subseteq Frames /\ others \in 0 .. MaxOther
  /\ heard \subseteq Series \X (1 .. Count)

\* A sample is "ok" only if its own reply came in its own time: not that of an
\* earlier sample, not that of the other target, whose numbers are the same; and
\* with the stack a reply received in time is found, whatever lies before it
\* (ping_series drains the socket, run_ping_series takes a frame per step).
SamplesHonest ==
  \A s \in Series : \A i \in DOMAIN reports[s] :
    /\ reports[s][i] = "ok" => <<s, i>> \in heard
    /\ ~Raw /\ <<s, i>> \in heard => reports[s][i] = "ok"

Begun(s) == phase = s \/ reports[s] # <<>>
InTime(s) == {i \in 1 .. Count : <<s, i>> \in heard}
Judged(s) == stats[s].tx - IF phase = s /\ pc # "sample" THEN 1 ELSE 0

Gateway == INSTANCE PingSeries WITH
  begun <- Begun("gateway"), answered <- InTime("gateway"), reports <- reports["gateway"],
  tx <- Judged("gateway"), rx <- stats["gateway"].rx, errors <- stats["gateway"].errors

Public == INSTANCE PingSeries WITH
  begun <- Begun("public"), answered <- InTime("public"), reports <- reports["public"],
  tx <- Judged("public"), rx <- stats["public"].rx, errors <- stats["public"].errors

\* Each series is a PingSeries: a report for each sample, in order, statistics that
\* are those of the reports, and an end (ping_series, run_ping_series).
SeriesRefined == Gateway!Spec /\ Public!Spec
=============================================================================
