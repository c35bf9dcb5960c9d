------------------------------- MODULE SoftAp -------------------------------
(***************************************************************************)
(* The services of the two-board fixture's access point                    *)
(* (wifi_softap/src/network.rs): one loop that drains the events of the    *)
(* coexistence controller, polls the network stack, serves at most one     *)
(* DHCP request and one echo, polls again and waits.                       *)
(*                                                                         *)
(* External: the stack moves one datagram at a time between the network    *)
(* and the bounded buffers of the two sockets, and a poll may end after any*)
(* number of them; the network loses, delays and reorders; stations run    *)
(* smoltcp's DHCP client; the controller posts events from another task.   *)
(***************************************************************************)
EXTENDS Integers, Sequences, FiniteSets, SequencesExt

CONSTANTS
  Stations,      \* the stations of the network
  Activity,      \* the coexistence build: "none", "ble" or "sle"
  DhcpSlots,     \* packets each buffer of the DHCP socket has room for
  EchoRxSlots,   \* packets the echo socket's receive buffer has room for
  EchoTxSlots,   \* packets the echo socket's transmit buffer has room for
  EventSlots,    \* COEX_EVENTS
  EchoGoal,      \* echoes before the acceptance is reported
  MaxEchoes,     \* bound: echo requests that arrive
  MaxXid,        \* bound: DHCP messages that stations send
  MaxEvents      \* bound: events of the controller

ASSUME SoftApAssumption ==
  /\ Activity \in {"none", "ble", "sle"}
  /\ {DhcpSlots, EchoRxSlots, EchoTxSlots, EventSlots, EchoGoal}
       \subseteq Nat \ {0}
  /\ {MaxEchoes, MaxXid, MaxEvents} \subseteq Nat

VARIABLES
  pc,          \* where the loop of `run` is
  echoRx, echoTx, dhcpRx, dhcpTx,  \* the sockets' buffers
  diagnostics, \* the counters of NetworkDiagnostics
  acceptance,  \* "none", "passed" or "failed": what was reported
  started,     \* ble_started, sle_started
  events,      \* the controller's event queue
  dropped,     \* controller.dropped_events() # 0
  posted,      \* history: events the controller was to post
  client,      \* external: each station's DHCP client
  sentXids,    \* external: DHCP messages sent so far
  air,         \* external: DHCP messages on their way to the access point
  replies,     \* external: DHCP replies that were transmitted
  echoed,      \* external: echo replies that were transmitted
  arrived,     \* history: echo requests the stack has seen
  overflows,   \* history: echo requests that found no room to be received
  truncated,   \* history: echo requests too long for service_echo's own buffer
  lateEchoes   \* history: echoes answered since an event was dropped

socketVars == <<echoRx, echoTx, dhcpRx, dhcpTx>>
controllerVars == <<started, events, dropped, posted>>
clientVars == <<client, sentXids, air>>
networkVars == <<clientVars, replies, echoed, arrived, overflows>>
historyVars == <<truncated, lateEchoes>>
vars == <<pc, socketVars, diagnostics, acceptance, controllerVars,
          networkVars, historyVars>>

Locations ==
  {"services", "poll", "dhcp", "echo", "flush", "wait", "halted"}

\* A datagram of either service is known by its sender and a number; an echo
\* request is long if it has more than the 256 bytes of service_echo's buffer,
\* half of what the socket can receive.
EchoRequests == [from : Stations, id : 1 .. MaxEchoes, long : BOOLEAN]
DhcpKinds == {"discover", "request", "other", "invalid"}
DhcpRequest ==
  [client : Stations, id : 1 .. MaxXid, kind : DhcpKinds,
   addressed : BOOLEAN, broadcast : BOOLEAN]
DhcpReply ==
  [request : DhcpRequest, kind : {"offer", "ack"}, to : {"broadcast", "unicast"}]

EventKinds == {"enabled", "ready", "fault", "other"}

Counters ==
  {"dhcp_discover", "dhcp_request", "dhcp_reply", "dhcp_reply_broadcast",
   "dhcp_reply_unicast", "dhcp_invalid", "echo_rx", "echo_tx"}

\* The counters in `names`, one higher.
Counted(names) ==
  [name \in Counters |-> diagnostics[name] + IF name \in names THEN 1 ELSE 0]

-----------------------------------------------------------------------------
(***************************************************************************)
(* External: the stations' DHCP clients                                    *)
(***************************************************************************)
ClientStates == {"discovering", "requesting", "bound", "renewing"}

HasAddress(c) == client[c].state \in {"bound", "renewing"}

\* Each message a client sends has a transaction id of its own.
ClientSends(c) ==
  /\ sentXids < MaxXid
  /\ sentXids' = sentXids + 1
  /\ \E broadcast \in BOOLEAN :
       air' = air \cup
         {[client |-> c, id |-> sentXids',
           kind |-> IF client[c].state = "discovering" THEN "discover" ELSE "request",
           addressed |-> HasAddress(c), broadcast |-> broadcast]}
  /\ client' = [client EXCEPT ![c] =
       [state |-> IF HasAddress(c) THEN "renewing" ELSE client[c].state,
        id |-> sentXids']]
  /\ UNCHANGED <<pc, socketVars, diagnostics, acceptance, controllerVars,
                 replies, echoed, arrived, overflows, historyVars>>

\* A message the server has no answer for, or that is not DHCP at all.
StationStrays(c) ==
  /\ sentXids < MaxXid
  /\ sentXids' = sentXids + 1
  /\ \E kind \in {"other", "invalid"}, addressed \in BOOLEAN :
       air' = air \cup {[client |-> c, id |-> sentXids', kind |-> kind,
                         addressed |-> addressed, broadcast |-> FALSE]}
  /\ UNCHANGED <<pc, socketVars, diagnostics, acceptance, controllerVars,
                 client, replies, echoed, arrived, overflows, historyVars>>

\* What the client does with a reply to its latest message, and to no other.
Awaits(c, reply) ==
  /\ reply.request.client = c
  /\ reply.request.id = client[c].id
  /\ \/ client[c].state = "discovering" /\ reply.kind = "offer"
     \/ client[c].state \in {"requesting", "renewing"} /\ reply.kind = "ack"

Reaches(reply, c) == reply.to = "broadcast" \/ HasAddress(c)

ClientHears(c) ==
  /\ \E reply \in replies :
       /\ Awaits(c, reply) /\ Reaches(reply, c)
       /\ client' = [client EXCEPT ![c].state =
            IF reply.kind = "offer" THEN "requesting" ELSE "bound"]
  /\ UNCHANGED <<pc, socketVars, diagnostics, acceptance, controllerVars, sentXids,
                 air, replies, echoed, arrived, overflows, historyVars>>

\* The lease has run out, or the station has lost its connection.
ClientResets(c) ==
  /\ client[c].state # "discovering"
  /\ client' = [client EXCEPT ![c].state = "discovering"]
  /\ UNCHANGED <<pc, socketVars, diagnostics, acceptance, controllerVars, sentXids,
                 air, replies, echoed, arrived, overflows, historyVars>>

Client(c) ==
  ClientSends(c) \/ StationStrays(c) \/ ClientHears(c) \/ ClientResets(c)

-----------------------------------------------------------------------------
(***************************************************************************)
(* External: interface.poll moves datagrams, while the loop is in a poll   *)
(***************************************************************************)
Polling == pc \in {"poll", "flush"}

\* A datagram is discarded, and nobody is told, if no slot of the buffer is
\* free, or if one is but the bytes that are free do not suffice.
ReceiveEcho ==
  /\ Polling /\ arrived < MaxEchoes
  /\ arrived' = arrived + 1
  /\ \/ /\ Len(echoRx) < EchoRxSlots
        /\ \E c \in Stations, long \in BOOLEAN :
             echoRx' = Append(echoRx, [from |-> c, id |-> arrived', long |-> long])
        /\ UNCHANGED overflows
     \/ /\ overflows' = overflows + 1
        /\ UNCHANGED echoRx
  /\ UNCHANGED <<pc, echoTx, dhcpRx, dhcpTx, diagnostics, acceptance,
                 controllerVars, clientVars, replies, echoed, historyVars>>

ReceiveDhcp ==
  /\ Polling
  /\ \E message \in air :
       /\ air' = air \ {message}
       /\ \/ Len(dhcpRx) < DhcpSlots /\ dhcpRx' = Append(dhcpRx, message)
          \/ UNCHANGED dhcpRx
  /\ UNCHANGED <<pc, echoRx, echoTx, dhcpTx, diagnostics, acceptance, controllerVars,
                 client, sentXids, replies, echoed, arrived, overflows, historyVars>>

TransmitEcho ==
  /\ Polling /\ echoTx # <<>>
  /\ echoed' = echoed \cup {Head(echoTx)}
  /\ echoTx' = Tail(echoTx)
  /\ UNCHANGED <<pc, echoRx, dhcpRx, dhcpTx, diagnostics, acceptance, controllerVars,
                 clientVars, replies, arrived, overflows, historyVars>>

TransmitDhcp ==
  /\ Polling /\ dhcpTx # <<>>
  /\ replies' = replies \cup {Head(dhcpTx)}
  /\ dhcpTx' = Tail(dhcpTx)
  /\ UNCHANGED <<pc, echoRx, echoTx, dhcpRx, diagnostics, acceptance, controllerVars,
                 clientVars, echoed, arrived, overflows, historyVars>>

\* The device may take nothing, so that replies stay for a later poll.
PollEnds ==
  /\ Polling
  /\ pc' = IF pc = "poll" THEN "dhcp" ELSE "wait"
  /\ UNCHANGED <<socketVars, diagnostics, acceptance, controllerVars, networkVars, historyVars>>

\* access_point.poll and wait_for_work are expected to succeed.
AccessPointFails ==
  /\ pc \in {"poll", "wait"}
  /\ pc' = "halted"
  /\ UNCHANGED <<socketVars, diagnostics, acceptance, controllerVars, networkVars, historyVars>>

Stack == ReceiveEcho \/ ReceiveDhcp \/ TransmitEcho \/ TransmitDhcp

-----------------------------------------------------------------------------
(***************************************************************************)
(* service_ble and service_sle                                             *)
(***************************************************************************)
ControllerPosts ==
  /\ Activity # "none" /\ pc # "halted" /\ posted < MaxEvents
  /\ posted' = posted + 1
  /\ \E kind \in EventKinds :
       IF Len(events) < EventSlots
       THEN events' = Append(events, kind) /\ UNCHANGED dropped
       ELSE dropped' = TRUE /\ UNCHANGED events
  /\ UNCHANGED <<pc, socketVars, diagnostics, acceptance, started, networkVars, historyVars>>

\* A second "enabled" is of no interest to BLE and an error to SLE.
Fatal(event) ==
  event = "fault" \/ (event = "enabled" /\ started /\ Activity = "sle")

\* One turn of the loop over next_event; starting the activity may fail.
ServiceEvent ==
  /\ pc = "services" /\ events # <<>>
  /\ events' = Tail(events)
  /\ IF Fatal(Head(events))
     THEN pc' = "halted" /\ UNCHANGED started
     ELSE IF Head(events) = "enabled" /\ ~started
     THEN \/ started' = TRUE /\ UNCHANGED pc
          \/ pc' = "halted" /\ UNCHANGED started
     ELSE UNCHANGED <<pc, started>>
  /\ UNCHANGED <<socketVars, diagnostics, acceptance, dropped, posted, networkVars, historyVars>>

\* Variant: nobody looks whether events were dropped.
AfterDrainUnchecked == "poll"

AfterDrain == IF dropped THEN "halted" ELSE "poll"

ServicesDone ==
  /\ pc = "services" /\ events = <<>>
  /\ pc' = AfterDrain
  /\ UNCHANGED <<socketVars, diagnostics, acceptance, controllerVars, networkVars, historyVars>>

-----------------------------------------------------------------------------
(***************************************************************************)
(* service_dhcp                                                            *)
(***************************************************************************)
\* Variant: only the client's wish for a broadcast counts.
ReplyAddressAsAsked(request) ==
  IF request.broadcast THEN "broadcast" ELSE "unicast"

\* A client without an address can be reached by broadcast alone.
ReplyAddress(request) ==
  IF request.broadcast \/ ~request.addressed THEN "broadcast" ELSE "unicast"

ReplyTo(request) ==
  [request |-> request,
   kind |-> IF request.kind = "discover" THEN "offer" ELSE "ack",
   to |-> ReplyAddress(request)]

KindCounter(request) ==
  CASE request.kind = "discover" -> {"dhcp_discover"}
    [] request.kind = "request"  -> {"dhcp_request"}
    [] request.kind = "invalid"  -> {"dhcp_invalid"}
    [] request.kind = "other"    -> {}

ReplyCounters(reply) ==
  {"dhcp_reply",
   IF reply.to = "broadcast" THEN "dhcp_reply_broadcast" ELSE "dhcp_reply_unicast"}

\* External: send_slice takes a datagram only if a slot is free, and may lack
\* the bytes even then.
Sendings(queue, slots) == {sent \in BOOLEAN : sent => Len(queue) < slots}

\* The reply is lost, and not counted, if the socket does not take it.
AnswerDhcp(request) ==
  \E sent \in Sendings(dhcpTx, DhcpSlots) :
    LET reply == ReplyTo(request) IN
    IF sent
    THEN /\ diagnostics' = Counted(KindCounter(request) \cup ReplyCounters(reply))
         /\ dhcpTx' = Append(dhcpTx, reply)
    ELSE /\ diagnostics' = Counted(KindCounter(request))
         /\ UNCHANGED dhcpTx

Answerable(request) == request.kind \in {"discover", "request"}

\* Variant: the message is looked at and not taken.
DhcpRemainderPeeked == dhcpRx

\* Variant: a message of no interest stays where it is.
DhcpRemainderKept == IF Answerable(Head(dhcpRx)) THEN Tail(dhcpRx) ELSE dhcpRx

\* What is left to receive once a message was taken, whatever it was.
DhcpRemainder == Tail(dhcpRx)

ServiceDhcp ==
  /\ pc = "dhcp"
  /\ pc' = "echo"
  /\ IF dhcpRx = <<>>
     THEN UNCHANGED <<dhcpRx, dhcpTx, diagnostics>>
     ELSE /\ dhcpRx' = DhcpRemainder
          /\ IF Answerable(Head(dhcpRx))
             THEN AnswerDhcp(Head(dhcpRx))
             ELSE /\ diagnostics' = Counted(KindCounter(Head(dhcpRx)))
                  /\ UNCHANGED dhcpTx
  /\ UNCHANGED <<echoRx, echoTx, acceptance, controllerVars, networkVars, historyVars>>

-----------------------------------------------------------------------------
(***************************************************************************)
(* service_echo                                                            *)
(***************************************************************************)
\* Variant: the echo is counted before it is sent.
EchoCountersEager(sent) == {"echo_rx", "echo_tx"}

EchoCounters(sent) == IF sent THEN {"echo_rx", "echo_tx"} ELSE {"echo_rx"}

\* Variant: the socket takes every reply.
EchoRepliesUnbounded(request, sent) == Append(echoTx, request)

\* Variant: the newest datagram is answered first.
EchoRepliesNewest(request, sent) == IF sent THEN <<request>> \o echoTx ELSE echoTx

\* The datagram is gone even if its reply finds no room.
EchoReplies(request, sent) == IF sent THEN Append(echoTx, request) ELSE echoTx

\* recv_slice takes a datagram that is too long and returns an error: it is
\* gone, and no counter tells.
TruncateEcho ==
  /\ truncated' = truncated + 1
  /\ UNCHANGED <<echoTx, diagnostics, lateEchoes>>

AnswerEcho(request) ==
  /\ \E sent \in Sendings(echoTx, EchoTxSlots) :
       /\ echoTx' = EchoReplies(request, sent)
       /\ diagnostics' = Counted(EchoCounters(sent))
  /\ lateEchoes' = lateEchoes + IF dropped THEN 1 ELSE 0
  /\ UNCHANGED truncated

ServiceEcho ==
  /\ pc = "echo"
  /\ pc' = "flush"
  /\ IF echoRx = <<>>
     THEN UNCHANGED <<echoRx, echoTx, diagnostics, historyVars>>
     ELSE /\ echoRx' = Tail(echoRx)
          /\ IF Head(echoRx).long THEN TruncateEcho ELSE AnswerEcho(Head(echoRx))
  /\ UNCHANGED <<dhcpRx, dhcpTx, acceptance, controllerVars, networkVars>>

-----------------------------------------------------------------------------
(***************************************************************************)
(* The end of an iteration: wait_for_work, then the acceptance             *)
(***************************************************************************)
AcceptanceDue ==
  Activity # "none" /\ acceptance = "none" /\ diagnostics.echo_tx >= EchoGoal

\* The heap and the scheduler may be in order or not; events must not be lost.
ReportAcceptance ==
  \/ ~dropped /\ acceptance' = "passed" /\ pc' = "services"
  \/ acceptance' = "failed" /\ pc' = "halted"

IterationEnds ==
  /\ pc = "wait"
  /\ IF AcceptanceDue
     THEN ReportAcceptance
     ELSE pc' = "services" /\ UNCHANGED acceptance
  /\ UNCHANGED <<socketVars, diagnostics, controllerVars, networkVars, historyVars>>

-----------------------------------------------------------------------------
Init ==
  /\ pc = "services"
  /\ echoRx = <<>> /\ echoTx = <<>> /\ dhcpRx = <<>> /\ dhcpTx = <<>>
  /\ diagnostics = [name \in Counters |-> 0]
  /\ acceptance = "none"
  /\ started = FALSE /\ events = <<>> /\ dropped = FALSE /\ posted = 0
  /\ client = [c \in Stations |-> [state |-> "discovering", id |-> 0]]
  /\ sentXids = 0 /\ air = {} /\ replies = {}
  /\ echoed = {} /\ arrived = 0 /\ overflows = 0
  /\ truncated = 0 /\ lateEchoes = 0

Run ==
  ServiceEvent \/ ServicesDone \/ PollEnds \/ ServiceDhcp \/ ServiceEcho
    \/ IterationEnds

\* A panic stops the loop for good.
Halted == pc = "halted" /\ UNCHANGED vars

Next ==
  Run \/ Stack \/ AccessPointFails \/ ControllerPosts
    \/ (\E c \in Stations : Client(c)) \/ Halted

SafeSpec == Init /\ [][Next]_vars

\* The loop never waits for long: wait_for_work returns after 5 ms, and a poll
\* ends once the device has nothing to give or to take.
Spec == SafeSpec /\ WF_vars(Run)

-----------------------------------------------------------------------------
(***************************************************************************)
(* Properties                                                              *)
(***************************************************************************)
Buffer(slots, contents) == {queue \in Seq(contents) : Len(queue) <= slots}

EchoOK ==
  /\ echoRx \in Buffer(EchoRxSlots, EchoRequests)
  /\ echoTx \in Buffer(EchoTxSlots, EchoRequests)
  /\ echoed \subseteq EchoRequests
  /\ arrived \in 0 .. MaxEchoes /\ overflows \in Nat
  /\ truncated \in Nat /\ lateEchoes \in Nat

DhcpOK ==
  /\ dhcpRx \in Buffer(DhcpSlots, DhcpRequest)
  /\ dhcpTx \in Buffer(DhcpSlots, DhcpReply)
  /\ air \subseteq DhcpRequest /\ replies \subseteq DhcpReply
  /\ sentXids \in 0 .. MaxXid
  /\ client \in [Stations -> [state : ClientStates, id : 0 .. MaxXid]]

ControllerOK ==
  /\ started \in BOOLEAN /\ dropped \in BOOLEAN
  /\ events \in Buffer(EventSlots, EventKinds)
  /\ posted \in 0 .. MaxEvents

\* Every variable keeps to its range: no buffer takes more than it has room for.
TypeOK ==
  /\ pc \in Locations
  /\ EchoOK /\ DhcpOK /\ ControllerOK
  /\ diagnostics \in [Counters -> Nat]
  /\ acceptance \in {"none", "passed", "failed"}

\* Every echo request that reached the stack is at one place only: discarded for
\* want of room, in the receive buffer, taken out and lost because it is too long,
\* given up because its reply was refused, in the transmit buffer, or answered;
\* echo_rx and echo_tx tell the last three apart and know nothing of the others
\* (service_echo).
EchoConserved ==
  /\ arrived = overflows + Len(echoRx) + truncated + diagnostics.echo_rx
  /\ diagnostics.echo_tx = Len(echoTx) + Cardinality(echoed)
  /\ diagnostics.echo_tx <= diagnostics.echo_rx

\* A reply that a station waits for when it is transmitted can reach it: by
\* broadcast while it has no address, whatever happened to its lease between
\* its request and the reply (service_dhcp's reply_address).
ReplyReachesClient ==
  \A i \in DOMAIN dhcpTx : \A c \in Stations :
    Awaits(c, dhcpTx[i]) => Reaches(dhcpTx[i], c)

\* A lost event of the controller is never overlooked: at most the echo of the
\* iteration in which it was lost is still served, since the next iteration
\* drains the queue, looks and panics (service_ble, service_sle).
NoSilentDrop == lateEchoes <= 1

\* The requests that wait: those with a queued reply, then those received.
EchoWaiting == echoTx \o echoRx
DhcpWaiting ==
  [i \in DOMAIN dhcpTx |-> dhcpTx[i].request] \o dhcpRx

EchoService == INSTANCE Responder WITH
  Requests <- EchoRequests, waiting <- EchoWaiting, answered <- echoed

DhcpService == INSTANCE Responder WITH
  Requests <- DhcpRequest, waiting <- DhcpWaiting,
  answered <- {reply.request : reply \in replies}

\* Both services answer in order and at most once, through two bounded buffers
\* each, of which the second may be full when the first is served.
EchoRefined == EchoService!ResponderSpec
DhcpRefined == DhcpService!ResponderSpec

\* A datagram that a socket has received is taken out by its service, one per
\* iteration, unless the fixture panics: no message blocks those behind it.
RequestsServed ==
  /\ \A id \in 1 .. MaxXid :
       (\E i \in DOMAIN dhcpRx : dhcpRx[i].id = id)
         ~> (pc = "halted" \/ \A i \in DOMAIN dhcpRx : dhcpRx[i].id # id)
  /\ \A id \in 1 .. MaxEchoes :
       (\E i \in DOMAIN echoRx : echoRx[i].id = id)
         ~> (pc = "halted" \/ \A i \in DOMAIN echoRx : echoRx[i].id # id)
=============================================================================
