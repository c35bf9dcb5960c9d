---------------------------- MODULE SoftApProofs ----------------------------
(***************************************************************************)
(* Theorems about SoftAp, for every number of stations, every size of the  *)
(* buffers and every build.                                                *)
(***************************************************************************)
EXTENDS SoftAp, FiniteSetTheorems, SequenceTheorems, TLAPS

-----------------------------------------------------------------------------
(***************************************************************************)
(* Type correctness                                                        *)
(***************************************************************************)
\* A buffer with room left takes one more element.
LEMMA Appended ==
  ASSUME NEW S, NEW n \in Nat, NEW q \in Buffer(n, S), Len(q) < n, NEW e \in S
  PROVE  Append(q, e) \in Buffer(n, S)
<1>1. q \in Seq(S) /\ Len(q) \in Nat
  BY DEF Buffer
<1>2. Append(q, e) \in Seq(S) /\ Len(Append(q, e)) = Len(q) + 1
  BY <1>1
<1>3. QED
  BY <1>1, <1>2 DEF Buffer

\* The oldest element of a buffer is one of its contents, and so are the others.
LEMMA Removed ==
  ASSUME NEW S, NEW n \in Nat, NEW q \in Buffer(n, S), q # <<>>
  PROVE  Head(q) \in S /\ Tail(q) \in Buffer(n, S)
<1>1. q \in Seq(S) /\ Len(q) <= n
  BY DEF Buffer
<1>2. /\ Head(q) \in S /\ Tail(q) \in Seq(S)
      /\ Len(Tail(q)) = Len(q) - 1 /\ Len(q) \in Nat
  BY <1>1, HeadTailProperties, LenProperties
<1>3. QED
  BY <1>1, <1>2 DEF Buffer

\* Counting keeps the counters numbers.
LEMMA CountedType ==
  ASSUME diagnostics \in [Counters -> Nat], NEW names
  PROVE  Counted(names) \in [Counters -> Nat]
BY DEF Counted

\* What a message is answered with is a reply.
LEMMA ReplyType ==
  ASSUME NEW request \in DhcpRequest
  PROVE  ReplyTo(request) \in DhcpReply
BY DEF ReplyTo, ReplyAddress, DhcpReply

\* The constants that are sizes or bounds are numbers.
LEMMA Sizes ==
  /\ DhcpSlots \in Nat /\ EchoRxSlots \in Nat /\ EchoTxSlots \in Nat
  /\ EventSlots \in Nat /\ MaxEchoes \in Nat /\ MaxXid \in Nat /\ MaxEvents \in Nat
BY SoftApAssumption

\* The start is well-typed: every buffer is empty and every client unnumbered.
LEMMA InitType == Init => TypeOK
<1> SUFFICES ASSUME Init PROVE TypeOK
  OBVIOUS
<1> USE Sizes DEF Init
<1>1. \A S : \A n \in Nat : <<>> \in Buffer(n, S)
  BY DEF Buffer
<1>2. EchoOK
  BY <1>1 DEF EchoOK
<1>3. DhcpOK
  BY <1>1 DEF DhcpOK, ClientStates
<1>4. ControllerOK
  <2>1. events \in Buffer(EventSlots, EventKinds)
    BY <1>1
  <2>2. posted \in 0 .. MaxEvents
    OBVIOUS
  <2>3. started \in BOOLEAN /\ dropped \in BOOLEAN
    OBVIOUS
  <2>4. QED
    BY <2>1, <2>2, <2>3 DEF ControllerOK
<1>5. diagnostics \in [Counters -> Nat] /\ pc \in Locations
  BY DEF Locations
<1>6. QED
  BY <1>2, <1>3, <1>4, <1>5 DEF TypeOK

\* What service_echo makes of the oldest datagram: it is too long, its reply is
\* refused, or the socket takes its reply.
LEMMA EchoServed ==
  ASSUME ServiceEcho, echoRx # <<>>
  PROVE  /\ echoRx' = Tail(echoRx)
         /\ lateEchoes' = lateEchoes \/ lateEchoes' = lateEchoes + IF dropped THEN 1 ELSE 0
         /\ truncated' = truncated \/ truncated' = truncated + 1
         /\ \/ truncated' = truncated + 1 /\ UNCHANGED <<echoTx, diagnostics>>
            \/ UNCHANGED <<truncated, echoTx>> /\ diagnostics' = Counted({"echo_rx"})
            \/ /\ UNCHANGED truncated
               /\ Len(echoTx) < EchoTxSlots
               /\ echoTx' = Append(echoTx, Head(echoRx))
               /\ diagnostics' = Counted({"echo_rx", "echo_tx"})
<1>1. echoRx' = Tail(echoRx) /\ (TruncateEcho \/ AnswerEcho(Head(echoRx)))
  BY DEF ServiceEcho
<1>2. CASE TruncateEcho
  BY <1>1, <1>2 DEF TruncateEcho
<1>3. CASE AnswerEcho(Head(echoRx))
  <2>1. PICK sent \in Sendings(echoTx, EchoTxSlots) :
          /\ echoTx' = EchoReplies(Head(echoRx), sent)
          /\ diagnostics' = Counted(EchoCounters(sent))
    BY <1>3 DEF AnswerEcho
  <2>2. UNCHANGED truncated /\ lateEchoes' = lateEchoes + IF dropped THEN 1 ELSE 0
    BY <1>3 DEF AnswerEcho
  <2>3. CASE sent
    <3>1. Len(echoTx) < EchoTxSlots
      BY <2>1, <2>3 DEF Sendings
    <3>2. QED
      BY <1>1, <2>1, <2>2, <2>3, <3>1 DEF EchoReplies, EchoCounters
  <2>4. CASE ~sent
    BY <1>1, <2>1, <2>2, <2>4 DEF EchoReplies, EchoCounters
  <2>5. QED
    BY <2>3, <2>4
<1>4. QED
  BY <1>1, <1>2, <1>3

\* One action of the loop, of the stack, of the controller or of a station at a
\* time: what it moves from one buffer to another is of the type of both.
LEMMA StepType == TypeOK /\ [Next]_vars => TypeOK'
<1> SUFFICES ASSUME TypeOK, [Next]_vars PROVE TypeOK'
  OBVIOUS
<1> USE Sizes DEF TypeOK
<1>1. CASE ServiceEvent
  <2>1. events' \in Buffer(EventSlots, EventKinds)
    BY <1>1, Removed DEF ServiceEvent, ControllerOK
  <2>2. pc' \in Locations /\ started' \in BOOLEAN
    BY <1>1 DEF ServiceEvent, ControllerOK, Locations
  <2>3. EchoOK' /\ DhcpOK'
    BY <1>1 DEF ServiceEvent, EchoOK, DhcpOK, socketVars, networkVars, clientVars,
                historyVars
  <2>4. QED
    BY <1>1, <2>1, <2>2, <2>3 DEF ServiceEvent, ControllerOK
<1>2. CASE ServicesDone \/ PollEnds \/ AccessPointFails \/ IterationEnds
  <2>1. pc' \in Locations /\ acceptance' \in {"none", "passed", "failed"}
    BY <1>2 DEF ServicesDone, AfterDrain, PollEnds, AccessPointFails, IterationEnds,
                ReportAcceptance, Locations
  <2>2. UNCHANGED <<socketVars, diagnostics, controllerVars, networkVars, historyVars>>
    BY <1>2 DEF ServicesDone, PollEnds, AccessPointFails, IterationEnds
  <2>3. EchoOK'
    BY <2>2 DEF EchoOK, socketVars, networkVars, historyVars
  <2>4. DhcpOK'
    BY <2>2 DEF DhcpOK, socketVars, networkVars, clientVars
  <2>5. ControllerOK'
    BY <2>2 DEF ControllerOK, controllerVars
  <2>6. QED
    BY <2>1, <2>2, <2>3, <2>4, <2>5
<1>3. CASE ServiceDhcp
  <2>1. EchoOK' /\ ControllerOK'
    BY <1>3 DEF ServiceDhcp, EchoOK, ControllerOK, controllerVars, networkVars, historyVars
  <2>2. /\ dhcpRx' \in Buffer(DhcpSlots, DhcpRequest)
        /\ dhcpTx' \in Buffer(DhcpSlots, DhcpReply)
        /\ diagnostics' \in [Counters -> Nat]
    <3>1. CASE dhcpRx = <<>>
      BY <1>3, <3>1 DEF ServiceDhcp, DhcpOK
    <3>2. CASE dhcpRx # <<>>
      <4> DEFINE request == Head(dhcpRx)
      <4>1. request \in DhcpRequest /\ dhcpRx' \in Buffer(DhcpSlots, DhcpRequest)
        <5>1. dhcpRx \in Buffer(DhcpSlots, DhcpRequest)
          BY DEF DhcpOK
        <5>2. Head(dhcpRx) \in DhcpRequest /\ Tail(dhcpRx) \in Buffer(DhcpSlots, DhcpRequest)
          BY <3>2, <5>1, Removed
        <5>3. QED
          BY <1>3, <3>2, <5>2 DEF ServiceDhcp, DhcpRemainder
      <4>2. CASE Answerable(request)
        <5>1. AnswerDhcp(request)
          BY <1>3, <3>2, <4>2 DEF ServiceDhcp
        <5>2. dhcpTx' \in Buffer(DhcpSlots, DhcpReply)
          <6>1. /\ dhcpTx \in Buffer(DhcpSlots, DhcpReply)
                /\ ReplyTo(request) \in DhcpReply
            BY <4>1, ReplyType DEF DhcpOK
          <6>2. Len(dhcpTx) < DhcpSlots => Append(dhcpTx, ReplyTo(request)) \in Buffer(DhcpSlots, DhcpReply)
            BY <6>1, Appended
          <6>3. \/ Len(dhcpTx) < DhcpSlots /\ dhcpTx' = Append(dhcpTx, ReplyTo(request))
                \/ dhcpTx' = dhcpTx
            BY <5>1 DEF AnswerDhcp, Sendings
          <6>4. QED
            BY <6>1, <6>2, <6>3
        <5>3. diagnostics' \in [Counters -> Nat]
          BY <5>1, CountedType DEF AnswerDhcp
        <5>4. QED
          BY <4>1, <5>2, <5>3
      <4>3. CASE ~Answerable(request)
        BY <1>3, <3>2, <4>1, <4>3, CountedType DEF ServiceDhcp, DhcpOK
      <4>4. QED
        BY <4>2, <4>3
    <3>3. QED
      BY <3>1, <3>2
  <2>3. DhcpOK'
    BY <1>3, <2>2 DEF ServiceDhcp, DhcpOK, networkVars, clientVars
  <2>4. QED
    BY <1>3, <2>1, <2>2, <2>3 DEF ServiceDhcp, Locations
<1>4. CASE ServiceEcho
  <2>1. DhcpOK' /\ ControllerOK'
    BY <1>4 DEF ServiceEcho, DhcpOK, ControllerOK, controllerVars, networkVars, clientVars
  <2>2. /\ echoRx' \in Buffer(EchoRxSlots, EchoRequests)
        /\ echoTx' \in Buffer(EchoTxSlots, EchoRequests)
        /\ diagnostics' \in [Counters -> Nat]
        /\ truncated' \in Nat /\ lateEchoes' \in Nat
    <3>1. CASE echoRx = <<>>
      BY <1>4, <3>1 DEF ServiceEcho, EchoOK, historyVars
    <3>2. CASE echoRx # <<>>
      <4>1. Head(echoRx) \in EchoRequests /\ echoRx' \in Buffer(EchoRxSlots, EchoRequests)
        BY <1>4, <3>2, Removed DEF ServiceEcho, EchoOK
      <4>2. echoTx' \in Buffer(EchoTxSlots, EchoRequests)
        <5>1. CASE UNCHANGED echoTx
          BY <5>1 DEF EchoOK
        <5>2. CASE Len(echoTx) < EchoTxSlots /\ echoTx' = Append(echoTx, Head(echoRx))
          BY <4>1, <5>2, Appended DEF EchoOK
        <5>3. UNCHANGED echoTx
              \/ (Len(echoTx) < EchoTxSlots /\ echoTx' = Append(echoTx, Head(echoRx)))
          BY ONLY <1>4, <3>2, EchoServed
        <5>4. QED
          BY <5>1, <5>2, <5>3
      <4>3. diagnostics' \in [Counters -> Nat]
        <5>1. diagnostics' = diagnostics \/ \E names : diagnostics' = Counted(names)
          BY <1>4, <3>2, EchoServed
        <5>2. QED
          BY <5>1, CountedType
      <4>4. truncated' \in Nat /\ lateEchoes' \in Nat
        <5>1. truncated' = truncated \/ truncated' = truncated + 1
          BY <1>4, <3>2, EchoServed
        <5>2. lateEchoes' = lateEchoes \/ lateEchoes' = lateEchoes + IF dropped THEN 1 ELSE 0
          BY <1>4, <3>2, EchoServed
        <5>3. QED
          BY <5>1, <5>2 DEF EchoOK
      <4>5. QED
        BY <4>1, <4>2, <4>3, <4>4
    <3>3. QED
      BY <3>1, <3>2
  <2>3. EchoOK'
    BY <1>4, <2>2 DEF ServiceEcho, EchoOK, networkVars
  <2>4. QED
    BY <1>4, <2>1, <2>2, <2>3 DEF ServiceEcho, Locations
<1>5. CASE ReceiveEcho
  <2>1. arrived' \in 1 .. MaxEchoes /\ overflows' \in Nat
    BY <1>5 DEF ReceiveEcho, EchoOK
  <2>2. echoRx' \in Buffer(EchoRxSlots, EchoRequests)
    <3>1. CASE echoRx' = echoRx
      BY <3>1 DEF EchoOK
    <3>2. ASSUME Len(echoRx) < EchoRxSlots,
                 NEW c \in Stations, NEW long \in BOOLEAN,
                 echoRx' = Append(echoRx, [from |-> c, id |-> arrived', long |-> long])
          PROVE  echoRx' \in Buffer(EchoRxSlots, EchoRequests)
      <4>1. [from |-> c, id |-> arrived', long |-> long] \in EchoRequests
        BY <2>1 DEF EchoRequests
      <4>2. QED
        BY <3>2, <4>1, Appended DEF EchoOK
    <3>3. QED
      BY <1>5, <3>1, <3>2 DEF ReceiveEcho
  <2>3. EchoOK'
    BY <1>5, <2>1, <2>2 DEF ReceiveEcho, EchoOK, historyVars
  <2>4. DhcpOK' /\ ControllerOK'
    BY <1>5 DEF ReceiveEcho, DhcpOK, ControllerOK, controllerVars, clientVars
  <2>5. QED
    BY <1>5, <2>3, <2>4 DEF ReceiveEcho
<1>6. CASE ReceiveDhcp
  <2>1. PICK message \in air :
          /\ air' = air \ {message}
          /\ \/ Len(dhcpRx) < DhcpSlots /\ dhcpRx' = Append(dhcpRx, message)
             \/ dhcpRx' = dhcpRx
    BY <1>6 DEF ReceiveDhcp
  <2>2. message \in DhcpRequest
    BY <2>1 DEF DhcpOK
  <2>3. dhcpRx' \in Buffer(DhcpSlots, DhcpRequest)
    <3>1. CASE dhcpRx' = dhcpRx
      BY <3>1 DEF DhcpOK
    <3>2. CASE Len(dhcpRx) < DhcpSlots /\ dhcpRx' = Append(dhcpRx, message)
      BY <2>2, <3>2, Appended DEF DhcpOK
    <3>3. QED
      BY <2>1, <3>1, <3>2
  <2>4. DhcpOK'
    BY <1>6, <2>1, <2>3 DEF ReceiveDhcp, DhcpOK
  <2>5. EchoOK' /\ ControllerOK'
    BY <1>6 DEF ReceiveDhcp, EchoOK, ControllerOK, controllerVars, historyVars
  <2>6. QED
    BY <1>6, <2>4, <2>5 DEF ReceiveDhcp
<1>7. CASE TransmitEcho
  <2>1. Head(echoTx) \in EchoRequests /\ echoTx' \in Buffer(EchoTxSlots, EchoRequests)
    BY <1>7, Removed DEF TransmitEcho, EchoOK
  <2>2. EchoOK'
    BY <1>7, <2>1 DEF TransmitEcho, EchoOK, historyVars
  <2>3. DhcpOK' /\ ControllerOK'
    BY <1>7 DEF TransmitEcho, DhcpOK, ControllerOK, controllerVars, clientVars
  <2>4. QED
    BY <1>7, <2>2, <2>3 DEF TransmitEcho
<1>8. CASE TransmitDhcp
  <2>1. Head(dhcpTx) \in DhcpReply /\ dhcpTx' \in Buffer(DhcpSlots, DhcpReply)
    BY <1>8, Removed DEF TransmitDhcp, DhcpOK
  <2>2. DhcpOK'
    BY <1>8, <2>1 DEF TransmitDhcp, DhcpOK, clientVars
  <2>3. EchoOK' /\ ControllerOK'
    BY <1>8 DEF TransmitDhcp, EchoOK, ControllerOK, controllerVars, historyVars
  <2>4. QED
    BY <1>8, <2>2, <2>3 DEF TransmitDhcp
<1>9. CASE ControllerPosts
  <2>1. posted' \in 0 .. MaxEvents
    BY <1>9 DEF ControllerPosts, ControllerOK
  <2>2. events' \in Buffer(EventSlots, EventKinds) /\ dropped' \in BOOLEAN
    BY <1>9, Appended DEF ControllerPosts, ControllerOK
  <2>3. ControllerOK'
    BY <1>9, <2>1, <2>2 DEF ControllerPosts, ControllerOK
  <2>4. EchoOK' /\ DhcpOK'
    BY <1>9 DEF ControllerPosts, EchoOK, DhcpOK, socketVars, networkVars, clientVars,
                historyVars
  <2>5. QED
    BY <1>9, <2>3, <2>4 DEF ControllerPosts
<1>10. CASE \E c \in Stations : Client(c)
  <2>1. PICK c \in Stations : Client(c)
    BY <1>10
  <2>2. /\ UNCHANGED <<pc, socketVars, diagnostics, acceptance, controllerVars>>
        /\ UNCHANGED <<replies, echoed, arrived, overflows, historyVars>>
    BY <2>1 DEF Client, ClientSends, StationStrays, ClientHears, ClientResets
  <2>3. EchoOK' /\ ControllerOK'
    BY <2>2 DEF EchoOK, ControllerOK, socketVars, controllerVars, historyVars
  <2>4. client' \in [Stations -> [state : ClientStates, id : 0 .. MaxXid]]
    <3>1. CASE ClientSends(c)
      <4>1. sentXids' \in 0 .. MaxXid
        BY <3>1 DEF ClientSends, DhcpOK
      <4>2. client[c].state \in ClientStates
        BY <2>1 DEF DhcpOK
      <4> DEFINE state == IF HasAddress(c) THEN "renewing" ELSE client[c].state
      <4>3. state \in ClientStates
        BY <4>2 DEF ClientStates
      <4>4. client' = [client EXCEPT ![c] = [state |-> state, id |-> sentXids']]
        BY <3>1 DEF ClientSends
      <4>5. QED
        BY <2>1, <4>1, <4>3, <4>4 DEF DhcpOK
    <3>2. CASE StationStrays(c)
      BY <3>2 DEF StationStrays, DhcpOK
    <3>3. ASSUME NEW state \in ClientStates, client' = [client EXCEPT ![c].state = state]
          PROVE  client' \in [Stations -> [state : ClientStates, id : 0 .. MaxXid]]
      BY <2>1, <3>3 DEF DhcpOK
    <3>4. CASE ClientHears(c)
      <4>1. PICK reply \in replies :
              client' = [client EXCEPT ![c].state =
                IF reply.kind = "offer" THEN "requesting" ELSE "bound"]
        BY <3>4 DEF ClientHears
      <4>2. (IF reply.kind = "offer" THEN "requesting" ELSE "bound") \in ClientStates
        BY DEF ClientStates
      <4>3. QED
        BY <3>3, <4>1, <4>2
    <3>5. CASE ClientResets(c)
      <4>1. "discovering" \in ClientStates
        BY DEF ClientStates
      <4>2. QED
        BY <3>3, <3>5, <4>1 DEF ClientResets
    <3>6. QED
      BY <2>1, <3>1, <3>2, <3>4, <3>5 DEF Client
  <2>5. air' \subseteq DhcpRequest /\ sentXids' \in 0 .. MaxXid
    <3>1. CASE ClientSends(c) \/ StationStrays(c)
      <4>1. sentXids' \in 1 .. MaxXid
        BY <3>1 DEF ClientSends, StationStrays, DhcpOK
      <4>2. \A kind \in DhcpKinds, addressed, broadcast \in BOOLEAN :
              [client |-> c, id |-> sentXids', kind |-> kind, addressed |-> addressed,
               broadcast |-> broadcast] \in DhcpRequest
        BY <2>1, <4>1 DEF DhcpRequest
      <4>3. CASE ClientSends(c)
        <5> DEFINE kind == IF client[c].state = "discovering" THEN "discover" ELSE "request"
        <5>1. kind \in DhcpKinds /\ HasAddress(c) \in BOOLEAN
          BY DEF DhcpKinds, HasAddress
        <5>2. PICK broadcast \in BOOLEAN : air' = air \cup
                {[client |-> c, id |-> sentXids', kind |-> kind,
                  addressed |-> HasAddress(c), broadcast |-> broadcast]}
          BY <4>3 DEF ClientSends
        <5>3. QED
          BY <4>1, <4>2, <5>1, <5>2 DEF DhcpOK
      <4>4. CASE StationStrays(c)
        <5>1. PICK kind \in {"other", "invalid"}, addressed \in BOOLEAN :
                air' = air \cup
                  {[client |-> c, id |-> sentXids', kind |-> kind,
                    addressed |-> addressed, broadcast |-> FALSE]}
          BY <4>4 DEF StationStrays
        <5>2. kind \in DhcpKinds
          BY <5>1 DEF DhcpKinds
        <5>3. [client |-> c, id |-> sentXids', kind |-> kind, addressed |-> addressed,
               broadcast |-> FALSE] \in DhcpRequest
          BY <2>1, <4>1, <5>1, <5>2 DEF DhcpRequest
        <5>4. air \subseteq DhcpRequest
          BY DEF DhcpOK
        <5>5. air' \subseteq DhcpRequest
          BY <5>1, <5>3, <5>4
        <5>6. sentXids' \in 0 .. MaxXid
          BY <4>1
        <5>7. QED
          BY <5>5, <5>6
      <4>5. QED
        BY <3>1, <4>3, <4>4
    <3>2. CASE ClientHears(c) \/ ClientResets(c)
      BY <3>2 DEF ClientHears, ClientResets, DhcpOK
    <3>3. QED
      BY <2>1, <3>1, <3>2 DEF Client
  <2>6. DhcpOK'
    BY <2>2, <2>4, <2>5 DEF DhcpOK, socketVars
  <2>7. QED
    BY <2>2, <2>3, <2>6
<1>11. CASE Halted \/ UNCHANGED vars
  <2>1. UNCHANGED vars
    BY <1>11 DEF Halted
  <2>2. QED
    BY <2>1 DEF vars, EchoOK, DhcpOK, ControllerOK, socketVars, controllerVars, networkVars,
                clientVars, historyVars
<1>12. QED
  BY <1>1, <1>2, <1>3, <1>4, <1>5, <1>6, <1>7, <1>8, <1>9, <1>10, <1>11
  DEF Next, Run, Stack

\* Every variable keeps to its range for all constants: no buffer of a socket or
\* of the controller takes more than it has room for.
THEOREM SoftApTypeCorrect == Spec => []TypeOK
<1>1. QED
  BY InitType, StepType, PTL DEF Spec, SafeSpec

-----------------------------------------------------------------------------
(***************************************************************************)
(* A dropped event is not overlooked                                       *)
(***************************************************************************)
\* Once an echo was served after a drop, the loop is past service_echo and does
\* not get there again: the look at `dropped_events` comes first.
DropInv ==
  /\ lateEchoes \in 0 .. 1
  /\ lateEchoes = 1 => dropped /\ pc \in {"flush", "wait", "services", "halted"}

\* No step of the loop, the stack, the controller or a station serves a second
\* echo after a drop.
LEMMA StepDrop == DropInv /\ [Next]_vars => DropInv'
<1> SUFFICES ASSUME DropInv, [Next]_vars PROVE DropInv'
  OBVIOUS
<1> USE DEF DropInv, historyVars
<1>1. CASE ServiceEvent
  BY <1>1 DEF ServiceEvent
<1>2. CASE ServicesDone
  BY <1>2 DEF ServicesDone, AfterDrain, controllerVars
<1>3. CASE PollEnds
  BY <1>3 DEF PollEnds, Polling, controllerVars
<1>4. CASE ServiceDhcp
  BY <1>4 DEF ServiceDhcp, controllerVars
<1>5. CASE ServiceEcho
  <2>1. pc = "echo" /\ pc' = "flush" /\ UNCHANGED dropped
    BY <1>5 DEF ServiceEcho, controllerVars
  <2>2. lateEchoes = 0
    BY <2>1
  <2>3. lateEchoes' = lateEchoes \/ lateEchoes' = lateEchoes + IF dropped THEN 1 ELSE 0
    BY <1>5 DEF ServiceEcho, TruncateEcho, AnswerEcho, historyVars
  <2>4. QED
    BY <2>1, <2>2, <2>3
<1>6. CASE IterationEnds
  BY <1>6 DEF IterationEnds, ReportAcceptance, controllerVars
<1>7. CASE Stack
  BY <1>7 DEF Stack, ReceiveEcho, ReceiveDhcp, TransmitEcho, TransmitDhcp, controllerVars
<1>8. CASE AccessPointFails
  BY <1>8 DEF AccessPointFails, controllerVars
<1>9. CASE ControllerPosts
  BY <1>9 DEF ControllerPosts
<1>10. CASE \E c \in Stations : Client(c)
  BY <1>10 DEF Client, ClientSends, StationStrays, ClientHears, ClientResets, controllerVars
<1>11. CASE Halted \/ UNCHANGED vars
  BY <1>11 DEF Halted, vars, controllerVars
<1>12. QED
  BY <1>1, <1>2, <1>3, <1>4, <1>5, <1>6, <1>7, <1>8, <1>9, <1>10, <1>11 DEF Next, Run

\* After the controller dropped an event at most the echo of that iteration is
\* still served (service_ble, service_sle), whatever the sizes of the buffers.
THEOREM DropNoticed == Spec => []NoSilentDrop
<1>1. Init => DropInv
  BY DEF Init, DropInv
<1>2. DropInv => NoSilentDrop
  BY DEF DropInv, NoSilentDrop
<1>3. QED
  BY <1>1, <1>2, StepDrop, PTL DEF Spec, SafeSpec

-----------------------------------------------------------------------------
(***************************************************************************)
(* Two buffers, one after the other                                        *)
(***************************************************************************)
\* Moving the head of the second buffer to the end of the first leaves the whole.
LEMMA MoveHead ==
  ASSUME NEW S, NEW t \in Seq(S), NEW r \in Seq(S), r # <<>>
  PROVE  Append(t, Head(r)) \o Tail(r) = t \o r
<1>1. /\ Head(r) \in S /\ Tail(r) \in Seq(S) /\ Len(Tail(r)) = Len(r) - 1
      /\ \A i \in 1 .. Len(Tail(r)) : Tail(r)[i] = r[i + 1]
      /\ Head(r) = r[1]
      /\ Len(r) \in Nat /\ Len(r) > 0 /\ Len(t) \in Nat
  BY HeadTailProperties, LenProperties, EmptySeq
<1> DEFINE u == Append(t, Head(r))
<1>2. /\ u \in Seq(S) /\ Len(u) = Len(t) + 1
      /\ \A i \in 1 .. Len(t) : u[i] = t[i]
      /\ u[Len(t) + 1] = Head(r)
  BY <1>1
<1> HIDE DEF u
<1>3. /\ u \o Tail(r) \in Seq(S) /\ t \o r \in Seq(S)
      /\ Len(u \o Tail(r)) = Len(u) + Len(Tail(r)) /\ Len(t \o r) = Len(t) + Len(r)
      /\ \A i \in 1 .. Len(u) + Len(Tail(r)) :
           (u \o Tail(r))[i] = IF i <= Len(u) THEN u[i] ELSE Tail(r)[i - Len(u)]
      /\ \A i \in 1 .. Len(t) + Len(r) :
           (t \o r)[i] = IF i <= Len(t) THEN t[i] ELSE r[i - Len(t)]
  BY <1>1, <1>2, ConcatProperties
<1>4. ASSUME NEW i \in 1 .. Len(t) + Len(r)
      PROVE  (u \o Tail(r))[i] = (t \o r)[i]
  <2>1. CASE i <= Len(t)
    BY <1>1, <1>2, <1>3, <1>4, <2>1
  <2>2. CASE i = Len(t) + 1
    BY <1>1, <1>2, <1>3, <1>4, <2>2
  <2>3. CASE i > Len(t) + 1
    <3>1. i - (Len(t) + 1) \in 1 .. Len(Tail(r))
      BY <1>1, <1>4, <2>3
    <3>2. /\ (u \o Tail(r))[i] = Tail(r)[i - (Len(t) + 1)]
          /\ (t \o r)[i] = r[i - Len(t)]
      BY <1>1, <1>2, <1>3, <1>4, <2>3
    <3>3. Tail(r)[i - (Len(t) + 1)] = r[(i - (Len(t) + 1)) + 1]
      BY <1>1, <3>1
    <3>4. (i - (Len(t) + 1)) + 1 = i - Len(t)
      BY <1>1, <1>4
    <3>5. QED
      BY <3>2, <3>3, <3>4
  <2>4. i \in Int /\ Len(t) \in Int
    BY <1>1, <1>4
  <2>5. i <= Len(t) \/ i = Len(t) + 1 \/ i > Len(t) + 1
    BY <2>4
  <2>6. QED
    BY <2>1, <2>2, <2>3, <2>5
<1>5. u \o Tail(r) = t \o r
  <2> DEFINE left == u \o Tail(r)
             right == t \o r
  <2>1. left \in Seq(S) /\ right \in Seq(S) /\ Len(left) = Len(t) + Len(r)
    BY <1>1, <1>2, <1>3
  <2>2. Len(right) = Len(t) + Len(r) /\ \A i \in 1 .. Len(t) + Len(r) : left[i] = right[i]
    BY <1>3, <1>4
  <2> HIDE DEF left, right
  <2>3. left = right
    BY <2>1, <2>2, SeqEqual
  <2>4. QED
    BY <2>3 DEF left, right
<1>6. QED
  BY <1>5 DEF u

\* Taking the head of the second buffer takes one element out of the whole.
LEMMA TakeMiddle ==
  ASSUME NEW S, NEW t \in Seq(S), NEW r \in Seq(S), r # <<>>
  PROVE  /\ Len(t) + 1 \in DOMAIN (t \o r)
         /\ t \o Tail(r) = RemoveAt(t \o r, Len(t) + 1)
<1>1. /\ Tail(r) \in Seq(S) /\ Len(Tail(r)) = Len(r) - 1
      /\ \A i \in 1 .. Len(Tail(r)) : Tail(r)[i] = r[i + 1]
      /\ Len(r) \in Nat /\ Len(r) > 0 /\ Len(t) \in Nat
  BY HeadTailProperties, LenProperties, EmptySeq
<1> DEFINE w == t \o r
           k == Len(t)
<1>2. /\ w \in Seq(S) /\ Len(w) = k + Len(r)
      /\ \A i \in 1 .. k + Len(r) : w[i] = IF i <= k THEN t[i] ELSE r[i - k]
      /\ DOMAIN w = 1 .. Len(w)
  BY <1>1, ConcatProperties, LenProperties
<1> HIDE DEF w
<1>3. SubSeq(w, 1, k) = t
  <2>1. \A i \in 1 .. k : w[i] \in S
    BY <1>1, <1>2
  <2>2. /\ SubSeq(w, 1, k) \in Seq(S)
        /\ Len(SubSeq(w, 1, k)) = k
        /\ \A i \in 1 .. k : SubSeq(w, 1, k)[i] = w[i]
    BY <1>1, <2>1, SubSeqProperties
  <2>3. \A i \in 1 .. k : SubSeq(w, 1, k)[i] = t[i]
    BY <1>1, <1>2, <2>2
  <2>4. QED
    BY <2>2, <2>3, SeqEqual
<1>4. SubSeq(w, k + 2, Len(w)) = Tail(r)
  <2>1. \A i \in k + 2 .. Len(w) : w[i] \in S
    BY <1>1, <1>2
  <2>2. /\ SubSeq(w, k + 2, Len(w)) \in Seq(S)
        /\ Len(SubSeq(w, k + 2, Len(w))) = Len(r) - 1
        /\ \A i \in 1 .. Len(r) - 1 : SubSeq(w, k + 2, Len(w))[i] = w[k + 2 + i - 1]
    BY <1>1, <1>2, <2>1, SubSeqProperties
  <2>3. ASSUME NEW i \in 1 .. Len(r) - 1
        PROVE  SubSeq(w, k + 2, Len(w))[i] = Tail(r)[i]
    <3>1. w[k + 2 + i - 1] = r[i + 1]
      <4>1. k + 2 + i - 1 \in 1 .. k + Len(r) /\ k + 2 + i - 1 > k
        BY <1>1, <2>3
      <4>2. \A j \in 1 .. k + Len(r) : j > k => w[j] = r[j - k]
        BY <1>1, <1>2
      <4>3. w[k + 2 + i - 1] = r[(k + 2 + i - 1) - k]
        BY <4>1, <4>2
      <4>4. (k + 2 + i - 1) - k = i + 1
        BY <1>1, <2>3
      <4>5. QED
        BY <4>3, <4>4, Zenon
    <3>2. QED
      BY <1>1, <2>2, <2>3, <3>1
  <2>4. QED
    BY <1>1, <2>2, <2>3, SeqEqual
<1>5. k + 1 \in DOMAIN w
  BY <1>1, <1>2
<1>6. RemoveAt(w, k + 1) = t \o Tail(r)
  <2>1. (k + 1) - 1 = k /\ (k + 1) + 1 = k + 2
    BY <1>1
  <2>2. QED
    BY <1>3, <1>4, <2>1 DEF RemoveAt
<1>7. QED
  BY <1>5, <1>6 DEF w

\* Without its element k a sequence is one shorter and the rest moves up.
LEMMA Removal ==
  ASSUME NEW S, NEW w \in Seq(S), NEW k \in 1 .. Len(w)
  PROVE  /\ Len(RemoveAt(w, k)) = Len(w) - 1
         /\ \A i \in 1 .. Len(w) - 1 :
              RemoveAt(w, k)[i] = IF i < k THEN w[i] ELSE w[i + 1]
<1>1. Len(w) \in Nat /\ k \in Nat /\ k >= 1 /\ k <= Len(w)
  BY LenProperties
<1>2. \A i \in 1 .. Len(w) : w[i] \in S
  BY ElementOfSeq
<1> DEFINE a == SubSeq(w, 1, k - 1)
           b == SubSeq(w, k + 1, Len(w))
<1>3. /\ a \in Seq(S) /\ Len(a) = k - 1
      /\ \A i \in 1 .. k - 1 : a[i] = w[i]
  <2>1. \A i \in 1 .. k - 1 : w[i] \in S
    BY <1>1, <1>2
  <2>2. QED
    BY <1>1, <2>1, SubSeqProperties
<1>4. /\ b \in Seq(S) /\ Len(b) = Len(w) - k
      /\ \A i \in 1 .. Len(w) - k : b[i] = w[k + i]
  <2>1. \A i \in k + 1 .. Len(w) : w[i] \in S
    BY <1>1, <1>2
  <2>2. /\ b \in Seq(S)
        /\ Len(b) = IF k + 1 <= Len(w) THEN Len(w) - (k + 1) + 1 ELSE 0
        /\ \A i \in 1 .. Len(w) - (k + 1) + 1 : b[i] = w[(k + 1) + i - 1]
    BY <1>1, <2>1, SubSeqProperties
  <2>3. \A i \in Int : (k + 1) + i - 1 = k + i
    BY <1>1
  <2>4. QED
    BY <1>1, <2>2, <2>3
<1> HIDE DEF a, b
<1>5. /\ RemoveAt(w, k) = a \o b
      /\ Len(a \o b) = Len(a) + Len(b)
      /\ \A i \in 1 .. Len(a) + Len(b) : (a \o b)[i] = IF i <= Len(a) THEN a[i] ELSE b[i - Len(a)]
  BY <1>3, <1>4, ConcatProperties DEF RemoveAt, a, b
<1>6. ASSUME NEW i \in 1 .. Len(w) - 1
      PROVE  (a \o b)[i] = IF i < k THEN w[i] ELSE w[i + 1]
  <2>1. i \in 1 .. Len(a) + Len(b)
    BY <1>1, <1>3, <1>4, <1>6
  <2>2. CASE i < k
    BY <1>1, <1>3, <1>5, <1>6, <2>1, <2>2
  <2>3. CASE ~(i < k)
    <3>1. /\ i - (k - 1) \in 1 .. Len(w) - k /\ k + (i - (k - 1)) = i + 1
          /\ ~(i <= k - 1)
      BY <1>1, <1>6, <2>3
    <3>2. (a \o b)[i] = b[i - (k - 1)]
      BY <1>3, <1>5, <2>1, <3>1
    <3>3. b[i - (k - 1)] = w[i + 1]
      BY <1>4, <3>1
    <3>4. QED
      BY <2>3, <3>2, <3>3
  <2>4. QED
    BY <2>2, <2>3
<1>7. QED
  BY <1>1, <1>3, <1>4, <1>5, <1>6

\* The head of the first buffer is the head of the whole.
LEMMA TakeFirst ==
  ASSUME NEW S, NEW t \in Seq(S), NEW r \in Seq(S), t # <<>>
  PROVE  /\ t \o r # <<>>
         /\ Head(t \o r) = Head(t)
         /\ Tail(t \o r) = Tail(t) \o r
<1>1. /\ Tail(t) \in Seq(S) /\ Len(Tail(t)) = Len(t) - 1
      /\ \A i \in 1 .. Len(Tail(t)) : Tail(t)[i] = t[i + 1]
      /\ Len(t) \in Nat /\ Len(t) > 0 /\ Len(r) \in Nat
  BY HeadTailProperties, LenProperties, EmptySeq
<1> DEFINE w == t \o r
<1>2. /\ w \in Seq(S) /\ Len(w) = Len(t) + Len(r)
      /\ \A i \in 1 .. Len(t) + Len(r) : w[i] = IF i <= Len(t) THEN t[i] ELSE r[i - Len(t)]
  BY <1>1, ConcatProperties
<1> HIDE DEF w
<1>3. w # <<>>
  BY <1>1, <1>2, EmptySeq
<1>4. Head(w) = w[1] /\ Head(t) = t[1]
  BY <1>2, <1>3
<1>5. Head(w) = Head(t)
  BY <1>1, <1>2, <1>4
<1>6. /\ Tail(w) \in Seq(S) /\ Len(Tail(w)) = Len(w) - 1
      /\ \A i \in 1 .. Len(Tail(w)) : Tail(w)[i] = w[i + 1]
  BY <1>2, <1>3, HeadTailProperties
<1>7. /\ Tail(t) \o r \in Seq(S) /\ Len(Tail(t) \o r) = Len(Tail(t)) + Len(r)
      /\ \A i \in 1 .. Len(Tail(t)) + Len(r) :
           (Tail(t) \o r)[i] = IF i <= Len(Tail(t)) THEN Tail(t)[i] ELSE r[i - Len(Tail(t))]
  BY <1>1, ConcatProperties
<1>8. ASSUME NEW i \in 1 .. Len(t) - 1 + Len(r)
      PROVE  Tail(w)[i] = (Tail(t) \o r)[i]
  <2>1. i + 1 \in 1 .. Len(t) + Len(r) /\ i \in Nat /\ i > 0
    BY <1>1, <1>8
  <2>2. CASE i <= Len(t) - 1
    BY <1>1, <1>2, <1>6, <1>7, <1>8, <2>1, <2>2
  <2>3. CASE i > Len(t) - 1
    <3>1. (i + 1) - Len(t) = i - (Len(t) - 1)
      BY <1>1, <2>1
    <3>2. Tail(w)[i] = r[(i + 1) - Len(t)] /\ (Tail(t) \o r)[i] = r[i - (Len(t) - 1)]
      BY <1>1, <1>2, <1>6, <1>7, <1>8, <2>1, <2>3
    <3>3. QED
      BY <3>1, <3>2
  <2>4. i <= Len(t) - 1 \/ i > Len(t) - 1
    BY <1>1, <2>1
  <2>5. QED
    BY <2>2, <2>3, <2>4
<1>9. Tail(w) = Tail(t) \o r
  <2>1. /\ Len(Tail(w)) = Len(t) - 1 + Len(r)
        /\ Len(Tail(t) \o r) = Len(t) - 1 + Len(r)
    BY <1>1, <1>2, <1>6, <1>7
  <2>2. QED
    BY <1>6, <1>7, <1>8, <2>1, SeqEqual
<1>10. QED
  BY <1>3, <1>5, <1>9 DEF w

\* What the second buffer receives comes last.
LEMMA AppendLast ==
  ASSUME NEW S, NEW t \in Seq(S), NEW r \in Seq(S), NEW e \in S
  PROVE  t \o Append(r, e) = Append(t \o r, e)
<1>1. /\ Append(r, e) = r \o <<e>> /\ Append(t \o r, e) = (t \o r) \o <<e>>
      /\ t \o r \in Seq(S) /\ <<e>> \in Seq(S)
  BY ConcatProperties, AppendIsConcat
<1>2. QED
  BY <1>1, ConcatAssociative

-----------------------------------------------------------------------------
(***************************************************************************)
(* The echo service                                                        *)
(***************************************************************************)
\* What a step can do to the echo requests that wait, to those answered and to
\* the number of the latest.
EchoUnmoved == UNCHANGED <<EchoWaiting, echoed, arrived>>

EchoAccepted ==
  /\ \E request \in EchoRequests :
       /\ request.id = arrived + 1
       /\ EchoWaiting' = Append(EchoWaiting, request)
  /\ arrived' = arrived + 1
  /\ UNCHANGED echoed

EchoDiscarded == UNCHANGED <<EchoWaiting, echoed>> /\ arrived' = arrived + 1

EchoGivenUp ==
  /\ \E i \in DOMAIN EchoWaiting : EchoWaiting' = RemoveAt(EchoWaiting, i)
  /\ UNCHANGED <<echoed, arrived>>

EchoAnswered ==
  /\ EchoWaiting # <<>>
  /\ echoed' = echoed \cup {Head(EchoWaiting)}
  /\ EchoWaiting' = Tail(EchoWaiting)
  /\ UNCHANGED arrived

\* The echo's buffers are sequences of requests.
LEMMA EchoTypes ==
  ASSUME TypeOK
  PROVE  /\ echoRx \in Seq(EchoRequests) /\ echoTx \in Seq(EchoRequests)
         /\ Len(echoRx) \in Nat /\ Len(echoTx) \in Nat
         /\ EchoWaiting \in Seq(EchoRequests)
         /\ arrived \in Nat /\ echoed \subseteq EchoRequests
         /\ \A request \in EchoRequests : request.id \in Nat
<1>1. /\ echoRx \in Seq(EchoRequests) /\ echoTx \in Seq(EchoRequests)
      /\ arrived \in Nat /\ echoed \subseteq EchoRequests
  BY Sizes DEF TypeOK, EchoOK, Buffer
<1>2. \A request \in EchoRequests : request.id \in Nat
  BY DEF EchoRequests
<1>3. QED
  BY <1>1, <1>2, ConcatProperties, LenProperties DEF EchoWaiting

\* Every step of the access point is one of the five for the echo service: the
\* socket receives or discards a request, service_echo moves one to the transmit
\* buffer or gives it up, the stack transmits the oldest reply.
LEMMA EchoStep ==
  ASSUME TypeOK, [Next]_vars
  PROVE  \/ EchoUnmoved \/ EchoAccepted \/ EchoDiscarded
         \/ EchoGivenUp \/ EchoAnswered
<1> USE EchoTypes
<1>1. CASE UNCHANGED <<echoRx, echoTx, echoed, arrived>>
  BY <1>1 DEF EchoUnmoved, EchoWaiting
<1>2. CASE ReceiveEcho
  <2>1. arrived + 1 \in 1 .. MaxEchoes
    BY <1>2, Sizes DEF ReceiveEcho, TypeOK, EchoOK
  <2>2. UNCHANGED <<echoTx, echoed>> /\ arrived' = arrived + 1
    BY <1>2 DEF ReceiveEcho
  <2>3. CASE UNCHANGED echoRx
    BY <2>2, <2>3 DEF EchoDiscarded, EchoWaiting
  <2>4. ASSUME NEW c \in Stations, NEW long \in BOOLEAN,
               echoRx' = Append(echoRx, [from |-> c, id |-> arrived', long |-> long])
        PROVE  EchoAccepted
    <3> DEFINE request == [from |-> c, id |-> arrived + 1, long |-> long]
    <3>1. request \in EchoRequests /\ request.id = arrived + 1
      BY <2>1 DEF EchoRequests
    <3>2. echoRx' = Append(echoRx, request)
      BY <2>2, <2>4
    <3> HIDE DEF request
    <3>3. EchoWaiting' = Append(EchoWaiting, request)
      BY <2>2, <3>1, <3>2, AppendLast DEF EchoWaiting
    <3>4. QED
      BY <2>2, <3>1, <3>3 DEF EchoAccepted
  <2>5. QED
    BY <1>2, <2>3, <2>4 DEF ReceiveEcho
<1>3. CASE TransmitEcho
  <2>1. /\ echoTx # <<>> /\ UNCHANGED <<echoRx, arrived>>
        /\ echoed' = echoed \cup {Head(echoTx)}
        /\ echoTx' = Tail(echoTx)
    BY <1>3 DEF TransmitEcho
  <2>2. EchoAnswered
    BY <2>1, TakeFirst DEF EchoAnswered, EchoWaiting
  <2>3. QED
    BY <2>2
<1>4. CASE ServiceEcho
  <2>1. UNCHANGED <<echoed, arrived>>
    BY <1>4 DEF ServiceEcho, networkVars
  <2>2. CASE echoRx = <<>>
    BY <1>1, <1>4, <2>1, <2>2 DEF ServiceEcho
  <2>3. CASE echoRx # <<>>
    <3>1. /\ echoRx' = Tail(echoRx)
          /\ echoTx' = Append(echoTx, Head(echoRx)) \/ echoTx' = echoTx
      BY <1>4, <2>3, EchoServed
    <3>2. CASE echoTx' = Append(echoTx, Head(echoRx))
      <4>1. EchoWaiting' = EchoWaiting
        BY <2>3, <3>1, <3>2, MoveHead DEF EchoWaiting
      <4>2. QED
        BY <2>1, <4>1 DEF EchoUnmoved
    <3>3. CASE echoTx' = echoTx
      <4>1. EchoWaiting' = echoTx \o Tail(echoRx)
        BY <3>1, <3>3 DEF EchoWaiting
      <4>2. /\ Len(echoTx) + 1 \in DOMAIN EchoWaiting
            /\ echoTx \o Tail(echoRx) = RemoveAt(EchoWaiting, Len(echoTx) + 1)
        BY <2>3, TakeMiddle DEF EchoWaiting
      <4>3. EchoGivenUp
        BY <2>1, <4>1, <4>2 DEF EchoGivenUp
      <4>4. QED
        BY <4>3
    <3>4. QED
      BY <3>1, <3>2, <3>3
  <2>4. QED
    BY <2>2, <2>3
<1>5. CASE ReceiveDhcp \/ TransmitDhcp
  BY <1>1, <1>5 DEF ReceiveDhcp, TransmitDhcp
<1>6. CASE ServiceEvent \/ ServicesDone \/ PollEnds \/ IterationEnds \/ AccessPointFails
             \/ ControllerPosts
  BY <1>1, <1>6 DEF ServiceEvent, ServicesDone, PollEnds, IterationEnds, AccessPointFails,
                    ControllerPosts, socketVars, networkVars
<1>7. CASE ServiceDhcp
  BY <1>1, <1>7 DEF ServiceDhcp, networkVars
<1>8. CASE \E c \in Stations : Client(c)
  BY <1>1, <1>8 DEF Client, ClientSends, StationStrays, ClientHears, ClientResets, socketVars
<1>9. CASE Halted \/ UNCHANGED vars
  BY <1>1, <1>9 DEF Halted, vars, socketVars, networkVars
<1>10. QED
  BY <1>2, <1>3, <1>4, <1>5, <1>6, <1>7, <1>8, <1>9 DEF Next, Run, Stack

\* The requests that wait are in the order of their arrival, after all those
\* answered and none later than the latest.
EchoOrdered ==
  /\ \A i, j \in 1 .. Len(EchoWaiting) : i < j => EchoWaiting[i].id < EchoWaiting[j].id
  /\ \A i \in 1 .. Len(EchoWaiting) : EchoWaiting[i].id <= arrived
  /\ \A request \in echoed :
       /\ request.id <= arrived
       /\ \A i \in 1 .. Len(EchoWaiting) : request.id < EchoWaiting[i].id

\* No step puts a request out of order.
LEMMA StepOrdered ==
  ASSUME TypeOK, TypeOK', EchoOrdered, [Next]_vars
  PROVE  EchoOrdered'
<1> DEFINE W == EchoWaiting
<1>1. /\ W \in Seq(EchoRequests) /\ W' \in Seq(EchoRequests)
      /\ arrived \in Nat /\ echoed \subseteq EchoRequests
      /\ Len(W) \in Nat /\ Len(W') \in Nat
      /\ \A i \in 1 .. Len(W) : W[i] \in EchoRequests
      /\ \A request \in EchoRequests : request.id \in Nat
  <2>1. /\ W \in Seq(EchoRequests) /\ arrived \in Nat /\ echoed \subseteq EchoRequests
        /\ \A request \in EchoRequests : request.id \in Nat
    BY EchoTypes
  <2>2. echoTx' \in Seq(EchoRequests) /\ echoRx' \in Seq(EchoRequests)
    BY DEF TypeOK, EchoOK, Buffer
  <2>3. W' \in Seq(EchoRequests)
    BY <2>2, ConcatProperties DEF EchoWaiting
  <2> HIDE DEF W
  <2>4. QED
    BY <2>1, <2>3, LenProperties, ElementOfSeq
<1>2. /\ \A i, j \in 1 .. Len(W) : i < j => W[i].id < W[j].id
      /\ \A i \in 1 .. Len(W) : W[i].id <= arrived /\ W[i].id \in Nat
      /\ \A request \in echoed :
           /\ request.id <= arrived /\ request.id \in Nat
           /\ \A i \in 1 .. Len(W) : request.id < W[i].id
  BY <1>1 DEF EchoOrdered
<1> HIDE DEF W
<1>3. SUFFICES
        /\ \A i, j \in 1 .. Len(W') : i < j => W'[i].id < W'[j].id
        /\ \A i \in 1 .. Len(W') : W'[i].id <= arrived'
        /\ \A request \in echoed' :
             /\ request.id <= arrived'
             /\ \A i \in 1 .. Len(W') : request.id < W'[i].id
  BY DEF EchoOrdered, W
<1>4. CASE EchoUnmoved \/ EchoDiscarded
  <2>1. W' = W /\ echoed' = echoed /\ (arrived' = arrived \/ arrived' = arrived + 1)
    BY <1>4 DEF EchoUnmoved, EchoDiscarded, W
  <2>2. QED
    BY <1>1, <1>2, <2>1
<1>5. CASE EchoAccepted
  <2>1. PICK r \in EchoRequests : r.id = arrived + 1 /\ W' = Append(W, r)
    BY <1>5 DEF EchoAccepted, W
  <2>2. arrived' = arrived + 1 /\ echoed' = echoed
    BY <1>5 DEF EchoAccepted
  <2>3. /\ Len(W') = Len(W) + 1
        /\ \A i \in 1 .. Len(W) : W'[i] = W[i]
        /\ W'[Len(W) + 1] = r
    BY <1>1, <2>1, AppendProperties
  <2>4. \A i \in 1 .. Len(W') : i \in 1 .. Len(W) \/ i = Len(W) + 1
    BY <1>1, <2>3
  <2>5. QED
    BY <1>1, <1>2, <2>1, <2>2, <2>3, <2>4
<1>6. CASE EchoGivenUp
  <2>1. PICK k \in DOMAIN W : W' = RemoveAt(W, k)
    BY <1>6 DEF EchoGivenUp, W
  <2>2. arrived' = arrived /\ echoed' = echoed
    BY <1>6 DEF EchoGivenUp
  <2>3. k \in 1 .. Len(W)
    BY <1>1, <2>1, LenProperties
  <2>4. /\ Len(W') = Len(W) - 1
        /\ \A i \in 1 .. Len(W') : W'[i] = IF i < k THEN W[i] ELSE W[i + 1]
    BY <1>1, <2>1, <2>3, Removal
  <2>5. \A i \in 1 .. Len(W') : i \in 1 .. Len(W) /\ i + 1 \in 1 .. Len(W)
    BY <1>1, <2>3, <2>4
  <2>6. ASSUME NEW i \in 1 .. Len(W')
        PROVE  \/ W'[i] = W[i] /\ i < k
               \/ W'[i] = W[i + 1] /\ i >= k
    BY <1>1, <2>3, <2>4, <2>6
  <2>7. ASSUME NEW i \in 1 .. Len(W'), NEW j \in 1 .. Len(W'), i < j
        PROVE  W'[i].id < W'[j].id
    <3>1. i < j + 1 /\ i + 1 < j + 1
      BY <1>1, <2>4, <2>7
    <3>2. CASE i < k
      <4>1. W'[i] = W[i]
        BY <1>1, <2>3, <2>4, <2>7, <3>2
      <4>2. W'[j] = W[j] \/ W'[j] = W[j + 1]
        BY <2>6, <2>7
      <4>3. W[i].id < W[j].id /\ W[i].id < W[j + 1].id
        <5>1. i \in 1 .. Len(W) /\ j \in 1 .. Len(W) /\ j + 1 \in 1 .. Len(W) /\ i < j + 1
          BY <1>1, <2>5, <2>7, <3>1
        <5>2. QED
          BY <1>2, <2>7, <5>1
      <4>4. QED
        BY <4>1, <4>2, <4>3
    <3>3. CASE i >= k
      <4>1. ~(i < k) /\ ~(j < k)
        <5>1. i \in Int /\ j \in Int /\ k \in Int /\ i < j
          BY <2>3, <2>7
        <5>2. QED
          BY <3>3, <5>1
      <4>2. W'[i] = W[i + 1] /\ W'[j] = W[j + 1]
        BY <2>4, <2>7, <4>1
      <4>3. QED
        BY <1>2, <2>5, <3>1, <4>2
    <3>4. QED
      BY <1>1, <2>3, <2>4, <2>7, <3>2, <3>3
  <2>8. QED
    BY <1>2, <2>2, <2>5, <2>6, <2>7
<1>7. CASE EchoAnswered
  <2>1. /\ W # <<>> /\ W' = Tail(W)
        /\ echoed' = echoed \cup {Head(W)} /\ arrived' = arrived
    BY <1>7 DEF EchoAnswered, W
  <2>2. /\ Len(W) > 0 /\ Head(W) = W[1] /\ Len(W') = Len(W) - 1
        /\ \A i \in 1 .. Len(W') : W'[i] = W[i + 1]
    BY <1>1, <2>1, EmptySeq, HeadTailProperties
  <2>3. \A i \in 1 .. Len(W') : i + 1 \in 1 .. Len(W) /\ i + 1 > 1
    BY <1>1, <2>2
  <2>4. 1 \in 1 .. Len(W)
    BY <1>1, <2>2
  <2>5. \A request \in echoed' : request \in echoed \/ request = W[1]
    BY <2>1, <2>2
  <2>6. QED
    BY <1>1, <1>2, <2>1, <2>2, <2>3, <2>4, <2>5
<1>8. QED
  BY <1>4, <1>5, <1>6, <1>7, EchoStep

\* Counting is by one and of what was named.
LEMMA CountedValues ==
  ASSUME diagnostics \in [Counters -> Nat], NEW names, diagnostics' = Counted(names)
  PROVE  /\ diagnostics'.echo_rx = diagnostics.echo_rx + IF "echo_rx" \in names THEN 1 ELSE 0
         /\ diagnostics'.echo_tx = diagnostics.echo_tx + IF "echo_tx" \in names THEN 1 ELSE 0
BY DEF Counted, Counters

EchoInv == TypeOK /\ EchoOrdered /\ EchoConserved /\ IsFiniteSet(echoed)

\* No step counts an echo that it did not move, or moves one without counting it.
LEMMA StepConserved ==
  ASSUME EchoInv, TypeOK', [Next]_vars
  PROVE  EchoConserved' /\ IsFiniteSet(echoed')
<1> USE DEF EchoInv
<1>1. /\ echoRx \in Seq(EchoRequests) /\ echoTx \in Seq(EchoRequests)
      /\ Len(echoRx) \in Nat /\ Len(echoTx) \in Nat
      /\ arrived \in Nat /\ overflows \in Nat /\ truncated \in Nat
      /\ diagnostics \in [Counters -> Nat]
      /\ diagnostics.echo_rx \in Nat /\ diagnostics.echo_tx \in Nat
  <2>1. diagnostics \in [Counters -> Nat] /\ overflows \in Nat /\ truncated \in Nat
    BY DEF TypeOK, EchoOK
  <2>2. diagnostics.echo_rx \in Nat /\ diagnostics.echo_tx \in Nat
    BY <2>1 DEF Counters
  <2>3. QED
    BY <2>1, <2>2, EchoTypes
<1>2. /\ arrived = overflows + Len(echoRx) + truncated + diagnostics.echo_rx
      /\ diagnostics.echo_tx = Len(echoTx) + Cardinality(echoed)
      /\ diagnostics.echo_tx <= diagnostics.echo_rx
      /\ IsFiniteSet(echoed) /\ Cardinality(echoed) \in Nat
  BY FS_CardinalityType DEF EchoConserved
<1>3. CASE /\ UNCHANGED <<echoRx, echoTx, echoed, arrived, overflows, truncated>>
           /\ diagnostics'.echo_rx = diagnostics.echo_rx
           /\ diagnostics'.echo_tx = diagnostics.echo_tx
  BY <1>2, <1>3 DEF EchoConserved
<1>4. CASE ReceiveEcho
  <2>1. /\ UNCHANGED <<echoTx, echoed, diagnostics, truncated>> /\ arrived' = arrived + 1
        /\ \/ overflows' = overflows /\ \E r : echoRx' = Append(echoRx, r)
           \/ overflows' = overflows + 1 /\ echoRx' = echoRx
    BY <1>4 DEF ReceiveEcho, historyVars
  <2>2. overflows' + Len(echoRx') = overflows + Len(echoRx) + 1
    BY <1>1, <2>1
  <2>3. Len(echoRx') \in Nat /\ overflows' \in Nat
    BY <1>1, <2>1
  <2>4. arrived' = overflows' + Len(echoRx') + truncated' + diagnostics'.echo_rx
    <3>1. /\ diagnostics'.echo_rx = diagnostics.echo_rx /\ arrived' = arrived + 1
          /\ truncated' = truncated
      BY <2>1
    <3>2. /\ arrived = overflows + Len(echoRx) + truncated + diagnostics.echo_rx
          /\ overflows \in Nat /\ Len(echoRx) \in Nat /\ diagnostics.echo_rx \in Nat
          /\ truncated \in Nat
      BY <1>1, <1>2
    <3>3. QED
      BY ONLY <2>2, <2>3, <3>1, <3>2
  <2>5. /\ diagnostics'.echo_tx = Len(echoTx') + Cardinality(echoed')
        /\ diagnostics'.echo_tx <= diagnostics'.echo_rx
    BY <1>2, <2>1
  <2>6. IsFiniteSet(echoed')
    BY <1>2, <2>1
  <2>7. QED
    BY <2>4, <2>5, <2>6 DEF EchoConserved
<1>5. CASE TransmitEcho
  <2>1. /\ echoTx # <<>> /\ UNCHANGED <<echoRx, arrived, overflows, truncated, diagnostics>>
        /\ echoed' = echoed \cup {Head(echoTx)}
        /\ echoTx' = Tail(echoTx)
    BY <1>5 DEF TransmitEcho, historyVars
  <2>2. Head(echoTx) \notin echoed
    <3>1. EchoWaiting # <<>> /\ Head(EchoWaiting) = Head(echoTx)
      BY <1>1, <2>1, TakeFirst DEF EchoWaiting
    <3>2. /\ EchoWaiting \in Seq(EchoRequests)
          /\ \A request \in EchoRequests : request.id \in Nat
      BY EchoTypes
    <3>3. Len(EchoWaiting) \in Nat /\ Len(EchoWaiting) > 0
      BY <3>1, <3>2, EmptySeq
    <3>4. Head(EchoWaiting) = EchoWaiting[1] /\ EchoWaiting[1] \in EchoRequests
      BY <3>2, <3>3, ElementOfSeq
    <3>5. \A request \in echoed : request.id < EchoWaiting[1].id
      BY <3>3 DEF EchoOrdered
    <3>6. ~(EchoWaiting[1].id < EchoWaiting[1].id)
      BY <3>2, <3>4
    <3>7. QED
      BY <3>1, <3>4, <3>5, <3>6
  <2>3. IsFiniteSet(echoed') /\ Cardinality(echoed') = Cardinality(echoed) + 1
    BY <1>2, <2>1, <2>2, FS_AddElement
  <2>4. Len(echoTx') = Len(echoTx) - 1
    BY <1>1, <2>1, HeadTailProperties
  <2>5. diagnostics.echo_tx = Len(echoTx') + Cardinality(echoed')
    BY <1>1, <1>2, <2>3, <2>4
  <2>6. QED
    BY <1>2, <2>1, <2>3, <2>5 DEF EchoConserved
<1>6. CASE ServiceEcho
  <2>1. UNCHANGED <<echoed, arrived, overflows>>
    BY <1>6 DEF ServiceEcho, networkVars
  <2>2. CASE echoRx = <<>>
    BY <1>3, <1>6, <2>1, <2>2 DEF ServiceEcho, historyVars
  <2>3. CASE echoRx # <<>>
    <3>1. Len(echoRx') = Len(echoRx) - 1 /\ Len(echoRx) > 0
      <4>1. echoRx' = Tail(echoRx)
        BY <1>6, <2>3, EchoServed
      <4>2. QED
        BY <1>1, <2>3, <4>1, HeadTailProperties, EmptySeq
    <3>2. CASE truncated' = truncated + 1 /\ UNCHANGED <<echoTx, diagnostics>>
      BY <1>1, <1>2, <2>1, <3>1, <3>2 DEF EchoConserved
    <3>3. CASE UNCHANGED <<truncated, echoTx>> /\ diagnostics' = Counted({"echo_rx"})
      <4>1. /\ diagnostics'.echo_rx = diagnostics.echo_rx + 1
            /\ diagnostics'.echo_tx = diagnostics.echo_tx
        BY <1>1, <3>3, CountedValues
      <4>2. diagnostics.echo_tx <= diagnostics.echo_rx + 1
        BY <1>1, <1>2
      <4>3. QED
        BY <1>1, <1>2, <2>1, <3>1, <3>3, <4>1, <4>2 DEF EchoConserved
    <3>4. CASE /\ UNCHANGED truncated
               /\ echoTx' = Append(echoTx, Head(echoRx))
               /\ diagnostics' = Counted({"echo_rx", "echo_tx"})
      <4>1. /\ diagnostics'.echo_rx = diagnostics.echo_rx + 1
            /\ diagnostics'.echo_tx = diagnostics.echo_tx + 1
        BY <1>1, <3>4, CountedValues
      <4>2. Len(echoTx') = Len(echoTx) + 1
        BY <1>1, <3>4
      <4>3. diagnostics.echo_tx + 1 <= diagnostics.echo_rx + 1
        BY <1>1, <1>2
      <4>4. QED
        BY <1>1, <1>2, <2>1, <3>1, <3>4, <4>1, <4>2, <4>3 DEF EchoConserved
    <3>5. QED
      BY <1>6, <2>3, <3>2, <3>3, <3>4, EchoServed
  <2>4. QED
    BY <2>2, <2>3
<1>7. CASE ServiceDhcp
  <2>1. UNCHANGED <<echoRx, echoTx, echoed, arrived, overflows, truncated>>
    BY <1>7 DEF ServiceDhcp, networkVars, historyVars
  <2>2. CASE dhcpRx = <<>>
    BY <1>3, <1>7, <2>1, <2>2 DEF ServiceDhcp
  <2>3. CASE dhcpRx # <<>>
    <3> DEFINE request == Head(dhcpRx)
    <3>1. request \in DhcpRequest
      BY <2>3, HeadTailProperties DEF TypeOK, DhcpOK, Buffer
    <3>2. /\ "echo_rx" \notin KindCounter(request) /\ "echo_tx" \notin KindCounter(request)
      BY <3>1 DEF KindCounter, DhcpRequest, DhcpKinds
    <3>3. \A reply : "echo_rx" \notin ReplyCounters(reply) /\ "echo_tx" \notin ReplyCounters(reply)
      BY DEF ReplyCounters
    <3>4. \/ diagnostics' = Counted(KindCounter(request))
          \/ \E reply : diagnostics' = Counted(KindCounter(request) \cup ReplyCounters(reply))
      BY <1>7, <2>3 DEF ServiceDhcp, AnswerDhcp
    <3>5. /\ diagnostics'.echo_rx = diagnostics.echo_rx
          /\ diagnostics'.echo_tx = diagnostics.echo_tx
      <4>1. CASE diagnostics' = Counted(KindCounter(request))
        BY <1>1, <3>2, <4>1, CountedValues
      <4>2. ASSUME NEW reply, diagnostics' = Counted(KindCounter(request) \cup ReplyCounters(reply))
            PROVE  /\ diagnostics'.echo_rx = diagnostics.echo_rx
                   /\ diagnostics'.echo_tx = diagnostics.echo_tx
        <5> DEFINE names == KindCounter(request) \cup ReplyCounters(reply)
        <5>1. "echo_rx" \notin names /\ "echo_tx" \notin names
          BY <3>2, <3>3
        <5>2. diagnostics' = Counted(names)
          BY <4>2
        <5> HIDE DEF names
        <5>3. QED
          BY <1>1, <5>1, <5>2, CountedValues
      <4>3. QED
        BY <3>4, <4>1, <4>2
    <3>6. QED
      BY <1>3, <2>1, <3>5
  <2>4. QED
    BY <2>2, <2>3
<1>8. CASE ReceiveDhcp \/ TransmitDhcp
  BY <1>3, <1>8 DEF ReceiveDhcp, TransmitDhcp, historyVars
<1>9. CASE ServiceEvent \/ ServicesDone \/ PollEnds \/ IterationEnds \/ AccessPointFails
             \/ ControllerPosts
  BY <1>3, <1>9 DEF ServiceEvent, ServicesDone, PollEnds, IterationEnds, AccessPointFails,
                    ControllerPosts, socketVars, networkVars, historyVars
<1>10. CASE \E c \in Stations : Client(c)
  BY <1>3, <1>10 DEF Client, ClientSends, StationStrays, ClientHears, ClientResets, socketVars,
                historyVars
<1>11. CASE Halted \/ UNCHANGED vars
  BY <1>3, <1>11 DEF Halted, vars, socketVars, networkVars, historyVars
<1>12. QED
  BY <1>4, <1>5, <1>6, <1>7, <1>8, <1>9, <1>10, <1>11 DEF Next, Run, Stack

\* The invariant of the echo service, from the start.
LEMMA EchoInvariant == Spec => []EchoInv
<1>1. Init => EchoInv
  <2> SUFFICES ASSUME Init PROVE EchoInv
    OBVIOUS
  <2>1. TypeOK
    BY InitType
  <2>2. /\ echoRx = <<>> /\ echoTx = <<>> /\ echoed = {} /\ arrived = 0 /\ overflows = 0
        /\ truncated = 0
        /\ diagnostics.echo_rx = 0 /\ diagnostics.echo_tx = 0
    BY DEF Init, Counters
  <2>3. EchoWaiting = <<>>
    BY <2>2 DEF EchoWaiting
  <2>4. EchoOrdered
    BY <2>2, <2>3 DEF EchoOrdered
  <2>5. IsFiniteSet(echoed) /\ EchoConserved
    BY <2>2, FS_EmptySet DEF EchoConserved
  <2>6. QED
    BY <2>1, <2>4, <2>5 DEF EchoInv
<1>2. EchoInv /\ [Next]_vars => EchoInv'
  BY StepType, StepOrdered, StepConserved DEF EchoInv
<1>3. QED
  BY <1>1, <1>2, PTL DEF Spec, SafeSpec

\* Every echo request is in one place and echo_rx and echo_tx say which, for every
\* size of the buffers and whatever the device and the network do.
THEOREM EchoesConserved == Spec => []EchoConserved
<1>1. EchoInv => EchoConserved
  BY DEF EchoInv
<1>2. QED
  BY <1>1, EchoInvariant, PTL

\* The echo service implements a responder: it answers in order, each request at
\* most once, and what it does not answer it gives up.
THEOREM EchoImplemented == Spec => EchoRefined
<1> USE DEF EchoService!responderVars
<1>1. Init => EchoService!ResponderInit
  BY DEF Init, EchoWaiting, EchoService!ResponderInit
<1>2. ASSUME EchoInv, EchoInv', [Next]_vars
      PROVE  [EchoService!ResponderNext]_<<EchoWaiting, echoed>>
  <2>1. TypeOK /\ EchoOrdered
    BY <1>2 DEF EchoInv
  <2>2. CASE EchoUnmoved \/ EchoDiscarded
    BY <2>2 DEF EchoUnmoved, EchoDiscarded
  <2>3. CASE EchoAccepted
    <3>1. PICK request \in EchoRequests :
            request.id = arrived + 1 /\ EchoWaiting' = Append(EchoWaiting, request)
      BY <2>3 DEF EchoAccepted
    <3>2. /\ EchoWaiting \in Seq(EchoRequests) /\ arrived \in Nat
          /\ DOMAIN EchoWaiting = 1 .. Len(EchoWaiting)
      BY <2>1, EchoTypes, LenProperties
    <3>3. request \notin echoed
      BY <2>1, <3>1, <3>2 DEF EchoOrdered
    <3>4. request \notin Range(EchoWaiting)
      BY <2>1, <3>1, <3>2 DEF EchoOrdered, Range
    <3>5. EchoService!Accept(request)
      <4>1. EchoService!Range(EchoWaiting) = Range(EchoWaiting)
        BY DEF Range, EchoService!Range
      <4>2. QED
        BY <2>3, <3>1, <3>3, <3>4, <4>1 DEF EchoService!Accept, EchoAccepted
    <3>6. QED
      BY <3>1, <3>5 DEF EchoService!ResponderNext
  <2>4. CASE EchoGivenUp
    <3>1. \A i : EchoService!RemoveAt(EchoWaiting, i) = RemoveAt(EchoWaiting, i)
      BY DEF RemoveAt, EchoService!RemoveAt
    <3>2. EchoService!GiveUp
      BY <2>4, <3>1 DEF EchoGivenUp, EchoService!GiveUp
    <3>3. QED
      BY <3>2 DEF EchoService!ResponderNext
  <2>5. CASE EchoAnswered
    <3>1. EchoService!Answer
      BY <2>5 DEF EchoAnswered, EchoService!Answer
    <3>2. QED
      BY <3>1 DEF EchoService!ResponderNext
  <2>6. QED
    BY <1>2, <2>1, <2>2, <2>3, <2>4, <2>5, EchoStep
<1>3. QED
  BY <1>1, <1>2, EchoInvariant, PTL DEF Spec, SafeSpec, EchoRefined, EchoService!ResponderSpec

-----------------------------------------------------------------------------
(***************************************************************************)
(* The DHCP service: what waits, what was answered and what is on its way  *)
(***************************************************************************)
\* The requests of a queue of replies.
Requested(queue) == [i \in DOMAIN queue |-> queue[i].request]

\* There is a request for every queued reply.
LEMMA RequestedType ==
  ASSUME NEW q \in Seq(DhcpReply)
  PROVE  /\ Requested(q) \in Seq(DhcpRequest)
         /\ Len(Requested(q)) = Len(q)
         /\ \A i \in 1 .. Len(q) : Requested(q)[i] = q[i].request
<1>1. Len(q) \in Nat /\ DOMAIN q = 1 .. Len(q) /\ \A i \in 1 .. Len(q) : q[i] \in DhcpReply
  BY LenProperties, ElementOfSeq
<1>2. \A reply \in DhcpReply : reply.request \in DhcpRequest
  BY DEF DhcpReply
<1>3. /\ Requested(q) = [i \in 1 .. Len(q) |-> q[i].request]
      /\ \A i \in 1 .. Len(q) : q[i].request \in DhcpRequest
  BY <1>1, <1>2 DEF Requested
<1>4. Requested(q) \in [1 .. Len(q) -> DhcpRequest]
  BY <1>3
<1>5. Requested(q) \in Seq(DhcpRequest)
  BY <1>1, <1>4, SeqDef
<1>6. DOMAIN Requested(q) = 1 .. Len(q)
  BY <1>4
<1>7. Len(Requested(q)) = Len(q)
  BY <1>1, <1>5, <1>6, LenProperties
<1>8. QED
  BY <1>3, <1>5, <1>7

\* To queue a reply is to queue its request.
LEMMA RequestedAppend ==
  ASSUME NEW q \in Seq(DhcpReply), NEW reply \in DhcpReply
  PROVE  Requested(Append(q, reply)) = Append(Requested(q), reply.request)
<1> DEFINE longer == Append(q, reply)
<1>1. /\ longer \in Seq(DhcpReply) /\ Len(longer) = Len(q) + 1 /\ Len(q) \in Nat
      /\ \A i \in 1 .. Len(q) : longer[i] = q[i]
      /\ longer[Len(q) + 1] = reply
  BY AppendProperties, LenProperties
<1> HIDE DEF longer
<1>2. /\ Requested(q) \in Seq(DhcpRequest) /\ Len(Requested(q)) = Len(q)
      /\ \A i \in 1 .. Len(q) : Requested(q)[i] = q[i].request
  BY RequestedType
<1>3. /\ Requested(longer) \in Seq(DhcpRequest) /\ Len(Requested(longer)) = Len(q) + 1
      /\ \A i \in 1 .. Len(q) + 1 : Requested(longer)[i] = longer[i].request
  BY <1>1, RequestedType
<1> DEFINE other == Append(Requested(q), reply.request)
<1>4. reply.request \in DhcpRequest
  BY DEF DhcpReply
<1>5. /\ other \in Seq(DhcpRequest) /\ Len(other) = Len(q) + 1
      /\ \A i \in 1 .. Len(q) : other[i] = Requested(q)[i]
      /\ other[Len(q) + 1] = reply.request
  BY <1>2, <1>4, AppendProperties
<1> HIDE DEF other
<1>6. \A i \in 1 .. Len(q) + 1 : i \in 1 .. Len(q) \/ i = Len(q) + 1
  BY <1>1
<1>7. \A i \in 1 .. Len(q) + 1 : Requested(longer)[i] = other[i]
  BY <1>1, <1>2, <1>3, <1>5, <1>6
<1>8. Requested(longer) = other
  BY <1>3, <1>5, <1>7, SeqEqual
<1>9. QED
  BY <1>8 DEF longer, other

\* To take the oldest reply is to take its request.
LEMMA RequestedTail ==
  ASSUME NEW q \in Seq(DhcpReply), q # <<>>
  PROVE  /\ Requested(q) # <<>>
         /\ Head(Requested(q)) = Head(q).request
         /\ Requested(Tail(q)) = Tail(Requested(q))
<1> DEFINE all == Requested(q)
           rest == Tail(q)
<1>1. /\ Len(q) \in Nat /\ Len(q) > 0 /\ Head(q) = q[1]
      /\ rest \in Seq(DhcpReply) /\ Len(rest) = Len(q) - 1
      /\ \A i \in 1 .. Len(rest) : rest[i] = q[i + 1]
  BY HeadTailProperties, LenProperties, EmptySeq
<1>2. /\ all \in Seq(DhcpRequest) /\ Len(all) = Len(q)
      /\ \A i \in 1 .. Len(q) : all[i] = q[i].request
  BY RequestedType
<1> HIDE DEF all, rest
<1>3. /\ Requested(rest) \in Seq(DhcpRequest) /\ Len(Requested(rest)) = Len(q) - 1
      /\ \A i \in 1 .. Len(q) - 1 : Requested(rest)[i] = rest[i].request
  BY <1>1, RequestedType
<1>4. all # <<>>
  BY <1>1, <1>2, EmptySeq
<1>5. /\ Head(all) = all[1]
      /\ Tail(all) \in Seq(DhcpRequest) /\ Len(Tail(all)) = Len(q) - 1
      /\ \A i \in 1 .. Len(Tail(all)) : Tail(all)[i] = all[i + 1]
  BY <1>2, <1>4, HeadTailProperties
<1>6. 1 \in 1 .. Len(q) /\ \A i \in 1 .. Len(q) - 1 : i + 1 \in 1 .. Len(q)
  BY <1>1
<1>7. \A i \in 1 .. Len(q) - 1 : Requested(rest)[i] = Tail(all)[i]
  BY <1>1, <1>2, <1>3, <1>5, <1>6
<1>8. Requested(rest) = Tail(all)
  BY <1>3, <1>5, <1>7, SeqEqual
<1>9. Head(all) = Head(q).request
  BY <1>1, <1>2, <1>5, <1>6
<1>10. QED
  BY <1>4, <1>8, <1>9 DEF all, rest

\* What appending, taking and removing leave in a sequence.
LEMMA Ranges ==
  ASSUME NEW S, NEW w \in Seq(S)
  PROVE  /\ Range(w) \subseteq S
         /\ \A e \in S : Range(Append(w, e)) = Range(w) \cup {e}
         /\ w # <<>> => Head(w) \in Range(w) /\ Range(Tail(w)) \subseteq Range(w)
         /\ \A k \in 1 .. Len(w) : Range(RemoveAt(w, k)) \subseteq Range(w)
<1>1. Len(w) \in Nat /\ DOMAIN w = 1 .. Len(w) /\ \A i \in 1 .. Len(w) : w[i] \in S
  BY LenProperties, ElementOfSeq
<1>2. Range(w) = {w[i] : i \in 1 .. Len(w)}
  BY <1>1 DEF Range
<1>3. Range(w) \subseteq S
  BY <1>1, <1>2
<1>4. ASSUME NEW e \in S
      PROVE  Range(Append(w, e)) = Range(w) \cup {e}
  <2> DEFINE longer == Append(w, e)
  <2>1. /\ longer \in Seq(S) /\ Len(longer) = Len(w) + 1
        /\ \A i \in 1 .. Len(w) : longer[i] = w[i]
        /\ longer[Len(w) + 1] = e
        /\ DOMAIN longer = 1 .. Len(longer)
    BY <1>4, AppendProperties, LenProperties
  <2> HIDE DEF longer
  <2>2. Range(longer) = {longer[i] : i \in 1 .. Len(w) + 1}
    BY <2>1 DEF Range
  <2>3. \A i \in 1 .. Len(w) + 1 : i \in 1 .. Len(w) \/ i = Len(w) + 1
    BY <1>1
  <2>4. Len(w) + 1 \in 1 .. Len(w) + 1 /\ \A i \in 1 .. Len(w) : i \in 1 .. Len(w) + 1
    BY <1>1
  <2>5. Range(longer) \subseteq Range(w) \cup {e}
    BY <1>2, <2>1, <2>2, <2>3
  <2>6. Range(w) \cup {e} \subseteq Range(longer)
    BY <1>2, <2>1, <2>2, <2>4
  <2>7. QED
    BY <2>5, <2>6 DEF longer
<1>5. ASSUME w # <<>>
      PROVE  Head(w) \in Range(w) /\ Range(Tail(w)) \subseteq Range(w)
  <2>1. /\ Len(w) > 0 /\ Head(w) = w[1]
        /\ Tail(w) \in Seq(S) /\ Len(Tail(w)) = Len(w) - 1
        /\ \A i \in 1 .. Len(Tail(w)) : Tail(w)[i] = w[i + 1]
        /\ DOMAIN Tail(w) = 1 .. Len(Tail(w))
    BY <1>5, HeadTailProperties, LenProperties, EmptySeq
  <2>2. 1 \in 1 .. Len(w) /\ \A i \in 1 .. Len(Tail(w)) : i + 1 \in 1 .. Len(w)
    BY <1>1, <2>1
  <2>3. QED
    BY <1>2, <2>1, <2>2 DEF Range
<1>6. ASSUME NEW k \in 1 .. Len(w)
      PROVE  Range(RemoveAt(w, k)) \subseteq Range(w)
  <2> DEFINE shorter == RemoveAt(w, k)
  <2>1. /\ Len(shorter) = Len(w) - 1
        /\ \A i \in 1 .. Len(w) - 1 : shorter[i] = IF i < k THEN w[i] ELSE w[i + 1]
    BY <1>6, Removal
  <2>2. DOMAIN shorter = 1 .. Len(shorter)
    <3>1. shorter \in Seq(S)
      <4>1. /\ k - 1 \in Int /\ k + 1 \in Int /\ 1 \in Int /\ Len(w) \in Int
            /\ \A i \in 1 .. k - 1 : w[i] \in S
            /\ \A i \in k + 1 .. Len(w) : w[i] \in S
        BY <1>1, <1>6
      <4>2. SubSeq(w, 1, k - 1) \in Seq(S) /\ SubSeq(w, k + 1, Len(w)) \in Seq(S)
        BY <4>1, SubSeqProperties
      <4>3. QED
        BY <4>2, ConcatProperties DEF RemoveAt
    <3>2. QED
      BY <3>1, LenProperties
  <2> HIDE DEF shorter
  <2>3. \A i \in 1 .. Len(w) - 1 : i \in 1 .. Len(w) /\ i + 1 \in 1 .. Len(w)
    BY <1>1
  <2>4. Range(shorter) \subseteq Range(w)
    BY <1>2, <2>1, <2>2, <2>3 DEF Range
  <2>5. QED
    BY <2>4 DEF shorter
<1>7. QED
  BY <1>3, <1>4, <1>5, <1>6

DhcpDone == {reply.request : reply \in replies}

\* Every message that is still of interest, wherever it is.
Messages == air \cup Range(DhcpWaiting) \cup DhcpDone

\* What a step can do to the DHCP messages.
DhcpUnmoved == UNCHANGED <<DhcpWaiting, DhcpDone, air, sentXids>>

DhcpSent(message) ==
  /\ message.id = sentXids + 1
  /\ air' = air \cup {message}
  /\ sentXids' = sentXids + 1
  /\ UNCHANGED <<DhcpWaiting, DhcpDone>>

DhcpAccepted(message) ==
  /\ air' = air \ {message}
  /\ DhcpWaiting' = Append(DhcpWaiting, message)
  /\ UNCHANGED <<DhcpDone, sentXids>>

DhcpDiscarded(message) ==
  air' = air \ {message} /\ UNCHANGED <<DhcpWaiting, DhcpDone, sentXids>>

DhcpGivenUp ==
  /\ \E i \in DOMAIN DhcpWaiting : DhcpWaiting' = RemoveAt(DhcpWaiting, i)
  /\ UNCHANGED <<DhcpDone, air, sentXids>>

DhcpAnswered ==
  /\ DhcpWaiting # <<>>
  /\ DhcpDone' = DhcpDone \cup {Head(DhcpWaiting)}
  /\ DhcpWaiting' = Tail(DhcpWaiting)
  /\ UNCHANGED <<air, sentXids>>

\* The buffers of the DHCP socket are sequences of messages.
LEMMA DhcpTypes ==
  ASSUME TypeOK
  PROVE  /\ dhcpRx \in Seq(DhcpRequest) /\ dhcpTx \in Seq(DhcpReply)
         /\ Requested(dhcpTx) \in Seq(DhcpRequest)
         /\ Len(Requested(dhcpTx)) = Len(dhcpTx)
         /\ DhcpWaiting = Requested(dhcpTx) \o dhcpRx
         /\ DhcpWaiting \in Seq(DhcpRequest)
         /\ air \subseteq DhcpRequest /\ DhcpDone \subseteq DhcpRequest
         /\ Messages \subseteq DhcpRequest
         /\ sentXids \in Nat
         /\ \A message \in DhcpRequest : message.id \in Nat /\ message.client \in Stations
<1>1. /\ dhcpRx \in Seq(DhcpRequest) /\ dhcpTx \in Seq(DhcpReply)
      /\ air \subseteq DhcpRequest /\ replies \subseteq DhcpReply
      /\ sentXids \in Nat
  BY Sizes DEF TypeOK, DhcpOK, Buffer
<1>2. DhcpDone \subseteq DhcpRequest
  BY <1>1 DEF DhcpDone, DhcpReply
<1>3. Requested(dhcpTx) \in Seq(DhcpRequest) /\ Len(Requested(dhcpTx)) = Len(dhcpTx)
  BY <1>1, RequestedType
<1>4. DhcpWaiting = Requested(dhcpTx) \o dhcpRx
  BY DEF DhcpWaiting, Requested
<1>5. DhcpWaiting \in Seq(DhcpRequest)
  BY <1>1, <1>3, <1>4, ConcatProperties
<1>6. Messages \subseteq DhcpRequest
  BY <1>1, <1>2, <1>5, Ranges DEF Messages
<1>7. \A message \in DhcpRequest : message.id \in Nat /\ message.client \in Stations
  BY DEF DhcpRequest
<1>8. QED
  BY <1>1, <1>2, <1>3, <1>4, <1>5, <1>6, <1>7

\* A message that a client sends says what the client's state was, and the client
\* waits for the answer to it; a stray message is of a kind that has no answer.
LEMMA ClientStep ==
  ASSUME TypeOK, NEW c \in Stations, Client(c)
  PROVE  \/ /\ \E message \in DhcpRequest : DhcpSent(message)
         \/ DhcpUnmoved
<1>1. /\ UNCHANGED <<dhcpRx, dhcpTx, replies>>
  BY DEF Client, ClientSends, StationStrays, ClientHears, ClientResets, socketVars
<1>2. UNCHANGED <<DhcpWaiting, DhcpDone>>
  BY <1>1 DEF DhcpWaiting, DhcpDone
<1>3. CASE ClientHears(c) \/ ClientResets(c)
  BY <1>2, <1>3 DEF ClientHears, ClientResets, DhcpUnmoved
<1>4. ASSUME sentXids < MaxXid, sentXids' = sentXids + 1
      PROVE  \A kind \in DhcpKinds, addressed, broadcast \in BOOLEAN :
               [client |-> c, id |-> sentXids', kind |-> kind, addressed |-> addressed,
                broadcast |-> broadcast] \in DhcpRequest
  <2>1. sentXids' \in 1 .. MaxXid
    BY <1>4, Sizes, DhcpTypes
  <2>2. QED
    BY <2>1 DEF DhcpRequest
<1>5. CASE ClientSends(c)
  <2>1. PICK broadcast \in BOOLEAN : air' = air \cup
          {[client |-> c, id |-> sentXids',
            kind |-> IF client[c].state = "discovering" THEN "discover" ELSE "request",
            addressed |-> HasAddress(c), broadcast |-> broadcast]}
    BY <1>5 DEF ClientSends
  <2> DEFINE kind == IF client[c].state = "discovering" THEN "discover" ELSE "request"
             message == [client |-> c, id |-> sentXids', kind |-> kind,
                         addressed |-> HasAddress(c), broadcast |-> broadcast]
  <2>2. kind \in DhcpKinds /\ HasAddress(c) \in BOOLEAN
    BY DEF DhcpKinds, HasAddress
  <2>3. sentXids < MaxXid /\ sentXids' = sentXids + 1
    BY <1>5 DEF ClientSends
  <2>4. message \in DhcpRequest /\ message.id = sentXids + 1 /\ air' = air \cup {message}
    BY <1>4, <2>1, <2>2, <2>3
  <2> HIDE DEF message
  <2>5. QED
    BY <1>2, <2>3, <2>4 DEF DhcpSent
<1>6. CASE StationStrays(c)
  <2>1. PICK kind \in {"other", "invalid"}, addressed \in BOOLEAN :
          air' = air \cup
            {[client |-> c, id |-> sentXids', kind |-> kind,
              addressed |-> addressed, broadcast |-> FALSE]}
    BY <1>6 DEF StationStrays
  <2> DEFINE message == [client |-> c, id |-> sentXids', kind |-> kind,
                         addressed |-> addressed, broadcast |-> FALSE]
  <2>2. kind \in DhcpKinds /\ sentXids < MaxXid /\ sentXids' = sentXids + 1
    BY <1>6, <2>1 DEF DhcpKinds, StationStrays
  <2>3. message \in DhcpRequest /\ message.id = sentXids + 1 /\ air' = air \cup {message}
    BY <1>4, <2>1, <2>2
  <2> HIDE DEF message
  <2>4. QED
    BY <1>2, <2>2, <2>3 DEF DhcpSent
<1>7. QED
  BY <1>3, <1>5, <1>6 DEF Client

\* Every step of the access point is one of six for the DHCP service: a station
\* sends, the socket receives or discards a message, service_dhcp moves it to the
\* transmit buffer or gives it up, the stack transmits the oldest reply.
LEMMA DhcpStep ==
  ASSUME TypeOK, [Next]_vars
  PROVE  \/ DhcpUnmoved
         \/ \E message \in DhcpRequest : DhcpSent(message)
         \/ \E message \in air : DhcpAccepted(message) \/ DhcpDiscarded(message)
         \/ DhcpGivenUp
         \/ DhcpAnswered
<1> USE DhcpTypes
<1>1. CASE UNCHANGED <<dhcpRx, dhcpTx, replies, air, sentXids>>
  BY <1>1 DEF DhcpUnmoved, DhcpWaiting, DhcpDone
<1>2. CASE ReceiveDhcp
  <2>1. PICK message \in air :
          /\ air' = air \ {message}
          /\ dhcpRx' = Append(dhcpRx, message) \/ dhcpRx' = dhcpRx
    BY <1>2 DEF ReceiveDhcp
  <2>2. UNCHANGED <<dhcpTx, replies, sentXids>>
    BY <1>2 DEF ReceiveDhcp
  <2>3. UNCHANGED DhcpDone
    BY <2>2 DEF DhcpDone
  <2>4. message \in DhcpRequest
    BY <2>1
  <2>5. DhcpWaiting' = Requested(dhcpTx) \o dhcpRx'
    BY <2>2 DEF DhcpWaiting, Requested
  <2>6. CASE dhcpRx' = Append(dhcpRx, message)
    <3>1. Requested(dhcpTx) \o Append(dhcpRx, message)
            = Append(Requested(dhcpTx) \o dhcpRx, message)
      BY <2>4, AppendLast
    <3>2. DhcpWaiting' = Append(DhcpWaiting, message)
      BY <2>5, <2>6, <3>1
    <3>3. DhcpAccepted(message)
      BY <2>1, <2>2, <2>3, <3>2 DEF DhcpAccepted
    <3>4. QED
      BY <2>1, <3>3
  <2>7. CASE dhcpRx' = dhcpRx
    <3>1. UNCHANGED DhcpWaiting
      BY <2>5, <2>7
    <3>2. DhcpDiscarded(message)
      BY <2>1, <2>2, <2>3, <3>1 DEF DhcpDiscarded
    <3>3. QED
      BY <2>1, <3>2
  <2>8. QED
    BY <2>1, <2>6, <2>7
<1>3. CASE TransmitDhcp
  <2>1. /\ dhcpTx # <<>> /\ UNCHANGED <<dhcpRx, air, sentXids>>
        /\ replies' = replies \cup {Head(dhcpTx)}
        /\ dhcpTx' = Tail(dhcpTx)
    BY <1>3 DEF TransmitDhcp, clientVars
  <2>2. /\ Requested(dhcpTx) # <<>>
        /\ Head(Requested(dhcpTx)) = Head(dhcpTx).request
        /\ Requested(Tail(dhcpTx)) = Tail(Requested(dhcpTx))
    BY <2>1, RequestedTail
  <2>3. DhcpWaiting' = Requested(Tail(dhcpTx)) \o dhcpRx
    BY <2>1 DEF DhcpWaiting, Requested
  <2>4. /\ DhcpWaiting # <<>>
        /\ Head(DhcpWaiting) = Head(Requested(dhcpTx))
        /\ Tail(DhcpWaiting) = Tail(Requested(dhcpTx)) \o dhcpRx
    BY <2>2, TakeFirst
  <2>5. DhcpDone' = DhcpDone \cup {Head(dhcpTx).request}
    BY <2>1 DEF DhcpDone
  <2>6. DhcpAnswered
    BY <2>1, <2>2, <2>3, <2>4, <2>5 DEF DhcpAnswered
  <2>7. QED
    BY <2>6
<1>4. CASE ServiceDhcp
  <2>1. UNCHANGED <<replies, air, sentXids>>
    BY <1>4 DEF ServiceDhcp, networkVars, clientVars
  <2>2. CASE dhcpRx = <<>>
    BY <1>1, <1>4, <2>1, <2>2 DEF ServiceDhcp
  <2>3. CASE dhcpRx # <<>>
    <3> DEFINE request == Head(dhcpRx)
    <3>1. request \in DhcpRequest /\ dhcpRx' = Tail(dhcpRx)
      BY <1>4, <2>3, HeadTailProperties DEF ServiceDhcp, DhcpRemainder
    <3>2. dhcpTx' = Append(dhcpTx, ReplyTo(request)) \/ dhcpTx' = dhcpTx
      BY <1>4, <2>3 DEF ServiceDhcp, AnswerDhcp
    <3>3. UNCHANGED DhcpDone
      BY <2>1 DEF DhcpDone
    <3>4. DhcpWaiting' = Requested(dhcpTx') \o dhcpRx'
      BY DEF DhcpWaiting, Requested
    <3>5. CASE dhcpTx' = Append(dhcpTx, ReplyTo(request))
      <4>1. ReplyTo(request) \in DhcpReply /\ ReplyTo(request).request = request
        BY <3>1, ReplyType DEF ReplyTo
      <4>2. Requested(dhcpTx') = Append(Requested(dhcpTx), request)
        BY <3>5, <4>1, RequestedAppend
      <4>3. DhcpWaiting' = DhcpWaiting
        BY <2>3, <3>1, <3>4, <4>2, MoveHead
      <4>4. QED
        BY <2>1, <3>3, <4>3 DEF DhcpUnmoved
    <3>6. CASE dhcpTx' = dhcpTx
      <4>1. DhcpWaiting' = Requested(dhcpTx) \o Tail(dhcpRx)
        BY <3>1, <3>4, <3>6
      <4>2. /\ Len(Requested(dhcpTx)) + 1 \in DOMAIN DhcpWaiting
            /\ Requested(dhcpTx) \o Tail(dhcpRx)
                 = RemoveAt(DhcpWaiting, Len(Requested(dhcpTx)) + 1)
        BY <2>3, TakeMiddle
      <4>3. DhcpGivenUp
        BY <2>1, <3>3, <4>1, <4>2 DEF DhcpGivenUp
      <4>4. QED
        BY <4>3
    <3>7. QED
      BY <3>2, <3>5, <3>6
  <2>4. QED
    BY <2>2, <2>3
<1>5. CASE ReceiveEcho \/ TransmitEcho \/ ServiceEcho
  BY <1>1, <1>5 DEF ReceiveEcho, TransmitEcho, ServiceEcho, networkVars, clientVars
<1>6. CASE ServiceEvent \/ ServicesDone \/ PollEnds \/ IterationEnds \/ AccessPointFails
             \/ ControllerPosts
  BY <1>1, <1>6 DEF ServiceEvent, ServicesDone, PollEnds, IterationEnds, AccessPointFails,
                    ControllerPosts, socketVars, networkVars, clientVars
<1>7. CASE \E c \in Stations : Client(c)
  BY <1>7, ClientStep
<1>8. CASE Halted \/ UNCHANGED vars
  BY <1>1, <1>8 DEF Halted, vars, socketVars, networkVars, clientVars
<1>9. QED
  BY <1>2, <1>3, <1>4, <1>5, <1>6, <1>7, <1>8 DEF Next, Run, Stack

\* A message is known by its transaction id, and no id is in use that no station
\* has drawn yet.
Numbered ==
  /\ \A message \in Messages : message.id <= sentXids
  /\ \A message, other \in Messages : message.id = other.id => message = other

\* What is on its way has not arrived.
Separate == \A message \in air : message \notin DhcpDone \cup Range(DhcpWaiting)

DhcpInv == TypeOK /\ Numbered /\ Separate

\* No step makes two messages of one, and only a station makes a new one.
LEMMA MessagesStep ==
  ASSUME TypeOK, TypeOK', [Next]_vars
  PROVE  \/ Messages' \subseteq Messages /\ sentXids' = sentXids
         \/ \E message \in DhcpRequest :
              DhcpSent(message) /\ Messages' = Messages \cup {message}
<1> USE DhcpTypes DEF Messages
<1>1. CASE DhcpUnmoved
  BY <1>1 DEF DhcpUnmoved
<1>2. ASSUME NEW message \in DhcpRequest, DhcpSent(message)
      PROVE  Messages' = Messages \cup {message}
  BY <1>2 DEF DhcpSent
<1>3. ASSUME NEW message \in air, DhcpAccepted(message) \/ DhcpDiscarded(message)
      PROVE  Messages' \subseteq Messages /\ sentXids' = sentXids
  <2>1. message \in DhcpRequest
    BY <1>3
  <2>2. Range(Append(DhcpWaiting, message)) = Range(DhcpWaiting) \cup {message}
    BY <2>1, Ranges
  <2>3. QED
    BY <1>3, <2>2 DEF DhcpAccepted, DhcpDiscarded
<1>4. CASE DhcpGivenUp
  <2>1. PICK i \in DOMAIN DhcpWaiting : DhcpWaiting' = RemoveAt(DhcpWaiting, i)
    BY <1>4 DEF DhcpGivenUp
  <2>2. i \in 1 .. Len(DhcpWaiting)
    BY <2>1, LenProperties
  <2>3. Range(DhcpWaiting') \subseteq Range(DhcpWaiting)
    BY <2>1, <2>2, Ranges
  <2>4. QED
    BY <1>4, <2>3 DEF DhcpGivenUp
<1>5. CASE DhcpAnswered
  <2>1. Head(DhcpWaiting) \in Range(DhcpWaiting)
        /\ Range(Tail(DhcpWaiting)) \subseteq Range(DhcpWaiting)
    BY <1>5, Ranges DEF DhcpAnswered
  <2>2. QED
    BY <1>5, <2>1 DEF DhcpAnswered
<1>6. QED
  BY <1>1, <1>2, <1>3, <1>4, <1>5, DhcpStep

\* No step gives two messages one id.
LEMMA StepNumbered ==
  ASSUME TypeOK, TypeOK', Numbered, [Next]_vars
  PROVE  Numbered'
<1>1. /\ \A message \in Messages : message.id \in Nat /\ message.id <= sentXids
      /\ \A message, other \in Messages : message.id = other.id => message = other
      /\ sentXids \in Nat
  BY DhcpTypes DEF Numbered
<1>2. CASE Messages' \subseteq Messages /\ sentXids' = sentXids
  BY <1>1, <1>2 DEF Numbered
<1>3. ASSUME NEW message \in DhcpRequest, DhcpSent(message),
             Messages' = Messages \cup {message}
      PROVE  Numbered'
  <2>1. message.id = sentXids + 1 /\ sentXids' = sentXids + 1
    BY <1>3 DEF DhcpSent
  <2>2. \A other \in Messages : other.id # message.id /\ other.id <= sentXids'
    BY <1>1, <2>1
  <2>3. message.id <= sentXids'
    BY <1>1, <2>1
  <2>4. \A other \in Messages' : other \in Messages \/ other = message
    BY <1>3
  <2>5. QED
    BY <1>1, <2>2, <2>3, <2>4 DEF Numbered
<1>4. QED
  BY <1>2, <1>3, MessagesStep

\* No step delivers a message and leaves it on its way.
LEMMA StepSeparate ==
  ASSUME DhcpInv, [Next]_vars
  PROVE  Separate'
<1> USE DhcpTypes DEF DhcpInv
<1>1. \A message \in air : message \notin DhcpDone /\ message \notin Range(DhcpWaiting)
  BY DEF Separate
<1>2. CASE DhcpUnmoved
  BY <1>1, <1>2 DEF DhcpUnmoved, Separate
<1>3. ASSUME NEW message \in DhcpRequest, DhcpSent(message)
      PROVE  Separate'
  <2>1. message \notin Messages
    <3>1. message.id = sentXids + 1
      BY <1>3 DEF DhcpSent
    <3>2. ~(message.id <= sentXids)
      BY <3>1
    <3>3. QED
      BY <3>2 DEF Numbered
  <2>2. message \notin DhcpDone /\ message \notin Range(DhcpWaiting)
    BY <2>1 DEF Messages
  <2>3. QED
    BY <1>1, <1>3, <2>2 DEF DhcpSent, Separate
<1>4. ASSUME NEW message \in air, DhcpAccepted(message) \/ DhcpDiscarded(message)
      PROVE  Separate'
  <2>1. message \in DhcpRequest
    BY <1>4
  <2>2. Range(Append(DhcpWaiting, message)) = Range(DhcpWaiting) \cup {message}
    BY <2>1, Ranges
  <2>3. QED
    BY <1>1, <1>4, <2>2 DEF DhcpAccepted, DhcpDiscarded, Separate
<1>5. CASE DhcpGivenUp
  <2>1. PICK i \in DOMAIN DhcpWaiting : DhcpWaiting' = RemoveAt(DhcpWaiting, i)
    BY <1>5 DEF DhcpGivenUp
  <2>2. i \in 1 .. Len(DhcpWaiting)
    BY <2>1, LenProperties
  <2>3. Range(DhcpWaiting') \subseteq Range(DhcpWaiting)
    BY <2>1, <2>2, Ranges
  <2>4. QED
    BY <1>1, <1>5, <2>3 DEF DhcpGivenUp, Separate
<1>6. CASE DhcpAnswered
  <2>1. /\ Head(DhcpWaiting) \in Range(DhcpWaiting)
        /\ Range(Tail(DhcpWaiting)) \subseteq Range(DhcpWaiting)
    BY <1>6, Ranges DEF DhcpAnswered
  <2>2. QED
    BY <1>1, <1>6, <2>1 DEF DhcpAnswered, Separate
<1>7. QED
  BY <1>2, <1>3, <1>4, <1>5, <1>6, DhcpStep

\* The invariant of the DHCP service, from the start.
LEMMA DhcpInvariant == Spec => []DhcpInv
<1>1. Init => DhcpInv
  <2> SUFFICES ASSUME Init PROVE DhcpInv
    OBVIOUS
  <2>1. air = {} /\ DhcpDone = {} /\ dhcpTx = <<>> /\ dhcpRx = <<>>
    BY DEF Init, DhcpDone
  <2>2. DhcpWaiting = <<>>
    BY <2>1 DEF DhcpWaiting
  <2>3. Messages = {}
    BY <2>1, <2>2 DEF Messages, Range
  <2>4. QED
    BY <2>1, <2>3, InitType DEF DhcpInv, Numbered, Separate
<1>2. DhcpInv /\ [Next]_vars => DhcpInv'
  <2> SUFFICES ASSUME DhcpInv, [Next]_vars PROVE DhcpInv'
    OBVIOUS
  <2>1. TypeOK /\ TypeOK'
    BY StepType DEF DhcpInv
  <2>2. Numbered'
    BY <2>1, StepNumbered DEF DhcpInv
  <2>3. Separate'
    BY StepSeparate
  <2>4. QED
    BY <2>1, <2>2, <2>3 DEF DhcpInv
<1>3. QED
  BY <1>1, <1>2, PTL DEF Spec, SafeSpec

\* The DHCP service implements a responder too: it takes each message once, even
\* if it gives up half of them, and answers in the order of their arrival.
THEOREM DhcpImplemented == Spec => DhcpRefined
<1> USE DEF DhcpService!responderVars
<1>1. Init => DhcpService!ResponderInit
  BY DEF Init, DhcpWaiting, DhcpService!ResponderInit
<1>2. ASSUME DhcpInv, [Next]_vars
      PROVE  [DhcpService!ResponderNext]_<<DhcpWaiting, DhcpDone>>
  <2>1. TypeOK /\ Separate
    BY <1>2 DEF DhcpInv
  <2>2. ASSUME DhcpUnmoved \/ (\E message \in DhcpRequest : DhcpSent(message))
                 \/ (\E message \in air : DhcpDiscarded(message))
        PROVE  UNCHANGED <<DhcpWaiting, DhcpDone>>
    BY <2>2 DEF DhcpUnmoved, DhcpSent, DhcpDiscarded
  <2>3. ASSUME NEW message \in air, DhcpAccepted(message)
        PROVE  DhcpService!ResponderNext
    <3>1. message \notin DhcpDone \cup Range(DhcpWaiting) /\ message \in DhcpRequest
      BY <2>1, <2>3, DhcpTypes DEF Separate
    <3>2. DhcpService!Range(DhcpWaiting) = Range(DhcpWaiting)
      BY DEF Range, DhcpService!Range
    <3>3. DhcpService!Accept(message)
      BY <2>3, <3>1, <3>2 DEF DhcpService!Accept, DhcpAccepted, DhcpDone
    <3>4. QED
      BY <3>1, <3>3 DEF DhcpService!ResponderNext
  <2>4. CASE DhcpGivenUp
    <3>1. \A i : DhcpService!RemoveAt(DhcpWaiting, i) = RemoveAt(DhcpWaiting, i)
      BY DEF RemoveAt, DhcpService!RemoveAt
    <3>2. DhcpService!GiveUp
      BY <2>4, <3>1 DEF DhcpGivenUp, DhcpService!GiveUp, DhcpDone
    <3>3. QED
      BY <3>2 DEF DhcpService!ResponderNext
  <2>5. CASE DhcpAnswered
    <3>1. DhcpService!Answer
      BY <2>5 DEF DhcpAnswered, DhcpService!Answer, DhcpDone
    <3>2. QED
      BY <3>1 DEF DhcpService!ResponderNext
  <2>6. QED
    BY <1>2, <2>1, <2>2, <2>3, <2>4, <2>5, DhcpStep
<1>3. QED
  BY <1>1, <1>2, DhcpInvariant, PTL
  DEF Spec, SafeSpec, DhcpRefined, DhcpService!ResponderSpec, DhcpDone

-----------------------------------------------------------------------------
(***************************************************************************)
(* Replies and the clients that wait for them                              *)
(***************************************************************************)
\* The message that a client has been waiting for since it heard an offer.
Requesting(message) ==
  /\ message.id = client[message.client].id
  /\ client[message.client].state = "requesting"

\* No client waits for an answer to a message that nobody has sent; neither a
\* discover nor a request that is still wanted was sent from an address.
ClientsUnaddressed ==
  /\ \A c \in Stations : client[c].id <= sentXids
  /\ \A message \in Messages :
       message.kind = "discover" \/ Requesting(message) => ~message.addressed

\* A reply is what the access point makes of its request.
RepliesMade ==
  \A reply \in Range(dhcpTx) \cup replies : reply = ReplyTo(reply.request)

ReachInv == DhcpInv /\ ClientsUnaddressed /\ RepliesMade

\* Only service_dhcp makes a reply, and the stack changes none.
LEMMA StepReplies ==
  ASSUME DhcpInv, RepliesMade, [Next]_vars
  PROVE  RepliesMade'
<1>1. dhcpTx \in Seq(DhcpReply) /\ dhcpRx \in Seq(DhcpRequest)
  BY DhcpTypes DEF DhcpInv
<1>2. CASE UNCHANGED <<dhcpTx, replies>>
  BY <1>2 DEF RepliesMade
<1>3. CASE TransmitDhcp
  <2>1. /\ dhcpTx # <<>> /\ replies' = replies \cup {Head(dhcpTx)}
        /\ dhcpTx' = Tail(dhcpTx)
    BY <1>3 DEF TransmitDhcp
  <2>2. Head(dhcpTx) \in Range(dhcpTx) /\ Range(Tail(dhcpTx)) \subseteq Range(dhcpTx)
    BY <1>1, <2>1, Ranges
  <2>3. QED
    BY <2>1, <2>2 DEF RepliesMade
<1>4. CASE ServiceDhcp
  <2>1. replies' = replies
    BY <1>4 DEF ServiceDhcp, networkVars
  <2>2. CASE dhcpRx = <<>>
    BY <1>2, <1>4, <2>1, <2>2 DEF ServiceDhcp
  <2>3. CASE dhcpRx # <<>>
    <3> DEFINE request == Head(dhcpRx)
    <3>1. request \in DhcpRequest
      BY <1>1, <2>3, HeadTailProperties
    <3>2. dhcpTx' = Append(dhcpTx, ReplyTo(request)) \/ dhcpTx' = dhcpTx
      BY <1>4, <2>3 DEF ServiceDhcp, AnswerDhcp
    <3>3. ReplyTo(request) \in DhcpReply
      BY <3>1, ReplyType
    <3>4. ReplyTo(request) = ReplyTo(ReplyTo(request).request)
      BY DEF ReplyTo
    <3>5. Range(Append(dhcpTx, ReplyTo(request))) = Range(dhcpTx) \cup {ReplyTo(request)}
      BY <1>1, <3>3, Ranges
    <3> HIDE DEF request
    <3>6. Range(dhcpTx') \subseteq Range(dhcpTx) \cup {ReplyTo(request)}
      BY <3>2, <3>5
    <3>7. QED
      BY <2>1, <3>4, <3>6 DEF RepliesMade
  <2>4. QED
    BY <2>2, <2>3
<1>5. CASE ReceiveDhcp \/ ReceiveEcho \/ TransmitEcho \/ ServiceEcho
  BY <1>2, <1>5 DEF ReceiveDhcp, ReceiveEcho, TransmitEcho, ServiceEcho, networkVars
<1>6. CASE ServiceEvent \/ ServicesDone \/ PollEnds \/ IterationEnds \/ AccessPointFails
             \/ ControllerPosts
  BY <1>2, <1>6 DEF ServiceEvent, ServicesDone, PollEnds, IterationEnds, AccessPointFails,
                    ControllerPosts, socketVars, networkVars
<1>7. CASE \E c \in Stations : Client(c)
  BY <1>2, <1>7 DEF Client, ClientSends, StationStrays, ClientHears, ClientResets, socketVars
<1>8. CASE Halted \/ UNCHANGED vars
  BY <1>2, <1>8 DEF Halted, vars, socketVars, networkVars
<1>9. QED
  BY <1>3, <1>4, <1>5, <1>6, <1>7, <1>8 DEF Next, Run, Stack

\* Only a station changes what its client waits for.
LEMMA ClientsKept ==
  ASSUME [Next]_vars
  PROVE  \/ UNCHANGED <<client, sentXids>>
         \/ \E c \in Stations : Client(c)
BY DEF Next, Run, Stack, ServiceEvent, ServicesDone, PollEnds, ServiceDhcp, ServiceEcho,
       IterationEnds, ReceiveEcho, ReceiveDhcp, TransmitEcho, TransmitDhcp, AccessPointFails,
       ControllerPosts, Halted, vars, networkVars, clientVars

\* A client without an address is still without one when it hears an offer, and
\* no step makes it wait, as one without an address, for an answer to a message
\* that it sent from an address.
LEMMA StepClients ==
  ASSUME ReachInv, DhcpInv', [Next]_vars
  PROVE  ClientsUnaddressed'
<1> USE DEF ReachInv
<1>1. /\ TypeOK /\ TypeOK'
      /\ \A message \in Messages :
           /\ message \in DhcpRequest
           /\ message.id \in Nat /\ message.id <= sentXids
           /\ message.client \in Stations
      /\ \A message, other \in Messages : message.id = other.id => message = other
      /\ sentXids \in Nat
  BY DhcpTypes DEF DhcpInv, Numbered
<1>2. client \in [Stations -> [state : ClientStates, id : 0 .. MaxXid]]
  BY <1>1 DEF TypeOK, DhcpOK
<1>3. /\ \A c \in Stations : client[c].id \in Nat /\ client[c].id <= sentXids
      /\ \A message \in Messages : message.kind = "discover" => ~message.addressed
      /\ \A message \in Messages : Requesting(message) => ~message.addressed
  BY <1>2, Sizes DEF ClientsUnaddressed
<1>4. CASE UNCHANGED <<client, sentXids>>
  <2>1. Messages' \subseteq Messages
    <3>1. \A message : ~DhcpSent(message)
      <4>1. sentXids # sentXids + 1
        BY <1>1
      <4>2. QED
        BY <1>4, <4>1 DEF DhcpSent
    <3>2. QED
      BY <1>1, <3>1, MessagesStep
  <2>2. \A message : Requesting(message)' <=> Requesting(message)
    BY <1>4 DEF Requesting
  <2>3. QED
    BY <1>3, <1>4, <2>1, <2>2 DEF ClientsUnaddressed
<1>5. ASSUME NEW c \in Stations, ClientSends(c)
      PROVE  ClientsUnaddressed'
  <2>1. PICK broadcast \in BOOLEAN : air' = air \cup
          {[client |-> c, id |-> sentXids',
            kind |-> IF client[c].state = "discovering" THEN "discover" ELSE "request",
            addressed |-> HasAddress(c), broadcast |-> broadcast]}
    BY <1>5 DEF ClientSends
  <2> DEFINE kind == IF client[c].state = "discovering" THEN "discover" ELSE "request"
             state == IF HasAddress(c) THEN "renewing" ELSE client[c].state
  <2>sent. PICK message : message = [client |-> c, id |-> sentXids', kind |-> kind,
                                  addressed |-> HasAddress(c), broadcast |-> broadcast]
    OBVIOUS
  <2>2. sentXids' = sentXids + 1 /\ UNCHANGED <<dhcpRx, dhcpTx, replies>>
    BY <1>5 DEF ClientSends, socketVars
  <2>3. Messages' = Messages \cup {message}
    BY <2>sent, <2>1, <2>2 DEF Messages, DhcpWaiting, DhcpDone
  <2>4. client' = [client EXCEPT ![c] = [state |-> state, id |-> sentXids']]
    BY <1>5 DEF ClientSends
  <2>5. /\ client'[c].state = state /\ client'[c].id = sentXids + 1
        /\ \A d \in Stations : d # c => client'[d] = client[d]
    BY <1>2, <1>5, <2>2, <2>4
  <2>6. \A d \in Stations : client'[d].id <= sentXids'
    BY <1>1, <1>3, <2>2, <2>5
  <2>7. ~message.addressed \/ (message.kind # "discover" /\ state # "requesting")
    BY <2>sent DEF HasAddress
  <2>8. message.client = c
    BY <2>sent
  <2> HIDE DEF state
  <2>9. message.kind = "discover" \/ Requesting(message)' => ~message.addressed
    BY <2>5, <2>7, <2>8 DEF Requesting
  <2>10. ASSUME NEW other \in Messages
         PROVE  other.kind = "discover" \/ Requesting(other)' => ~other.addressed
    <3>1. CASE other.client = c
      <4>1. other.id # sentXids + 1
        BY <1>1, <2>10
      <4>2. ~Requesting(other)'
        BY <2>5, <3>1, <4>1 DEF Requesting
      <4>3. QED
        BY <1>3, <2>10, <4>2
    <3>2. CASE other.client # c
      <4>1. client'[other.client] = client[other.client]
        BY <1>1, <2>5, <2>10, <3>2
      <4>2. Requesting(other)' <=> Requesting(other)
        BY <4>1 DEF Requesting
      <4>3. QED
        BY <1>3, <2>10, <4>2
    <3>3. QED
      BY <3>1, <3>2
  <2>11. QED
    BY <2>3, <2>6, <2>9, <2>10 DEF ClientsUnaddressed
<1>6. ASSUME NEW c \in Stations, StationStrays(c)
      PROVE  ClientsUnaddressed'
  <2>1. PICK kind \in {"other", "invalid"}, addressed \in BOOLEAN :
          air' = air \cup
            {[client |-> c, id |-> sentXids', kind |-> kind,
              addressed |-> addressed, broadcast |-> FALSE]}
    BY <1>6 DEF StationStrays
  <2>sent. PICK message : message = [client |-> c, id |-> sentXids', kind |-> kind,
                                  addressed |-> addressed, broadcast |-> FALSE]
    OBVIOUS
  <2>2. sentXids' = sentXids + 1 /\ UNCHANGED <<client, dhcpRx, dhcpTx, replies>>
    BY <1>6 DEF StationStrays, socketVars
  <2>3. Messages' = Messages \cup {message}
    BY <2>sent, <2>1, <2>2 DEF Messages, DhcpWaiting, DhcpDone
  <2>4. \A d \in Stations : client'[d].id <= sentXids'
    BY <1>1, <1>3, <2>2
  <2>5. message.client = c /\ message.id = sentXids + 1 /\ message.kind # "discover"
    BY <2>sent, <2>1, <2>2
  <2>6. ~Requesting(message)'
    <3>1. client[c].id # sentXids + 1
      BY <1>1, <1>3, <1>6
    <3>2. QED
      BY <2>2, <2>5, <3>1 DEF Requesting
  <2>7. \A other : Requesting(other)' <=> Requesting(other)
    BY <2>2 DEF Requesting
  <2>8. QED
    BY <1>3, <2>3, <2>4, <2>5, <2>6, <2>7 DEF ClientsUnaddressed
<1>7. ASSUME NEW c \in Stations, ClientHears(c)
      PROVE  ClientsUnaddressed'
  <2>1. PICK reply \in replies :
          /\ Awaits(c, reply)
          /\ client' = [client EXCEPT ![c].state =
               IF reply.kind = "offer" THEN "requesting" ELSE "bound"]
    BY <1>7 DEF ClientHears
  <2>2. UNCHANGED <<dhcpRx, dhcpTx, replies, air, sentXids>>
    BY <1>7 DEF ClientHears, socketVars
  <2>3. Messages' = Messages
    BY <2>2 DEF Messages, DhcpWaiting, DhcpDone
  <2>4. /\ client'[c].state = IF reply.kind = "offer" THEN "requesting" ELSE "bound"
        /\ \A d \in Stations : client'[d].id = client[d].id
        /\ \A d \in Stations : d # c => client'[d] = client[d]
    BY <1>2, <1>7, <2>1
  <2>5. reply.request \in Messages /\ reply.request.id = client[c].id
    BY <2>1 DEF Messages, DhcpDone, Awaits
  <2>6. reply.kind = "offer" => reply.request.kind = "discover"
    <3>1. reply = ReplyTo(reply.request)
      BY <2>1 DEF RepliesMade
    <3>2. ReplyTo(reply.request).kind = "offer" => reply.request.kind = "discover"
      BY DEF ReplyTo
    <3>3. QED
      BY <3>1, <3>2
  <2>7. ASSUME NEW message \in Messages, Requesting(message)'
        PROVE  ~message.addressed
    <3>1. CASE message.client = c
      <4>1. message.id = client[c].id /\ client'[c].state = "requesting"
        BY <1>7, <2>4, <2>7, <3>1 DEF Requesting
      <4>2. message = reply.request
        BY <1>1, <2>5, <2>7, <4>1
      <4>3. message.kind = "discover"
        BY <2>4, <2>6, <4>1, <4>2
      <4>4. QED
        BY <1>3, <2>7, <4>3
    <3>2. CASE message.client # c
      <4>1. client'[message.client] = client[message.client]
        BY <1>1, <2>4, <2>7, <3>2
      <4>2. Requesting(message)
        BY <2>7, <4>1 DEF Requesting
      <4>3. QED
        BY <1>3, <2>7, <4>2
    <3>3. QED
      BY <3>1, <3>2
  <2>8. QED
    BY <1>3, <2>2, <2>3, <2>4, <2>7 DEF ClientsUnaddressed
<1>8. ASSUME NEW c \in Stations, ClientResets(c)
      PROVE  ClientsUnaddressed'
  <2>1. /\ client' = [client EXCEPT ![c].state = "discovering"]
        /\ UNCHANGED <<dhcpRx, dhcpTx, replies, air, sentXids>>
    BY <1>8 DEF ClientResets, socketVars
  <2>2. Messages' = Messages
    BY <2>1 DEF Messages, DhcpWaiting, DhcpDone
  <2>3. /\ client'[c].state = "discovering"
        /\ \A d \in Stations : client'[d].id = client[d].id
        /\ \A d \in Stations : d # c => client'[d] = client[d]
    BY <1>2, <1>8, <2>1
  <2>4. \A message \in Messages : Requesting(message)' => Requesting(message)
    BY <1>1, <2>3 DEF Requesting
  <2>5. QED
    BY <1>3, <2>1, <2>2, <2>3, <2>4 DEF ClientsUnaddressed
<1>9. QED
  BY <1>4, <1>5, <1>6, <1>7, <1>8, ClientsKept DEF Client

\* A reply that its station waits for when it is queued or transmitted can reach
\* the station, for every number of stations and of messages and whatever becomes
\* of the lease meanwhile: the access point answers an unaddressed message by
\* broadcast alone.
THEOREM RepliesReachClients == Spec => []ReplyReachesClient
<1>1. Init => ReachInv
  <2> SUFFICES ASSUME Init PROVE ReachInv
    OBVIOUS
  <2>1. /\ air = {} /\ DhcpDone = {} /\ dhcpTx = <<>> /\ dhcpRx = <<>> /\ replies = {}
        /\ sentXids = 0 /\ client = [c \in Stations |-> [state |-> "discovering", id |-> 0]]
    BY DEF Init, DhcpDone
  <2>2. DhcpWaiting = <<>>
    BY <2>1 DEF DhcpWaiting
  <2>3. Messages = {} /\ Range(dhcpTx) = {}
    BY <2>1, <2>2 DEF Messages, Range
  <2>4. DhcpInv
    BY <2>1, <2>3, InitType DEF DhcpInv, Numbered, Separate
  <2>5. QED
    BY <2>1, <2>3, <2>4 DEF ReachInv, ClientsUnaddressed, RepliesMade
<1>2. ReachInv /\ DhcpInv' /\ [Next]_vars => ReachInv'
  BY StepReplies, StepClients DEF ReachInv
<1>3. ReachInv => ReplyReachesClient
  <2> SUFFICES ASSUME ReachInv, NEW i \in DOMAIN dhcpTx, NEW c \in Stations,
                      Awaits(c, dhcpTx[i])
               PROVE  Reaches(dhcpTx[i], c)
    BY DEF ReplyReachesClient
  <2> DEFINE reply == dhcpTx[i]
             request == reply.request
  <2>1. /\ request.client = c /\ request.id = client[c].id
        /\ \/ client[c].state = "discovering" /\ reply.kind = "offer"
           \/ client[c].state \in {"requesting", "renewing"} /\ reply.kind = "ack"
    BY DEF Awaits
  <2>2. reply = ReplyTo(request)
    BY DEF ReachInv, RepliesMade, Range
  <2>3. request \in Messages
    <3>1. /\ dhcpTx \in Seq(DhcpReply) /\ dhcpRx \in Seq(DhcpRequest)
          /\ DhcpWaiting = Requested(dhcpTx) \o dhcpRx
          /\ i \in 1 .. Len(dhcpTx)
      BY DhcpTypes, LenProperties DEF ReachInv, DhcpInv
    <3>2. /\ Requested(dhcpTx) \in Seq(DhcpRequest) /\ Len(Requested(dhcpTx)) = Len(dhcpTx)
          /\ Requested(dhcpTx)[i] = request
          /\ Len(dhcpTx) \in Nat /\ Len(dhcpRx) \in Nat
      BY <3>1, RequestedType, LenProperties
    <3> DEFINE queued == Requested(dhcpTx)
    <3> HIDE DEF queued
    <3>3. /\ DhcpWaiting \in Seq(DhcpRequest)
          /\ Len(DhcpWaiting) = Len(dhcpTx) + Len(dhcpRx)
          /\ \A j \in 1 .. Len(dhcpTx) + Len(dhcpRx) :
               DhcpWaiting[j] = IF j <= Len(dhcpTx) THEN queued[j]
                                                    ELSE dhcpRx[j - Len(dhcpTx)]
      <4>1. /\ queued \in Seq(DhcpRequest) /\ Len(queued) = Len(dhcpTx)
            /\ DhcpWaiting = queued \o dhcpRx
        BY <3>1, <3>2 DEF queued
      <4>2. /\ queued \o dhcpRx \in Seq(DhcpRequest)
            /\ Len(queued \o dhcpRx) = Len(queued) + Len(dhcpRx)
            /\ \A j \in 1 .. Len(queued) + Len(dhcpRx) :
                 (queued \o dhcpRx)[j] = IF j <= Len(queued) THEN queued[j]
                                                             ELSE dhcpRx[j - Len(queued)]
        BY <3>1, <4>1, ConcatProperties
      <4>3. QED
        BY <4>1, <4>2
    <3>4. i \in 1 .. Len(dhcpTx) + Len(dhcpRx) /\ i <= Len(dhcpTx)
      BY <3>1, <3>2
    <3>5. DhcpWaiting[i] = request /\ i \in DOMAIN DhcpWaiting
      <4>1. DhcpWaiting[i] = queued[i]
        BY <3>3, <3>4
      <4>2. queued[i] = request
        BY <3>2 DEF queued
      <4>3. DOMAIN DhcpWaiting = 1 .. Len(DhcpWaiting)
        BY <3>3, LenProperties
      <4>4. QED
        BY <3>3, <3>4, <4>1, <4>2, <4>3
    <3>6. QED
      BY <3>5 DEF Messages, Range
  <2> HIDE DEF request
  <2>4. reply.kind = (IF request.kind = "discover" THEN "offer" ELSE "ack")
        /\ reply.to = ReplyAddress(request)
    BY <2>2 DEF ReplyTo
  <2> HIDE DEF reply
  <2>5. CASE client[c].state = "renewing"
    BY <2>5 DEF Reaches, HasAddress, reply
  <2>6. CASE client[c].state # "renewing"
    <3>1. request.kind = "discover" \/ Requesting(request)
      BY <2>1, <2>4, <2>6 DEF Requesting
    <3>2. ~request.addressed
      BY <2>3, <3>1 DEF ReachInv, ClientsUnaddressed
    <3>3. reply.to = "broadcast"
      BY <2>4, <3>2 DEF ReplyAddress
    <3>4. QED
      BY <3>3 DEF Reaches, reply
  <2>7. QED
    BY <2>5, <2>6
<1>4. QED
  BY <1>1, <1>2, <1>3, DhcpInvariant, PTL DEF Spec, SafeSpec
=============================================================================
