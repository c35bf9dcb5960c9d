--------------------------- MODULE NetPingProofs ---------------------------
(***************************************************************************)
(* Theorems about NetPing, for any number of pings, any sizes of the       *)
(* buffers and any number of frames.                                       *)
(***************************************************************************)
EXTENDS NetPing, SequenceTheorems, TLAPS

\* What the payload of a frame is.
LEMMA FrameKinds ==
  /\ [kind |-> "arp"] \in Frames /\ [kind |-> "other"] \in Frames
  /\ \A n \in 0 .. MaxPings - 1 : [kind |-> "echo", ping |-> n] \in Frames
  /\ \A frame \in Frames : frame.kind = "echo" => frame.ping \in 0 .. MaxPings - 1
BY DEF Frames

LEMMA Bounds ==
  /\ MaxPings \in Nat /\ Deadline \in Nat /\ MaxArps \in Nat /\ MaxOther \in Nat
  /\ Interval \in Nat /\ SocketSlots \in Nat /\ BridgeSlots \in Nat /\ MaxStep \in Nat
  /\ SocketSlots > 0 /\ BridgeSlots > 0 /\ MaxStep > 0 /\ Interval > 0
BY NetPingAssumption

\* A buffer of n places takes one more while there is room, and gives its oldest.
Serves(q, S, n) ==
  /\ Len(q) \in Nat /\ Len(q) <= n
  /\ Len(q) < n => \A e \in S : /\ Append(q, e) \in Seq(S)
                               /\ Len(Append(q, e)) = Len(q) + 1
                               /\ Len(Append(q, e)) <= n
  /\ q # <<>> => /\ Head(q) \in S /\ Tail(q) \in Seq(S)
                 /\ Len(Tail(q)) = Len(q) - 1 /\ Len(q) > 0 /\ Len(Tail(q)) <= n

LEMMA Buffered ==
  ASSUME NEW S, NEW n \in Nat, NEW q \in Seq(S), Len(q) <= n
  PROVE  Serves(q, S, n)
<1>1. Len(q) \in Nat
  BY LenProperties
<1>2. ASSUME NEW e \in S, Len(q) < n
      PROVE  /\ Append(q, e) \in Seq(S) /\ Len(Append(q, e)) = Len(q) + 1
             /\ Len(Append(q, e)) <= n
  BY <1>1, <1>2, AppendProperties
<1>3. ASSUME q # <<>>
      PROVE  /\ Head(q) \in S /\ Tail(q) \in Seq(S)
             /\ Len(Tail(q)) = Len(q) - 1 /\ Len(q) > 0 /\ Len(Tail(q)) <= n
  <2>1. Head(q) \in S /\ Tail(q) \in Seq(S) /\ Len(Tail(q)) = Len(q) - 1
    BY <1>3, HeadTailProperties
  <2>2. Len(q) # 0
    BY <1>3, EmptySeq
  <2>3. QED
    BY <1>1, <2>1, <2>2
<1>4. QED
  BY <1>1, <1>2, <1>3 DEF Serves

Pings == 0 .. MaxPings - 1

\* The four buffers of the system are such.
LEMMA Buffers ==
  ASSUME TypeOK
  PROVE  /\ Serves(mac, Frames, 1) /\ Serves(bridge, Frames, BridgeSlots)
         /\ Serves(icmpTx, Pings, SocketSlots) /\ Serves(icmpRx, Pings, SocketSlots)
<1>1. /\ mac \in Seq(Frames) /\ Len(mac) <= 1
      /\ bridge \in Seq(Frames) /\ Len(bridge) <= BridgeSlots
      /\ icmpTx \in Seq(Pings) /\ Len(icmpTx) <= SocketSlots
      /\ icmpRx \in Seq(Pings) /\ Len(icmpRx) <= SocketSlots
  BY DEF TypeOK, Pings
<1>2. 1 \in Nat /\ BridgeSlots \in Nat /\ SocketSlots \in Nat
  BY Bounds
<1>3. QED
  BY <1>1, <1>2, Buffered

-----------------------------------------------------------------------------
(***************************************************************************)
(* Types                                                                   *)
(***************************************************************************)
\* Replies are counted once: the loop ends with the iteration that counted one.
CountsOnce == received = 1 => pc \in {"judge", "ended"}

LEMMA StepType == TypeOK /\ CountsOnce /\ [Next]_vars => TypeOK' /\ CountsOnce'
<1> SUFFICES ASSUME TypeOK, CountsOnce, [Next]_vars PROVE TypeOK' /\ CountsOnce'
  OBVIOUS
<1> USE DEF CountsOnce, loopVars, socketVars, handlerVars, networkVars
<1>1. ASSUME NEW frame \in Frames, MacTakes(frame)
      PROVE  mac' \in Seq(Frames) /\ Len(mac') <= 1 /\ pending' \in BOOLEAN /\ taken' \in Nat
  BY <1>1 DEF MacTakes, TypeOK
<1>2. CASE GatewayAnswers
  <2>1. PICK frame \in Frames : MacTakes(frame) /\ air' = air \ {frame} /\ UNCHANGED others
    BY <1>2 DEF GatewayAnswers, TypeOK
  <2>2. QED
    BY <1>1, <2>1 DEF MacTakes, TypeOK
<1>3. CASE NetworkSends
  <2>1. MacTakes([kind |-> "other"]) /\ others < MaxOther /\ others' = others + 1
        /\ UNCHANGED air
    BY <1>3 DEF NetworkSends
  <2>2. others' \in 0 .. MaxOther
    BY <2>1, Bounds DEF TypeOK
  <2>3. QED
    BY <1>1, <2>1, <2>2, FrameKinds DEF MacTakes, TypeOK
<1>4. CASE Trap
  BY <1>4 DEF Trap, TypeOK
<1>5. CASE DrainRx
  <2>1. handler' \in {"ack", "clear"}
    BY <1>5 DEF DrainRx, AfterStep
  <2>2. bridge \in Seq(Frames) /\ Len(bridge) <= BridgeSlots /\ settled \in Nat
    BY DEF TypeOK
  <2>3. bridge' \in Seq(Frames) /\ Len(bridge') <= BridgeSlots /\ settled' \in Nat
    <3>1. \/ bridge' = bridge /\ settled' \in {settled, settled + 1}
          \/ /\ mac # <<>> /\ Len(bridge) < BridgeSlots
             /\ bridge' = Append(bridge, Head(mac)) /\ settled' = settled
      BY <1>5 DEF DrainRx
    <3>2. CASE mac # <<>> /\ Len(bridge) < BridgeSlots /\ bridge' = Append(bridge, Head(mac))
      <4>1. Head(mac) \in Frames
        BY <3>2, Buffers DEF Serves
      <4>2. QED
        BY <2>2, <3>1, <3>2, <4>1, Buffers DEF Serves
    <3>3. QED
      BY <2>2, <3>1, <3>2
  <2>4. QED
    BY <1>5, <2>1, <2>3 DEF DrainRx, TypeOK
<1>6. CASE AckRx
  BY <1>6, Bounds DEF AckRx, AfterStep, Released, TypeOK
<1>7. CASE CountHit
  BY <1>7 DEF CountHit, AfterStep, TypeOK
<1>8. CASE ClearPending
  BY <1>8 DEF ClearPending, AfterStep, TypeOK
<1>9. CASE Main /\ (EnableMac \/ EnableInterrupts \/ PollEnds \/ Spins)
  BY <1>9 DEF Main, EnableMac, EnableInterrupts, PollEnds, Spins, TypeOK
<1>10. CASE Main /\ PollReceives
  <2>1. Head(bridge) \in Frames /\ bridge' \in Seq(Frames) /\ Len(bridge') <= BridgeSlots
    <3>1. bridge # <<>> /\ bridge' = Tail(bridge)
      BY <1>10 DEF PollReceives
    <3>2. QED
      BY <3>1, Buffers DEF Serves
  <2>2. icmpRx' \in Seq(0 .. MaxPings - 1) /\ Len(icmpRx') <= SocketSlots
    <3>1. CASE Head(bridge).kind = "echo" /\ Len(icmpRx) < SocketSlots
      <4>1. Head(bridge).ping \in Pings
        BY <2>1, <3>1, FrameKinds DEF Pings
      <4>2. icmpRx' = Append(icmpRx, Head(bridge).ping)
        BY <1>10, <3>1 DEF PollReceives
      <4>3. QED
        BY <3>1, <4>1, <4>2, Buffers DEF Serves, Pings
    <3>2. CASE ~(Head(bridge).kind = "echo" /\ Len(icmpRx) < SocketSlots)
      BY <1>10, <3>2 DEF PollReceives, TypeOK
    <3>3. QED
      BY <3>1, <3>2
  <2>3. resolved' \in BOOLEAN /\ settled' \in Nat
    <3>1. resolved' = (resolved \/ Head(bridge).kind = "arp") /\ settled' = settled + 1
      BY <1>10 DEF PollReceives
    <3>2. settled' \in Nat
      BY <3>1 DEF TypeOK
    <3>3. QED
      BY <3>1, <3>2
  <2>4. /\ UNCHANGED <<pc, now, nextSend, seq, received, udp, verdict>>
        /\ UNCHANGED <<icmpTx, arps, air, handler, hits, pending, mac, taken, others>>
    BY <1>10 DEF Main, PollReceives, loopVars, handlerVars
  <2>5. QED
    BY <2>1, <2>2, <2>3, <2>4 DEF TypeOK
<1>11. CASE Main /\ PollTransmits
  <2>1. icmpTx' \in Seq(0 .. MaxPings - 1) /\ Len(icmpTx') <= SocketSlots
    <3>1. icmpTx' = icmpTx \/ (icmpTx # <<>> /\ icmpTx' = Tail(icmpTx))
      BY <1>11 DEF PollTransmits
    <3>2. icmpTx \in Seq(Pings) /\ Len(icmpTx) <= SocketSlots
      BY DEF TypeOK, Pings
    <3>3. QED
      BY <3>1, <3>2, Buffers DEF Serves, Pings
  <2>2. icmpTx # <<>> => Head(icmpTx) \in 0 .. MaxPings - 1
    BY Buffers DEF Serves, Pings
  <2>3. air' \subseteq Frames
    BY <1>11, <2>2, FrameKinds DEF PollTransmits, TypeOK
  <2>4. arps' \in 0 .. MaxArps
    BY <1>11, Bounds DEF PollTransmits, TypeOK
  <2>5. udp' \in {"unsent", "queued", "gone"}
    BY <1>11 DEF PollTransmits, TypeOK
  <2>6. QED
    BY <1>11, <2>1, <2>3, <2>4, <2>5 DEF Main, PollTransmits, TypeOK
<1>12. CASE Main /\ ServeSockets
  <2>1. /\ icmpTx \in Seq(Pings) /\ Len(icmpTx) <= SocketSlots
        /\ icmpRx \in Seq(Pings) /\ Len(icmpRx) <= SocketSlots
        /\ seq \in Nat /\ seq <= MaxPings /\ MaxPings \in Nat
        /\ now \in Nat /\ now <= TimeCap /\ TimeCap \in Nat /\ Interval \in Nat
    BY Bounds DEF TypeOK, Pings, TimeCap
  <2>2. /\ icmpTx' \in Seq(0 .. MaxPings - 1) /\ Len(icmpTx') <= SocketSlots
        /\ seq' \in 0 .. MaxPings /\ nextSend' \in 0 .. TimeCap + Interval
    <3>1. CASE PingDue
      <4>1. /\ icmpTx' = Append(icmpTx, seq) /\ seq' = seq + 1
            /\ nextSend' = now + Interval
        BY <1>12, <3>1 DEF ServeSockets
      <4>2. Len(icmpTx) < SocketSlots /\ seq < MaxPings
        BY <3>1 DEF PingDue
      <4>3. seq \in Pings
        BY <2>1, <4>2 DEF Pings
      <4>4. icmpTx' \in Seq(Pings) /\ Len(icmpTx') <= SocketSlots
        BY <4>1, <4>2, <4>3, Buffers DEF Serves
      <4>5. QED
        BY <2>1, <4>1, <4>2, <4>4 DEF Pings
    <3>2. CASE ~PingDue
      BY <1>12, <3>2 DEF ServeSockets, TypeOK
    <3>3. QED
      BY <3>1, <3>2
  <2>3. /\ icmpRx' \in Seq(0 .. MaxPings - 1) /\ Len(icmpRx') <= SocketSlots
        /\ received' \in 0 .. 1
    <3>1. received = 0
      BY <1>12 DEF ServeSockets, TypeOK
    <3>2. \/ icmpRx' = icmpRx /\ received' = received
          \/ icmpRx # <<>> /\ icmpRx' = Tail(icmpRx) /\ received' = received + 1
      BY <1>12 DEF ServeSockets, ReplyTaken
    <3>3. CASE icmpRx' = icmpRx /\ received' = received
      BY <2>1, <3>1, <3>3 DEF Pings
    <3>4. CASE icmpRx # <<>> /\ icmpRx' = Tail(icmpRx) /\ received' = received + 1
      BY <3>1, <3>4, Buffers DEF Serves, Pings
    <3>5. QED
      BY <3>2, <3>3, <3>4
  <2>4. QED
    BY <1>12, <2>2, <2>3 DEF Main, ServeSockets, TypeOK
<1>13. CASE Main /\ Judge
  <2>1. now' \in 0 .. TimeCap
    BY <1>13, Bounds DEF Judge, TimeCap, TypeOK
  <2>2. QED
    BY <1>13, <2>1 DEF Main, Judge, TypeOK
<1>14. CASE UNCHANGED vars
  BY <1>14 DEF vars, TypeOK
<1>15. QED
  BY <1>2, <1>3, <1>4, <1>5, <1>6, <1>7, <1>8, <1>9, <1>10, <1>11, <1>12, <1>13, <1>14
     DEF Next, Main, Handler

-----------------------------------------------------------------------------
(***************************************************************************)
(* The handler and the frames                                              *)
(***************************************************************************)
\* The handler is under way only over a frame that is there, and what it read is
\* in the bridge when it counts.
HandlerOK ==
  /\ handler \in {"drain", "ack"} => mac # <<>>
  /\ handler = "idle" /\ pending => mac # <<>>
  /\ handler \in {"ack", "count"} => bridge # <<>>

FramesInv == TypeOK /\ CountsOnce /\ HandlerOK /\ FramesAccounted

LEMMA StepFrames == FramesInv /\ [Next]_vars => FramesInv'
<1> SUFFICES ASSUME FramesInv, [Next]_vars PROVE FramesInv'
  OBVIOUS
<1> USE DEF FramesInv, handlerVars, networkVars
<1>1. TypeOK' /\ CountsOnce'
  BY StepType
<1>2. /\ taken \in Nat /\ settled \in Nat /\ hits \in Nat
      /\ handler \in {"idle", "drain", "ack", "count", "clear"}
      /\ mac = <<>> => Len(mac) = 0
      /\ mac # <<>> => Len(mac) = 1
      /\ Len(bridge) \in Nat
  <2>1. TypeOK
    OBVIOUS
  <2>2. Serves(mac, Frames, 1) /\ Serves(bridge, Frames, BridgeSlots)
    BY <2>1, Buffers
  <2>3. mac = <<>> => Len(mac) = 0
    OBVIOUS
  <2>4. mac # <<>> => Len(mac) = 1
    <3>1. Len(mac) \in Nat /\ Len(mac) <= 1 /\ (mac # <<>> => Len(mac) > 0)
      BY <2>2 DEF Serves
    <3>2. QED
      BY <3>1
  <2>5. Len(bridge) \in Nat
    BY <2>2 DEF Serves
  <2>6. /\ taken \in Nat /\ settled \in Nat /\ hits \in Nat
        /\ handler \in {"idle", "drain", "ack", "count", "clear"}
    BY <2>1 DEF TypeOK
  <2>7. QED
    BY <2>3, <2>4, <2>5, <2>6
<1>3. ASSUME NEW frame, MacTakes(frame) PROVE HandlerOK' /\ FramesAccounted'
  <2>1. /\ mac = <<>> /\ mac' = <<frame>> /\ Len(mac') = 1 /\ taken' = taken + 1
        /\ UNCHANGED <<handler, hits, bridge, settled>>
    BY <1>3 DEF MacTakes
  <2>2. handler \notin {"drain", "ack"}
    BY <2>1 DEF HandlerOK
  <2>3. HandlerOK'
    BY <2>1, <2>2 DEF HandlerOK
  <2>4. Unread = 0 /\ Unread' = 1
    BY <1>2, <2>1, <2>2 DEF Unread
  <2>5. QED
    BY <1>2, <2>1, <2>3, <2>4 DEF FramesAccounted
<1>4. CASE GatewayAnswers \/ NetworkSends
  BY <1>1, <1>3, <1>4 DEF GatewayAnswers, NetworkSends
<1>5. CASE Trap
  BY <1>1, <1>5 DEF Trap, HandlerOK, FramesAccounted, Unread
<1>6. CASE DrainRx
  <2>1. handler = "drain" /\ handler' = "ack" /\ UNCHANGED <<mac, taken, hits>>
    BY <1>6 DEF DrainRx, AfterStep, HandlerOK
  <2>2. /\ settled' + Len(bridge') = settled + Len(bridge) + 1
        /\ Len(bridge') \in Nat /\ Len(bridge') > 0 /\ settled' \in Nat
    <3>1. \/ /\ Len(bridge) < BridgeSlots /\ settled' = settled
             /\ bridge' = Append(bridge, Head(mac))
          \/ ~(Len(bridge) < BridgeSlots) /\ settled' = settled + 1 /\ bridge' = bridge
      BY <1>6, <2>1 DEF DrainRx, HandlerOK
    <3>2. bridge \in Seq(Frames)
      BY DEF TypeOK
    <3>3. QED
      BY <1>2, <3>1, <3>2, Bounds, AppendProperties
  <2>3. mac # <<>> /\ bridge' # <<>>
    BY <2>1, <2>2 DEF HandlerOK
  <2>4. HandlerOK'
    BY <2>1, <2>3 DEF HandlerOK
  <2>5. Unread = 1 /\ Unread' = 0
    BY <1>2, <2>1, <2>3 DEF Unread
  <2>6. taken' = settled' + Len(bridge') + Unread'
    BY <1>2, <2>1, <2>2, <2>5 DEF FramesAccounted
  <2>7. hits' = taken' - Unread' - 1
    BY <1>2, <2>1, <2>5 DEF FramesAccounted
  <2>8. QED
    BY <1>1, <2>1, <2>4, <2>6, <2>7 DEF FramesAccounted
<1>7. CASE AckRx
  BY <1>1, <1>2, <1>7 DEF AckRx, AfterStep, Released, HandlerOK, FramesAccounted, Unread
<1>8. CASE CountHit
  BY <1>1, <1>2, <1>8 DEF CountHit, AfterStep, HandlerOK, FramesAccounted, Unread
<1>9. CASE ClearPending
  BY <1>1, <1>2, <1>9 DEF ClearPending, AfterStep, HandlerOK, FramesAccounted, Unread
<1>10. CASE Main /\ PollReceives
  <2>1. /\ handler = "idle" /\ UNCHANGED <<handlerVars, mac, taken>>
        /\ bridge # <<>> /\ bridge' = Tail(bridge) /\ settled' = settled + 1
    BY <1>10 DEF Main, PollReceives
  <2>2. bridge \in Seq(Frames)
    BY DEF TypeOK
  <2>3. Len(bridge') = Len(bridge) - 1
    BY <2>1, <2>2, HeadTailProperties
  <2>4. Unread' = Unread /\ Unread \in Nat
    BY <1>2, <2>1 DEF Unread
  <2>5. QED
    BY <1>1, <1>2, <2>1, <2>3, <2>4 DEF HandlerOK, FramesAccounted
<1>11. CASE Main /\ ~PollReceives
  <2>1. UNCHANGED <<handler, hits, pending, mac, bridge, settled, taken>>
    BY <1>11 DEF Main, EnableMac, EnableInterrupts, PollTransmits, PollEnds, ServeSockets,
                 Judge, Spins
  <2>2. QED
    BY <1>1, <2>1 DEF HandlerOK, FramesAccounted, Unread
<1>12. CASE UNCHANGED vars
  BY <1>1, <1>12 DEF vars, HandlerOK, FramesAccounted, Unread
<1>13. QED
  BY <1>4, <1>5, <1>6, <1>7, <1>8, <1>9, <1>10, <1>11, <1>12 DEF Next, Handler

LEMMA FramesInvariant == Spec => []FramesInv
<1>1. Init => FramesInv
  <2> SUFFICES ASSUME Init PROVE FramesInv
    OBVIOUS
  <2> USE DEF Init
  <2>1. \A S : <<>> \in Seq(S)
    OBVIOUS
  <2>2. Len(mac) = 0 /\ Len(bridge) = 0 /\ Len(icmpTx) = 0 /\ Len(icmpRx) = 0
    OBVIOUS
  <2>3. now \in 0 .. TimeCap /\ nextSend \in 0 .. TimeCap + Interval
    BY Bounds DEF TimeCap
  <2>4. seq \in 0 .. MaxPings /\ arps \in 0 .. MaxArps /\ others \in 0 .. MaxOther
    BY Bounds
  <2>5. /\ Len(mac) <= 1 /\ Len(bridge) <= BridgeSlots
        /\ Len(icmpTx) <= SocketSlots /\ Len(icmpRx) <= SocketSlots
    BY <2>2, Bounds
  <2>6. {hits, taken, settled} \subseteq Nat /\ received \in 0 .. 1
    OBVIOUS
  <2>7. TypeOK
    BY <2>1, <2>3, <2>4, <2>5, <2>6 DEF TypeOK
  <2>8. Unread = 0
    BY <2>2 DEF Unread
  <2>9. taken = settled + Len(bridge) + Unread
    BY <2>2, <2>8
  <2>10. /\ handler \notin {"drain", "ack", "count"} /\ ~pending
         /\ received # 1
    OBVIOUS
  <2>11. hits = 0 /\ taken = 0
    OBVIOUS
  <2> HIDE DEF Init
  <2>12. FramesAccounted
    BY <2>8, <2>9, <2>10, <2>11 DEF FramesAccounted
  <2>13. HandlerOK /\ CountsOnce
    BY <2>10 DEF HandlerOK, CountsOnce
  <2>14. QED
    BY <2>7, <2>12, <2>13 DEF FramesInv
<1>2. QED
  BY <1>1, StepFrames, PTL DEF Spec, SafeSpec

\* Every variable keeps to its range, the buffers to their sizes and the clock to
\* its last tick.
THEOREM NetPingTypeCorrect == Spec => []TypeOK
BY FramesInvariant, PTL DEF FramesInv

\* Each frame the MAC took is in one place, and IRQ_HITS counts those read
\* (drain_rx, nmac_handle), whenever the next one arrives.
THEOREM NoFrameLost == Spec => []FramesAccounted
BY FramesInvariant, PTL DEF FramesInv

\* The handler never runs without a frame in the MAC: the order of RX_ACK and
\* LOCIPCLR is right.
THEOREM NoHandlerForNothing == Spec => []NoSpuriousTrap
<1>1. FramesInv => NoSpuriousTrap
  BY DEF FramesInv, HandlerOK, NoSpuriousTrap
<1>2. QED
  BY <1>1, FramesInvariant, PTL

-----------------------------------------------------------------------------
(***************************************************************************)
(* The verdict                                                             *)
(***************************************************************************)
Echoes(frames) == \E i \in 1 .. Len(frames) : frames[i].kind = "echo"

\* An echo is anywhere only after a ping was sent to an address that an earlier
\* frame told; and what the loop finds in the socket it counts before it judges.
VerdictInv ==
  /\ icmpTx # <<>> => seq >= 1
  /\ resolved => settled >= 1
  /\ Echoes(mac) \/ Echoes(bridge) \/ (\E frame \in air : frame.kind = "echo")
       => resolved /\ seq >= 1
  /\ icmpRx # <<>> \/ received = 1 => resolved /\ seq >= 1 /\ settled >= 2
  /\ pc = "judge" /\ icmpRx # <<>> => received = 1
  /\ verdict = "pass" => pc = "ended" /\ received = 1
  /\ verdict = "fail" => pc = "ended" /\ received = 0 /\ icmpRx = <<>> /\ now > Deadline

LEMMA StepVerdict ==
  ASSUME TypeOK, CountsOnce, HandlerOK, VerdictInv, [Next]_vars
  PROVE  VerdictInv'
<1> USE DEF VerdictInv, loopVars, socketVars, handlerVars, networkVars
<1>1. /\ taken \in Nat /\ settled \in Nat /\ seq \in Nat /\ received \in 0 .. 1
      /\ mac \in Seq(Frames) /\ bridge \in Seq(Frames)
  BY DEF TypeOK
<1>2. Serves(bridge, Frames, BridgeSlots) /\ Serves(mac, Frames, 1)
  BY Buffers
<1>3. ASSUME NEW frame, MacTakes(frame), air' \subseteq air,
             frame.kind = "echo" => \E other \in air : other.kind = "echo"
      PROVE  VerdictInv'
  <2>1. mac' = <<frame>> /\ UNCHANGED <<loopVars, socketVars, bridge, settled>>
    BY <1>3 DEF MacTakes
  <2>2. Echoes(mac') => frame.kind = "echo"
    BY <2>1 DEF Echoes
  <2>3. Echoes(bridge') = Echoes(bridge)
    BY <2>1
  <2>4. QED
    BY <1>3, <2>1, <2>2, <2>3 DEF Echoes
<1>4. CASE GatewayAnswers
  <2>1. PICK frame \in air : MacTakes(frame) /\ air' = air \ {frame}
    BY <1>4 DEF GatewayAnswers
  <2>2. QED
    BY <1>3, <2>1
<1>5. CASE NetworkSends
  <2>1. MacTakes([kind |-> "other"]) /\ air' = air
    BY <1>5 DEF NetworkSends
  <2>2. QED
    BY <1>3, <2>1
<1>6. CASE DrainRx
  <2>1. mac # <<>> /\ UNCHANGED <<loopVars, socketVars, mac, air>>
    BY <1>6 DEF DrainRx, HandlerOK
  <2>2. \/ bridge' = bridge /\ settled' = settled + 1
        \/ bridge' = Append(bridge, Head(mac)) /\ settled' = settled
    BY <1>6, <2>1 DEF DrainRx
  <2>3. Len(mac) > 0 /\ Head(mac) = mac[1] /\ Len(mac) \in Nat /\ Head(mac) \in Frames
    BY <1>1, <1>2, <2>1 DEF Serves
  <2>4. Echoes(bridge') => Echoes(bridge) \/ Echoes(mac)
    <3>1. CASE bridge' = bridge
      BY <3>1 DEF Echoes
    <3>2. CASE bridge' = Append(bridge, Head(mac))
      <4>1. ASSUME NEW i \in 1 .. Len(bridge'), bridge'[i].kind = "echo"
            PROVE  Echoes(bridge) \/ Echoes(mac)
        <5>1. /\ Len(bridge') = Len(bridge) + 1 /\ Len(bridge) \in Nat
              /\ bridge'[Len(bridge) + 1] = Head(mac)
              /\ i # Len(bridge) + 1 => i \in 1 .. Len(bridge) /\ bridge'[i] = bridge[i]
          BY <1>1, <1>2, <2>3, <3>2, AppendProperties DEF Serves
        <5>2. 1 \in 1 .. Len(mac)
          BY <2>3
        <5>3. QED
          BY <2>3, <4>1, <5>1, <5>2 DEF Echoes
      <4>2. QED
        BY <4>1 DEF Echoes
    <3>3. QED
      BY <2>2, <3>1, <3>2
  <2>5. Echoes(mac') = Echoes(mac)
    BY <2>1
  <2>6. settled' >= settled /\ settled' \in Nat
    BY <1>1, <2>2
  <2>7. QED
    BY <1>1, <2>1, <2>4, <2>5, <2>6
<1>7. CASE AckRx
  <2>1. mac' = <<>> /\ UNCHANGED <<loopVars, socketVars, bridge, settled, air>>
    BY <1>7 DEF AckRx, Released
  <2>2. ~Echoes(mac')
    BY <2>1 DEF Echoes
  <2>3. Echoes(bridge') = Echoes(bridge)
    BY <2>1
  <2>4. QED
    BY <2>1, <2>2, <2>3
<1>8. CASE Trap \/ CountHit \/ ClearPending \/ UNCHANGED vars
  <2>1. UNCHANGED <<loopVars, socketVars, mac, bridge, settled, air>>
    BY <1>8 DEF Trap, CountHit, ClearPending, vars
  <2>2. Echoes(mac') = Echoes(mac) /\ Echoes(bridge') = Echoes(bridge)
    BY <2>1
  <2>3. QED
    BY <2>1, <2>2
<1>9. CASE Main /\ (EnableMac \/ EnableInterrupts \/ PollEnds \/ Spins)
  <2>1. /\ UNCHANGED <<now, nextSend, seq, received, udp, verdict>>
        /\ UNCHANGED <<socketVars, mac, bridge, settled, air>>
        /\ pc' # "judge" /\ (pc = "ended" => pc' = "ended")
    BY <1>9 DEF Main, EnableMac, EnableInterrupts, PollEnds, Spins
  <2>2. Echoes(mac') = Echoes(mac) /\ Echoes(bridge') = Echoes(bridge)
    BY <2>1
  <2>3. QED
    BY <2>1, <2>2
<1>10. CASE Main /\ PollReceives
  <2>1. /\ pc = "poll" /\ UNCHANGED <<loopVars, icmpTx, mac, air>>
        /\ bridge # <<>> /\ bridge' = Tail(bridge) /\ settled' = settled + 1
    BY <1>10 DEF Main, PollReceives
  <2>2. Len(bridge) > 0 /\ Len(bridge) \in Nat /\ Head(bridge) = bridge[1]
    BY <1>1, <1>2, <2>1 DEF Serves
  <2>3. Head(bridge).kind = "echo" => Echoes(bridge)
    <3>1. 1 \in 1 .. Len(bridge)
      BY <2>2
    <3>2. QED
      BY <2>2, <3>1 DEF Echoes
  <2>4. Echoes(bridge') => Echoes(bridge)
    <3>1. ASSUME NEW i \in 1 .. Len(bridge'), bridge'[i].kind = "echo"
          PROVE  Echoes(bridge)
      <4>1. Len(bridge') = Len(bridge) - 1 /\ bridge'[i] = bridge[i + 1]
        BY <1>1, <2>1, HeadTailProperties, <3>1
      <4>2. i + 1 \in 1 .. Len(bridge)
        BY <2>2, <3>1, <4>1
      <4>3. QED
        BY <3>1, <4>1, <4>2 DEF Echoes
    <3>2. QED
      BY <3>1 DEF Echoes
  <2>5. Echoes(mac') = Echoes(mac)
    BY <2>1
  <2>6. resolved => resolved'
    BY <1>10 DEF PollReceives
  <2>7. icmpRx' # <<>> => icmpRx # <<>> \/ Head(bridge).kind = "echo"
    BY <1>10 DEF PollReceives
  <2>8. settled' >= 1 /\ (settled >= 1 => settled' >= 2)
    BY <1>1, <2>1
  <2>9. icmpRx' # <<>> \/ received' = 1 => resolved' /\ seq' >= 1 /\ settled' >= 2
    BY <1>1, <2>1, <2>3, <2>6, <2>7, <2>8
  <2>10. QED
    BY <2>1, <2>3, <2>4, <2>5, <2>6, <2>8, <2>9
<1>11. CASE Main /\ PollTransmits
  <2>1. /\ pc = "poll" /\ UNCHANGED <<pc, now, nextSend, seq, received, verdict, icmpRx, resolved>>
        /\ UNCHANGED <<mac, bridge, settled>>
    BY <1>11 DEF Main, PollTransmits
  <2>2. icmpTx' # <<>> => icmpTx # <<>>
    BY <1>11 DEF PollTransmits
  <2>3. ASSUME NEW frame \in air', frame.kind = "echo"
        PROVE  frame \in air \/ (resolved /\ icmpTx # <<>>)
    BY <1>11, <2>3 DEF PollTransmits
  <2>4. Echoes(mac') = Echoes(mac) /\ Echoes(bridge') = Echoes(bridge)
    BY <2>1
  <2>5. QED
    BY <2>1, <2>2, <2>3, <2>4
<1>12. CASE Main /\ ServeSockets
  <2>1. /\ pc = "sockets" /\ pc' = "judge" /\ seq' \in {seq, seq + 1}
        /\ UNCHANGED <<now, verdict, resolved, mac, bridge, settled, air>>
        /\ icmpTx' # <<>> => icmpTx # <<>> \/ seq' = seq + 1
    BY <1>12 DEF Main, ServeSockets
  <2>2. received = 0 /\ verdict = "none"
    BY <1>1, <2>1 DEF TypeOK, CountsOnce
  <2>3. \/ icmpRx = <<>> /\ icmpRx' = <<>> /\ received' = 0
        \/ icmpRx # <<>> /\ received' = 1
    BY <1>12, <2>2 DEF ServeSockets, ReplyTaken
  <2>4. Echoes(mac') = Echoes(mac) /\ Echoes(bridge') = Echoes(bridge)
    BY <2>1
  <2>5. seq' >= seq /\ (seq' = seq + 1 => seq' >= 1)
    BY <1>1, <2>1
  <2>6. QED
    BY <1>1, <2>1, <2>2, <2>3, <2>4, <2>5
<1>13. CASE Main /\ Judge
  <2>1. /\ pc = "judge" /\ UNCHANGED <<nextSend, seq, received, socketVars>>
        /\ UNCHANGED <<mac, bridge, settled, air>>
    BY <1>13 DEF Main, Judge
  <2>2. Echoes(mac') = Echoes(mac) /\ Echoes(bridge') = Echoes(bridge)
    BY <2>1
  <2>3. \/ received = 1 /\ verdict' = "pass" /\ pc' = "ended"
        \/ /\ received = 0 /\ verdict' = "fail" /\ pc' = "ended"
           /\ now' = now /\ now > Deadline
        \/ received = 0 /\ verdict' = verdict /\ pc' = "poll"
    BY <1>1, <1>13 DEF Judge, Expired
  <2>4. QED
    BY <2>1, <2>2, <2>3
<1>14. QED
  BY <1>4, <1>5, <1>6, <1>7, <1>8, <1>9, <1>10, <1>11, <1>12, <1>13 DEF Next, Main, Handler

\* PASS is written only after a reply to a ping, with at least two frames received
\* by interrupt, and FAIL only after the time and over an empty socket.
THEOREM VerdictIsEarned == Spec => []VerdictEarned
<1>1. Init => VerdictInv
  BY DEF Init, VerdictInv, Echoes
<1>2. FramesInv /\ VerdictInv /\ [Next]_vars => VerdictInv'
  BY StepVerdict DEF FramesInv
<1>3. FramesInv /\ VerdictInv => VerdictEarned
  <2> SUFFICES ASSUME FramesInv, VerdictInv PROVE VerdictEarned
    OBVIOUS
  <2>1. TypeOK /\ HandlerOK /\ FramesAccounted
    BY DEF FramesInv
  <2>2. verdict = "pass" => received = 1 /\ seq >= 1 /\ resolved /\ settled >= 2
    BY DEF VerdictInv
  <2>3. hits >= settled
    <3>1. /\ Len(bridge) \in Nat /\ (bridge # <<>> => Len(bridge) > 0)
          /\ settled \in Nat /\ hits \in Nat /\ taken \in Nat /\ Unread \in Nat
      <4>1. Serves(bridge, Frames, BridgeSlots) /\ Serves(mac, Frames, 1)
        BY <2>1, Buffers
      <4>2. QED
        BY <2>1, <4>1 DEF Serves, Unread, TypeOK
    <3>2. CASE handler \in {"ack", "count"}
      <4>1. Len(bridge) > 0 /\ hits = settled + Len(bridge) - 1
        BY <2>1, <3>1, <3>2 DEF HandlerOK, FramesAccounted
      <4>2. QED
        BY <3>1, <4>1
    <3>3. CASE handler \notin {"ack", "count"}
      <4>1. hits = settled + Len(bridge)
        BY <2>1, <3>1, <3>3 DEF FramesAccounted
      <4>2. QED
        BY <3>1, <4>1
    <3>4. QED
      BY <3>2, <3>3
  <2>4. verdict = "pass" => hits >= 2
    BY <2>1, <2>2, <2>3 DEF TypeOK
  <2>5. verdict = "fail" => received = 0 /\ icmpRx = <<>> /\ now > Deadline
    BY DEF VerdictInv
  <2>6. QED
    BY <2>2, <2>4, <2>5 DEF VerdictEarned
<1>4. QED
  BY <1>1, <1>2, <1>3, FramesInvariant, PTL DEF Spec, SafeSpec
=============================================================================
