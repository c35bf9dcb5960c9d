------------------------------ MODULE NetPing ------------------------------
(***************************************************************************)
(* The ping over the synthetic MAC (net_ping/src/main.rs): a loop that     *)
(* polls the network stack, pings the gateway and judges the outcome, and  *)
(* the interrupt handler that moves received frames from the MAC's single  *)
(* buffer into the bridge to the stack.                                    *)
(*                                                                         *)
(* External: the MAC takes a frame whenever its buffer is free, between    *)
(* any two steps of the handler too; its interrupt line is high while the  *)
(* buffer is full, and a high line sets the pending bit, which stays until *)
(* it is cleared; the gateway answers each frame once or never, in any     *)
(* order, and sends frames of its own.  The handler runs with interrupts   *)
(* off, so the loop stands still until it returns.                         *)
(***************************************************************************)
EXTENDS Integers, Sequences

CONSTANTS
  MaxPings,     \* pings the loop sends at most
  Interval,     \* ticks between two of them
  Deadline,     \* ticks until the loop gives up
  SocketSlots,  \* packets each buffer of the ICMP socket has room for
  BridgeSlots,  \* frames the bridge has room for
  MaxArps,      \* bound: ARP requests, which the stack sends a second apart
  MaxOther,     \* bound: frames of no interest that the network sends
  MaxStep       \* bound: ticks that an iteration takes

ASSUME NetPingAssumption ==
  /\ {MaxPings, Deadline, MaxArps, MaxOther} \subseteq Nat
  /\ {Interval, SocketSlots, BridgeSlots, MaxStep} \subseteq Nat \ {0}

VARIABLES
  pc,        \* where `main` is
  now,       \* the time of this iteration, counted from `start`
  nextSend,  \* next_send
  seq,       \* the number of the next ping
  received,  \* replies counted
  udp,       \* the one UDP datagram: "unsent", "queued" or "gone"
  verdict,   \* "none", "pass" or "fail": what was written
  icmpTx, icmpRx,  \* the ICMP socket's buffers
  resolved,  \* external: the stack knows the gateway's hardware address
  arps,      \* external: ARP requests the stack sent
  handler,   \* "idle", or the step of the interrupt handler to come
  hits,      \* IRQ_HITS
  mac,       \* external: the frame in RX_BUF, if any
  pending,   \* external: the pending bit of the MAC's interrupt
  bridge,    \* external: frames pushed and not yet polled
  air,       \* external: what the gateway may still answer
  taken,     \* history: frames the MAC took
  settled,   \* history: frames the stack took from the bridge, or that found it full
  others     \* frames of no interest that the network sent

loopVars == <<pc, now, nextSend, seq, received, udp, verdict>>
socketVars == <<icmpTx, icmpRx, resolved, arps>>
handlerVars == <<handler, hits, pending>>
networkVars == <<air, taken, others>>
vars == <<loopVars, socketVars, handlerVars, mac, bridge, settled, networkVars>>

\* A frame: an ARP message, an echo of ping n, or something else.
Frames == {[kind |-> "arp"], [kind |-> "other"]}
              \cup [kind : {"echo"}, ping : 0 .. MaxPings - 1]

\* No iteration starts later than this (Expired ends the loop before).
TimeCap == Deadline + MaxStep

-----------------------------------------------------------------------------
(***************************************************************************)
(* The MAC and the network                                                 *)
(***************************************************************************)
\* A frame reaches the MAC: its line goes high and sets the pending bit.
MacTakes(frame) ==
  /\ pc # "boot" /\ mac = <<>>
  /\ taken' = taken + 1
  /\ mac' = <<frame>>
  /\ pending' = TRUE
  /\ UNCHANGED <<loopVars, socketVars, handler, hits, bridge, settled>>

GatewayAnswers ==
  \E frame \in air :
    /\ MacTakes(frame)
    /\ air' = air \ {frame}
    /\ UNCHANGED others

NetworkSends ==
  /\ others < MaxOther
  /\ MacTakes([kind |-> "other"])
  /\ others' = others + 1
  /\ UNCHANGED air

-----------------------------------------------------------------------------
(***************************************************************************)
(* The interrupt handler                                                   *)
(***************************************************************************)
\* Variant: the pending bit is cleared while the MAC's line is still high.
ClearFirst ==
  [pushed |-> "clear", missed |-> "idle", cleared |-> "ack", acked |-> "count",
   counted |-> "idle"]

\* The order of the handler's steps: a frame is pushed, acknowledged and
\* counted, or there was none, and the pending bit is cleared.
AfterStep ==
  [pushed |-> "ack", missed |-> "clear", acked |-> "count", counted |-> "clear",
   cleared |-> "idle"]

AfterBoot == pc \notin {"boot", "vector"}

Trap ==
  /\ handler = "idle" /\ pending /\ AfterBoot
  /\ handler' = "drain"
  /\ UNCHANGED <<loopVars, socketVars, hits, pending, mac, bridge, settled, networkVars>>

\* Variant: a frame is left in the MAC while the bridge is full.
DrainWhenRoom ==
  /\ handler = "drain"
  /\ IF mac = <<>> \/ Len(bridge) >= BridgeSlots
     THEN handler' = AfterStep.missed /\ UNCHANGED bridge
     ELSE handler' = AfterStep.pushed /\ bridge' = Append(bridge, Head(mac))
  /\ UNCHANGED <<loopVars, socketVars, hits, pending, mac, settled, networkVars>>

\* Reads the status and the frame and calls rx_push; a full bridge drops it.
DrainRx ==
  /\ handler = "drain"
  /\ IF mac = <<>>
     THEN handler' = AfterStep.missed /\ UNCHANGED <<bridge, settled>>
     ELSE /\ handler' = AfterStep.pushed
          /\ IF Len(bridge) < BridgeSlots
             THEN bridge' = Append(bridge, Head(mac)) /\ UNCHANGED settled
             ELSE settled' = settled + 1 /\ UNCHANGED bridge
  /\ UNCHANGED <<loopVars, socketVars, hits, pending, mac, networkVars>>

\* Variant: the buffer is not released.
NotReleased == mac

\* What writing RX_ACK leaves in the buffer.
Released == <<>>

AckRx ==
  /\ handler = "ack"
  /\ mac' = Released
  /\ handler' = AfterStep.acked
  /\ UNCHANGED <<loopVars, socketVars, hits, pending, bridge, settled, networkVars>>

CountHit ==
  /\ handler = "count"
  /\ hits' = hits + 1
  /\ handler' = AfterStep.counted
  /\ UNCHANGED <<loopVars, socketVars, pending, mac, bridge, settled, networkVars>>

\* A line that is still high, or high again, sets the bit again.
ClearPending ==
  /\ handler = "clear"
  /\ pending' = (mac # <<>>)
  /\ handler' = AfterStep.cleared
  /\ UNCHANGED <<loopVars, socketVars, hits, mac, bridge, settled, networkVars>>

Handler == Trap \/ DrainRx \/ AckRx \/ CountHit \/ ClearPending

-----------------------------------------------------------------------------
(***************************************************************************)
(* The loop                                                                *)
(***************************************************************************)
\* The MAC is enabled before the processor takes its interrupt.
EnableMac ==
  /\ pc = "boot"
  /\ pc' = "vector"
  /\ UNCHANGED <<now, nextSend, seq, received, udp, verdict>>
  /\ UNCHANGED <<socketVars, bridge, settled, air>>

EnableInterrupts ==
  /\ pc = "vector"
  /\ pc' = "poll"
  /\ UNCHANGED <<now, nextSend, seq, received, udp, verdict>>
  /\ UNCHANGED <<socketVars, bridge, settled, air>>

\* The poll takes a frame from the bridge.
PollReceives ==
  /\ pc = "poll" /\ bridge # <<>>
  /\ bridge' = Tail(bridge)
  /\ settled' = settled + 1
  /\ LET frame == Head(bridge) IN
       /\ resolved' = (resolved \/ frame.kind = "arp")
       /\ icmpRx' = IF frame.kind = "echo" /\ Len(icmpRx) < SocketSlots
                    THEN Append(icmpRx, frame.ping) ELSE icmpRx
  /\ UNCHANGED <<loopVars, icmpTx, arps, air>>

\* The poll hands mac_tx a packet, or asks for the gateway's address first.
PollTransmits ==
  /\ pc = "poll" /\ (icmpTx # <<>> \/ udp = "queued")
  /\ IF resolved
     THEN \/ /\ icmpTx # <<>>
             /\ air' = air \cup {[kind |-> "echo", ping |-> Head(icmpTx)]}
             /\ icmpTx' = Tail(icmpTx)
             /\ UNCHANGED udp
          \/ /\ udp = "queued" /\ udp' = "gone"
             /\ UNCHANGED <<air, icmpTx>>
     ELSE /\ arps < MaxArps
          /\ air' = air \cup {[kind |-> "arp"]}
          /\ UNCHANGED <<icmpTx, udp>>
  /\ arps' = IF resolved THEN arps ELSE arps + 1
  /\ UNCHANGED <<pc, now, nextSend, seq, received, verdict, icmpRx, resolved,
                 bridge, settled>>

PollEnds ==
  /\ pc = "poll"
  /\ pc' = "sockets"
  /\ UNCHANGED <<now, nextSend, seq, received, udp, verdict>>
  /\ UNCHANGED <<socketVars, bridge, settled, air>>

\* Variant: pings without end.
PingDueForever == Len(icmpTx) < SocketSlots /\ now >= nextSend

PingDue == Len(icmpTx) < SocketSlots /\ seq < MaxPings /\ now >= nextSend

\* Variant: replies wait while there is a ping to send.
ReplyTakenElse == icmpRx # <<>> /\ ~PingDue

\* Whether a reply is taken from the socket in this iteration.
ReplyTaken == icmpRx # <<>>

\* The sockets' part of the iteration: a ping, a reply, the UDP datagram.
ServeSockets ==
  /\ pc = "sockets"
  /\ pc' = "judge"
  /\ IF PingDue
     THEN /\ icmpTx' = Append(icmpTx, seq)
          /\ seq' = seq + 1
          /\ nextSend' = now + Interval
     ELSE UNCHANGED <<icmpTx, seq, nextSend>>
  /\ IF ReplyTaken
     THEN icmpRx' = Tail(icmpRx) /\ received' = received + 1
     ELSE UNCHANGED <<icmpRx, received>>
  /\ udp' = IF udp = "unsent" THEN "queued" ELSE udp
  /\ UNCHANGED <<now, verdict, resolved, arps, bridge, settled, air>>

\* Variant: the loop waits for all pings to be sent before it gives up.
ExpiredAfterPings == seq = MaxPings /\ now > Deadline

Expired == now > Deadline

Judge ==
  /\ pc = "judge"
  /\ \/ /\ received >= 1
        /\ verdict' = "pass" /\ pc' = "ended" /\ UNCHANGED now
     \/ /\ received < 1 /\ Expired
        /\ verdict' = "fail" /\ pc' = "ended" /\ UNCHANGED now
     \/ /\ received < 1 /\ ~Expired
        /\ pc' = "poll" /\ UNCHANGED verdict
        /\ \E ticks \in 1 .. MaxStep :
             now' = IF now + ticks < TimeCap THEN now + ticks ELSE TimeCap
  /\ UNCHANGED <<nextSend, seq, received, udp, socketVars, bridge, settled, air>>

\* The loop after the verdict does nothing.
Spins == pc = "ended" /\ UNCHANGED <<loopVars, socketVars, bridge, settled, air>>

Main ==
  /\ handler = "idle"
  /\ \/ EnableMac \/ EnableInterrupts
     \/ PollReceives \/ PollTransmits \/ PollEnds
     \/ ServeSockets \/ Judge \/ Spins
  /\ UNCHANGED <<handlerVars, mac, taken, others>>

-----------------------------------------------------------------------------
Init ==
  /\ pc = "boot" /\ now = 0 /\ nextSend = 0 /\ seq = 0 /\ received = 0
  /\ udp = "unsent" /\ verdict = "none"
  /\ icmpTx = <<>> /\ icmpRx = <<>> /\ resolved = FALSE
  /\ handler = "idle" /\ hits = 0 /\ pending = FALSE
  /\ mac = <<>> /\ bridge = <<>>
  /\ settled = 0 /\ arps = 0
  /\ air = {} /\ taken = 0 /\ others = 0

Next == Main \/ Handler \/ GatewayAnswers \/ NetworkSends

SafeSpec == Init /\ [][Next]_vars

\* A pending interrupt is taken, a handler that started returns, the loop goes on,
\* and a poll ends.  Nothing is asked of the network.
Spec ==
  /\ SafeSpec
  /\ WF_vars(Handler)
  /\ WF_vars(Main /\ (EnableMac \/ EnableInterrupts \/ PollEnds \/ ServeSockets \/ Judge))

-----------------------------------------------------------------------------
(***************************************************************************)
(* Properties                                                              *)
(***************************************************************************)
TypeOK ==
  /\ pc \in {"boot", "vector", "poll", "sockets", "judge", "ended"}
  /\ now \in 0 .. TimeCap /\ nextSend \in 0 .. TimeCap + Interval
  /\ seq \in 0 .. MaxPings /\ received \in 0 .. 1
  /\ udp \in {"unsent", "queued", "gone"} /\ verdict \in {"none", "pass", "fail"}
  /\ icmpTx \in Seq(0 .. MaxPings - 1) /\ Len(icmpTx) <= SocketSlots
  /\ icmpRx \in Seq(0 .. MaxPings - 1) /\ Len(icmpRx) <= SocketSlots
  /\ resolved \in BOOLEAN
  /\ handler \in {"idle", "drain", "ack", "count", "clear"}
  /\ pending \in BOOLEAN
  /\ mac \in Seq(Frames) /\ Len(mac) <= 1
  /\ bridge \in Seq(Frames) /\ Len(bridge) <= BridgeSlots
  /\ air \subseteq Frames
  /\ arps \in 0 .. MaxArps /\ others \in 0 .. MaxOther
  /\ {hits, taken, settled} \subseteq Nat

\* The frames in the MAC that the handler has not pushed yet.
Unread == IF handler = "ack" THEN 0 ELSE Len(mac)

\* Every frame the MAC took is in one place, read once: unread in the MAC, waiting
\* in the bridge, polled, or refused by a full bridge; and IRQ_HITS counts the frames
\* read, one behind only between RX_ACK and the count (drain_rx, nmac_handle).
FramesAccounted ==
  /\ taken = settled + Len(bridge) + Unread
  /\ hits = taken - Unread - IF handler \in {"ack", "count"} THEN 1 ELSE 0

\* The handler never runs for nothing: RX_ACK drops the line before the pending bit
\* is cleared, so a bit that is set means that a frame is there (nmac_handle's
\* "order matters", net_ping/src/main.rs:104).
NoSpuriousTrap == handler = "drain" => mac # <<>>

\* The verdict is earned: PASS after a reply to a ping that was sent, when two
\* frames at least came by interrupt, the gateway's ARP reply and the echo; FAIL
\* only after the time, and never over a reply that the socket holds.
VerdictEarned ==
  /\ verdict = "pass" => received = 1 /\ seq >= 1 /\ resolved /\ hits >= 2
  /\ verdict = "fail" => received = 0 /\ icmpRx = <<>> /\ now > Deadline

\* A frame that reached the MAC is handed on, after the verdict too.
FrameDrained == (mac # <<>> /\ AfterBoot) ~> (mac = <<>>)

\* The program comes to a verdict, whatever the network does.
VerdictReached == <>(verdict # "none")
=============================================================================
