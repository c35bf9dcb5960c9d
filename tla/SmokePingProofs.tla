-------------------------- MODULE SmokePingProofs ---------------------------
(***************************************************************************)
(* Theorems about SmokePing, in both builds, for any number of samples,    *)
(* any sizes of the buffers and any limits: its types, that its samples    *)
(* are honest, and that both its series implement PingSeries.              *)
(***************************************************************************)
EXTENDS SmokePing, SequenceTheorems, TLAPS

-----------------------------------------------------------------------------
(***************************************************************************)
(* The inductive invariant                                                 *)
(***************************************************************************)
\* Types, and how far the reports are.
Flow ==
  /\ phase \in Series \cup {"dhcp", "arp", "steady", "ended"}
  /\ pc \in {"sample", "head", "poll"}
  /\ sequence \in Nat \ {0}
  /\ reports \in [Series -> Seq(Outcomes)]
  /\ txq \in Seq(Echoes) /\ rxq \in Seq(Frames) /\ air \subseteq Frames
  /\ heard \subseteq Series \X (1 .. Count)
  /\ phase \in Series => Len(reports[phase]) = sequence - 1
  /\ Waiting => sequence <= Count
  /\ phase \in {"dhcp", "arp"} => pc # "sample" /\ reports["gateway"] = <<>>
  /\ phase \in {"dhcp", "arp", "gateway"} => reports["public"] = <<>>

\* The request of sample n was handed over.
Started(s, n) ==
  \/ s = phase /\ n < sequence
  \/ s = phase /\ n = sequence /\ pc # "sample"
  \/ s # phase /\ phase \notin {"dhcp", "arp"} /\ ~(s = "public" /\ phase = "gateway")

Answers(frame) == frame.kind = "echo" => Started(frame.from, frame.seq)

\* Nothing is answered before it is asked.
Causal ==
  /\ \A frame \in air : Answers(frame)
  /\ \A k \in DOMAIN txq : Answers(txq[k])
  /\ \A k \in DOMAIN rxq : Answers(rxq[k])
  /\ \A s \in Series, n \in 1 .. Count : <<s, n>> \in heard => Started(s, n)

InBuffer == \E k \in DOMAIN rxq : rxq[k] = Echo(phase, sequence)

\* The reply in the buffer came in time; with the stack one that came in time is
\* there until the poll ends.
Current ==
  /\ Waiting /\ InBuffer => <<phase, sequence>> \in heard
  /\ ~Raw /\ Waiting /\ <<phase, sequence>> \in heard => pc = "poll" /\ InBuffer

HonestInv == Flow /\ Causal /\ Current /\ SamplesHonest

-----------------------------------------------------------------------------
(***************************************************************************)
(* Sequences and frames                                                    *)
(***************************************************************************)
\* Every element of r is one of q.
Within(r, q) == \A k \in DOMAIN r : \E j \in DOMAIN q : r[k] = q[j]

LEMMA AppendElements ==
  ASSUME NEW S, NEW q \in Seq(S), NEW e \in S
  PROVE  /\ Append(q, e) \in Seq(S)
         /\ \A k \in DOMAIN Append(q, e) :
              Append(q, e)[k] = e \/ (k \in DOMAIN q /\ Append(q, e)[k] = q[k])
         /\ \A k \in DOMAIN q : k \in DOMAIN Append(q, e) /\ Append(q, e)[k] = q[k]
         /\ \E k \in DOMAIN Append(q, e) : Append(q, e)[k] = e
OBVIOUS

LEMMA TailElements ==
  ASSUME NEW S, NEW q \in Seq(S), q # <<>>
  PROVE  /\ Tail(q) \in Seq(S) /\ Within(Tail(q), q)
         /\ Head(q) \in S /\ \E j \in DOMAIN q : Head(q) = q[j]
<1>1. Tail(q) \in Seq(S) /\ Len(Tail(q)) = Len(q) - 1 /\ Head(q) \in S /\ Len(q) > 0
  OBVIOUS
<1>2. ASSUME NEW k \in DOMAIN Tail(q) PROVE \E j \in DOMAIN q : Tail(q)[k] = q[j]
  <2>1. k + 1 \in DOMAIN q /\ Tail(q)[k] = q[k + 1]
    BY <1>1, <1>2
  <2>2. QED
    BY <2>1
<1>3. 1 \in DOMAIN q /\ Head(q) = q[1]
  BY <1>1
<1>4. QED
  BY <1>1, <1>2, <1>3 DEF Within

LEMMA RestElements ==
  ASSUME NEW S, NEW q \in Seq(S), NEW i \in DOMAIN q
  PROVE  SubSeq(q, i + 1, Len(q)) \in Seq(S) /\ Within(SubSeq(q, i + 1, Len(q)), q)
<1> DEFINE r == SubSeq(q, i + 1, Len(q))
<1>1. r \in Seq(S) /\ Len(r) = Len(q) - i
  BY SubSeqProperties
<1>2. ASSUME NEW k \in DOMAIN r PROVE \E j \in DOMAIN q : r[k] = q[j]
  <2>1. i + k \in DOMAIN q /\ r[k] = q[i + k]
    BY <1>1, <1>2, SubSeqProperties
  <2>2. QED
    BY <2>1
<1>3. QED
  BY <1>1, <1>2 DEF Within

LEMMA EchoFrames ==
  /\ \A frame \in Frames : frame.kind = "echo" =>
       frame.from \in Series /\ frame.seq \in 1 .. Count /\ frame = Echo(frame.from, frame.seq)
  /\ \A frame \in Echoes : frame \in Frames /\ frame.kind = "echo"
  /\ \A s \in Series, n \in 1 .. Count :
       Echo(s, n) \in Echoes /\ Echo(s, n).kind = "echo"
       /\ Echo(s, n).from = s /\ Echo(s, n).seq = n
  /\ [kind |-> "other"] \in Frames /\ [kind |-> "arp_reply"] \in Frames
BY DEF Frames, Echoes, Echo

-----------------------------------------------------------------------------
(***************************************************************************)
(* Where the program is: each step does one of four things                 *)
(***************************************************************************)
Keeps ==
  /\ UNCHANGED <<phase, sequence, reports>>
  /\ pc' \in {"sample", "head", "poll"} /\ (pc' = "sample" <=> pc = "sample")

Asks ==
  /\ phase \in Series /\ pc = "sample" /\ sequence <= Count
  /\ pc' = "head" /\ UNCHANGED <<phase, sequence, reports>>

Judges == phase \in Series /\ sequence <= Count /\ \E outcome \in Outcomes : Report(outcome)

Enters ==
  /\ reports' = reports /\ sequence' = 1
  /\ \/ phase = "dhcp" /\ phase' = "arp" /\ pc' = "head"
     \/ phase \in {"dhcp", "arp", "public"} /\ phase' \in {"ended", "steady"} /\ pc' = "head"
     \/ phase \in {"dhcp", "arp"} /\ phase' \in Series /\ pc' = "sample"
     \/ phase = "gateway" /\ pc = "sample" /\ phase' = "public" /\ pc' = "sample"

LEMMA Kinds ==
  ASSUME Flow, [Next]_vars
  PROVE  build' = build /\ (Keeps \/ Asks \/ Judges \/ Enters)
<1> USE DEF progressVars, reportVars, networkVars
<1>1. CASE SendSample
  BY <1>1 DEF SendSample, Asks, Judges, Report, Outcomes
<1>2. CASE SampleTimedOut
  <2>1. sequence <= Count
    BY <1>2 DEF SampleTimedOut, Flow, Waiting
  <2>2. QED
    BY <1>2, <2>1 DEF SampleTimedOut, Judges, Report, Outcomes
<1>3. CASE SeriesEnds
  BY <1>3 DEF SeriesEnds, Enter, Enters, Series
<1>4. CASE DhcpReturns
  BY <1>4 DEF DhcpReturns, Enter, Enters
<1>5. CASE ArpStep
  BY <1>5 DEF ArpStep, Enter, Enters, Keeps, Flow, Series
<1>6. CASE ArpTimedOut
  BY <1>6 DEF ArpTimedOut, Enter, Enters
<1>7. CASE SampleStep
  <2>1. sequence <= Count
    BY <1>7 DEF SampleStep, Flow, Waiting
  <2>2. QED
    BY <1>7, <2>1 DEF SampleStep, Keeps, Judges, Report, Outcomes, Flow
<1>8. CASE PollBegins
  BY <1>8 DEF PollBegins, Keeps
<1>9. CASE PollEnds
  <2>1. phase \in Series => sequence <= Count
    BY <1>9 DEF PollEnds, Flow, Waiting
  <2>2. QED
    BY <1>9, <2>1 DEF PollEnds, Answered, Unanswered, Keeps, Judges, Report, Outcomes
<1>10. CASE LeaseFound
  BY <1>10 DEF LeaseFound, Enter, Enters, Series
<1>11. CASE DhcpTimedOut
  BY <1>11 DEF DhcpTimedOut, Enter, Enters
<1>12. CASE PollTransmits
  BY <1>12 DEF PollTransmits, Keeps, Flow
<1>13. CASE FrameArrives \/ OtherArrives
  BY <1>13 DEF FrameArrives, OtherArrives, Receive, Keeps, Flow
<1>14. CASE UNCHANGED vars
  BY <1>14 DEF vars, Keeps, Flow
<1>15. QED
  BY <1>1, <1>2, <1>3, <1>4, <1>5, <1>6, <1>7, <1>8, <1>9, <1>10, <1>11, <1>12, <1>13,
     <1>14 DEF Next, Smoke, RawStep, StackStep

\* What was asked stays asked.
LEMMA StartedStays ==
  ASSUME Flow, [Next]_vars, NEW s \in Series, NEW n \in Nat, Started(s, n)
  PROVE  Started(s, n)'
<1>1. CASE Keeps
  BY <1>1 DEF Keeps, Started
<1>2. CASE Asks
  BY <1>2 DEF Asks, Started
<1>3. CASE Judges
  <2>1. phase' = phase /\ sequence' = sequence + 1 /\ pc' = "sample" /\ sequence \in Nat
    BY <1>3 DEF Judges, Report, Flow
  <2>2. QED
    BY <2>1 DEF Started
<1>4. CASE Enters
  <2>1. s # phase'
    BY <1>4 DEF Enters, Started, Series, Flow
  <2>2. phase' \notin {"dhcp", "arp"} /\ ~(s = "public" /\ phase' = "gateway")
    BY <1>4 DEF Enters, Started, Series, Flow
  <2>3. QED
    BY <2>1, <2>2 DEF Started
<1>5. QED
  BY <1>1, <1>2, <1>3, <1>4, Kinds

-----------------------------------------------------------------------------
(***************************************************************************)
(* What is in the buffers and the air                                      *)
(***************************************************************************)
\* A frame that was there before, or no echo, or the one that is asked now.
Known(frame) ==
  \/ frame.kind # "echo" \/ frame \in air
  \/ \E k \in DOMAIN txq : frame = txq[k]
  \/ \E k \in DOMAIN rxq : frame = rxq[k]
  \/ Asks /\ frame = Echo(phase, sequence)

LEMMA BufferStep ==
  ASSUME Flow, [Next]_vars
  PROVE  /\ txq' \in Seq(Echoes) /\ rxq' \in Seq(Frames) /\ air' \subseteq Frames
         /\ \A frame \in air' : Known(frame)
         /\ \A k \in DOMAIN txq' : Known(txq'[k])
         /\ \A k \in DOMAIN rxq' : Known(rxq'[k])
<1> USE DEF progressVars, reportVars, networkVars
<1>1. txq \in Seq(Echoes) /\ rxq \in Seq(Frames) /\ air \subseteq Frames
  BY DEF Flow
<1>2. ASSUME UNCHANGED <<txq, rxq, air>>
      PROVE  /\ txq' \in Seq(Echoes) /\ rxq' \in Seq(Frames) /\ air' \subseteq Frames
             /\ \A frame \in air' : Known(frame)
             /\ \A k \in DOMAIN txq' : Known(txq'[k])
             /\ \A k \in DOMAIN rxq' : Known(rxq'[k])
  BY <1>1, <1>2 DEF Known
<1>3. CASE SendSample
  <2>1. /\ rxq' = rxq
        /\ \/ Asks /\ air' = air \cup {Echo(phase, sequence)} /\ txq' = txq
           \/ Asks /\ air' = air /\ txq' = Append(txq, Echo(phase, sequence))
           \/ air' = air /\ txq' = txq
    BY <1>3 DEF SendSample, Asks
  <2>2. Echo(phase, sequence) \in Echoes /\ Echo(phase, sequence) \in Frames
    <3>1. phase \in Series /\ sequence \in 1 .. Count
      BY <1>3, SmokePingAssumption DEF SendSample, Flow
    <3>2. QED
      BY <3>1, EchoFrames
  <2>3. \A k \in DOMAIN rxq' : Known(rxq'[k])
    BY <2>1 DEF Known
  <2>4. CASE Asks /\ air' = air \cup {Echo(phase, sequence)} /\ txq' = txq
    BY <1>1, <2>1, <2>2, <2>3, <2>4 DEF Known
  <2>5. CASE Asks /\ air' = air /\ txq' = Append(txq, Echo(phase, sequence))
    <3>1. txq' \in Seq(Echoes)
      BY <1>1, <2>2, <2>5, AppendElements
    <3>2. ASSUME NEW k \in DOMAIN txq' PROVE Known(txq'[k])
      <4>1. txq'[k] = Echo(phase, sequence) \/ (k \in DOMAIN txq /\ txq'[k] = txq[k])
        BY <1>1, <2>2, <2>5, <3>2, AppendElements
      <4>2. QED
        BY <2>5, <4>1 DEF Known
    <3>3. QED
      BY <1>1, <2>1, <2>3, <2>5, <3>1, <3>2 DEF Known
  <2>6. QED
    BY <1>2, <2>1, <2>4, <2>5
<1>4. CASE SampleTimedOut \/ SeriesEnds \/ ArpTimedOut \/ PollBegins \/ LeaseFound \/ DhcpTimedOut
  <2>1. UNCHANGED <<txq, rxq, air>>
    BY <1>4 DEF SampleTimedOut, SeriesEnds, ArpTimedOut, PollBegins, LeaseFound, DhcpTimedOut
  <2>2. QED
    BY <1>2, <2>1
<1>5. CASE DhcpReturns
  <2>1. /\ txq' = txq /\ rxq' = rxq
        /\ air' = air \/ air' = air \cup {[kind |-> "arp_reply"]}
    BY <1>5 DEF DhcpReturns
  <2>2. QED
    BY <1>1, <2>1, EchoFrames DEF Known
<1>6. CASE ArpStep \/ SampleStep
  <2>1. txq' = txq /\ air' = air /\ (rxq' = rxq \/ (rxq # <<>> /\ rxq' = Tail(rxq)))
    BY <1>6 DEF ArpStep, SampleStep
  <2>2. CASE rxq # <<>> /\ rxq' = Tail(rxq)
    <3>1. rxq' \in Seq(Frames) /\ Within(rxq', rxq)
      BY <1>1, <2>2, TailElements
    <3>2. QED
      BY <1>1, <2>1, <3>1 DEF Known, Within
  <2>3. QED
    BY <1>2, <2>1, <2>2
<1>7. CASE PollEnds
  <2>1. /\ txq' = txq /\ air' = air
        /\ \/ rxq' = rxq \/ rxq' = <<>>
           \/ \E i \in DOMAIN rxq : rxq' = SubSeq(rxq, i + 1, Len(rxq))
    BY <1>7 DEF PollEnds, Answered, Unanswered, Replies
  <2>2. CASE \E i \in DOMAIN rxq : rxq' = SubSeq(rxq, i + 1, Len(rxq))
    <3>1. rxq' \in Seq(Frames) /\ Within(rxq', rxq)
      BY <1>1, <2>2, RestElements
    <3>2. QED
      BY <1>1, <2>1, <3>1 DEF Known, Within
  <2>3. CASE rxq' = <<>>
    BY <1>1, <2>1, <2>3 DEF Known
  <2>4. QED
    BY <1>2, <2>1, <2>2, <2>3
<1>8. CASE PollTransmits
  <2>1. /\ txq # <<>> /\ txq' = Tail(txq) /\ rxq' = rxq
        /\ air' = air \/ air' = air \cup {Head(txq)}
    BY <1>8 DEF PollTransmits
  <2>2. /\ txq' \in Seq(Echoes) /\ Within(txq', txq)
        /\ Head(txq) \in Echoes /\ \E j \in DOMAIN txq : Head(txq) = txq[j]
    BY <1>1, <2>1, TailElements
  <2>3. Head(txq) \in Frames
    BY <2>2, EchoFrames
  <2>4. \A k \in DOMAIN txq' : Known(txq'[k])
    BY <2>2 DEF Known, Within
  <2>5. QED
    BY <1>1, <2>1, <2>2, <2>3, <2>4 DEF Known
<1>9. ASSUME NEW frame \in Frames, Receive(frame), Known(frame)
      PROVE  /\ txq' = txq /\ rxq' \in Seq(Frames)
             /\ \A k \in DOMAIN rxq' : Known(rxq'[k])
  <2>1. txq' = txq /\ (rxq' = rxq \/ rxq' = Append(rxq, frame))
    BY <1>9 DEF Receive
  <2>2. CASE rxq' = Append(rxq, frame)
    <3>1. rxq' \in Seq(Frames)
      BY <1>1, <2>2, AppendElements
    <3>2. ASSUME NEW k \in DOMAIN rxq' PROVE Known(rxq'[k])
      <4>1. rxq'[k] = frame \/ (k \in DOMAIN rxq /\ rxq'[k] = rxq[k])
        BY <1>1, <2>2, <3>2, AppendElements
      <4>2. CASE rxq'[k] = frame
        BY <1>9, <4>2
      <4>3. CASE k \in DOMAIN rxq /\ rxq'[k] = rxq[k]
        BY <4>3 DEF Known
      <4>4. QED
        BY <4>1, <4>2, <4>3
    <3>3. QED
      BY <2>1, <3>1, <3>2
  <2>3. CASE rxq' = rxq
    BY <1>1, <2>1, <2>3 DEF Known
  <2>4. QED
    BY <2>1, <2>2, <2>3
<1>10. CASE FrameArrives
  <2>1. PICK frame \in air : Receive(frame) /\ air' \subseteq air
    BY <1>10 DEF FrameArrives
  <2>2. frame \in Frames /\ Known(frame)
    BY <1>1 DEF Known
  <2>3. QED
    BY <1>1, <1>9, <2>1, <2>2 DEF Known
<1>11. CASE OtherArrives
  <2>1. Receive([kind |-> "other"]) /\ air' = air
    BY <1>11 DEF OtherArrives
  <2>2. [kind |-> "other"] \in Frames /\ Known([kind |-> "other"])
    BY EchoFrames DEF Known
  <2>3. QED
    BY <1>1, <1>9, <2>1, <2>2 DEF Known
<1>12. CASE UNCHANGED vars
  BY <1>2, <1>12 DEF vars
<1>13. QED
  BY <1>3, <1>4, <1>5, <1>6, <1>7, <1>8, <1>10, <1>11, <1>12
     DEF Next, Smoke, RawStep, StackStep

-----------------------------------------------------------------------------
(***************************************************************************)
(* What was heard                                                          *)
(***************************************************************************)
\* The reply that comes now, while its sample waits and there is room for it.
HearsNow ==
  /\ Waiting /\ heard' = heard \cup {<<phase, sequence>>} /\ Keeps /\ pc' = pc
  /\ rxq' = Append(rxq, Echo(phase, sequence))

LEMMA HeardStep ==
  ASSUME Flow, [Next]_vars
  PROVE  heard' = heard \/ HearsNow
<1> USE DEF progressVars, reportVars, networkVars
<1>1. ASSUME NEW frame, Receive(frame) PROVE heard' = heard \/ HearsNow
  BY <1>1 DEF Receive, HearsNow, Keeps, Flow
<1>2. CASE FrameArrives
  BY <1>1, <1>2 DEF FrameArrives
<1>3. CASE OtherArrives
  BY <1>1, <1>3 DEF OtherArrives
<1>4. CASE Smoke
  BY <1>4 DEF Smoke, SendSample, SampleTimedOut, SeriesEnds, RawStep, DhcpReturns, ArpStep,
              ArpTimedOut, SampleStep, StackStep, PollBegins, PollEnds, LeaseFound,
              DhcpTimedOut
<1>5. CASE PollTransmits
  BY <1>5 DEF PollTransmits
<1>6. CASE UNCHANGED vars
  BY <1>6 DEF vars
<1>7. QED
  BY <1>2, <1>3, <1>4, <1>5, <1>6 DEF Next

LEMMA HeardTypes ==
  ASSUME Flow, [Next]_vars
  PROVE  heard' \subseteq Series \X (1 .. Count)
<1>1. ASSUME HearsNow PROVE phase \in Series /\ sequence \in 1 .. Count
  BY <1>1, SmokePingAssumption DEF HearsNow, Waiting, Flow
<1>2. QED
  BY <1>1, HeardStep DEF Flow, HearsNow

-----------------------------------------------------------------------------
(***************************************************************************)
(* The invariant is kept                                                   *)
(***************************************************************************)
LEMMA StepFlow ==
  ASSUME Flow, [Next]_vars
  PROVE  Flow'
<1>1. /\ txq' \in Seq(Echoes) /\ rxq' \in Seq(Frames) /\ air' \subseteq Frames
      /\ heard' \subseteq Series \X (1 .. Count)
  BY BufferStep, HeardTypes
<1>2. CASE Keeps
  BY <1>1, <1>2 DEF Keeps, Flow, Waiting
<1>3. CASE Asks
  BY <1>1, <1>3 DEF Asks, Flow, Waiting, Series
<1>4. CASE Judges
  <2>1. PICK outcome \in Outcomes : Report(outcome)
    BY <1>4 DEF Judges
  <2>2. /\ phase' = phase /\ phase \in Series /\ pc' = "sample"
        /\ sequence' = sequence + 1
        /\ reports' = [reports EXCEPT ![phase] = Append(@, outcome)]
    <3>1. phase \in Series
      BY <1>4 DEF Judges
    <3>2. QED
      BY <2>1, <3>1 DEF Report
  <2>3. sequence' \in Nat \ {0}
    BY <2>2 DEF Flow
  <2>4. reports \in [Series -> Seq(Outcomes)] /\ Len(reports[phase]) = sequence - 1
    BY <2>2 DEF Flow
  <2>5. /\ Append(reports[phase], outcome) \in Seq(Outcomes)
        /\ Len(Append(reports[phase], outcome)) = sequence
    BY <2>2, <2>4 DEF Flow
  <2>6. reports' \in [Series -> Seq(Outcomes)] /\ Len(reports'[phase]) = sequence' - 1
    BY <2>2, <2>4, <2>5 DEF Flow
  <2>7. phase = "gateway" => reports'["public"] = <<>>
    BY <2>2, <2>4 DEF Flow, Series
  <2>8. QED
    BY <1>1, <2>2, <2>3, <2>6, <2>7 DEF Flow, Waiting, Series
<1>5. CASE Enters
  <2>1. phase' \in Series => Len(reports'[phase']) = 0
    BY <1>5 DEF Enters, Flow, Series
  <2>2. QED
    BY <1>1, <1>5, <2>1 DEF Enters, Flow, Waiting, Series
<1>6. QED
  BY <1>2, <1>3, <1>4, <1>5, Kinds

LEMMA StepCausal ==
  ASSUME Flow, Causal, [Next]_vars
  PROVE  Causal'
<1>1. ASSUME NEW frame \in Frames, Known(frame) PROVE Answers(frame)'
  <2> SUFFICES ASSUME frame.kind = "echo" PROVE Started(frame.from, frame.seq)'
    BY DEF Answers
  <2>1. frame.from \in Series /\ frame.seq \in Nat
    BY EchoFrames, SmokePingAssumption
  <2>2. CASE Asks /\ frame = Echo(phase, sequence)
    <3>1. frame.from = phase /\ frame.seq = sequence
      BY <2>2 DEF Echo
    <3>2. QED
      BY <2>2, <3>1 DEF Asks, Started
  <2>3. CASE ~(Asks /\ frame = Echo(phase, sequence))
    <3>1. Answers(frame)
      BY <1>1, <2>3 DEF Known, Causal
    <3>2. Started(frame.from, frame.seq)
      BY <3>1 DEF Answers
    <3>3. QED
      BY <2>1, <3>2, StartedStays
  <2>4. QED
    BY <2>2, <2>3
<1>2. /\ \A k \in DOMAIN txq' : txq'[k] \in Frames
      /\ \A k \in DOMAIN rxq' : rxq'[k] \in Frames
  <2>1. txq' \in Seq(Echoes) /\ rxq' \in Seq(Frames)
    BY BufferStep
  <2>2. QED
    BY <2>1, EchoFrames, ElementOfSeq
<1>3. (\A frame \in air : Answers(frame))'
  <2>1. ASSUME NEW frame \in air' PROVE Answers(frame)'
    <3>1. frame \in Frames /\ Known(frame)
      BY <2>1, BufferStep
    <3>2. QED
      BY <1>1, <3>1
  <2>2. QED
    BY <2>1
<1>4. (\A k \in DOMAIN txq : Answers(txq[k]))'
  <2>1. ASSUME NEW k \in DOMAIN txq' PROVE Answers(txq[k])'
    <3>1. PICK frame \in Frames : frame = txq'[k] /\ Known(frame)
      BY <1>2, <2>1, BufferStep
    <3>2. Answers(frame)'
      BY <1>1, <3>1
    <3>3. QED
      BY <3>1, <3>2 DEF Answers, Started
  <2>2. QED
    BY <2>1
<1>5. (\A k \in DOMAIN rxq : Answers(rxq[k]))'
  <2>1. ASSUME NEW k \in DOMAIN rxq' PROVE Answers(rxq[k])'
    <3>1. PICK frame \in Frames : frame = rxq'[k] /\ Known(frame)
      BY <1>2, <2>1, BufferStep
    <3>2. Answers(frame)'
      BY <1>1, <3>1
    <3>3. QED
      BY <3>1, <3>2 DEF Answers, Started
  <2>2. QED
    BY <2>1
<1>6. ASSUME NEW s \in Series, NEW n \in 1 .. Count, <<s, n>> \in heard'
      PROVE  Started(s, n)'
  <2>1. n \in Nat
    BY SmokePingAssumption
  <2>2. CASE <<s, n>> \in heard
    BY <2>1, <2>2, StartedStays DEF Causal
  <2>3. CASE <<s, n>> \notin heard
    BY <1>6, <2>3, HeardStep DEF HearsNow, Started, Keeps, Waiting
  <2>4. QED
    BY <2>2, <2>3
<1>7. QED
  BY <1>3, <1>4, <1>5, <1>6 DEF Causal

LEMMA StepCurrent ==
  ASSUME Flow, Causal, Current, [Next]_vars
  PROVE  Current'
<1> USE DEF progressVars, reportVars, networkVars
<1>1. ASSUME ~Waiting' PROVE Current'
  BY <1>1 DEF Current
<1>2. ASSUME UNCHANGED <<build, phase, sequence, pc, rxq, heard>> PROVE Current'
  BY <1>2 DEF Current, InBuffer, Waiting, Raw
<1>3. CASE SendSample
  <2>1. phase \in Series /\ pc = "sample" /\ rxq' = rxq /\ heard' = heard
    BY <1>3 DEF SendSample
  <2>2. CASE pc' = "sample"
    BY <1>1, <2>2 DEF Waiting
  <2>3. CASE pc' # "sample"
    <3>1. UNCHANGED <<phase, sequence>> /\ sequence \in 1 .. Count
      BY <1>3, <2>3, SmokePingAssumption DEF SendSample, Report, Flow
    <3>2. ~Started(phase, sequence)
      BY <2>1, <3>1 DEF Started, Flow
    <3>3. <<phase, sequence>> \notin heard
      BY <2>1, <3>1, <3>2 DEF Causal
    <3>4. ~InBuffer
      BY <2>1, <3>1, <3>2, EchoFrames DEF Causal, Answers, InBuffer
    <3>5. QED
      BY <2>1, <3>1, <3>3, <3>4 DEF Current, InBuffer
  <2>4. QED
    BY <2>2, <2>3
<1>4. CASE SampleTimedOut \/ SeriesEnds \/ DhcpReturns \/ ArpTimedOut \/ LeaseFound \/ DhcpTimedOut
  <2>1. ~Waiting'
    BY <1>4 DEF SampleTimedOut, Report, SeriesEnds, DhcpReturns, ArpTimedOut, LeaseFound,
                DhcpTimedOut, Enter, Waiting, Series
  <2>2. QED
    BY <1>1, <2>1
<1>5. CASE ArpStep
  <2>1. ~Waiting'
    BY <1>5 DEF ArpStep, Enter, Waiting, Series
  <2>2. QED
    BY <1>1, <2>1
<1>6. CASE SampleStep
  <2>1. CASE pc' = "sample"
    BY <1>1, <2>1 DEF Waiting
  <2>2. CASE pc' # "sample"
    <3>1. /\ UNCHANGED <<build, phase, sequence, pc, heard>> /\ Raw /\ Waiting
          /\ rxq' = rxq \/ (rxq # <<>> /\ rxq' = Tail(rxq))
      BY <1>6, <2>2 DEF SampleStep, Report, Waiting
    <3>2. CASE rxq # <<>> /\ rxq' = Tail(rxq)
      <4>1. Within(rxq', rxq)
        BY <3>2, TailElements DEF Flow
      <4>2. QED
        BY <3>1, <4>1 DEF Current, InBuffer, Within, Raw
    <3>3. QED
      BY <1>2, <3>1, <3>2
  <2>3. QED
    BY <2>1, <2>2
<1>7. CASE PollBegins
  <2>1. /\ UNCHANGED <<build, phase, sequence, rxq, heard>>
        /\ ~Raw /\ pc = "head" /\ pc' = "poll"
    BY <1>7 DEF PollBegins
  <2>2. QED
    BY <2>1 DEF Current, InBuffer, Waiting, Raw
<1>8. CASE PollEnds
  <2>1. CASE Answered
    BY <1>1, <2>1 DEF Answered, Report, Waiting
  <2>2. CASE Unanswered
    <3>1. CASE phase \in Series
      <4>1. /\ UNCHANGED <<build, phase, sequence, heard>> /\ rxq' = <<>> /\ Replies = {}
            /\ pc = "poll" /\ ~Raw
        BY <1>8, <2>2, <3>1 DEF PollEnds, Unanswered
      <4>2. ~InBuffer
        BY <4>1 DEF Replies, Matches, InBuffer, Echo
      <4>3. <<phase, sequence>> \notin heard
        BY <3>1, <4>1, <4>2 DEF Current, Waiting
      <4>4. QED
        BY <4>1, <4>3 DEF Current, InBuffer
    <3>2. CASE phase \notin Series
      BY <1>1, <2>2, <3>2 DEF Unanswered, Waiting
    <3>3. QED
      BY <3>1, <3>2
  <2>3. QED
    BY <1>8, <2>1, <2>2 DEF PollEnds
<1>9. CASE PollTransmits
  BY <1>2, <1>9 DEF PollTransmits
<1>10. ASSUME NEW frame \in Frames, Receive(frame), Raw \/ pc = "poll" PROVE Current'
  <2>1. UNCHANGED <<build, phase, sequence, pc>>
    BY <1>10 DEF Receive
  <2>2. CASE Len(rxq) < RxSlots
    <3>1. rxq' = Append(rxq, frame)
      BY <1>10, <2>2 DEF Receive
    <3>2. /\ \A k \in DOMAIN rxq' : rxq'[k] = frame \/ (k \in DOMAIN rxq /\ rxq'[k] = rxq[k])
          /\ \A k \in DOMAIN rxq : k \in DOMAIN rxq' /\ rxq'[k] = rxq[k]
          /\ \E k \in DOMAIN rxq' : rxq'[k] = frame
      BY <3>1, AppendElements DEF Flow
    <3>3. CASE Waiting /\ frame = Echo(phase, sequence)
      <4>1. heard' = heard \cup {<<phase, sequence>>}
        BY <1>10, <2>2, <3>3 DEF Receive
      <4>2. InBuffer'
        BY <2>1, <3>2, <3>3 DEF InBuffer
      <4>3. QED
        BY <1>10, <2>1, <4>1, <4>2 DEF Current, Raw
    <3>4. CASE ~(Waiting /\ frame = Echo(phase, sequence))
      <4>1. heard' = heard
        BY <1>10, <3>4 DEF Receive
      <4>2. Waiting => (InBuffer' <=> InBuffer)
        BY <2>1, <3>2, <3>4 DEF InBuffer
      <4>3. QED
        BY <2>1, <4>1, <4>2 DEF Current, Waiting, Raw
    <3>5. QED
      BY <3>3, <3>4
  <2>3. CASE ~(Len(rxq) < RxSlots)
    BY <1>2, <1>10, <2>3 DEF Receive
  <2>4. QED
    BY <2>2, <2>3
<1>11. CASE FrameArrives
  BY <1>10, <1>11 DEF FrameArrives, Flow
<1>12. CASE OtherArrives
  BY <1>10, <1>12, EchoFrames DEF OtherArrives
<1>13. CASE UNCHANGED vars
  BY <1>2, <1>13 DEF vars
<1>14. QED
  BY <1>3, <1>4, <1>5, <1>6, <1>7, <1>8, <1>9, <1>11, <1>12, <1>13
     DEF Next, Smoke, RawStep, StackStep

\* The verdict on the sample under way is honest.
Verdict(outcome) ==
  /\ outcome = "ok" => <<phase, sequence>> \in heard
  /\ ~Raw /\ <<phase, sequence>> \in heard => outcome = "ok"

LEMMA Verdicts ==
  ASSUME Flow, Causal, Current, [Next]_vars
  PROVE  \/ reports' = reports
         \/ phase \in Series /\ \E outcome \in Outcomes : Report(outcome) /\ Verdict(outcome)
<1> USE DEF progressVars, reportVars, networkVars
<1>1. CASE SendSample
  <2>1. CASE Report("tx_error")
    <3>1. phase \in Series /\ sequence \in 1 .. Count /\ ~Started(phase, sequence)
      BY <1>1, SmokePingAssumption DEF SendSample, Started, Flow
    <3>2. Verdict("tx_error")
      BY <3>1 DEF Verdict, Causal
    <3>3. QED
      BY <2>1, <3>1, <3>2 DEF Outcomes
  <2>2. QED
    BY <1>1, <2>1 DEF SendSample
<1>2. CASE SampleTimedOut
  <2>1. phase \in Series /\ pc = "head" /\ Report("timeout")
    BY <1>2 DEF SampleTimedOut
  <2>2. Verdict("timeout")
    BY <2>1 DEF Verdict, Current, Waiting
  <2>3. QED
    BY <2>1, <2>2 DEF Outcomes
<1>3. CASE SampleStep
  <2>1. CASE rxq # <<>> /\ Matches(Head(rxq))
    <3>1. phase \in Series /\ Waiting /\ Report("ok")
      BY <1>3, <2>1 DEF SampleStep, Waiting
    <3>2. Head(rxq) \in Frames /\ \E j \in DOMAIN rxq : Head(rxq) = rxq[j]
      BY <2>1, TailElements DEF Flow
    <3>3. Head(rxq) = Echo(phase, sequence)
      BY <2>1, <3>2, EchoFrames DEF Matches
    <3>4. Verdict("ok")
      BY <3>1, <3>2, <3>3 DEF Verdict, Current, InBuffer
    <3>5. QED
      BY <3>1, <3>4 DEF Outcomes
  <2>2. QED
    BY <1>3, <2>1 DEF SampleStep
<1>4. CASE PollEnds
  <2>1. CASE Answered
    <3>1. phase \in Series /\ Waiting /\ Report("ok")
      BY <1>4, <2>1 DEF PollEnds, Answered, Waiting
    <3>2. PICK i \in DOMAIN rxq : Matches(rxq[i])
      BY <2>1 DEF Answered, Replies
    <3>3. rxq[i] = Echo(phase, sequence)
      <4>1. rxq[i] \in Frames
        BY <3>2, ElementOfSeq DEF Flow
      <4>2. QED
        BY <3>2, <4>1, EchoFrames DEF Matches
    <3>4. Verdict("ok")
      BY <3>1, <3>3 DEF Verdict, Current, InBuffer
    <3>5. QED
      BY <3>1, <3>4 DEF Outcomes
  <2>2. QED
    BY <1>4, <2>1 DEF PollEnds, Unanswered
<1>5. CASE ~(SendSample \/ SampleTimedOut \/ SampleStep \/ PollEnds)
  BY <1>5 DEF Next, Smoke, SeriesEnds, RawStep, DhcpReturns, ArpStep, ArpTimedOut, StackStep,
              PollBegins, LeaseFound, DhcpTimedOut, PollTransmits, FrameArrives,
              OtherArrives, Receive, vars
<1>6. QED
  BY <1>1, <1>2, <1>3, <1>4, <1>5

LEMMA StepHonest ==
  ASSUME Flow, Causal, Current, SamplesHonest, [Next]_vars
  PROVE  SamplesHonest'
<1>1. build' = build
  BY Kinds
<1>2. reports \in [Series -> Seq(Outcomes)]
  BY DEF Flow
<1>3. \A s \in Series : \A i \in DOMAIN reports[s] : <<s, i>> \in heard' <=> <<s, i>> \in heard
  <2>1. CASE HearsNow
    <3>1. phase \in Series /\ sequence \notin DOMAIN reports[phase]
      BY <1>2, <2>1 DEF HearsNow, Waiting, Flow
    <3>2. QED
      BY <2>1, <3>1 DEF HearsNow
  <2>2. QED
    BY <2>1, HeardStep
<1>4. CASE reports' = reports
  BY <1>1, <1>3, <1>4 DEF SamplesHonest, Raw
<1>5. CASE phase \in Series /\ \E outcome \in Outcomes : Report(outcome) /\ Verdict(outcome)
  <2>1. PICK outcome \in Outcomes : Report(outcome) /\ Verdict(outcome)
    BY <1>5
  <2>2. phase \in Series /\ reports' = [reports EXCEPT ![phase] = Append(@, outcome)]
    BY <1>5, <2>1 DEF Report
  <2>3. heard' = heard
    BY <1>5, <2>1, HeardStep DEF HearsNow, Keeps, Report, Flow
  <2>4. ASSUME NEW s \in Series, NEW i \in DOMAIN reports'[s]
        PROVE  /\ reports'[s][i] = "ok" => <<s, i>> \in heard
               /\ ~Raw /\ <<s, i>> \in heard => reports'[s][i] = "ok"
    <3>1. CASE s # phase
      <4>1. reports'[s] = reports[s]
        BY <1>2, <2>2, <3>1
      <4>2. QED
        BY <2>4, <4>1 DEF SamplesHonest
    <3>2. CASE s = phase
      <4>1. /\ reports'[s] = Append(reports[s], outcome)
            /\ reports[s] \in Seq(Outcomes) /\ Len(reports[s]) = sequence - 1
        BY <1>2, <2>2, <3>2 DEF Flow
      <4>2. CASE i \in DOMAIN reports[s]
        <5>1. reports'[s][i] = reports[s][i]
          BY <2>1, <4>1, <4>2
        <5>2. QED
          BY <4>2, <5>1 DEF SamplesHonest
      <4>3. CASE i \notin DOMAIN reports[s]
        <5>1. i = sequence /\ reports'[s][i] = outcome
          BY <2>1, <2>4, <4>1, <4>3 DEF Flow
        <5>2. QED
          BY <2>1, <3>2, <5>1 DEF Verdict
      <4>4. QED
        BY <4>2, <4>3
    <3>3. QED
      BY <3>1, <3>2
  <2>5. QED
    BY <1>1, <2>3, <2>4 DEF SamplesHonest, Raw
<1>6. QED
  BY <1>4, <1>5, Verdicts

-----------------------------------------------------------------------------
(***************************************************************************)
(* The theorem                                                             *)
(***************************************************************************)
LEMMA InitHonest == Init => HonestInv
<1>1. ASSUME Init PROVE Flow
  BY <1>1, SmokePingAssumption DEF Init, Flow, Waiting, Series
<1>2. ASSUME Init PROVE Causal
  BY <1>2 DEF Init, Causal
<1>3. ASSUME Init PROVE Current /\ SamplesHonest
  BY <1>3 DEF Init, Current, Waiting, Series, SamplesHonest
<1>4. QED
  BY <1>1, <1>2, <1>3 DEF HonestInv

LEMMA StepHonestInv == HonestInv /\ [Next]_vars => HonestInv'
BY StepFlow, StepCausal, StepCurrent, StepHonest DEF HonestInv

\* A sample of a ping series is "ok" only if its own reply came in its own time,
\* and with the stack (network_runner.rs) whenever it did.
THEOREM SamplesAreHonest == Spec => []SamplesHonest
<1>1. HonestInv => SamplesHonest
  BY DEF HonestInv
<1>2. QED
  BY <1>1, InitHonest, StepHonestInv, PTL DEF Spec

-----------------------------------------------------------------------------
(***************************************************************************)
(* Type correctness: what is counted, the clock and the buffers            *)
(***************************************************************************)
\* A request of series s is under way.
UnderWay(s) == IF phase = s /\ pc # "sample" THEN 1 ELSE 0

\* Every sample reported was sent or failed, and so is the one under way.
Tally ==
  /\ stats \in [Series -> [tx : Nat, rx : Nat, errors : Nat]]
  /\ \A s \in Series :
       /\ stats[s].tx + stats[s].errors = Len(reports[s]) + UnderWay(s)
       /\ stats[s].rx <= Len(reports[s])
       /\ Len(reports[s]) <= Count

\* Only the stack polls, while its loop has time left, and one sleep may take it past its limit.
Clock ==
  /\ waited \in Nat
  /\ waited + 1 <= Limit + MaxDelay
  /\ pc = "poll" => waited < Limit /\ ~Raw

Room ==
  /\ build \in {"raw", "smoltcp"} /\ lease \in {"none", "bare", "routed"}
  /\ sequence <= Count + 1
  /\ Len(txq) <= TxSlots /\ Len(rxq) <= RxSlots
  /\ others \in 0 .. MaxOther

PingInv == Flow /\ Tally /\ Clock /\ Room

\* The constants that are sizes, limits or bounds are numbers.
LEMMA Constants ==
  /\ Count \in Nat \ {0} /\ PingTimeout \in Nat \ {0} /\ MaxDelay \in Nat \ {0}
  /\ RxSlots \in Nat \ {0} /\ TxSlots \in Nat \ {0}
  /\ DhcpTimeout \in Nat /\ ArpSteps \in Nat /\ MaxOther \in Nat
BY SmokePingAssumption

\* What a step reports and what it counts: a request that was sent, or a sample
\* that ended as one that could not be sent, in silence or with its answer.
Counts ==
  \/ (Keeps \/ Enters) /\ stats' = stats
  \/ Asks /\ stats' = CountSent
  \/ /\ phase \in Series /\ pc = "sample" /\ sequence <= Count
     /\ Report("tx_error") /\ stats' = CountFailed
  \/ Waiting /\ Report("timeout") /\ stats' = stats
  \/ Waiting /\ Report("ok") /\ stats' = CountAnswered

LEMMA CountStep ==
  ASSUME Flow, [Next]_vars
  PROVE  /\ Counts
         /\ (Enters /\ phase \in Series) => (pc = "sample" /\ sequence > Count)
<1> USE DEF progressVars, reportVars, networkVars
<1>1. CASE SendSample
  BY <1>1 DEF SendSample, Counts, Asks, Enters, Report, Series
<1>2. CASE SampleTimedOut
  BY <1>2 DEF SampleTimedOut, Counts, Waiting, Report, Enters, Series
<1>3. CASE SeriesEnds
  <2>1. pc = "sample" /\ sequence > Count /\ stats' = stats
    BY <1>3 DEF SeriesEnds
  <2>2. Enters
    BY <1>3 DEF SeriesEnds, Enter, Enters, Series
  <2>3. QED
    BY <2>1, <2>2 DEF Counts
<1>4. CASE DhcpReturns
  BY <1>4 DEF DhcpReturns, Enter, Enters, Counts, Series
<1>5. CASE ArpStep
  BY <1>5 DEF ArpStep, Enter, Enters, Keeps, Flow, Counts, Series
<1>6. CASE ArpTimedOut
  BY <1>6 DEF ArpTimedOut, Enter, Enters, Counts, Series
<1>7. CASE SampleStep
  <2>1. Waiting
    BY <1>7 DEF SampleStep, Waiting
  <2>2. ~Enters
    BY <1>7 DEF SampleStep, Report, Enters, Series
  <2>3. QED
    BY <1>7, <2>1, <2>2 DEF SampleStep, Keeps, Flow, Counts
<1>8. CASE PollBegins
  BY <1>8 DEF PollBegins, Keeps, Enters, Counts, Series
<1>9. CASE PollEnds
  <2>1. CASE Answered
    <3>1. Waiting /\ Report("ok") /\ stats' = CountAnswered
      BY <1>9, <2>1 DEF PollEnds, Answered, Waiting
    <3>2. ~Enters
      BY <3>1 DEF Report, Enters, Waiting, Series
    <3>3. QED
      BY <3>1, <3>2 DEF Counts
  <2>2. CASE Unanswered
    BY <1>9, <2>2 DEF PollEnds, Unanswered, Keeps, Enters, Counts, Series
  <2>3. QED
    BY <1>9, <2>1, <2>2 DEF PollEnds
<1>10. CASE LeaseFound
  BY <1>10 DEF LeaseFound, Enter, Enters, Counts, Series
<1>11. CASE DhcpTimedOut
  BY <1>11 DEF DhcpTimedOut, Enter, Enters, Counts, Series
<1>12. CASE PollTransmits
  BY <1>12 DEF PollTransmits, Keeps, Flow, Enters, Counts, Series
<1>13. CASE FrameArrives \/ OtherArrives
  BY <1>13 DEF FrameArrives, OtherArrives, Receive, Keeps, Flow, Enters, Counts, Series
<1>14. CASE UNCHANGED vars
  BY <1>14 DEF vars, Keeps, Flow, Enters, Counts, Series
<1>15. QED
  BY <1>1, <1>2, <1>3, <1>4, <1>5, <1>6, <1>7, <1>8, <1>9, <1>10, <1>11, <1>12, <1>13,
     <1>14 DEF Next, Smoke, RawStep, StackStep

\* A report is of one sample more, in its own series.
LEMMA OneMore ==
  ASSUME Flow, NEW outcome \in Outcomes, phase \in Series, Report(outcome)
  PROVE  /\ \A s \in Series : s # phase => reports'[s] = reports[s]
         /\ reports'[phase] = Append(reports[phase], outcome)
         /\ Len(reports[phase]) \in Nat /\ Len(reports'[phase]) = Len(reports[phase]) + 1
         /\ Len(reports[phase]) + 1 = sequence
         /\ phase' = phase /\ pc' = "sample"
<1>1. /\ reports \in [Series -> Seq(Outcomes)]
      /\ Len(reports[phase]) = sequence - 1 /\ sequence \in Nat
  BY DEF Flow
<1>2. /\ reports' = [reports EXCEPT ![phase] = Append(@, outcome)]
      /\ phase' = phase /\ pc' = "sample"
  BY DEF Report
<1>3. /\ reports'[phase] = Append(reports[phase], outcome)
      /\ \A s \in Series : s # phase => reports'[s] = reports[s]
  BY <1>1, <1>2
<1>4. reports[phase] \in Seq(Outcomes)
  BY <1>1
<1>5. /\ Len(Append(reports[phase], outcome)) = Len(reports[phase]) + 1
      /\ Len(reports[phase]) \in Nat
  BY <1>4
<1>6. QED
  BY <1>1, <1>2, <1>3, <1>5

Statistics == [tx : Nat, rx : Nat, errors : Nat]

\* Counting is by one, of one counter, in the series under way.
LEMMA Counted ==
  ASSUME stats \in [Series -> Statistics], phase \in Series
  PROVE  /\ {CountSent, CountFailed, CountAnswered} \subseteq [Series -> Statistics]
         /\ \A counted \in {CountSent, CountFailed, CountAnswered} :
              \A s \in Series : s # phase => counted[s] = stats[s]
         /\ CountSent[phase] = [stats[phase] EXCEPT !.tx = @ + 1]
         /\ CountFailed[phase] = [stats[phase] EXCEPT !.errors = @ + 1]
         /\ CountAnswered[phase] = [stats[phase] EXCEPT !.rx = @ + 1]
<1>1. ASSUME NEW changed \in Statistics, NEW counted,
             counted = [stats EXCEPT ![phase] = changed]
      PROVE  /\ counted \in [Series -> Statistics] /\ counted[phase] = changed
             /\ \A s \in Series : s # phase => counted[s] = stats[s]
  BY <1>1
<1>2. stats[phase] \in Statistics
  OBVIOUS
<1>3. /\ [stats[phase] EXCEPT !.tx = @ + 1] \in Statistics
      /\ [stats[phase] EXCEPT !.errors = @ + 1] \in Statistics
      /\ [stats[phase] EXCEPT !.rx = @ + 1] \in Statistics
  BY <1>2 DEF Statistics
<1>4. /\ CountSent = [stats EXCEPT ![phase] = [stats[phase] EXCEPT !.tx = @ + 1]]
      /\ CountFailed = [stats EXCEPT ![phase] = [stats[phase] EXCEPT !.errors = @ + 1]]
      /\ CountAnswered = [stats EXCEPT ![phase] = [stats[phase] EXCEPT !.rx = @ + 1]]
  BY DEF CountSent, CountFailed, CountAnswered
<1>5. /\ CountSent \in [Series -> Statistics]
      /\ CountSent[phase] = [stats[phase] EXCEPT !.tx = @ + 1]
      /\ \A s \in Series : s # phase => CountSent[s] = stats[s]
  BY <1>1, <1>3, <1>4
<1>6. /\ CountFailed \in [Series -> Statistics]
      /\ CountFailed[phase] = [stats[phase] EXCEPT !.errors = @ + 1]
      /\ \A s \in Series : s # phase => CountFailed[s] = stats[s]
  BY <1>1, <1>3, <1>4
<1>7. /\ CountAnswered \in [Series -> Statistics]
      /\ CountAnswered[phase] = [stats[phase] EXCEPT !.rx = @ + 1]
      /\ \A s \in Series : s # phase => CountAnswered[s] = stats[s]
  BY <1>1, <1>3, <1>4
<1>8. QED
  BY <1>5, <1>6, <1>7

\* No step counts a sample that it does not report, or reports one uncounted.
LEMMA StepTally ==
  ASSUME Flow, Tally, [Next]_vars
  PROVE  Tally'
<1>1. /\ stats \in [Series -> Statistics]
      /\ reports \in [Series -> Seq(Outcomes)]
  BY DEF Tally, Flow, Statistics
<1>2. \A s \in Series :
        /\ stats[s].tx \in Nat /\ stats[s].rx \in Nat /\ stats[s].errors \in Nat
        /\ stats[s].tx + stats[s].errors = Len(reports[s]) + UnderWay(s)
        /\ stats[s].rx <= Len(reports[s]) /\ Len(reports[s]) <= Count
        /\ Len(reports[s]) \in Nat
  BY <1>1 DEF Tally, Statistics
<1>3. CASE Keeps /\ stats' = stats
  <2>1. \A s \in Series : UnderWay(s)' = UnderWay(s)
    BY <1>3 DEF Keeps, UnderWay
  <2>2. QED
    BY <1>1, <1>2, <1>3, <2>1 DEF Keeps, Tally
<1>4. CASE Enters /\ stats' = stats
  <2>1. \A s \in Series : UnderWay(s) = 0 /\ UnderWay(s)' = 0
    BY <1>4, CountStep DEF Enters, UnderWay, Series
  <2>2. QED
    BY <1>1, <1>2, <1>4, <2>1 DEF Enters, Tally
<1>5. CASE Asks /\ stats' = CountSent
  <2>1. /\ phase \in Series /\ UNCHANGED reports
        /\ UnderWay(phase) = 0
        /\ \A s \in Series : UnderWay(s)' = IF s = phase THEN 1 ELSE UnderWay(s)
    BY <1>5 DEF Asks, UnderWay
  <2>2. /\ stats' \in [Series -> Statistics]
        /\ stats'[phase] = [stats[phase] EXCEPT !.tx = @ + 1]
        /\ \A s \in Series : s # phase => stats'[s] = stats[s]
    BY <1>1, <1>5, <2>1, Counted
  <2>3. /\ stats'[phase].tx = stats[phase].tx + 1
        /\ stats'[phase].errors = stats[phase].errors /\ stats'[phase].rx = stats[phase].rx
    BY <1>1, <2>1, <2>2 DEF Statistics
  <2>4. stats'[phase].tx + stats'[phase].errors = Len(reports'[phase]) + 1
    <3>1. /\ stats[phase].tx \in Nat /\ stats[phase].errors \in Nat
          /\ Len(reports[phase]) \in Nat
          /\ stats[phase].tx + stats[phase].errors = Len(reports[phase]) + 0
      BY <1>2, <2>1
    <3>2. Len(reports'[phase]) = Len(reports[phase])
      BY <2>1
    <3>3. \A a, b, c \in Nat : (a + b = c + 0) => ((a + 1) + b = c + 1)
      OBVIOUS
    <3>4. (stats[phase].tx + 1) + stats[phase].errors = Len(reports[phase]) + 1
      BY <3>1, <3>3
    <3>5. QED
      BY <2>3, <3>2, <3>4
  <2>5. ASSUME NEW s \in Series
        PROVE  /\ stats'[s].tx + stats'[s].errors = Len(reports'[s]) + UnderWay(s)'
               /\ stats'[s].rx <= Len(reports'[s]) /\ Len(reports'[s]) <= Count
    <3>1. CASE s = phase
      <4>1. UnderWay(s)' = 1
        BY <2>1, <2>5, <3>1
      <4>2. QED
        BY <1>2, <2>1, <2>3, <2>4, <3>1, <4>1
    <3>2. CASE s # phase
      <4>1. UnderWay(s)' = UnderWay(s) /\ stats'[s] = stats[s]
        BY <2>1, <2>2, <2>5, <3>2
      <4>2. QED
        BY <1>2, <2>1, <2>5, <4>1
    <3>3. QED
      BY <3>1, <3>2
  <2>6. QED
    BY <2>2, <2>5 DEF Tally, Statistics
<1>6. ASSUME NEW outcome \in Outcomes, phase \in Series, sequence <= Count, Report(outcome),
             stats' \in [Series -> Statistics],
             \A s \in Series : s # phase => stats'[s] = stats[s],
             stats'[phase].tx + stats'[phase].errors
               = stats[phase].tx + stats[phase].errors + 1 - UnderWay(phase),
             stats'[phase].rx <= stats[phase].rx + 1
      PROVE  Tally'
  <2>1. /\ \A s \in Series : s # phase => reports'[s] = reports[s]
        /\ Len(reports'[phase]) = Len(reports[phase]) + 1
        /\ Len(reports[phase]) + 1 = sequence
        /\ phase' = phase /\ pc' = "sample"
    BY <1>6, OneMore
  <2>2. \A s \in Series : UnderWay(s)' = 0
    BY <2>1 DEF UnderWay
  <2>3. \A s \in Series : s # phase => UnderWay(s) = 0
    BY DEF UnderWay
  <2>4. UnderWay(phase) \in {0, 1}
    BY DEF UnderWay
  <2>5. stats'[phase].tx + stats'[phase].errors = Len(reports'[phase])
    <3>1. stats[phase].tx + stats[phase].errors = Len(reports[phase]) + UnderWay(phase)
      BY <1>2, <1>6
    <3>2. Len(reports[phase]) \in Nat /\ stats[phase].tx \in Nat /\ stats[phase].errors \in Nat
      BY <1>2, <1>6
    <3>3. QED
      BY <1>6, <2>1, <2>4, <3>1, <3>2
  <2>6. stats'[phase].rx <= Len(reports'[phase])
    <3>1. stats'[phase].rx \in Nat
      BY <1>6 DEF Statistics
    <3>2. QED
      BY <1>2, <1>6, <2>1, <3>1
  <2>7. Len(reports'[phase]) <= Count
    BY <1>6, <2>1
  <2>8. ASSUME NEW s \in Series
        PROVE  /\ stats'[s].tx + stats'[s].errors = Len(reports'[s]) + UnderWay(s)'
               /\ stats'[s].rx <= Len(reports'[s]) /\ Len(reports'[s]) <= Count
    <3>1. CASE s = phase
      <4>1. /\ UnderWay(s)' = 0
            /\ Len(reports'[s]) \in Nat
        BY <1>2, <1>6, <2>1, <2>2, <2>8, <3>1
      <4>2. QED
        BY <2>5, <2>6, <2>7, <3>1, <4>1
    <3>2. CASE s # phase
      <4>1. /\ UnderWay(s)' = UnderWay(s)
            /\ stats'[s] = stats[s] /\ reports'[s] = reports[s]
        BY <1>6, <2>1, <2>2, <2>3, <2>8, <3>2
      <4>2. QED
        BY <1>2, <2>8, <4>1
    <3>3. QED
      BY <3>1, <3>2
  <2>9. QED
    BY <1>6, <2>8 DEF Tally, Statistics
<1>7. CASE /\ phase \in Series /\ pc = "sample" /\ sequence <= Count
           /\ Report("tx_error") /\ stats' = CountFailed
  <2>1. UnderWay(phase) = 0 /\ "tx_error" \in Outcomes
    BY <1>7 DEF UnderWay, Outcomes
  <2>2. /\ stats' \in [Series -> Statistics]
        /\ stats'[phase] = [stats[phase] EXCEPT !.errors = @ + 1]
        /\ \A s \in Series : s # phase => stats'[s] = stats[s]
    BY <1>1, <1>7, <2>1, Counted
  <2>3. stats[phase] \in Statistics
    BY <1>1, <1>7, <2>1
  <2>4. /\ stats'[phase].errors = stats[phase].errors + 1
        /\ stats'[phase].tx = stats[phase].tx /\ stats'[phase].rx = stats[phase].rx
    BY <2>2, <2>3 DEF Statistics
  <2>5. /\ stats'[phase].tx + stats'[phase].errors
             = stats[phase].tx + stats[phase].errors + 1 - UnderWay(phase)
        /\ stats'[phase].rx <= stats[phase].rx + 1
    BY <1>2, <1>7, <2>1, <2>4
  <2>6. QED
    BY <1>6, <1>7, <2>1, <2>2, <2>5
<1>8. CASE Waiting /\ Report("timeout") /\ stats' = stats
  <2>1. UnderWay(phase) = 1 /\ phase \in Series /\ sequence <= Count /\ "timeout" \in Outcomes
    BY <1>8 DEF UnderWay, Outcomes, Waiting, Flow
  <2>2. /\ stats'[phase].tx + stats'[phase].errors
             = stats[phase].tx + stats[phase].errors + 1 - UnderWay(phase)
        /\ stats'[phase].rx <= stats[phase].rx + 1
    BY <1>2, <1>8, <2>1
  <2>3. QED
    BY <1>1, <1>6, <1>8, <2>1, <2>2
<1>9. CASE Waiting /\ Report("ok") /\ stats' = CountAnswered
  <2>1. UnderWay(phase) = 1 /\ phase \in Series /\ sequence <= Count /\ "ok" \in Outcomes
    BY <1>9 DEF UnderWay, Outcomes, Waiting, Flow
  <2>2. /\ stats' \in [Series -> Statistics]
        /\ stats'[phase] = [stats[phase] EXCEPT !.rx = @ + 1]
        /\ \A s \in Series : s # phase => stats'[s] = stats[s]
    BY <1>1, <1>9, <2>1, Counted
  <2>3. stats[phase] \in Statistics
    BY <1>1, <1>9, <2>1
  <2>4. /\ stats'[phase].rx = stats[phase].rx + 1
        /\ stats'[phase].tx = stats[phase].tx /\ stats'[phase].errors = stats[phase].errors
    BY <2>2, <2>3 DEF Statistics
  <2>5. /\ stats'[phase].tx + stats'[phase].errors
             = stats[phase].tx + stats[phase].errors + 1 - UnderWay(phase)
        /\ stats'[phase].rx <= stats[phase].rx + 1
    BY <1>2, <2>1, <2>4
  <2>6. QED
    BY <1>6, <1>9, <2>1, <2>2, <2>5
<1>10. QED
  BY <1>3, <1>4, <1>5, <1>7, <1>8, <1>9, CountStep DEF Counts

\* A loop's limit is a number, and the same as long as the program is in the loop.
LEMMA Limits ==
  Limit \in Nat /\ Limit' \in Nat /\ (phase' = phase => Limit' = Limit)
<1>1. Limit \in {DhcpTimeout, ArpSteps, PingTimeout}
  BY DEF Limit
<1>2. Limit' \in {DhcpTimeout, ArpSteps, PingTimeout}
  BY DEF Limit
<1>3. Limit \in Nat /\ Limit' \in Nat
  BY <1>1, <1>2, Constants
<1>4. phase' = phase => Limit' = Limit
  BY DEF Limit
<1>5. QED
  BY <1>3, <1>4

\* A loop is entered at time 0; it looks at the time before it polls or takes a
\* step, and one sleep or one step follows.
LEMMA StepClock ==
  ASSUME Flow, Clock, [Next]_vars
  PROVE  Clock'
<1> USE DEF progressVars
<1>1. /\ waited \in Nat /\ waited + 1 <= Limit + MaxDelay
      /\ (pc = "poll" => waited < Limit /\ ~Raw)
      /\ Limit \in Nat /\ Limit' \in Nat /\ MaxDelay \in Nat /\ MaxDelay >= 1
      /\ (Raw' <=> Raw)
  <2>1. /\ waited \in Nat /\ waited + 1 <= Limit + MaxDelay
        /\ (pc = "poll" => waited < Limit /\ ~Raw)
    BY DEF Clock
  <2>2. MaxDelay \in Nat /\ MaxDelay >= 1
    BY Constants
  <2>3. Raw' <=> Raw
    BY Kinds DEF Raw
  <2>4. QED
    BY <2>1, <2>2, <2>3, Limits
<1>2. ASSUME waited' = 0, pc' # "poll"
      PROVE  Clock'
  <2>1. 1 <= Limit' + MaxDelay
    <3>1. Limit' \in Nat /\ MaxDelay \in Nat /\ MaxDelay >= 1
      BY <1>1
    <3>2. \A limit, delay \in Nat : delay >= 1 => 1 <= limit + delay
      OBVIOUS
    <3>3. QED
      BY <3>1, <3>2
  <2>2. waited' \in Nat /\ waited' + 1 <= Limit' + MaxDelay
    BY <1>2, <2>1
  <2>3. QED
    BY <1>2, <2>2 DEF Clock
<1>3. ASSUME waited' = waited, phase' = phase,
             pc' # "poll" \/ (waited < Limit /\ ~Raw)
      PROVE  Clock'
  <2>1. Limit' = Limit
    BY <1>3, Limits
  <2>2. QED
    BY <1>1, <1>3, <2>1 DEF Clock
<1>4. ASSUME waited' \in Nat, waited' <= waited + MaxDelay, waited < Limit, phase' = phase,
             pc' # "poll"
      PROVE  Clock'
  <2>1. Limit' = Limit
    BY <1>4, Limits
  <2>2. \A now, before, limit, delay \in Nat :
          now <= before + delay /\ before < limit => now + 1 <= limit + delay
    OBVIOUS
  <2>3. waited' + 1 <= Limit + MaxDelay
    BY <1>1, <1>4, <2>2
  <2>4. QED
    BY <1>4, <2>1, <2>3 DEF Clock
<1>5. CASE SendSample
  <2>1. waited' = 0 /\ (pc' = "head" \/ pc' = "sample")
    BY <1>5 DEF SendSample, Report
  <2>2. QED
    BY <1>2, <2>1
<1>6. CASE SampleTimedOut
  <2>1. waited' = waited /\ phase' = phase /\ pc' = "sample"
    BY <1>6 DEF SampleTimedOut, Report
  <2>2. QED
    BY <1>3, <2>1
<1>7. CASE SeriesEnds \/ DhcpReturns \/ ArpTimedOut \/ LeaseFound \/ DhcpTimedOut
  <2>1. waited' = 0 /\ (pc' = "head" \/ pc' = "sample")
    BY <1>7 DEF SeriesEnds, DhcpReturns, ArpTimedOut, LeaseFound, DhcpTimedOut, Enter
  <2>2. QED
    BY <1>2, <2>1
<1>8. CASE ArpStep \/ SampleStep
  <2>1. waited < Limit
    BY <1>1, <1>8 DEF ArpStep, SampleStep, Expired
  <2>2. \/ waited' = 0 /\ pc' = "sample"
        \/ waited' = waited + 1 /\ phase' = phase /\ pc' = pc
        \/ waited' = waited /\ phase' = phase /\ pc' = "sample"
    BY <1>8 DEF ArpStep, SampleStep, Enter, Report
  <2>3. CASE waited' = waited + 1 /\ phase' = phase /\ pc' = pc
    <3>1. pc # "poll"
      BY <1>1, <1>8 DEF ArpStep, SampleStep
    <3>2. QED
      BY <1>1, <1>4, <2>1, <2>3, <3>1
  <2>4. QED
    BY <1>2, <1>3, <2>2, <2>3
<1>9. CASE PollBegins
  <2>1. waited' = waited /\ phase' = phase /\ waited < Limit /\ ~Raw
    BY <1>1, <1>9 DEF PollBegins, Expired
  <2>2. QED
    BY <1>3, <2>1
<1>10. CASE PollEnds
  <2>1. pc = "poll" /\ waited < Limit
    BY <1>1, <1>10 DEF PollEnds
  <2>2. CASE Answered
    <3>1. waited' = waited /\ phase' = phase /\ pc' = "sample"
      BY <2>2 DEF Answered, Report
    <3>2. QED
      BY <1>3, <3>1
  <2>3. CASE Unanswered
    <3>1. phase' = phase /\ pc' = "head"
          /\ (waited' = 0 \/ waited' \in waited + 1 .. waited + MaxDelay)
      BY <2>3 DEF Unanswered
    <3>2. CASE waited' = 0
      BY <1>2, <3>1, <3>2
    <3>3. CASE waited' \in waited + 1 .. waited + MaxDelay
      <4>1. waited' \in Nat /\ waited' <= waited + MaxDelay
        BY <1>1, <3>3
      <4>2. QED
        BY <1>4, <2>1, <3>1, <4>1
    <3>4. QED
      BY <3>1, <3>2, <3>3
  <2>4. QED
    BY <1>10, <2>2, <2>3 DEF PollEnds
<1>11. CASE PollTransmits \/ FrameArrives \/ OtherArrives \/ UNCHANGED vars
  <2>1. UNCHANGED <<waited, phase, pc>>
    BY <1>11 DEF PollTransmits, FrameArrives, OtherArrives, Receive, vars
  <2>2. QED
    BY <1>1, <1>3, <2>1
<1>12. QED
  BY <1>5, <1>6, <1>7, <1>8, <1>9, <1>10, <1>11 DEF Next, Smoke, RawStep, StackStep

\* A buffer takes what it has room for, and a series has Count samples.
LEMMA StepRoom ==
  ASSUME Flow, Room, [Next]_vars
  PROVE  Room'
<1> USE DEF progressVars, reportVars, networkVars
<1>1. /\ txq \in Seq(Echoes) /\ rxq \in Seq(Frames)
      /\ Len(txq) \in Nat /\ Len(rxq) \in Nat
      /\ RxSlots \in Nat /\ TxSlots \in Nat /\ MaxOther \in Nat /\ Count \in Nat
      /\ Len(txq) <= TxSlots /\ Len(rxq) <= RxSlots
      /\ sequence \in Nat /\ sequence <= Count + 1
  BY Constants, LenProperties DEF Flow, Room
<1>2. /\ build' = build /\ build \in {"raw", "smoltcp"}
      /\ lease \in {"none", "bare", "routed"} /\ others \in 0 .. MaxOther
  BY Kinds DEF Room
<1>3. sequence' <= Count + 1
  <2>1. CASE Keeps \/ Asks
    BY <1>1, <2>1 DEF Keeps, Asks
  <2>2. CASE Judges
    BY <1>1, <2>2 DEF Judges, Report
  <2>3. CASE Enters
    BY <1>1, <2>3 DEF Enters
  <2>4. QED
    BY <2>1, <2>2, <2>3, Kinds
<1>4. lease' \in {"none", "bare", "routed"} /\ others' \in 0 .. MaxOther
  BY <1>1, <1>2 DEF Next, Smoke, SendSample, SampleTimedOut, SeriesEnds, RawStep, DhcpReturns,
     ArpStep, ArpTimedOut, SampleStep, StackStep, PollBegins, PollEnds, LeaseAfterPoll,
     LeaseFound, DhcpTimedOut, PollTransmits, FrameArrives, OtherArrives, Receive, vars
<1>5. Len(txq') <= TxSlots
  <2>1. CASE txq' = txq
    BY <1>1, <2>1
  <2>2. CASE SendSample
    <3>1. txq' = txq \/ (Len(txq) < TxSlots /\ txq' = Append(txq, Echo(phase, sequence)))
      BY <2>2 DEF SendSample
    <3>2. Len(Append(txq, Echo(phase, sequence))) = Len(txq) + 1
      BY <1>1
    <3>3. QED
      BY <1>1, <2>1, <3>1, <3>2
  <2>3. CASE PollTransmits
    <3>1. Len(txq') = Len(txq) - 1
      BY <1>1, <2>3, HeadTailProperties DEF PollTransmits
    <3>2. QED
      BY <1>1, <3>1
  <2>4. txq' = txq \/ SendSample \/ PollTransmits
    BY DEF Next, Smoke, SampleTimedOut, SeriesEnds, RawStep, DhcpReturns,
     ArpStep, ArpTimedOut, SampleStep, StackStep, PollBegins, PollEnds,
     LeaseFound, DhcpTimedOut, FrameArrives, OtherArrives, Receive, vars
  <2>5. QED
    BY <2>1, <2>2, <2>3, <2>4
<1>6. Len(rxq') <= RxSlots
  <2>1. CASE rxq' = rxq
    BY <1>1, <2>1
  <2>2. CASE rxq # <<>> /\ rxq' = Tail(rxq)
    <3>1. Len(rxq') = Len(rxq) - 1
      BY <1>1, <2>2, HeadTailProperties
    <3>2. QED
      BY <1>1, <3>1
  <2>3. CASE rxq' = <<>>
    <3>1. Len(rxq') = 0
      BY <2>3
    <3>2. QED
      BY <1>1, <3>1
  <2>4. CASE \E i \in DOMAIN rxq : rxq' = SubSeq(rxq, i + 1, Len(rxq))
    <3>1. PICK i \in 1 .. Len(rxq) : rxq' = SubSeq(rxq, i + 1, Len(rxq))
      BY <1>1, <2>4, LenProperties
    <3>2. Len(rxq') = Len(rxq) - i
      <4>1. \A j \in i + 1 .. Len(rxq) : rxq[j] \in Frames
        BY <1>1, <3>1, ElementOfSeq
      <4>2. i + 1 \in Int /\ Len(rxq) \in Int
        BY <1>1, <3>1
      <4>3. Len(SubSeq(rxq, i + 1, Len(rxq)))
              = IF i + 1 <= Len(rxq) THEN Len(rxq) - (i + 1) + 1 ELSE 0
        BY <4>1, <4>2, SubSeqProperties
      <4>4. QED
        BY <1>1, <3>1, <4>3
    <3>3. QED
      BY <1>1, <3>1, <3>2
  <2>5. CASE Len(rxq) < RxSlots /\ \E frame \in Frames : rxq' = Append(rxq, frame)
    <3>1. Len(rxq') = Len(rxq) + 1
      BY <1>1, <2>5
    <3>2. QED
      BY <1>1, <2>5, <3>1
  <2>6. ASSUME NEW frame \in Frames, Receive(frame)
        PROVE  rxq' = rxq \/ (Len(rxq) < RxSlots /\ rxq' = Append(rxq, frame))
    BY <2>6 DEF Receive
  <2>7. CASE FrameArrives \/ OtherArrives
    <3>1. PICK frame \in Frames : Receive(frame)
      BY <2>7, EchoFrames DEF FrameArrives, OtherArrives, Flow
    <3>2. QED
      BY <2>1, <2>5, <2>6, <3>1
  <2>8. CASE ArpStep \/ SampleStep
    <3>1. rxq' = rxq \/ (rxq # <<>> /\ rxq' = Tail(rxq))
      BY <2>8 DEF ArpStep, SampleStep
    <3>2. QED
      BY <2>1, <2>2, <3>1
  <2>9. CASE PollEnds
    <3>1. \/ rxq' = rxq \/ rxq' = <<>>
          \/ \E i \in DOMAIN rxq : rxq' = SubSeq(rxq, i + 1, Len(rxq))
      BY <2>9 DEF PollEnds, Answered, Unanswered, Replies
    <3>2. QED
      BY <2>1, <2>3, <2>4, <3>1
  <2>10. rxq' = rxq \/ FrameArrives \/ OtherArrives \/ ArpStep \/ SampleStep \/ PollEnds
    BY DEF Next, Smoke, SendSample, SampleTimedOut, SeriesEnds, RawStep, DhcpReturns,
     ArpTimedOut, StackStep, PollBegins, LeaseFound, DhcpTimedOut, PollTransmits, vars
  <2>11. QED
    BY <2>1, <2>7, <2>8, <2>9, <2>10
<1>7. QED
  BY <1>2, <1>3, <1>4, <1>5, <1>6 DEF Room

\* The invariant of the counters, from the start.
LEMMA PingInvariant == Spec => []PingInv
<1>1. Init => PingInv
  <2> SUFFICES ASSUME Init PROVE PingInv
    OBVIOUS
  <2>1. Flow
    BY InitHonest DEF HonestInv
  <2>2. Tally
    <3>1. \A s \in Series : Len(reports[s]) = 0 /\ UnderWay(s) = 0
      BY DEF Init, UnderWay, Series
    <3>2. stats \in [Series -> [tx : Nat, rx : Nat, errors : Nat]]
      BY DEF Init
    <3>3. \A s \in Series : stats[s].tx = 0 /\ stats[s].rx = 0 /\ stats[s].errors = 0
      BY DEF Init
    <3>4. QED
      BY <3>1, <3>2, <3>3, Constants DEF Tally
  <2>3. Clock
    BY Limits, Constants DEF Init, Clock
  <2>4. Room
    BY Constants DEF Init, Room
  <2>5. QED
    BY <2>1, <2>2, <2>3, <2>4 DEF PingInv
<1>2. PingInv /\ [Next]_vars => PingInv'
  BY StepFlow, StepTally, StepClock, StepRoom DEF PingInv
<1>3. QED
  BY <1>1, <1>2, PTL DEF Spec

\* What the runs check the types of holds for all constants: no counter counts
\* more samples than a series has, no loop goes on past its limit by more than one
\* sleep, and no buffer holds more than it has room for, in both builds.
THEOREM SmokePingTyped == Spec => []TypeOK
<1>1. PingInv => TypeOK
  <2> SUFFICES ASSUME PingInv PROVE TypeOK
    OBVIOUS
  <2>1. Flow /\ Tally /\ Clock /\ Room
    BY DEF PingInv
  <2>2. waited \in 0 .. Limit + MaxDelay - 1
    BY <2>1, Limits, Constants DEF Clock
  <2>3. sequence \in 1 .. Count + 1
    BY <2>1, Constants DEF Flow, Room
  <2>4. ASSUME NEW s \in Series
        PROVE  stats[s] \in [tx : 0 .. Count, rx : 0 .. Count, errors : 0 .. Count]
    <3>1. /\ stats[s] \in [tx : Nat, rx : Nat, errors : Nat]
          /\ stats[s].tx + stats[s].errors = Len(reports[s]) + UnderWay(s)
          /\ stats[s].rx <= Len(reports[s]) /\ Len(reports[s]) <= Count
      BY <2>1, <2>4 DEF Tally
    <3>2. Len(reports[s]) \in Nat /\ Count \in Nat
      BY <2>1, <2>4, Constants, LenProperties DEF Flow
    <3>3. Len(reports[s]) + UnderWay(s) \in 0 .. Count
      <4>1. CASE phase = s /\ pc # "sample"
        <5>1. Len(reports[s]) = sequence - 1 /\ sequence <= Count /\ sequence \in Nat
          BY <2>1, <2>4, <4>1 DEF Flow, Waiting
        <5>2. UnderWay(s) = 1
          BY <4>1 DEF UnderWay
        <5>3. QED
          BY <3>2, <5>1, <5>2
      <4>2. CASE ~(phase = s /\ pc # "sample")
        <5>1. UnderWay(s) = 0
          BY <4>2 DEF UnderWay
        <5>2. QED
          BY <3>1, <3>2, <5>1
      <4>3. QED
        BY <4>1, <4>2
    <3>4. stats[s].tx \in Nat /\ stats[s].rx \in Nat /\ stats[s].errors \in Nat
      BY <3>1
    <3>5. stats[s].tx \in 0 .. Count /\ stats[s].rx \in 0 .. Count /\ stats[s].errors \in 0 .. Count
      BY <3>1, <3>2, <3>3, <3>4
    <3>6. QED
      BY <3>1, <3>5
  <2>5. stats \in [Series -> [tx : 0 .. Count, rx : 0 .. Count, errors : 0 .. Count]]
    BY <2>1, <2>4 DEF Tally
  <2>6. \A s \in Series : Len(reports[s]) <= Count
    BY <2>1 DEF Tally
  <2>7. QED
    BY <2>1, <2>2, <2>3, <2>5, <2>6 DEF TypeOK, Flow, Room
<1>2. QED
  BY <1>1, PingInvariant, PTL

-----------------------------------------------------------------------------
(***************************************************************************)
(* Each series is a PingSeries                                             *)
(***************************************************************************)
\* The steps of a PingSeries, for the series s.
SeriesKeeps(s) ==
  UNCHANGED <<reports[s], Judged(s), stats[s].rx, stats[s].errors>>

SeriesStays(s) == SeriesKeeps(s) /\ UNCHANGED <<Begun(s), InTime(s)>>

SeriesBegins(s) ==
  SeriesKeeps(s) /\ ~Begun(s) /\ Begun(s)' /\ UNCHANGED InTime(s)

SeriesHears(s) ==
  /\ Begun(s) /\ Begun(s)' /\ Len(reports[s]) < Count
  /\ InTime(s)' = InTime(s) \cup {Len(reports[s]) + 1}
  /\ SeriesKeeps(s)

SeriesReports(s, outcome) ==
  /\ Begun(s) /\ Begun(s)' /\ Len(reports[s]) < Count
  /\ outcome = "ok" => Len(reports[s]) + 1 \in InTime(s)
  /\ reports'[s] = Append(reports[s], outcome)
  /\ Judged(s)' = Judged(s) + IF outcome = "tx_error" THEN 0 ELSE 1
  /\ stats'[s].rx = stats[s].rx + IF outcome = "ok" THEN 1 ELSE 0
  /\ stats'[s].errors = stats[s].errors + IF outcome = "tx_error" THEN 1 ELSE 0
  /\ UNCHANGED InTime(s)

\* The request under way is the only one sent and not yet judged.
LEMMA JudgedIs ==
  ASSUME NEW s \in Series
  PROVE  Judged(s) = stats[s].tx - UnderWay(s) /\ Judged(s)' = stats'[s].tx - UnderWay(s)'
BY DEF Judged, UnderWay

\* A reply that is heard is that of the sample under way, and nothing else happens.
LEMMA KeepingStep ==
  ASSUME Flow, Tally, [Next]_vars, NEW s \in Series, Keeps, stats' = stats
  PROVE  SeriesStays(s) \/ SeriesHears(s)
<1>1. UNCHANGED <<phase, sequence, reports>> /\ (pc' = "sample" <=> pc = "sample")
  BY DEF Keeps
<1>2. UnderWay(s)' = UnderWay(s)
  BY <1>1 DEF UnderWay
<1>3. SeriesKeeps(s)
  BY <1>1, <1>2, JudgedIs DEF SeriesKeeps
<1>4. Begun(s)' <=> Begun(s)
  BY <1>1 DEF Begun
<1>5. CASE heard' = heard
  <2>1. InTime(s)' = InTime(s)
    BY <1>5 DEF InTime
  <2>2. Begun(s)' = Begun(s)
    BY <1>1 DEF Begun
  <2>3. QED
    BY <1>3, <2>1, <2>2 DEF SeriesStays
<1>6. CASE HearsNow
  <2>1. /\ phase \in Series /\ sequence \in 1 .. Count /\ Len(reports[phase]) = sequence - 1
        /\ heard' = heard \cup {<<phase, sequence>>}
    BY <1>6, Constants DEF HearsNow, Waiting, Flow
  <2>2. CASE s = phase
    <3>1. InTime(s)' = InTime(s) \cup {sequence}
      BY <2>1, <2>2 DEF InTime
    <3>2. Len(reports[s]) + 1 = sequence /\ Len(reports[s]) < Count
      BY <2>1, <2>2, Constants
    <3>3. Begun(s)
      BY <2>2 DEF Begun
    <3>4. QED
      BY <1>3, <1>4, <3>1, <3>2, <3>3 DEF SeriesHears
  <2>3. CASE s # phase
    <3>1. InTime(s)' = InTime(s)
      BY <2>1, <2>3 DEF InTime
    <3>2. Begun(s)' = Begun(s)
      BY <1>1 DEF Begun
    <3>3. QED
      BY <1>3, <3>1, <3>2 DEF SeriesStays
  <2>4. QED
    BY <2>2, <2>3
<1>7. QED
  BY <1>5, <1>6, HeardStep

\* A series is left when it is complete and never entered twice.
LEMMA EnteringStep ==
  ASSUME Flow, Tally, [Next]_vars, NEW s \in Series, Enters, stats' = stats
  PROVE  SeriesStays(s) \/ SeriesBegins(s)
<1>1. reports' = reports /\ phase' # phase
  BY DEF Enters, Series
<1>2. UnderWay(s) = 0 /\ UnderWay(s)' = 0
  BY CountStep DEF Enters, UnderWay, Series
<1>3. SeriesKeeps(s)
  BY <1>1, <1>2, JudgedIs DEF SeriesKeeps
<1>4. heard' = heard
  BY HeardStep, <1>1 DEF HearsNow, Keeps
<1>5. InTime(s)' = InTime(s)
  BY <1>4 DEF InTime
<1>6. CASE phase = s
  <2>1. sequence > Count /\ Len(reports[s]) = sequence - 1 /\ sequence \in Nat
    BY <1>6, CountStep DEF Flow
  <2>2. reports[s] # <<>>
    <3>1. Len(reports[s]) # 0
      BY <2>1, Constants
    <3>2. QED
      BY <3>1
  <2>3. Begun(s) = TRUE /\ Begun(s)' = TRUE
    BY <1>1, <1>6, <2>2 DEF Begun
  <2>4. QED
    BY <1>3, <1>5, <2>3 DEF SeriesStays
<1>7. CASE phase' = s
  <2>1. reports[s] = <<>>
    BY <1>1, <1>7 DEF Enters, Flow, Series
  <2>2. ~Begun(s) /\ Begun(s)'
    BY <1>1, <1>7, <2>1 DEF Begun
  <2>3. QED
    BY <1>3, <1>5, <2>2 DEF SeriesBegins
<1>8. CASE phase # s /\ phase' # s
  <2>1. Begun(s)' = Begun(s)
    BY <1>1, <1>8 DEF Begun
  <2>2. QED
    BY <1>3, <1>5, <2>1 DEF SeriesStays
<1>9. QED
  BY <1>6, <1>7, <1>8

\* A request that is handed over is counted at once and judged later.
LEMMA AskingStep ==
  ASSUME Flow, Tally, [Next]_vars, NEW s \in Series, Asks, stats' = CountSent
  PROVE  SeriesStays(s)
<1>1. phase \in Series /\ UNCHANGED <<phase, reports>> /\ pc = "sample" /\ pc' = "head"
  BY DEF Asks
<1>2. heard' = heard
  BY <1>1, HeardStep DEF HearsNow
<1>3. InTime(s)' = InTime(s) /\ Begun(s)' = Begun(s)
  BY <1>1, <1>2 DEF InTime, Begun
<1>4. stats \in [Series -> Statistics]
  BY DEF Tally, Statistics
<1>5. CASE s = phase
  <2>1. stats'[s] = [stats[s] EXCEPT !.tx = @ + 1] /\ stats[s] \in Statistics
    BY <1>1, <1>4, <1>5, Counted
  <2>2. /\ stats'[s].tx = stats[s].tx + 1 /\ stats[s].tx \in Nat
        /\ stats'[s].rx = stats[s].rx /\ stats'[s].errors = stats[s].errors
    BY <2>1 DEF Statistics
  <2>3. UnderWay(s) = 0 /\ UnderWay(s)' = 1
    BY <1>1, <1>5 DEF UnderWay
  <2>4. Judged(s)' = Judged(s)
    BY <2>2, <2>3, JudgedIs
  <2>5. QED
    BY <1>1, <1>3, <2>2, <2>4 DEF SeriesStays, SeriesKeeps
<1>6. CASE s # phase
  <2>1. stats'[s] = stats[s]
    BY <1>1, <1>4, <1>6, Counted
  <2>2. UnderWay(s) = 0 /\ UnderWay(s)' = 0
    BY <1>1, <1>6 DEF UnderWay
  <2>3. QED
    BY <1>1, <1>3, <2>1, <2>2, JudgedIs DEF SeriesStays, SeriesKeeps
<1>7. QED
  BY <1>5, <1>6

\* What the report of a sample counts.
Accounts(outcome) ==
  \/ outcome = "tx_error" /\ pc = "sample" /\ stats' = CountFailed
  \/ outcome = "timeout" /\ pc # "sample" /\ stats' = stats
  \/ outcome = "ok" /\ pc # "sample" /\ stats' = CountAnswered

\* The sample under way is judged in its own series, and once.
LEMMA ReportingStep ==
  ASSUME Flow, Tally, [Next]_vars, NEW s \in Series, NEW outcome \in Outcomes,
         phase \in Series, sequence <= Count, Report(outcome), Accounts(outcome),
         outcome = "ok" => <<phase, sequence>> \in heard
  PROVE  SeriesStays(s) \/ SeriesReports(s, outcome)
<1>1. /\ \A r \in Series : r # phase => reports'[r] = reports[r]
      /\ reports'[phase] = Append(reports[phase], outcome)
      /\ Len(reports[phase]) \in Nat /\ Len(reports[phase]) + 1 = sequence
      /\ phase' = phase /\ pc' = "sample"
  BY OneMore
<1>2. heard' = heard
  BY <1>1, HeardStep DEF HearsNow, Waiting
<1>3. InTime(s)' = InTime(s)
  BY <1>2 DEF InTime
<1>4. stats \in [Series -> Statistics]
  BY DEF Tally, Statistics
<1>5. UnderWay(s)' = 0
  BY <1>1 DEF UnderWay
<1>6. CASE s = phase
  <2>1. Begun(s) = TRUE /\ Begun(s)' = TRUE
    BY <1>1, <1>6 DEF Begun
  <2>2. Len(reports[s]) < Count
    BY <1>1, <1>6, Constants
  <2>3. outcome = "ok" => Len(reports[s]) + 1 \in InTime(s)
    <3>1. Len(reports[s]) + 1 \in 1 .. Count
      BY <1>1, <1>6, <2>2, Constants
    <3>2. QED
      BY <1>1, <1>6, <3>1 DEF InTime
  <2>4. stats[s] \in Statistics
    BY <1>4
  <2>5. /\ Judged(s)' = Judged(s) + IF outcome = "tx_error" THEN 0 ELSE 1
        /\ stats'[s].rx = stats[s].rx + IF outcome = "ok" THEN 1 ELSE 0
        /\ stats'[s].errors = stats[s].errors + IF outcome = "tx_error" THEN 1 ELSE 0
    <3>1. CASE outcome = "tx_error" /\ pc = "sample" /\ stats' = CountFailed
      <4>1. stats'[s] = [stats[s] EXCEPT !.errors = @ + 1]
        BY <1>4, <1>6, <3>1, Counted
      <4>2. /\ stats'[s].errors = stats[s].errors + 1 /\ stats'[s].rx = stats[s].rx
            /\ stats'[s].tx = stats[s].tx
        BY <2>4, <4>1 DEF Statistics
      <4>3. UnderWay(s) = 0
        BY <3>1 DEF UnderWay
      <4>4. stats[s].rx \in Nat /\ stats[s].tx \in Nat
        BY <2>4 DEF Statistics
      <4>5. QED
        BY <1>5, <3>1, <4>2, <4>3, <4>4, JudgedIs
    <3>2. CASE outcome = "timeout" /\ pc # "sample" /\ stats' = stats
      <4>1. UnderWay(s) = 1
        BY <1>6, <3>2 DEF UnderWay
      <4>2. stats[s].rx \in Nat /\ stats[s].tx \in Nat /\ stats[s].errors \in Nat
        BY <2>4 DEF Statistics
      <4>3. QED
        BY <1>5, <3>2, <4>1, <4>2, JudgedIs
    <3>3. CASE outcome = "ok" /\ pc # "sample" /\ stats' = CountAnswered
      <4>1. stats'[s] = [stats[s] EXCEPT !.rx = @ + 1]
        BY <1>4, <1>6, <3>3, Counted
      <4>2. /\ stats'[s].rx = stats[s].rx + 1 /\ stats'[s].errors = stats[s].errors
            /\ stats'[s].tx = stats[s].tx
        BY <2>4, <4>1 DEF Statistics
      <4>3. UnderWay(s) = 1
        BY <1>6, <3>3 DEF UnderWay
      <4>4. stats[s].errors \in Nat /\ stats[s].tx \in Nat
        BY <2>4 DEF Statistics
      <4>5. QED
        BY <1>5, <3>3, <4>2, <4>3, <4>4, JudgedIs
    <3>4. QED
      BY <3>1, <3>2, <3>3 DEF Accounts
  <2>6. reports'[s] = Append(reports[s], outcome)
    BY <1>1, <1>6
  <2>7. QED
    BY <1>3, <2>1, <2>2, <2>3, <2>5, <2>6 DEF SeriesReports
<1>7. CASE s # phase
  <2>1. stats'[s] = stats[s]
    BY <1>4, <1>7, Counted DEF Accounts
  <2>2. UnderWay(s) = 0
    BY <1>7 DEF UnderWay
  <2>3. reports'[s] = reports[s]
    BY <1>1, <1>7
  <2>4. Judged(s)' = Judged(s)
    BY <1>5, <2>1, <2>2, JudgedIs
  <2>5. Begun(s)' = Begun(s)
    BY <1>1, <2>3 DEF Begun
  <2>6. QED
    BY <1>3, <2>1, <2>3, <2>4, <2>5 DEF SeriesStays, SeriesKeeps
<1>8. QED
  BY <1>6, <1>7

\* Only a sample that was heard is reported "ok".
LEMMA HeardFirst ==
  ASSUME Flow, Causal, Current, [Next]_vars, phase \in Series, Report("ok")
  PROVE  <<phase, sequence>> \in heard
<1>1. reports'[phase] = Append(reports[phase], "ok") /\ Len(reports'[phase]) # Len(reports[phase])
  BY OneMore DEF Outcomes
<1>2. PICK outcome \in Outcomes : Report(outcome) /\ Verdict(outcome)
  BY <1>1, Verdicts
<1>3. reports'[phase] = Append(reports[phase], outcome)
  BY <1>2, OneMore
<1>4. reports[phase] \in Seq(Outcomes)
  BY DEF Flow
<1>5. outcome = "ok"
  BY <1>1, <1>3, <1>4, <1>2
<1>6. QED
  BY <1>2, <1>5 DEF Verdict

\* What a step of the program does to one of its series.
LEMMA SeriesStep ==
  ASSUME HonestInv, Tally, [Next]_vars, NEW s \in Series
  PROVE  \/ SeriesStays(s) \/ SeriesBegins(s) \/ SeriesHears(s)
         \/ \E outcome \in Outcomes : SeriesReports(s, outcome)
<1>1. Flow /\ Causal /\ Current
  BY DEF HonestInv
<1>2. Counts
  BY <1>1, CountStep
<1>3. CASE Keeps /\ stats' = stats
  BY <1>1, <1>3, KeepingStep
<1>4. CASE Enters /\ stats' = stats
  BY <1>1, <1>4, EnteringStep
<1>5. CASE Asks /\ stats' = CountSent
  BY <1>1, <1>5, AskingStep
<1>6. ASSUME NEW outcome \in Outcomes, phase \in Series, sequence <= Count,
             Report(outcome), Accounts(outcome)
      PROVE  SeriesStays(s) \/ SeriesReports(s, outcome)
  <2>1. outcome = "ok" => <<phase, sequence>> \in heard
    BY <1>1, <1>6, HeardFirst
  <2>2. QED
    BY <1>1, <1>6, <2>1, ReportingStep
<1>7. CASE /\ phase \in Series /\ pc = "sample" /\ sequence <= Count
           /\ Report("tx_error") /\ stats' = CountFailed
  <2>1. Accounts("tx_error") /\ "tx_error" \in Outcomes
    BY <1>7 DEF Accounts, Outcomes
  <2>2. QED
    BY <1>6, <1>7, <2>1
<1>8. CASE Waiting /\ Report("timeout") /\ stats' = stats
  <2>1. Accounts("timeout") /\ "timeout" \in Outcomes /\ phase \in Series /\ sequence <= Count
    BY <1>1, <1>8 DEF Accounts, Outcomes, Waiting, Flow
  <2>2. QED
    BY <1>6, <1>8, <2>1
<1>9. CASE Waiting /\ Report("ok") /\ stats' = CountAnswered
  <2>1. Accounts("ok") /\ "ok" \in Outcomes /\ phase \in Series /\ sequence <= Count
    BY <1>1, <1>9 DEF Accounts, Outcomes, Waiting, Flow
  <2>2. QED
    BY <1>6, <1>9, <2>1
<1>10. QED
  BY <1>2, <1>3, <1>4, <1>5, <1>7, <1>8, <1>9 DEF Counts

LEMMA HonestInvariant == Spec => []HonestInv
BY InitHonest, StepHonestInv, PTL DEF Spec

\* Both series keep the promise of PingSeries, whatever the network does and
\* whichever build it is: one report for each sample, in order, "ok" only for one
\* that was answered in time, and statistics that are those of the reports
\* (ping_series, run_ping_series).  That a series ends is for TLC: it needs fairness.
THEOREM SeriesImplemented ==
  Spec => /\ Gateway!Init /\ [][Gateway!Next]_(Gateway!vars)
          /\ Public!Init /\ [][Public!Next]_(Public!vars)
<1>1. Init => Gateway!Init /\ Public!Init
  <2> SUFFICES ASSUME Init PROVE Gateway!Init /\ Public!Init
    OBVIOUS
  <2>1. \A s \in Series : /\ phase # s /\ reports[s] = <<>>
                          /\ stats[s] = [tx |-> 0, rx |-> 0, errors |-> 0]
    BY DEF Init, Series
  <2>2. \A s \in Series : Begun(s) = FALSE /\ InTime(s) = {} /\ Judged(s) = 0
    <3> TAKE s \in Series
    <3>1. Begun(s) = FALSE
      BY <2>1 DEF Begun
    <3>2. InTime(s) = {}
      BY DEF Init, InTime
    <3>3. Judged(s) = 0
      BY <2>1 DEF Judged
    <3>4. QED
      BY <3>1, <3>2, <3>3
  <2>3. "gateway" \in Series /\ "public" \in Series
    BY DEF Series
  <2>4. QED
    BY <2>1, <2>2, <2>3 DEF Gateway!Init, Public!Init
<1>2. \A s \in Series : Begun(s) \in BOOLEAN /\ Begun(s)' \in BOOLEAN
  BY DEF Begun
<1>3. ASSUME HonestInv, PingInv, [Next]_vars PROVE [Gateway!Next]_(Gateway!vars)
  <2>1. "gateway" \in Series /\ Tally
    BY <1>3 DEF Series, PingInv
  <2>2. CASE SeriesStays("gateway")
    BY <2>2 DEF SeriesStays, SeriesKeeps, Gateway!vars
  <2>3. CASE SeriesBegins("gateway")
    <3>1. Begun("gateway")' = TRUE
      BY <1>2, <2>1, <2>3 DEF SeriesBegins
    <3>2. QED
      BY <2>3, <3>1 DEF SeriesBegins, SeriesKeeps, Gateway!Next, Gateway!Begin
  <2>4. CASE SeriesHears("gateway")
    <3>1. Begun("gateway")' = Begun("gateway")
      BY <1>2, <2>1, <2>4 DEF SeriesHears
    <3>2. QED
      BY <2>4, <3>1 DEF SeriesHears, SeriesKeeps, Gateway!Next, Gateway!Answer
  <2>5. ASSUME NEW outcome \in Outcomes, SeriesReports("gateway", outcome)
        PROVE  Gateway!Next
    <3>1. Begun("gateway")' = Begun("gateway")
      BY <1>2, <2>1, <2>5 DEF SeriesReports
    <3>2. Gateway!Report(outcome)
      BY <2>5, <3>1 DEF SeriesReports, Gateway!Report
    <3>3. outcome \in Gateway!Outcomes
      BY <2>5 DEF Outcomes, Gateway!Outcomes
    <3>4. QED
      BY <3>2, <3>3 DEF Gateway!Next
  <2>6. QED
    BY <1>3, <2>1, <2>2, <2>3, <2>4, <2>5, SeriesStep
<1>4. ASSUME HonestInv, PingInv, [Next]_vars PROVE [Public!Next]_(Public!vars)
  <2>1. "public" \in Series /\ Tally
    BY <1>4 DEF Series, PingInv
  <2>2. CASE SeriesStays("public")
    BY <2>2 DEF SeriesStays, SeriesKeeps, Public!vars
  <2>3. CASE SeriesBegins("public")
    <3>1. Begun("public")' = TRUE
      BY <1>2, <2>1, <2>3 DEF SeriesBegins
    <3>2. QED
      BY <2>3, <3>1 DEF SeriesBegins, SeriesKeeps, Public!Next, Public!Begin
  <2>4. CASE SeriesHears("public")
    <3>1. Begun("public")' = Begun("public")
      BY <1>2, <2>1, <2>4 DEF SeriesHears
    <3>2. QED
      BY <2>4, <3>1 DEF SeriesHears, SeriesKeeps, Public!Next, Public!Answer
  <2>5. ASSUME NEW outcome \in Outcomes, SeriesReports("public", outcome)
        PROVE  Public!Next
    <3>1. Begun("public")' = Begun("public")
      BY <1>2, <2>1, <2>5 DEF SeriesReports
    <3>2. Public!Report(outcome)
      BY <2>5, <3>1 DEF SeriesReports, Public!Report
    <3>3. outcome \in Public!Outcomes
      BY <2>5 DEF Outcomes, Public!Outcomes
    <3>4. QED
      BY <3>2, <3>3 DEF Public!Next
  <2>6. QED
    BY <1>4, <2>1, <2>2, <2>3, <2>4, <2>5, SeriesStep
<1>5. QED
  BY <1>1, <1>3, <1>4, HonestInvariant, PingInvariant, PTL DEF Spec
=============================================================================
