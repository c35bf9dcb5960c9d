--------------------------- MODULE StationProofs ---------------------------
(***************************************************************************)
(* Theorems about Station, for an event queue of any length and a radio    *)
(* that may answer anything at any time.                                   *)
(***************************************************************************)
EXTENDS Station, SequenceTheorems, TLAPS

-----------------------------------------------------------------------------
(***************************************************************************)
(* The event queue                                                         *)
(***************************************************************************)
\* Each event has its tag.
WellTagged ==
  /\ events \in Seq(Kinds) /\ Len(events) <= EventCap
  /\ tags \in Seq(Tag) /\ Len(tags) = Len(events)

\* What a step does to the events and to their tags, element by element.
Shifted ==
  /\ Len(events) > 0 /\ Len(events') = Len(events) - 1
  /\ \A i \in 1 .. Len(events') : i + 1 \in 1 .. Len(events) /\ events'[i] = events[i + 1]
TagsShifted == \A i \in 1 .. Len(events') : tags'[i] = tags[i + 1]
TagsAged == \A i \in 1 .. Len(events') : tags'[i].current = FALSE
Grown(kind, completion) ==
  /\ Len(events') = Len(events) + 1
  /\ \A i \in 1 .. Len(events) : events'[i] = events[i] /\ tags'[i] = tags[i]
  /\ events'[Len(events) + 1] = kind
  /\ tags'[Len(events) + 1] = [completion |-> completion, current |-> TRUE]

\* An element of the rest of a sequence.
LEMMA RestElement ==
  ASSUME NEW S, NEW q \in Seq(S), q # <<>>
  PROVE  /\ Len(q) > 0 /\ Tail(q) \in Seq(S) /\ Len(Tail(q)) = Len(q) - 1
         /\ Head(q) = q[1]
         /\ \A i \in 1 .. Len(q) - 1 : i + 1 \in 1 .. Len(q) /\ Tail(q)[i] = q[i + 1]
OBVIOUS

\* Aging keeps the tags and their number, and none of them is current after it.
LEMMA AgedTags ==
  ASSUME NEW q \in Seq(Tag)
  PROVE  /\ Aged(q) \in Seq(Tag) /\ Len(Aged(q)) = Len(q)
         /\ \A i \in 1 .. Len(q) : Aged(q)[i].current = FALSE
<1>1. DOMAIN q = 1 .. Len(q) /\ Len(q) \in Nat
  OBVIOUS
<1>2. ASSUME NEW i \in 1 .. Len(q)
      PROVE  /\ [q[i] EXCEPT !.current = FALSE] \in Tag
             /\ [q[i] EXCEPT !.current = FALSE].current = FALSE
  <2>1. q[i] \in Tag
    BY <1>2
  <2>2. QED
    BY <2>1 DEF Tag
<1>3. Aged(q) = [i \in 1 .. Len(q) |-> [q[i] EXCEPT !.current = FALSE]]
  BY <1>1 DEF Aged
<1> DEFINE aged == Aged(q)
<1>4. aged = [i \in 1 .. Len(q) |-> [q[i] EXCEPT !.current = FALSE]]
  BY <1>3
<1> HIDE DEF aged
<1>5. aged \in Seq(Tag) /\ Len(aged) = Len(q)
  BY <1>1, <1>2, <1>4
<1>6. \A i \in 1 .. Len(q) : aged[i].current = FALSE
  BY <1>2, <1>4
<1>7. QED
  BY <1>5, <1>6 DEF aged

LEMMA TakeShape ==
  ASSUME WellTagged, TakeEvent, tags' = Tail(tags)
  PROVE  WellTagged' /\ Shifted /\ TagsShifted
<1>1. /\ events # <<>> /\ tags # <<>> /\ EventCap \in Nat
  BY EventCapAssumption DEF WellTagged, TakeEvent
<1>2. /\ Len(events) > 0 /\ events' \in Seq(Kinds) /\ Len(events') = Len(events) - 1
      /\ \A i \in 1 .. Len(events) - 1 :
           i + 1 \in 1 .. Len(events) /\ events'[i] = events[i + 1]
  BY <1>1, RestElement DEF WellTagged, TakeEvent
<1>3. /\ tags' \in Seq(Tag) /\ Len(tags') = Len(tags) - 1
      /\ \A i \in 1 .. Len(tags) - 1 : tags'[i] = tags[i + 1]
  BY <1>1, RestElement DEF WellTagged
<1>4. Len(events) \in Nat /\ Len(tags) = Len(events) /\ Len(events) <= EventCap
  BY DEF WellTagged
<1>5. QED
  BY <1>1, <1>2, <1>3, <1>4 DEF WellTagged, Shifted, TagsShifted

LEMMA TakeAndAgeShape ==
  ASSUME WellTagged, TakeEvent, tags' = Aged(Tail(tags))
  PROVE  WellTagged' /\ Shifted /\ TagsAged
<1>1. /\ events # <<>> /\ tags # <<>> /\ EventCap \in Nat
  BY EventCapAssumption DEF WellTagged, TakeEvent
<1>2. /\ Len(events) > 0 /\ events' \in Seq(Kinds) /\ Len(events') = Len(events) - 1
      /\ \A i \in 1 .. Len(events) - 1 :
           i + 1 \in 1 .. Len(events) /\ events'[i] = events[i + 1]
  BY <1>1, RestElement DEF WellTagged, TakeEvent
<1>3. Tail(tags) \in Seq(Tag) /\ Len(Tail(tags)) = Len(tags) - 1
  BY <1>1, RestElement DEF WellTagged
<1>4. /\ tags' \in Seq(Tag) /\ Len(tags') = Len(tags) - 1
      /\ \A i \in 1 .. Len(tags) - 1 : tags'[i].current = FALSE
  BY <1>3, AgedTags
<1>5. Len(events) \in Nat /\ Len(tags) = Len(events) /\ Len(events) <= EventCap
  BY DEF WellTagged
<1>6. QED
  BY <1>1, <1>2, <1>4, <1>5 DEF WellTagged, Shifted, TagsAged

LEMMA AgeShape ==
  ASSUME WellTagged, events' = events, tags' = Aged(tags)
  PROVE  WellTagged' /\ TagsAged
BY AgedTags DEF WellTagged, TagsAged

LEMMA EnqueueShape ==
  ASSUME WellTagged, NEW kind \in Kinds, NEW completion \in BOOLEAN,
         Enqueue(kind, completion)
  PROVE  /\ WellTagged'
         /\ \/ Grown(kind, completion) /\ lost' = lost
            \/ UNCHANGED <<events, tags>> /\ lost' = TRUE /\ Len(events) > 0
<1>1. EventCap \in Nat /\ EventCap > 0 /\ Len(events) \in Nat /\ Len(tags) = Len(events)
  BY EventCapAssumption DEF WellTagged
<1>2. CASE Len(events) < EventCap
  <2> DEFINE tag == [completion |-> completion, current |-> TRUE]
  <2>1. /\ events' = Append(events, kind) /\ tags' = Append(tags, tag) /\ lost' = lost
    BY <1>2 DEF Enqueue
  <2>2. tag \in Tag
    BY DEF Tag
  <2> HIDE DEF tag
  <2>3. /\ events' \in Seq(Kinds) /\ Len(events') = Len(events) + 1
        /\ \A i \in 1 .. Len(events) : events'[i] = events[i]
        /\ events'[Len(events) + 1] = kind
    BY <2>1, AppendProperties DEF WellTagged
  <2>4. /\ tags' \in Seq(Tag) /\ Len(tags') = Len(tags) + 1
        /\ \A i \in 1 .. Len(tags) : tags'[i] = tags[i]
        /\ tags'[Len(tags) + 1] = tag
    BY <2>1, <2>2, AppendProperties DEF WellTagged
  <2>5. WellTagged'
    BY <1>1, <1>2, <2>3, <2>4 DEF WellTagged
  <2>6. Grown(kind, completion)
    BY <1>1, <2>3, <2>4 DEF Grown, tag
  <2>7. QED
    BY <2>1, <2>5, <2>6
<1>3. CASE ~(Len(events) < EventCap)
  <2>1. UNCHANGED <<events, tags>> /\ lost' = TRUE
    BY <1>3 DEF Enqueue
  <2>2. Len(events) > 0
    BY <1>1, <1>3
  <2>3. QED
    BY <2>1, <2>2 DEF WellTagged
<1>4. QED
  BY <1>2, <1>3

-----------------------------------------------------------------------------
(***************************************************************************)
(* The inductive invariant                                                 *)
(***************************************************************************)
\* What an operation may have returned where its result is looked at.
ResultFits ==
  /\ pc = "initialize"        => result \in {"ok", "error", "none"}
  /\ pc = "scan"              => result \in ScanResults \cup {"none"}
  /\ pc = "connect"           => result \in {"ok", "error", "none"}
  /\ pc = "expectInitialized" => result = "ok"
  /\ pc = "expectScan"        => result \in ScanResults
  /\ pc = "expectConnected"   => result = "ok"

\* What is posted after a current event is current too.
CurrentLast ==
  \A i, j \in 1 .. Len(tags) : i < j /\ tags[i].current = TRUE => tags[j].current = TRUE

\* A "connected" belongs to the connect in progress, and there is one of it:
\* owed or in the queue.
ConnectedOnce ==
  /\ owed = "connected" => pc \in {"connect", "expectConnected", "halted"} /\ result = "ok"
  /\ \A i \in 1 .. Len(events) :
       events[i] = "connected" =>
         /\ pc \in {"connect", "expectConnected", "halted"} /\ result = "ok"
         /\ owed # "connected"
         /\ tags[i].current = TRUE
         /\ \A j \in 1 .. Len(events) : events[j] = "connected" => j = i

Losses == {"disconnected", "failed"}

\* Nothing is in the queue and nothing is due.
Quiet == events = <<>> /\ owed = "none" /\ link = FALSE

\* The event that tells of the operation's result is owed and the queue empty,
\* or it is the first in the queue; only a connection lets more follow.
Due(op) ==
  \/ owed = EventOf(op, result) /\ events = <<>> /\ link = FALSE
  \/ /\ owed = "none" /\ Len(events) > 0
     /\ events[1] = EventOf(op, result)
     /\ tags[1] = [completion |-> TRUE, current |-> TRUE]
     /\ events[1] # "connected" => Len(events) = 1 /\ link = FALSE

LossLast ==
  \A i \in 1 .. Len(events) : events[i] \in Losses => i = Len(events) /\ link = FALSE

\* Where the task is, and what it may count on there.
OwnEventFirst ==
  /\ pc \in {"pause", "backoff"} => Quiet
  /\ pc \in Operations /\ result = "none" => Quiet
  /\ pc \in {"initialize", "expectInitialized"} /\ result # "none" => Due("initialize")
  /\ pc \in {"scan", "expectScan"} /\ result # "none" =>
       Due("scan") \/ (result = "unmatched" /\ Quiet)
  /\ pc \in {"connect", "expectConnected"} /\ result # "none" => Due("connect")
  /\ pc = "session" => owed = "none"

\* As long as the radio reports no loss without a connection, a loss is the last
\* event in the queue, so every operation finds its own event first.
Orderly == strayed = FALSE /\ pc # "halted" => LossLast /\ OwnEventFirst

StationInv ==
  /\ TypeOK /\ ResultFits
  /\ CurrentLast /\ ConnectedOnce /\ SessionEventsCurrent
  /\ Orderly /\ OnlyStraysUnexpected

LEMMA InitStation == Init => StationInv
<1> SUFFICES ASSUME Init PROVE StationInv
  OBVIOUS
<1>1. events = <<>> /\ tags = <<>> /\ Len(events) = 0 /\ Len(tags) = 0 /\ 1 .. 0 = {}
  BY DEF Init
<1>2. TypeOK
  <2>1. /\ events \in Seq(Kinds) /\ Len(events) <= EventCap
        /\ tags \in Seq(Tag) /\ Len(tags) = Len(events)
    BY <1>1, EventCapAssumption
  <2>2. link \in BOOLEAN /\ lost \in BOOLEAN /\ strayed \in BOOLEAN
    BY DEF Init
  <2>3. /\ status \in Status \cup {"idle"} /\ pc \in Locations /\ retries \in {0, 1}
        /\ result \in Results /\ owed \in CompletionEvents \cup {"none"}
        /\ (reason # "none" <=> pc = "halted")
    BY DEF Init, Locations, Operations, Results
  <2>4. QED
    BY <2>1, <2>2, <2>3 DEF TypeOK
<1>3. ResultFits /\ OnlyStraysUnexpected /\ SessionEventsCurrent
  BY DEF Init, ResultFits, OnlyStraysUnexpected, SessionEventsCurrent
<1>4. CurrentLast /\ ConnectedOnce
  BY <1>1 DEF Init, CurrentLast, ConnectedOnce
<1>5. Orderly
  BY <1>1 DEF Init, Orderly, LossLast, OwnEventFirst, Quiet, Operations
<1>6. QED
  BY <1>2, <1>3, <1>4, <1>5 DEF StationInv

\* The steps, by what they do to the queue.
LEMMA StepQueue ==
  ASSUME TypeOK, [Next]_vars
  PROVE  /\ WellTagged /\ WellTagged'
         /\ \/ UNCHANGED <<events, tags>>
            \/ Shifted /\ TagsShifted
            \/ TagsAged
            \/ \E kind \in Kinds, completion \in BOOLEAN : Grown(kind, completion)
<1>1. WellTagged
  BY DEF TypeOK, WellTagged
<1>2. CASE UNCHANGED <<events, tags>>
  BY <1>1, <1>2 DEF WellTagged
<1>3. CASE TakeEvent /\ tags' = Tail(tags)
  BY <1>1, <1>3, TakeShape
<1>4. CASE TakeEvent /\ tags' = Aged(Tail(tags))
  BY <1>1, <1>4, TakeAndAgeShape
<1>5. CASE events' = events /\ tags' = Aged(tags)
  BY <1>1, <1>5, AgeShape
<1>6. CASE \E kind \in Kinds, completion \in BOOLEAN : Enqueue(kind, completion)
  <2>1. PICK kind \in Kinds, completion \in BOOLEAN : Enqueue(kind, completion)
    BY <1>6
  <2>2. QED
    BY <1>1, <2>1, EnqueueShape
<1>7. CASE Connectivity
  <2>1. CASE OperationTimedOut \/ OperationReturns \/ EventTimedOut
    BY <1>2, <2>1 DEF OperationTimedOut, OperationReturns, EventTimedOut
  <2>2. CASE UnexpectedEvent \/ ScanFailed \/ Connected
    BY <1>3, <2>2 DEF UnexpectedEvent, ScanFailed, Connected, ExpectedEvent
  <2>3. CASE SessionIgnores \/ SessionLeaves
    BY <1>3, <2>3 DEF SessionIgnores, SessionLeaves, Ignore, Leave, TakeEvent
  <2>4. CASE Initialized
    BY <1>4, <2>4 DEF Initialized, ExpectedEvent, Begin
  <2>5. CASE AccessPointFound
    BY <1>3, <1>4, <2>5 DEF AccessPointFound, ExpectedEvent, Begin
  <2>6. CASE PauseEnds \/ BackoffEnds
    BY <1>5, <2>6 DEF PauseEnds, BackoffEnds, Begin
  <2>7. QED
    BY <1>7, <2>1, <2>2, <2>3, <2>4, <2>5, <2>6 DEF Connectivity
<1>8. CASE Radio
  <2>1. CASE RadioCompletes
    BY <1>2, <2>1 DEF RadioCompletes
  <2>2. CASE RadioReports
    <3>1. owed \in Kinds /\ Enqueue(owed, TRUE)
      BY <2>2 DEF RadioReports, TypeOK, Kinds
    <3>2. QED
      BY <1>6, <3>1
  <2>3. CASE LinkPosts \/ RadioStrays
    <3>1. PICK e \in RadioEvents : Enqueue(e, FALSE)
      BY <2>3 DEF LinkPosts, RadioStrays, RadioEvents
    <3>2. e \in Kinds
      BY DEF Kinds
    <3>3. QED
      BY <1>6, <3>1, <3>2
  <2>4. QED
    BY <1>8, <2>1, <2>2, <2>3 DEF Radio
<1>9. CASE SessionHalts \/ Halted \/ UNCHANGED vars
  BY <1>2, <1>9 DEF SessionHalts, Halt, Halted, vars
<1>10. QED
  BY <1>7, <1>8, <1>9 DEF Next

LEMMA StepCurrentLast ==
  ASSUME TypeOK, CurrentLast, [Next]_vars
  PROVE  CurrentLast'
<1>1. /\ Len(events) \in Nat /\ Len(events') \in Nat
      /\ Len(tags) = Len(events) /\ Len(tags') = Len(events')
  BY StepQueue DEF WellTagged
<1>2. CASE UNCHANGED <<events, tags>>
  BY <1>2 DEF CurrentLast
<1>3. CASE Shifted /\ TagsShifted
  <2>1. ASSUME NEW i \in 1 .. Len(tags'), NEW j \in 1 .. Len(tags'), i < j,
               tags'[i].current = TRUE
        PROVE  tags'[j].current = TRUE
    <3>1. /\ i + 1 \in 1 .. Len(tags) /\ j + 1 \in 1 .. Len(tags) /\ i + 1 < j + 1
          /\ tags'[i] = tags[i + 1] /\ tags'[j] = tags[j + 1]
      BY <1>1, <1>3, <2>1 DEF Shifted, TagsShifted
    <3>2. QED
      BY <2>1, <3>1 DEF CurrentLast
  <2>2. QED
    BY <2>1 DEF CurrentLast
<1>4. CASE TagsAged
  BY <1>1, <1>4 DEF CurrentLast, TagsAged
<1>5. CASE \E kind \in Kinds, completion \in BOOLEAN : Grown(kind, completion)
  <2>1. PICK kind \in Kinds, completion \in BOOLEAN : Grown(kind, completion)
    BY <1>5
  <2>2. ASSUME NEW i \in 1 .. Len(tags'), NEW j \in 1 .. Len(tags'), i < j,
               tags'[i].current = TRUE
        PROVE  tags'[j].current = TRUE
    <3>1. CASE j = Len(events) + 1
      BY <2>1, <3>1 DEF Grown
    <3>2. CASE j # Len(events) + 1
      <4>1. i \in 1 .. Len(events) /\ j \in 1 .. Len(events)
        BY <1>1, <2>1, <2>2, <3>2 DEF Grown
      <4>2. QED
        BY <1>1, <2>1, <2>2, <4>1 DEF Grown, CurrentLast
    <3>3. QED
      BY <3>1, <3>2
  <2>3. QED
    BY <2>2 DEF CurrentLast
<1>6. QED
  BY <1>2, <1>3, <1>4, <1>5, StepQueue

\* A session begins with the "connected" of the connect in progress: what is
\* behind it in the queue was posted later.
LEMMA StepSessionEvents ==
  ASSUME TypeOK, CurrentLast, ConnectedOnce, SessionEventsCurrent, [Next]_vars
  PROVE  SessionEventsCurrent'
<1>1. /\ Len(events) \in Nat /\ Len(events') \in Nat
      /\ tags \in Seq(Tag) /\ Len(tags) = Len(events)
      /\ tags' \in Seq(Tag) /\ Len(tags') = Len(events')
      /\ DOMAIN tags = 1 .. Len(tags) /\ DOMAIN tags' = 1 .. Len(tags')
  BY StepQueue DEF WellTagged
<1>2. /\ \A i \in 1 .. Len(tags) : tags[i].current \in BOOLEAN
      /\ \A i \in 1 .. Len(tags') : tags'[i].current \in BOOLEAN
  <2>1. \A t \in Tag : t.current \in BOOLEAN
    BY DEF Tag
  <2>2. QED
    BY <1>1, <2>1
<1> SUFFICES ASSUME pc' = "session" PROVE \A i \in 1 .. Len(tags') : tags'[i].current = TRUE
  BY <1>1 DEF SessionEventsCurrent
<1>3. CASE Connected
  <2>1. /\ pc = "expectConnected" /\ TakeEvent /\ Head(events) = "connected"
        /\ tags' = Tail(tags)
    BY <1>3 DEF Connected, ExpectedEvent, Expected
  <2>2. WellTagged /\ Shifted /\ TagsShifted
    BY <2>1, TakeShape DEF TypeOK, WellTagged
  <2>3. events[1] = "connected" /\ 1 \in 1 .. Len(events)
    <3>1. events # <<>>
      BY <2>1 DEF TakeEvent
    <3>2. Len(events) > 0 /\ Head(events) = events[1]
      BY <2>2, <3>1, RestElement DEF WellTagged
    <3>3. 1 \in 1 .. Len(events)
      BY <1>1, <3>2
    <3>4. QED
      BY <2>1, <3>2, <3>3
  <2>4. tags[1].current = TRUE
    BY <2>3 DEF ConnectedOnce
  <2>5. ASSUME NEW i \in 1 .. Len(tags')
        PROVE  tags'[i].current = TRUE
    <3>1. /\ i + 1 \in 1 .. Len(tags) /\ 1 \in 1 .. Len(tags) /\ 1 < i + 1
          /\ tags'[i] = tags[i + 1]
      BY <1>1, <2>2, <2>3, <2>5 DEF Shifted, TagsShifted
    <3>2. tags[i + 1].current = TRUE
      BY <2>4, <3>1 DEF CurrentLast
    <3>3. QED
      BY <3>1, <3>2
  <2>6. QED
    BY <2>5
<1>4. CASE pc = "session"
  <2>1. \A i \in 1 .. Len(tags) : tags[i].current = TRUE
    BY <1>1, <1>2, <1>4 DEF SessionEventsCurrent
  <2>2. CASE UNCHANGED tags
    BY <2>1, <2>2
  <2>3. CASE SessionIgnores \/ SessionLeaves
    <3>1. TakeEvent /\ tags' = Tail(tags)
      BY <2>3 DEF SessionIgnores, SessionLeaves, Ignore, Leave, TakeEvent
    <3>2. Shifted /\ TagsShifted
      BY <3>1, TakeShape DEF TypeOK, WellTagged
    <3>3. QED
      BY <1>1, <2>1, <3>2 DEF Shifted, TagsShifted
  <2>4. CASE \E kind \in Kinds, completion \in BOOLEAN : Enqueue(kind, completion)
    <3>1. PICK kind \in Kinds, completion \in BOOLEAN : Enqueue(kind, completion)
      BY <2>4
    <3>2. Grown(kind, completion) \/ UNCHANGED <<events, tags>>
      BY <3>1, EnqueueShape DEF TypeOK, WellTagged
    <3>3. CASE Grown(kind, completion)
      BY <1>1, <2>1, <3>3 DEF Grown
    <3>4. QED
      BY <2>1, <3>2, <3>3
  <2>5. UNCHANGED tags \/ SessionIgnores \/ SessionLeaves
        \/ \E kind \in Kinds, completion \in BOOLEAN : Enqueue(kind, completion)
    <3>1. CASE Connectivity
      <4>1. SessionIgnores \/ SessionLeaves
        BY <1>4, <3>1
        DEF Connectivity, OperationTimedOut, OperationReturns, EventTimedOut,
            UnexpectedEvent, Initialized, AccessPointFound, ScanFailed, Connected,
            PauseEnds, BackoffEnds, Operations, Awaiting
      <4>2. QED
        BY <4>1
    <3>2. CASE Radio
      <4>1. CASE RadioReports
        <5>1. owed \in Kinds /\ Enqueue(owed, TRUE)
          BY <4>1 DEF RadioReports, TypeOK, Kinds
        <5>2. QED
          BY <5>1
      <4>2. CASE LinkPosts \/ RadioStrays
        <5>1. PICK e \in RadioEvents : Enqueue(e, FALSE)
          BY <4>2 DEF LinkPosts, RadioStrays, RadioEvents
        <5>2. e \in Kinds
          BY DEF Kinds
        <5>3. QED
          BY <5>1, <5>2
      <4>3. CASE RadioCompletes
        BY <4>3 DEF RadioCompletes
      <4>4. QED
        BY <3>2, <4>1, <4>2, <4>3 DEF Radio
    <3>3. CASE SessionHalts \/ Halted \/ UNCHANGED vars
      BY <3>3 DEF SessionHalts, Halted, vars
    <3>4. QED
      BY <3>1, <3>2, <3>3 DEF Next
  <2>6. QED
    BY <2>2, <2>3, <2>4, <2>5
<1>5. Connected \/ pc = "session"
  BY DEF Next, Connectivity, OperationTimedOut, OperationReturns, EventTimedOut,
         UnexpectedEvent, Initialized, AccessPointFound, ScanFailed,
         PauseEnds, BackoffEnds, SessionIgnores, SessionLeaves, SessionHalts, Halted,
         Radio, RadioCompletes, RadioReports, LinkPosts, RadioStrays,
         HaltFor, Begin, Returned, EventAwaited, RetryScan, Operations, vars
<1>6. QED
  BY <1>3, <1>4, <1>5

\* The event that tells of an operation's result is one of the completions, and
\* only that of a connection made is "connected".
LEMMA EventKinds ==
  /\ EventOf("initialize", "ok") = "initialized" /\ EventOf("initialize", "error") = "failed"
  /\ \A r \in ScanErrors : EventOf("scan", r) = "failed"
  /\ EventOf("scan", "found") = "scanCompleted" /\ EventOf("scan", "notFound") = "scanCompleted"
  /\ EventOf("connect", "ok") = "connected" /\ EventOf("connect", "error") = "failed"
BY DEF EventOf, ScanErrors

\* What is owed once an operation has completed: its event, or nothing for an error
\* that the controller did not get from the radio.
LEMMA EventOwed ==
  ASSUME NEW op, NEW outcome, NEW event \in Reports(op, outcome)
  PROVE  event = EventOf(op, outcome) \/ (outcome = "unmatched" /\ event = "none")
BY DEF Reports

\* The part of the type invariant that is not about the queue.
Typed ==
  /\ status \in Status \cup {"idle"} /\ pc \in Locations /\ retries \in {0, 1}
  /\ result \in Results /\ owed \in CompletionEvents \cup {"none"}
  /\ link \in BOOLEAN /\ lost \in BOOLEAN /\ strayed \in BOOLEAN
  /\ (reason # "none" <=> pc = "halted")

LEMMA StepTyped ==
  ASSUME TypeOK, ResultFits, [Next]_vars
  PROVE  TypeOK' /\ ResultFits'
<1> SUFFICES Typed' /\ ResultFits'
  BY StepQueue DEF TypeOK, Typed, WellTagged
<1>1. Typed
  BY DEF Typed, TypeOK
<1> USE DEF Locations, Operations, Awaiting, Results, ScanResults, ScanErrors
<1>3. CASE OperationTimedOut
  BY <1>1, <1>3 DEF OperationTimedOut, HaltFor, Typed, ResultFits
<1>4. CASE OperationReturns
  BY <1>1, <1>4 DEF OperationReturns, Returned, EventAwaited, HaltFor, Typed, ResultFits
<1>5. CASE EventTimedOut
  BY <1>1, <1>5 DEF EventTimedOut, HaltFor, Typed, ResultFits
<1>6. CASE UnexpectedEvent
  BY <1>1, <1>6 DEF UnexpectedEvent, HaltFor, Typed, ResultFits
<1>7. CASE Initialized
  BY <1>1, <1>7 DEF Initialized, Begin, Typed, ResultFits
<1>8. CASE AccessPointFound
  BY <1>1, <1>8 DEF AccessPointFound, Begin, HaltFor, Typed, ResultFits
<1>9. CASE ScanFailed
  BY <1>1, <1>9 DEF ScanFailed, RetryScan, HaltFor, Typed, ResultFits
<1>10. CASE Connected
  BY <1>1, <1>10 DEF Connected, Typed, ResultFits, Status
<1>11. CASE PauseEnds \/ BackoffEnds
  BY <1>1, <1>11 DEF PauseEnds, BackoffEnds, Begin, Typed, ResultFits
<1>12. CASE SessionIgnores
  BY <1>1, <1>12 DEF SessionIgnores, Ignore, Typed, ResultFits
<1>13. CASE SessionLeaves
  <2>1. status' \in Status
    BY <1>13 DEF SessionLeaves, Leave, ExitEvents, Status
  <2>2. QED
    BY <1>1, <1>13, <2>1 DEF SessionLeaves, HaltFor, Typed, ResultFits
<1>14. CASE SessionHalts
  BY <1>1, <1>14 DEF SessionHalts, Halt, HaltFor, Typed, ResultFits, Status
<1>15. CASE RadioCompletes
  <2>1. PICK outcome \in Outcomes(pc) : result' = outcome /\ owed' \in Reports(pc, outcome)
    BY <1>15 DEF RadioCompletes
  <2>2. pc \in Operations /\ UNCHANGED <<status, pc, retries, link, lost, reason, strayed>>
    BY <1>15 DEF RadioCompletes
  <2>3. /\ pc = "scan" => outcome \in ScanResults
        /\ pc # "scan" => outcome \in {"ok", "error"}
    BY <2>1 DEF Outcomes
  <2>4. owed' \in CompletionEvents \cup {"none"}
    BY <2>1, <2>2, <2>3, EventKinds, EventOwed DEF CompletionEvents
  <2>5. Typed'
    BY <1>1, <2>1, <2>2, <2>3, <2>4 DEF Typed
  <2>6. ResultFits'
    BY <2>1, <2>2, <2>3 DEF ResultFits
  <2>7. QED
    BY <2>5, <2>6
<1>16. CASE RadioReports
  <2>1. /\ owed \in Kinds /\ Enqueue(owed, TRUE) /\ link' = (link \/ owed = "connected")
        /\ owed' = "none" /\ UNCHANGED <<status, pc, retries, result, reason, strayed>>
    BY <1>16 DEF RadioReports, TypeOK, Kinds
  <2>2. lost' \in BOOLEAN
    BY <1>1, <2>1 DEF Enqueue, Typed
  <2>3. link' \in BOOLEAN
    BY <2>1
  <2>4. QED
    BY <1>1, <2>1, <2>2, <2>3 DEF Typed, ResultFits
<1>17. CASE LinkPosts
  <2>1. PICK e \in RadioEvents :
          Enqueue(e, FALSE) /\ link' = (e \notin {"disconnected", "failed"})
    BY <1>17 DEF LinkPosts
  <2>2. lost' \in BOOLEAN
    BY <1>1, <2>1 DEF Enqueue, Typed
  <2>3. link' \in BOOLEAN
    BY <2>1
  <2>4. UNCHANGED <<status, pc, retries, result, owed, reason, strayed>>
    BY <1>17 DEF LinkPosts
  <2>5. QED
    BY <1>1, <2>2, <2>3, <2>4 DEF Typed, ResultFits
<1>18. CASE RadioStrays
  <2>1. PICK e \in RadioEvents : Enqueue(e, FALSE)
    BY <1>18 DEF RadioStrays, RadioEvents
  <2>2. lost' \in BOOLEAN
    BY <1>1, <2>1 DEF Enqueue, Typed
  <2>3. strayed' = TRUE /\ UNCHANGED <<status, pc, retries, result, owed, link, reason>>
    BY <1>18 DEF RadioStrays
  <2>4. QED
    BY <1>1, <2>2, <2>3 DEF Typed, ResultFits
<1>19. CASE Halted \/ UNCHANGED vars
  BY <1>1, <1>19 DEF Halted, vars, Typed, ResultFits
<1>20. QED
  BY <1>3, <1>4, <1>5, <1>6, <1>7, <1>8, <1>9, <1>10, <1>11, <1>12, <1>13, <1>14,
     <1>15, <1>16, <1>17, <1>18, <1>19
  DEF Next, Connectivity, Radio

\* No "connected" is owed or in the queue.
NoneConnected ==
  owed # "connected" /\ \A i \in 1 .. Len(events) : events[i] # "connected"

LEMMA OutsideConnect ==
  ASSUME ConnectedOnce, pc \notin {"connect", "expectConnected", "halted"}
  PROVE  NoneConnected
BY DEF ConnectedOnce, NoneConnected

LEMMA StepConnectedOnce ==
  ASSUME TypeOK, ResultFits, ConnectedOnce, [Next]_vars
  PROVE  ConnectedOnce'
<1>1. WellTagged /\ WellTagged' /\ Len(events) \in Nat /\ Len(events') \in Nat
  BY StepQueue DEF WellTagged
<1>2. ASSUME NoneConnected' PROVE ConnectedOnce'
  BY <1>2 DEF NoneConnected, ConnectedOnce
\* The queue and what is owed stay, and a connect stays one or halts.
<1>3. ASSUME UNCHANGED <<events, tags, owed, result>>,
             \/ UNCHANGED pc
             \/ pc' = "halted"
             \/ pc = "connect" /\ pc' = "expectConnected"
             \/ pc \notin {"connect", "expectConnected", "halted"}
      PROVE  ConnectedOnce'
  <2>1. CASE pc \notin {"connect", "expectConnected", "halted"}
    <3>1. NoneConnected
      BY <2>1, OutsideConnect
    <3>2. NoneConnected'
      BY <1>3, <3>1 DEF NoneConnected
    <3>3. QED
      BY <1>2, <3>2
  <2>2. CASE pc' \in {"connect", "expectConnected", "halted"} \/ UNCHANGED pc
    BY <1>3, <2>2 DEF ConnectedOnce
  <2>3. QED
    BY <1>3, <2>1, <2>2
\* Outside of a connect the rest of the queue holds no "connected" either.
<1>4. ASSUME pc \notin {"connect", "expectConnected", "halted"},
             UNCHANGED owed, Shifted \/ UNCHANGED events
      PROVE  ConnectedOnce'
  <2>1. NoneConnected
    BY <1>4, OutsideConnect
  <2>2. NoneConnected'
    BY <1>1, <1>4, <2>1 DEF NoneConnected, Shifted
  <2>3. QED
    BY <1>2, <2>2
<1>5. ASSUME TakeEvent PROVE Shifted
  BY <1>1, <1>5, RestElement DEF WellTagged, TakeEvent, Shifted
<1>6. CASE OperationTimedOut \/ OperationReturns \/ EventTimedOut
  <2>1. UNCHANGED <<events, tags, owed, result>>
    BY <1>6 DEF OperationTimedOut, OperationReturns, EventTimedOut
  <2>2. \/ pc' = "halted"
        \/ pc = "connect" /\ pc' = "expectConnected"
        \/ pc \notin {"connect", "expectConnected", "halted"}
    BY <1>6
    DEF OperationTimedOut, OperationReturns, EventTimedOut, Returned, EventAwaited,
        HaltFor, Operations
  <2>3. QED
    BY <1>3, <2>1, <2>2
<1>7. CASE UnexpectedEvent
  <2>1. /\ TakeEvent /\ tags' = Tail(tags) /\ pc' = "halted"
        /\ UNCHANGED <<owed, result>>
    BY <1>7 DEF UnexpectedEvent, HaltFor
  <2>2. Shifted /\ TagsShifted
    BY <1>1, <2>1, TakeShape
  <2>3. ASSUME NEW i \in 1 .. Len(events'), events'[i] = "connected"
        PROVE  /\ result = "ok" /\ owed # "connected" /\ tags'[i].current = TRUE
               /\ \A j \in 1 .. Len(events') : events'[j] = "connected" => j = i
    <3>1. i + 1 \in 1 .. Len(events) /\ events[i + 1] = "connected" /\ tags'[i] = tags[i + 1]
      BY <2>2, <2>3 DEF Shifted, TagsShifted
    <3>2. /\ result = "ok" /\ owed # "connected" /\ tags[i + 1].current = TRUE
          /\ \A j \in 1 .. Len(events) : events[j] = "connected" => j = i + 1
      BY <3>1 DEF ConnectedOnce
    <3>3. ASSUME NEW j \in 1 .. Len(events'), events'[j] = "connected"
          PROVE  j = i
      <4>1. j + 1 \in 1 .. Len(events) /\ events[j + 1] = "connected"
        BY <2>2, <3>3 DEF Shifted
      <4>2. j + 1 = i + 1
        BY <3>2, <4>1
      <4>3. QED
        BY <1>1, <2>3, <3>3, <4>2
    <3>4. QED
      BY <3>1, <3>2, <3>3
  <2>4. QED
    BY <2>1, <2>3 DEF ConnectedOnce
<1>8. CASE Initialized \/ AccessPointFound \/ ScanFailed \/ SessionIgnores \/ SessionLeaves
  <2>1. /\ TakeEvent /\ UNCHANGED owed
        /\ pc \notin {"connect", "expectConnected", "halted"}
    BY <1>8
    DEF Initialized, AccessPointFound, ScanFailed, SessionIgnores, SessionLeaves,
        ExpectedEvent, Ignore, Leave, TakeEvent
  <2>2. QED
    BY <1>4, <1>5, <2>1
<1>9. CASE Connected
  <2>1. /\ TakeEvent /\ Head(events) = "connected" /\ UNCHANGED owed
    BY <1>9 DEF Connected, ExpectedEvent, Expected
  <2>2. Shifted
    BY <1>5, <2>1
  <2>3. events[1] = "connected" /\ 1 \in 1 .. Len(events)
    <3>1. Head(events) = events[1] /\ Len(events) > 0
      BY <1>1, <2>1, RestElement DEF WellTagged, TakeEvent
    <3>2. 1 \in 1 .. Len(events)
      BY <1>1, <3>1
    <3>3. QED
      BY <2>1, <3>1, <3>2
  <2>4. owed # "connected" /\ \A j \in 1 .. Len(events) : events[j] = "connected" => j = 1
    BY <2>3 DEF ConnectedOnce
  <2>5. ASSUME NEW i \in 1 .. Len(events') PROVE events'[i] # "connected"
    <3>1. i + 1 \in 1 .. Len(events) /\ events'[i] = events[i + 1] /\ i + 1 # 1
      BY <1>1, <2>2, <2>5 DEF Shifted
    <3>2. QED
      BY <2>4, <3>1
  <2>6. QED
    BY <1>2, <2>1, <2>4, <2>5 DEF NoneConnected
<1>10. CASE PauseEnds \/ BackoffEnds
  <2>1. /\ UNCHANGED <<events, owed>> /\ pc \notin {"connect", "expectConnected", "halted"}
    BY <1>10 DEF PauseEnds, BackoffEnds
  <2>2. QED
    BY <1>4, <2>1
<1>11. CASE SessionHalts
  BY <1>3, <1>11 DEF SessionHalts, Halt, HaltFor
<1>12. CASE RadioCompletes
  <2>1. PICK outcome \in Outcomes(pc) : result' = outcome /\ owed' \in Reports(pc, outcome)
    BY <1>12 DEF RadioCompletes
  <2>2. /\ pc \in Operations /\ result = "none" /\ UNCHANGED <<events, pc, tags>>
    BY <1>12 DEF RadioCompletes
  <2>3. \A i \in 1 .. Len(events) : events[i] # "connected"
    BY <2>2 DEF ConnectedOnce
  <2>4. owed' = "connected" => pc = "connect" /\ outcome = "ok"
    <3>1. /\ pc = "scan" => outcome \in ScanResults
          /\ pc # "scan" => outcome \in {"ok", "error"}
      BY <2>1 DEF Outcomes
    <3>2. QED
      BY <2>1, <2>2, <3>1, EventKinds, EventOwed DEF Operations, ScanResults, ScanErrors
  <2>5. QED
    BY <2>1, <2>2, <2>3, <2>4 DEF ConnectedOnce
<1>13. CASE RadioReports
  <2>1. /\ owed \in Kinds /\ Enqueue(owed, TRUE) /\ owed # "none"
        /\ owed' = "none" /\ UNCHANGED <<pc, result>>
    BY <1>13 DEF RadioReports, TypeOK, Kinds
  <2>2. Grown(owed, TRUE) \/ UNCHANGED <<events, tags>>
    BY <1>1, <2>1, EnqueueShape
  <2>3. CASE UNCHANGED <<events, tags>>
    BY <2>1, <2>3 DEF ConnectedOnce
  <2>4. CASE Grown(owed, TRUE)
    <3>1. CASE owed = "connected"
      <4>1. /\ pc \in {"connect", "expectConnected", "halted"} /\ result = "ok"
            /\ \A i \in 1 .. Len(events) : events[i] # "connected"
        BY <3>1 DEF ConnectedOnce
      <4>2. \A i \in 1 .. Len(events') : events'[i] = "connected" => i = Len(events) + 1
        BY <1>1, <2>4, <4>1 DEF Grown
      <4>3. tags'[Len(events) + 1].current = TRUE
        BY <2>4 DEF Grown
      <4>4. QED
        BY <2>1, <4>1, <4>2, <4>3 DEF ConnectedOnce
    <3>2. CASE owed # "connected"
      <4>1. \A i \in 1 .. Len(events') :
              events'[i] = "connected" =>
                i \in 1 .. Len(events) /\ events[i] = "connected" /\ tags'[i] = tags[i]
        BY <1>1, <2>4, <3>2 DEF Grown
      <4>2. QED
        BY <2>1, <4>1 DEF ConnectedOnce
    <3>3. QED
      BY <3>1, <3>2
  <2>5. QED
    BY <2>2, <2>3, <2>4
<1>14. CASE LinkPosts \/ RadioStrays
  <2>1. PICK e \in RadioEvents : Enqueue(e, FALSE)
    BY <1>14 DEF LinkPosts, RadioStrays, RadioEvents
  <2>2. e \in Kinds /\ e # "connected" /\ UNCHANGED <<pc, result, owed>>
    BY <1>14 DEF Kinds, RadioEvents, LinkPosts, RadioStrays
  <2>3. Grown(e, FALSE) \/ UNCHANGED <<events, tags>>
    BY <1>1, <2>1, <2>2, EnqueueShape
  <2>4. CASE UNCHANGED <<events, tags>>
    BY <2>2, <2>4 DEF ConnectedOnce
  <2>5. CASE Grown(e, FALSE)
    <3>1. \A i \in 1 .. Len(events') :
            events'[i] = "connected" =>
              i \in 1 .. Len(events) /\ events[i] = "connected" /\ tags'[i] = tags[i]
      BY <1>1, <2>2, <2>5 DEF Grown
    <3>2. QED
      BY <2>2, <3>1 DEF ConnectedOnce
  <2>6. QED
    BY <2>3, <2>4, <2>5
<1>15. CASE Halted \/ UNCHANGED vars
  BY <1>3, <1>15 DEF Halted, vars
<1>16. QED
  BY <1>6, <1>7, <1>8, <1>9, <1>10, <1>11, <1>12, <1>13, <1>14, <1>15
  DEF Next, Connectivity, Radio

\* The event awaited is the first in the queue, and the only one if it tells of
\* anything but a connection made.
LEMMA AwaitedEvent ==
  ASSUME WellTagged, NEW op \in Operations, Due(op), TakeEvent
  PROVE  /\ owed = "none" /\ Shifted
         /\ Head(events) = EventOf(op, result)
         /\ Head(tags) = [completion |-> TRUE, current |-> TRUE]
         /\ EventOf(op, result) # "connected" => events' = <<>> /\ link = FALSE
<1>1. events # <<>> /\ tags # <<>> /\ Len(events) \in Nat
  BY DEF WellTagged, TakeEvent
<1>2. /\ Len(events) > 0 /\ Head(events) = events[1] /\ Head(tags) = tags[1]
      /\ events' \in Seq(Kinds) /\ Len(events') = Len(events) - 1
      /\ \A i \in 1 .. Len(events) - 1 :
           i + 1 \in 1 .. Len(events) /\ events'[i] = events[i + 1]
  BY <1>1, RestElement DEF WellTagged, TakeEvent
<1>3. /\ owed = "none" /\ events[1] = EventOf(op, result)
      /\ tags[1] = [completion |-> TRUE, current |-> TRUE]
      /\ events[1] # "connected" => Len(events) = 1 /\ link = FALSE
  BY <1>1 DEF Due
<1>4. Shifted
  BY <1>2 DEF Shifted
<1>5. Len(events) = 1 => events' = <<>>
  BY <1>2
<1>6. QED
  BY <1>2, <1>3, <1>4, <1>5

LEMMA StepOrderly ==
  ASSUME StationInv, [Next]_vars
  PROVE  Orderly'
<1> SUFFICES ASSUME strayed' = FALSE, pc' # "halted" PROVE LossLast' /\ OwnEventFirst'
  BY DEF Orderly
<1>1. /\ WellTagged /\ WellTagged' /\ Len(events) \in Nat /\ Len(events') \in Nat
      /\ Typed /\ ResultFits
  BY StepQueue DEF StationInv, WellTagged, TypeOK, Typed
<1> USE DEF Operations
<1>2. CASE UNCHANGED vars \/ Halted
  BY <1>2 DEF Halted, vars, StationInv, Orderly, LossLast, OwnEventFirst, Quiet, Due
\* A task that halted stays there, and the radio's stray reports are remembered.
<1>3. strayed = FALSE /\ pc # "halted" /\ ~RadioStrays
  <2>1. CASE UNCHANGED vars
    BY <2>1 DEF vars, RadioStrays
  <2>2. CASE Next
    BY <1>1, <2>2
    DEF Next, Connectivity, OperationTimedOut, OperationReturns, EventTimedOut,
        UnexpectedEvent, Initialized, AccessPointFound, ScanFailed, Connected,
        PauseEnds, BackoffEnds, SessionIgnores, SessionLeaves, SessionHalts, Halted,
        Radio, RadioCompletes, RadioReports, LinkPosts, RadioStrays, vars, Awaiting, Typed
  <2>3. QED
    BY <2>1, <2>2
<1>4. LossLast /\ OwnEventFirst
  BY <1>3 DEF StationInv, Orderly
<1>5. ASSUME Shifted, UNCHANGED link PROVE LossLast'
  BY <1>1, <1>4, <1>5 DEF LossLast, Shifted
<1>6. ASSUME events' = <<>> PROVE LossLast'
  BY <1>6 DEF LossLast
<1>7. CASE OperationTimedOut \/ EventTimedOut \/ UnexpectedEvent \/ SessionHalts
  BY <1>7 DEF OperationTimedOut, EventTimedOut, UnexpectedEvent, SessionHalts, HaltFor
<1>8. CASE OperationReturns
  <2>1. /\ UNCHANGED <<events, result, owed, link, tags>> /\ result # "none"
        /\ \/ pc = "initialize" /\ pc' = "expectInitialized"
           \/ pc = "scan" /\ pc' = "expectScan"
           \/ pc = "connect" /\ pc' = "expectConnected"
    BY <1>8 DEF OperationReturns, Returned, EventAwaited, HaltFor
  <2>2. QED
    BY <1>4, <2>1 DEF LossLast, OwnEventFirst, Due, Quiet
<1>9. CASE Initialized
  <2>1. /\ pc = "expectInitialized" /\ result = "ok" /\ TakeEvent
        /\ pc' = "scan" /\ result' = "none" /\ UNCHANGED <<owed, link>>
    BY <1>1, <1>9 DEF Initialized, ExpectedEvent, Begin, ResultFits
  <2>2. Due("initialize")
    BY <1>4, <2>1 DEF OwnEventFirst
  <2>3. owed = "none" /\ events' = <<>> /\ link = FALSE
    BY <1>1, <2>1, <2>2, AwaitedEvent, EventKinds
  <2>4. QED
    BY <1>6, <2>1, <2>3 DEF OwnEventFirst, Quiet
<1>10. CASE AccessPointFound \/ ScanFailed
  <2>1. /\ pc = "expectScan" /\ result \in ScanResults /\ TakeEvent
        /\ UNCHANGED <<owed, link>>
    BY <1>1, <1>10 DEF AccessPointFound, ScanFailed, ExpectedEvent, ResultFits
  <2>1a. pc' = "pause" \/ (pc' = "connect" /\ result' = "none")
    BY <1>10 DEF AccessPointFound, ScanFailed, Begin, RetryScan, HaltFor
  <2>2. Due("scan")
    <3>1. events # <<>>
      BY <2>1 DEF TakeEvent
    <3>2. QED
      BY <1>4, <2>1, <3>1 DEF OwnEventFirst, Quiet, ScanResults, ScanErrors
  <2>3. EventOf("scan", result) # "connected"
    BY <2>1, EventKinds DEF ScanResults, ScanErrors
  <2>4. owed = "none" /\ events' = <<>> /\ link = FALSE
    BY <1>1, <2>1, <2>2, <2>3, AwaitedEvent
  <2>5. QED
    BY <1>6, <2>1, <2>1a, <2>4 DEF OwnEventFirst, Quiet
<1>11. CASE Connected
  <2>1. /\ pc = "expectConnected" /\ result = "ok" /\ TakeEvent
        /\ pc' = "session" /\ UNCHANGED <<owed, link>>
    BY <1>1, <1>11 DEF Connected, ExpectedEvent, ResultFits
  <2>2. Due("connect")
    BY <1>4, <2>1 DEF OwnEventFirst
  <2>3. owed = "none" /\ Shifted
    BY <1>1, <2>1, <2>2, AwaitedEvent
  <2>4. QED
    BY <1>5, <2>1, <2>3 DEF OwnEventFirst
<1>12. CASE PauseEnds \/ BackoffEnds
  <2>1. /\ pc \in {"pause", "backoff"} /\ pc' \in {"scan", "connect"} /\ result' = "none"
        /\ UNCHANGED <<events, owed, link>>
    BY <1>12 DEF PauseEnds, BackoffEnds, Begin
  <2>2. Quiet
    BY <1>4, <2>1 DEF OwnEventFirst
  <2>3. QED
    BY <1>6, <2>1, <2>2 DEF OwnEventFirst, Quiet
<1>13. CASE SessionIgnores
  <2>1. pc = "session" /\ pc' = "session" /\ TakeEvent /\ UNCHANGED <<owed, link>>
    BY <1>13 DEF SessionIgnores, Ignore, TakeEvent
  <2>2. Shifted
    BY <1>1, <2>1, RestElement DEF WellTagged, TakeEvent, Shifted
  <2>3. QED
    BY <1>4, <1>5, <2>1, <2>2 DEF OwnEventFirst
<1>14. CASE SessionLeaves
  <2>1. /\ pc = "session" /\ pc' = "backoff" /\ TakeEvent /\ Head(events) \in Losses
        /\ UNCHANGED <<owed, link>>
    BY <1>14 DEF SessionLeaves, Leave, TakeEvent, HaltFor, ExitEvents, Losses
  <2>2. /\ Len(events) > 0 /\ events' \in Seq(Kinds) /\ Len(events') = Len(events) - 1
        /\ Head(events) = events[1]
    BY <1>1, <2>1, RestElement DEF WellTagged, TakeEvent
  <2>3. 1 = Len(events) /\ link = FALSE
    <3>1. 1 \in 1 .. Len(events)
      BY <1>1, <2>2
    <3>2. QED
      BY <1>4, <2>1, <2>2, <3>1 DEF LossLast
  <2>4. events' = <<>>
    <3>1. Len(events) = 1 /\ Len(events') = Len(events) - 1
      BY <2>2, <2>3
    <3>2. Len(events') = 0
      BY ONLY <3>1
    <3>3. ASSUME NEW rest \in Seq(Kinds), Len(rest) = 0 PROVE rest = <<>>
      BY ONLY <3>3, EmptySeq
    <3>4. QED
      BY <2>2, <3>2, <3>3
  <2>5. QED
    BY <1>4, <1>6, <2>1, <2>3, <2>4 DEF OwnEventFirst, Quiet
<1>15. CASE RadioCompletes
  <2>1. PICK outcome \in Outcomes(pc) : result' = outcome /\ owed' \in Reports(pc, outcome)
    BY <1>15 DEF RadioCompletes
  <2>2. pc \in Operations /\ result = "none" /\ UNCHANGED <<events, pc, link>>
    BY <1>15 DEF RadioCompletes
  <2>3. Quiet /\ outcome # "none"
    BY <1>4, <2>1, <2>2 DEF OwnEventFirst, Outcomes, ScanResults, ScanErrors
  <2>4. LossLast'
    BY <1>6, <2>2, <2>3 DEF Quiet
  <2>5. Due(pc)' \/ (outcome = "unmatched" /\ Quiet')
    BY <2>1, <2>2, <2>3, EventOwed DEF Due, Quiet
  <2>5a. outcome = "unmatched" => pc = "scan"
    BY <2>1 DEF Outcomes
  <2>6. OwnEventFirst'
    BY <2>1, <2>2, <2>3, <2>5, <2>5a DEF OwnEventFirst
  <2>7. QED
    BY <2>4, <2>6
<1>16. CASE RadioReports
  <2>1. /\ owed \in Kinds /\ owed # "none" /\ Enqueue(owed, TRUE)
        /\ link' = (link \/ owed = "connected") /\ owed' = "none" /\ UNCHANGED <<pc, result>>
    BY <1>16 DEF RadioReports, TypeOK, Kinds, StationInv
  <2>2. PICK op \in Operations :
          /\ Due(op) /\ result # "none"
          /\ \/ op = "initialize" /\ pc \in {"initialize", "expectInitialized"}
             \/ op = "scan" /\ pc \in {"scan", "expectScan"}
             \/ op = "connect" /\ pc \in {"connect", "expectConnected"}
    <3>1. ~Quiet /\ pc # "session"
      BY <1>4, <2>1 DEF OwnEventFirst, Quiet
    <3>2. pc \notin {"pause", "backoff", "session", "halted"}
      BY <1>3, <1>4, <3>1 DEF OwnEventFirst
    <3>3. pc \in {"initialize", "scan", "connect",
                 "expectInitialized", "expectScan", "expectConnected"}
      BY <1>1, <3>2 DEF Typed, Locations, Awaiting
    <3>4. result # "none"
      BY <1>1, <1>4, <3>1, <3>3 DEF OwnEventFirst, ResultFits, ScanResults, ScanErrors
    <3>5. QED
      BY <1>4, <3>1, <3>3, <3>4 DEF OwnEventFirst
  <2>3. owed = EventOf(op, result) /\ events = <<>> /\ link = FALSE
    BY <2>1, <2>2 DEF Due
  <2>4. Grown(owed, TRUE)
    <3>1. Grown(owed, TRUE) \/ Len(events) > 0
      BY <1>1, <2>1, EnqueueShape
    <3>2. ~(Len(events) > 0)
      BY <2>3
    <3>3. QED
      BY <3>1, <3>2
  <2>5. /\ Len(events') = 1 /\ events'[1] = owed
        /\ tags'[1] = [completion |-> TRUE, current |-> TRUE]
    BY <2>3, <2>4 DEF Grown
  <2>6. owed # "connected" => link' = FALSE
    BY <2>1, <2>3
  <2>7. LossLast'
    BY <2>5, <2>6 DEF LossLast, Losses
  <2>8. Due(op)'
    BY <2>1, <2>3, <2>5, <2>6 DEF Due
  <2>9. OwnEventFirst'
    BY <2>1, <2>2, <2>8 DEF OwnEventFirst
  <2>10. QED
    BY <2>7, <2>9
<1>17. CASE LinkPosts
  <2>1. PICK e \in RadioEvents :
          Enqueue(e, FALSE) /\ link' = (e \notin {"disconnected", "failed"})
    BY <1>17 DEF LinkPosts
  <2>2. link = TRUE /\ e \in Kinds /\ UNCHANGED <<pc, result, owed>>
    <3>1. link = TRUE
      BY <1>1, <1>17 DEF LinkPosts, Typed
    <3>2. e \in Kinds
      BY DEF Kinds
    <3>3. QED
      BY <1>17, <3>1, <3>2 DEF LinkPosts
  <2>3. Grown(e, FALSE) \/ (UNCHANGED <<events, tags>> /\ Len(events) > 0)
    BY <1>1, <2>1, <2>2, EnqueueShape
  <2>4. \A i \in 1 .. Len(events) : events[i] \notin Losses
    BY <1>4, <2>2 DEF LossLast
  <2>5. e \in Losses => link' = FALSE
    BY <2>1 DEF Losses
  <2>6. LossLast'
    <3>1. CASE Grown(e, FALSE)
      <4>1. ASSUME NEW i \in 1 .. Len(events'), events'[i] \in Losses
            PROVE  i = Len(events') /\ link' = FALSE
        <5>1. CASE i \in 1 .. Len(events)
          BY <2>4, <3>1, <4>1, <5>1 DEF Grown
        <5>2. CASE i \notin 1 .. Len(events)
          <6>1. i = Len(events) + 1 /\ Len(events') = Len(events) + 1
            BY <1>1, <3>1, <4>1, <5>2 DEF Grown
          <6>2. events'[i] = e
            BY <3>1, <6>1 DEF Grown
          <6>3. QED
            BY <2>5, <4>1, <6>1, <6>2
        <5>3. QED
          BY <5>1, <5>2
      <4>2. QED
        BY <4>1 DEF LossLast
    <3>2. CASE UNCHANGED <<events, tags>>
      BY <2>4, <3>2 DEF LossLast
    <3>3. QED
      BY <2>3, <3>1, <3>2
  <2>7. ASSUME NEW op \in Operations, Due(op) PROVE Due(op)'
    <3>1. /\ owed = "none" /\ Len(events) > 0 /\ events[1] = EventOf(op, result)
          /\ tags[1] = [completion |-> TRUE, current |-> TRUE] /\ events[1] = "connected"
      BY <2>2, <2>7 DEF Due
    <3>2. Len(events') > 0 /\ events'[1] = events[1] /\ tags'[1] = tags[1]
      <4>1. 1 \in 1 .. Len(events)
        BY <1>1, <3>1
      <4>2. CASE Grown(e, FALSE)
        BY <1>1, <4>1, <4>2 DEF Grown
      <4>3. CASE UNCHANGED <<events, tags>>
        BY <3>1, <4>3
      <4>4. QED
        BY <2>3, <4>2, <4>3
    <3>3. QED
      BY <2>2, <3>1, <3>2 DEF Due
  <2>8. OwnEventFirst'
    <3>1. ~Quiet
      BY <2>2 DEF Quiet
    <3>2. QED
      BY <1>4, <2>2, <2>7, <3>1 DEF OwnEventFirst
  <2>9. QED
    BY <2>6, <2>8
<1>18. QED
  BY <1>2, <1>3, <1>7, <1>8, <1>9, <1>10, <1>11, <1>12, <1>13, <1>14, <1>15, <1>16, <1>17
  DEF Next, Connectivity, Radio

\* Without a stray report the event that is first in the queue is the one awaited.
LEMMA StepOnlyStrays ==
  ASSUME StationInv, [Next]_vars
  PROVE  OnlyStraysUnexpected'
<1>1. WellTagged /\ Typed /\ ResultFits
  BY StepQueue DEF StationInv, WellTagged, TypeOK, Typed
<1>2. CASE UnexpectedEvent
  <2>1. /\ pc \in Awaiting /\ TakeEvent /\ strayed' = strayed
        /\ \E repeats \in MayRepeat(Head(tags)) : ~Expected(repeats)
    BY <1>2 DEF UnexpectedEvent
  <2>2. ASSUME strayed = FALSE, result # "unmatched" PROVE FALSE
    <3>1. OwnEventFirst
      BY <2>1, <2>2 DEF StationInv, Orderly, Awaiting
    <3>2. PICK op \in Operations :
            /\ Due(op)
            /\ Head(events) = EventOf(op, result) => Expected(TRUE)
      <4>1. CASE pc = "expectInitialized"
        <5>1. Due("initialize") /\ EventOf("initialize", result) = "initialized"
          BY <1>1, <3>1, <4>1, EventKinds DEF OwnEventFirst, ResultFits
        <5>2. Head(events) = "initialized" => Expected(TRUE)
          BY <4>1 DEF Expected
        <5>3. QED
          BY <5>1, <5>2 DEF Operations
      <4>2. CASE pc = "expectScan"
        <5>1. Due("scan")
          BY <1>1, <2>2, <3>1, <4>2 DEF OwnEventFirst, ResultFits, ScanResults, ScanErrors
        <5>2. Head(events) = EventOf("scan", result) => Expected(TRUE)
          BY <2>2, <4>2 DEF Expected
        <5>3. QED
          BY <5>1, <5>2 DEF Operations
      <4>3. CASE pc = "expectConnected"
        <5>1. Due("connect") /\ EventOf("connect", result) = "connected"
          BY <1>1, <3>1, <4>3, EventKinds DEF OwnEventFirst, ResultFits
        <5>2. Head(events) = "connected" => Expected(TRUE)
          BY <4>3 DEF Expected
        <5>3. QED
          BY <5>1, <5>2 DEF Operations
      <4>4. QED
        BY <2>1, <4>1, <4>2, <4>3 DEF Awaiting
    <3>3. /\ Head(events) = EventOf(op, result)
          /\ Head(tags) = [completion |-> TRUE, current |-> TRUE]
      BY <1>1, <2>1, <3>2, AwaitedEvent
    <3>4. MayRepeat(Head(tags)) = {TRUE}
      <4>1. Head(tags).completion = TRUE /\ Head(tags).current = TRUE
        BY <3>3
      <4>2. QED
        BY <4>1, Zenon DEF MayRepeat
    <3>5. Expected(TRUE)
      BY <3>2, <3>3
    <3>6. PICK repeats \in MayRepeat(Head(tags)) : ~Expected(repeats)
      BY <2>1
    <3>7. repeats = TRUE
      BY <3>4, <3>6
    <3>8. QED
      BY <3>5, <3>6, <3>7
  <2>3. strayed' = strayed /\ result' = result
    BY <1>2 DEF UnexpectedEvent
  <2>4. QED
    BY <1>1, <2>2, <2>3 DEF OnlyStraysUnexpected, Typed
<1>3. CASE RadioStrays
  BY <1>3 DEF RadioStrays, OnlyStraysUnexpected
\* A halted task keeps its reason and the result it halted with.
<1>4. CASE pc = "halted"
  <2>1. UNCHANGED vars
    BY <1>4
    DEF Next, Connectivity, OperationTimedOut, OperationReturns, EventTimedOut,
        UnexpectedEvent, Initialized, AccessPointFound, ScanFailed, Connected,
        PauseEnds, BackoffEnds, SessionIgnores, SessionLeaves, SessionHalts, Halted,
        Radio, RadioCompletes, RadioReports, LinkPosts, RadioStrays, vars,
        Operations, Awaiting
  <2>2. QED
    BY <2>1 DEF OnlyStraysUnexpected, StationInv, vars
<1>5. CASE pc # "halted" /\ (OperationReturns \/ ScanFailed)
  <2>1. reason' = reason \/ reason' \in ScanResults \cup {"error"}
    BY <1>1, <1>5
    DEF OperationReturns, Returned, ScanFailed, RetryScan, HaltFor, ResultFits
  <2>2. reason = "none" /\ "unexpected" \notin ScanResults \cup {"error"}
    BY <1>1, <1>5 DEF Typed, ScanResults, ScanErrors
  <2>3. QED
    BY <2>1, <2>2 DEF OnlyStraysUnexpected
<1>6. CASE /\ pc # "halted"
           /\ ~(UnexpectedEvent \/ RadioStrays \/ OperationReturns \/ ScanFailed)
  <2>1. reason' = reason \/ reason' # "unexpected"
    BY <1>6
    DEF Next, Connectivity, OperationTimedOut, EventTimedOut, Initialized,
        AccessPointFound, Connected, PauseEnds, BackoffEnds, SessionIgnores, SessionLeaves,
        SessionHalts, Halted, Radio, RadioCompletes, RadioReports, LinkPosts, HaltFor, vars
  <2>2. reason = "none"
    BY <1>1, <1>6 DEF Typed
  <2>3. QED
    BY <2>1, <2>2 DEF OnlyStraysUnexpected
<1>7. QED
  BY <1>2, <1>3, <1>4, <1>5, <1>6

LEMMA StationInvariant == Spec => []StationInv
<1>1. StationInv /\ [Next]_vars => StationInv'
  <2> SUFFICES ASSUME StationInv, [Next]_vars PROVE StationInv'
    OBVIOUS
  <2>1. TypeOK' /\ ResultFits'
    BY StepTyped DEF StationInv
  <2>2. CurrentLast' /\ ConnectedOnce' /\ SessionEventsCurrent'
    BY StepCurrentLast, StepConnectedOnce, StepSessionEvents DEF StationInv
  <2>3. Orderly' /\ OnlyStraysUnexpected'
    BY StepOrderly, StepOnlyStrays
  <2>4. QED
    BY <2>1, <2>2, <2>3 DEF StationInv
<1>2. QED
  BY InitStation, <1>1, PTL DEF Spec

-----------------------------------------------------------------------------
(***************************************************************************)
(* Theorems                                                                *)
(***************************************************************************)
\* Every variable keeps to its range, each event in the queue has its tag, and
\* the task names a reason exactly when it has halted.
THEOREM StationTyped == Spec => []TypeOK
<1>1. StationInv => TypeOK
  BY DEF StationInv
<1>2. QED
  BY <1>1, StationInvariant, PTL

\* A session of the network runner sees only events posted since its connection
\* was asked for, for a queue of any length and whatever the radio posted twice,
\* late or into a full queue before.
THEOREM SessionSeesOwnEvents == Spec => []SessionEventsCurrent
<1>1. StationInv => SessionEventsCurrent
  BY DEF StationInv
<1>2. QED
  BY <1>1, StationInvariant, PTL

\* The task never halts over an unexpected event unless the radio reported a loss
\* or a failure without a connection: the events of scans that timed out and the
\* rest of a session are consumed before the next event is awaited.
THEOREM UnexpectedOnlyAfterStray == Spec => []OnlyStraysUnexpected
<1>1. StationInv => OnlyStraysUnexpected
  BY DEF StationInv
<1>2. QED
  BY <1>1, StationInvariant, PTL
=============================================================================
