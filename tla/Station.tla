------------------------------ MODULE Station ------------------------------
(***************************************************************************)
(* The station's control plane (wifi_connectivity/src/main.rs): the task   *)
(* `connectivity`, which initializes the radio, scans, connects and, each  *)
(* time a session of the network runner ends with a disconnection,         *)
(* connects again; and the task `radio_runner` beside it on one executor.  *)
(*                                                                         *)
(* Every operation is awaited with a deadline and is followed by its event *)
(* in the radio's bounded queue, which is awaited with a deadline too.  The*)
(* network runner is what NetSession promises; what the radio makes of an  *)
(* operation and when it posts an event is external.  Time is left out: a  *)
(* deadline may pass whenever what it guards has not happened yet.         *)
(***************************************************************************)
EXTENDS NetSession

VARIABLES
  pc,        \* what `connectivity` awaits
  retries,   \* retries of the scan loop
  result,    \* what the operation in progress returned, or "none"
  owed,      \* external: the completion event still to be posted, or "none"
  link,      \* external: whether the radio holds a connection
  tags,      \* history: of each event in the queue, whether it
             \* completes an operation and whether that is the current one
  lost,      \* history: the queue was full when an event was to be posted
  strayed,   \* history: the radio reported a loss or failure of no connection
  reason     \* why the task halted, or "none"

vars == <<events, status, pc, retries, result, owed, link, tags, lost,
          strayed, reason>>

Operations == {"initialize", "scan", "connect"}
Awaiting == {"expectInitialized", "expectScan", "expectConnected"}
Locations == Operations \cup Awaiting \cup {"pause", "session", "backoff", "halted"}

\* "unmatched" is an error of the controller that is neither the backend's nor a
\* breach of its protocol: expect_scan_event knows no event for it.
ScanErrors == {"timeout", "error", "protocol", "unmatched"}
ScanResults == {"found", "notFound"} \cup ScanErrors
Results == ScanResults \cup {"ok", "error", "none"}

CompletionEvents == {"initialized", "scanCompleted", "connected", "failed"}
Kinds == CompletionEvents \cup RadioEvents
Tag == [completion : BOOLEAN, current : BOOLEAN]

-----------------------------------------------------------------------------
(***************************************************************************)
(* External: the radio, stepped by `radio_runner`                          *)
(***************************************************************************)
\* An event is lost if the queue is full: the `dropped` of its diagnostics.
Enqueue(kind, completion) ==
  IF Len(events) < EventCap
  THEN /\ events' = Append(events, kind)
       /\ tags' = Append(tags, [completion |-> completion, current |-> TRUE])
       /\ UNCHANGED lost
  ELSE /\ lost' = TRUE
       /\ UNCHANGED <<events, tags>>

\* The results of an operation, and the event that tells of each.
Outcomes(op) == IF op = "scan" THEN ScanResults ELSE {"ok", "error"}

EventOf(op, outcome) ==
  IF outcome \in ScanErrors THEN "failed"
  ELSE CASE op = "initialize" -> "initialized"
         [] op = "scan"       -> "scanCompleted"
         [] op = "connect"    -> "connected"

\* The controller may give up on its own account before the radio has an event.
Reports(op, outcome) ==
  {EventOf(op, outcome)} \cup (IF outcome = "unmatched" THEN {"none"} ELSE {})

RadioCompletes ==
  /\ pc \in Operations /\ result = "none" /\ owed = "none"
  /\ \E outcome \in Outcomes(pc) :
       /\ result' = outcome
       /\ owed' \in Reports(pc, outcome)
  /\ UNCHANGED <<events, status, pc, retries, link, tags, lost, reason, strayed>>

\* The completion event may come after the result has been returned.
RadioReports ==
  /\ pc # "halted" /\ owed # "none"
  /\ Enqueue(owed, TRUE)
  /\ link' = (link \/ owed = "connected")
  /\ owed' = "none"
  /\ UNCHANGED <<status, pc, retries, result, reason, strayed>>

\* While it is connected the radio may post anything; losing the connection
\* and failing are posted once.
LinkPosts ==
  /\ pc # "halted" /\ link
  /\ \E e \in RadioEvents :
       /\ Enqueue(e, FALSE)
       /\ link' = (e \notin {"disconnected", "failed"})
  /\ UNCHANGED <<status, pc, retries, result, owed, reason, strayed>>

\* Without a connection nothing is due, but a radio may still report a loss or
\* a failure a second time.
RadioStrays ==
  /\ pc # "halted" /\ ~link
  /\ \E e \in {"disconnected", "failed"} : Enqueue(e, FALSE)
  /\ strayed' = TRUE
  /\ UNCHANGED <<status, pc, retries, result, owed, link, reason>>

Radio == RadioCompletes \/ RadioReports \/ LinkPosts \/ RadioStrays

-----------------------------------------------------------------------------
(***************************************************************************)
(* connectivity                                                            *)
(***************************************************************************)
HaltFor(why) == pc' = "halted" /\ reason' = why

Aged(queue) == [i \in DOMAIN queue |-> [queue[i] EXCEPT !.current = FALSE]]

\* An operation begins: what is still in the queue is of an earlier one.
Begin(op, queue) ==
  /\ pc' = op
  /\ result' = "none"
  /\ tags' = Aged(queue)

\* The outer deadline of an operation: with_timeout prefers a result.
OperationTimedOut ==
  /\ pc \in Operations /\ result = "none"
  /\ HaltFor("deadline")
  /\ UNCHANGED <<events, status, retries, result, owed, link, tags, lost, strayed>>

\* What is awaited once an operation has returned.
EventAwaited(op) ==
  CASE op = "initialize" -> "expectInitialized"
    [] op = "scan"       -> "expectScan"
    [] op = "connect"    -> "expectConnected"

\* Variant: a scan that timed out is retried without waiting for its event.
ReturnedUnexpecting ==
  IF pc = "scan" /\ result = "timeout" /\ retries = 0
  THEN pc' = "pause" /\ retries' = 1 /\ UNCHANGED reason
  ELSE /\ pc' = EventAwaited(pc)
       /\ UNCHANGED <<retries, reason>>

\* An error of initialize or connect is final; the event of a scan is awaited
\* whatever the scan returned.
Returned ==
  /\ UNCHANGED retries
  /\ IF pc # "scan" /\ result = "error"
     THEN HaltFor("error")
     ELSE pc' = EventAwaited(pc) /\ UNCHANGED reason

OperationReturns ==
  /\ pc \in Operations /\ result # "none"
  /\ Returned
  /\ UNCHANGED <<events, status, result, owed, link, tags, lost, strayed>>

-----------------------------------------------------------------------------
(***************************************************************************)
(* expect_event and expect_scan_event                                      *)
(***************************************************************************)
\* next_event_or_halt: the deadline passes with no event in the queue.
EventTimedOut ==
  /\ pc \in Awaiting /\ events = <<>>
  /\ HaltFor("eventDeadline")
  /\ UNCHANGED <<events, status, retries, result, owed, link, tags, lost, strayed>>

\* Variant: the event is looked at and left in the queue.
PeekEvent == events # <<>> /\ UNCHANGED events

TakeEvent == events # <<>> /\ events' = Tail(events)

\* A scan's event must repeat the scan's result, unless that is a protocol error
\* and any failure will do, or one that no event matches.  The scan's own event
\* repeats its result, another may.
MayRepeat(tag) ==
  IF tag.completion /\ tag.current THEN {TRUE} ELSE BOOLEAN

\* Variant: whatever event comes is the one expected.
ExpectedAny(repeats) == TRUE

Expected(repeats) ==
  CASE pc = "expectInitialized" -> Head(events) = "initialized"
    [] pc = "expectScan"        -> /\ result # "unmatched"
                                   /\ Head(events) = EventOf("scan", result)
                                   /\ repeats \/ result = "protocol"
    [] pc = "expectConnected"   -> Head(events) = "connected"

UnexpectedEvent ==
  /\ pc \in Awaiting /\ TakeEvent
  /\ \E repeats \in MayRepeat(Head(tags)) : ~Expected(repeats)
  /\ tags' = Tail(tags)
  /\ HaltFor("unexpected")
  /\ UNCHANGED <<status, retries, result, owed, link, lost, strayed>>

ExpectedEvent == TakeEvent /\ \E repeats \in MayRepeat(Head(tags)) : Expected(repeats)

Initialized ==
  /\ pc = "expectInitialized" /\ ExpectedEvent
  /\ Begin("scan", Tail(tags))
  /\ UNCHANGED <<status, retries, owed, link, lost, reason, strayed>>

\* Variant: only a scan that failed uses up the retry.
RetryScanTwice ==
  /\ pc' = "pause"
  /\ retries' = IF result = "timeout" THEN 1 ELSE 0
  /\ UNCHANGED reason

\* One retry in all, of a scan that timed out or that missed the access point.
RetryScan ==
  /\ pc' = "pause"
  /\ retries' = 1
  /\ UNCHANGED reason

\* The access point was found; its security may not suit the configuration.
AccessPointFound ==
  /\ pc = "expectScan" /\ ExpectedEvent /\ result = "found"
  /\ \/ Begin("connect", Tail(tags)) /\ UNCHANGED reason
     \/ HaltFor("configuration") /\ tags' = Tail(tags) /\ UNCHANGED result
  /\ UNCHANGED <<status, retries, owed, link, lost, strayed>>

ScanFailed ==
  /\ pc = "expectScan" /\ ExpectedEvent /\ result # "found"
  /\ IF retries = 0 /\ result \in {"timeout", "notFound"}
     THEN RetryScan
     ELSE HaltFor(result) /\ UNCHANGED retries
  /\ tags' = Tail(tags)
  /\ UNCHANGED <<status, result, owed, link, lost, strayed>>

\* The session of the network runner begins.
Connected ==
  /\ pc = "expectConnected" /\ ExpectedEvent
  /\ tags' = Tail(tags)
  /\ pc' = "session" /\ status' = "running"
  /\ UNCHANGED <<retries, result, owed, link, lost, reason, strayed>>

-----------------------------------------------------------------------------
(***************************************************************************)
(* The scan and connection loops                                           *)
(***************************************************************************)
\* The 250 ms before a scan is repeated, or a connection.
PauseEnds ==
  /\ pc = "pause"
  /\ Begin("scan", tags)
  /\ UNCHANGED <<events, status, retries, owed, link, lost, reason, strayed>>

BackoffEnds ==
  /\ pc = "backoff"
  /\ Begin("connect", tags)
  /\ UNCHANGED <<events, status, retries, owed, link, lost, reason, strayed>>

SessionIgnores ==
  /\ pc = "session" /\ Ignore
  /\ tags' = Tail(tags)
  /\ UNCHANGED <<pc, retries, result, owed, link, lost, reason, strayed>>

\* A disconnection is followed by a reconnection, a failure is final.
SessionLeaves ==
  /\ pc = "session" /\ Leave
  /\ tags' = Tail(tags)
  /\ IF status' = "disconnected"
     THEN pc' = "backoff" /\ UNCHANGED reason
     ELSE HaltFor("backendFailed")
  /\ UNCHANGED <<retries, result, owed, link, lost, strayed>>

\* The network runner halts: no DHCP lease in time.
SessionHalts ==
  /\ pc = "session" /\ Halt
  /\ HaltFor("network")
  /\ UNCHANGED <<retries, result, owed, link, tags, lost, strayed>>

Halted == pc = "halted" /\ UNCHANGED vars

-----------------------------------------------------------------------------
Init ==
  /\ events = <<>> /\ tags = <<>>
  /\ status = "idle"
  /\ pc = "initialize" /\ retries = 0
  /\ result = "none" /\ owed = "none"
  /\ link = FALSE /\ lost = FALSE /\ strayed = FALSE
  /\ reason = "none"

Connectivity ==
  \/ OperationTimedOut \/ OperationReturns
  \/ EventTimedOut \/ UnexpectedEvent
  \/ Initialized \/ AccessPointFound \/ ScanFailed \/ Connected
  \/ PauseEnds \/ BackoffEnds
  \/ SessionIgnores \/ SessionLeaves

Next == Connectivity \/ SessionHalts \/ Radio \/ Halted

\* The task is polled again whenever its timer or its event is ready.  Nothing
\* is assumed of the radio, and a session need not halt.
Spec == Init /\ [][Next]_vars /\ WF_vars(Connectivity)

-----------------------------------------------------------------------------
(***************************************************************************)
(* Properties                                                              *)
(***************************************************************************)
\* Every variable keeps to its range, and each event has its tag.
TypeOK ==
  /\ events \in Seq(Kinds) /\ Len(events) <= EventCap
  /\ tags \in Seq(Tag) /\ Len(tags) = Len(events)
  /\ status \in Status \cup {"idle"}
  /\ pc \in Locations
  /\ retries \in {0, 1}
  /\ result \in Results
  /\ owed \in CompletionEvents \cup {"none"}
  /\ link \in BOOLEAN /\ lost \in BOOLEAN /\ strayed \in BOOLEAN
  /\ reason # "none" <=> pc = "halted"

\* The task halts over an event it did not expect only when the radio reported
\* a loss or a failure without a connection, or over the event of a scan whose
\* error no event matches: the events of scans that timed out or found nothing,
\* and what a session leaves behind, are never in the way of a later one
\* (CHANGELOG.md: "every completed scan consumes and validates its matching
\* WifiEvent").  A halted task keeps the result it halted with.
OnlyStraysUnexpected == reason = "unexpected" => strayed \/ result = "unmatched"

\* A session only ever sees events of its own connection: whatever the radio
\* posted twice or late before it, no session is ended by the loss of an
\* earlier connection.
SessionEventsCurrent ==
  pc = "session" => \A i \in DOMAIN tags : tags[i].current

\* Every wait has an end: from any point the task gets to a session or halts,
\* even if the radio answers nothing; it never scans or waits for ever.
EveryWaitEnds == (pc \notin {"session", "halted"}) ~> (pc \in {"session", "halted"})

\* A connection that the radio reports lost does not keep its session, unless
\* the queue was full and the report was dropped.
LossNoticed == (pc = "session" /\ ~link) ~> (pc # "session" \/ lost)
============================================================================
