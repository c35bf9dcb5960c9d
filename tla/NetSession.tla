----------------------------- MODULE NetSession -----------------------------
(***************************************************************************)
(* What the network runner promises its caller: it goes on running until   *)
(* it consumes, in the order the radio posted them, an event that ends the *)
(* session, and then reports exactly that event.  Any other event is       *)
(* consumed and ignored.  The runner may also stop for good on its own     *)
(* (`halt`), which is not an exit.                                         *)
(***************************************************************************)
EXTENDS Naturals, Sequences

CONSTANT EventCap  \* room in the radio's event queue

ASSUME EventCapAssumption == EventCap \in Nat \ {0}

VARIABLES events,  \* radio events posted and not yet consumed, oldest first
          status   \* "running", the event the session ended with, or "halted"

sessionVars == <<events, status>>

\* Variant: a lost connection is taken for an event of no interest.
ExitEventsFailedOnly == {"failed"}

\* The events that end a session, and all events the radio posts.
ExitEvents == {"disconnected", "failed"}
RadioEvents == {"disconnected", "failed", "other"}

Status == {"running", "halted", "disconnected", "failed"}

SessionInit ==
  /\ events = <<>>
  /\ status = "running"

\* `halt` spins inside the executor, which the radio's task shares: a halted
\* runner gets no more events.
Post(e) ==
  /\ status # "halted"
  /\ Len(events) < EventCap
  /\ events' = Append(events, e)
  /\ UNCHANGED status

Ignore ==
  /\ status = "running"
  /\ events # <<>>
  /\ Head(events) \notin ExitEvents
  /\ events' = Tail(events)
  /\ UNCHANGED status

Leave ==
  /\ status = "running"
  /\ events # <<>>
  /\ Head(events) \in ExitEvents
  /\ events' = Tail(events)
  /\ status' = Head(events)

Halt ==
  /\ status = "running"
  /\ status' = "halted"
  /\ UNCHANGED events

Consume == Ignore \/ Leave

SessionNext == (\E e \in RadioEvents : Post(e)) \/ Consume \/ Halt

SafeSession == SessionInit /\ [][SessionNext]_sessionVars

\* A session that is not halted does not leave an event in the queue.
SessionSpec == SafeSession /\ WF_sessionVars(Consume)
=============================================================================
