----------------------------- MODULE Responder -----------------------------
(***************************************************************************)
(* What a datagram service with bounded buffers promises: it answers the   *)
(* requests it has accepted in the order it accepted them, each at most    *)
(* once, and gives up on a request only by dropping it, never by answering *)
(* out of turn.  It may drop any request that waits.                       *)
(***************************************************************************)
EXTENDS Naturals, Sequences, SequencesExt

CONSTANT Requests

VARIABLES waiting,   \* the requests accepted and not yet answered, in order
          answered   \* the requests answered so far

responderVars == <<waiting, answered>>

ResponderInit == waiting = <<>> /\ answered = {}

Accept(request) ==
  /\ request \notin answered \cup Range(waiting)
  /\ waiting' = Append(waiting, request)
  /\ UNCHANGED answered

GiveUp ==
  \E i \in DOMAIN waiting :
    /\ waiting' = RemoveAt(waiting, i)
    /\ UNCHANGED answered

Answer ==
  /\ waiting # <<>>
  /\ answered' = answered \cup {Head(waiting)}
  /\ waiting' = Tail(waiting)

ResponderNext == (\E request \in Requests : Accept(request)) \/ GiveUp \/ Answer

ResponderSpec == ResponderInit /\ [][ResponderNext]_responderVars
=============================================================================
