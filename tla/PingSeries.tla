----------------------------- MODULE PingSeries -----------------------------
(***************************************************************************)
(* What a ping series of the Wi-Fi smoke test promises: it reports on each *)
(* of its samples once, in order, "ok" only for a sample that was          *)
(* answered, its statistics are those of its reports, and it ends.         *)
(***************************************************************************)
EXTENDS Integers, Sequences

CONSTANT Count  \* samples of a series

VARIABLES
  begun,     \* the series was started
  answered,  \* the samples whose answer reached the station in time
  reports,   \* what was reported, one outcome for each sample
  tx, rx,    \* requests sent and answers counted, of the samples reported
  errors     \* requests that could not be sent

vars == <<begun, answered, reports, tx, rx, errors>>

Outcomes == {"ok", "timeout", "tx_error"}

Init ==
  /\ begun = FALSE /\ answered = {} /\ reports = <<>>
  /\ tx = 0 /\ rx = 0 /\ errors = 0

Begin ==
  /\ ~begun
  /\ begun' = TRUE
  /\ UNCHANGED <<answered, reports, tx, rx, errors>>

\* The sample under way is answered.
Answer ==
  /\ begun /\ Len(reports) < Count
  /\ answered' = answered \cup {Len(reports) + 1}
  /\ UNCHANGED <<begun, reports, tx, rx, errors>>

\* The sample under way is judged.
Report(outcome) ==
  /\ begun /\ Len(reports) < Count
  /\ outcome = "ok" => Len(reports) + 1 \in answered
  /\ reports' = Append(reports, outcome)
  /\ tx' = tx + IF outcome = "tx_error" THEN 0 ELSE 1
  /\ rx' = rx + IF outcome = "ok" THEN 1 ELSE 0
  /\ errors' = errors + IF outcome = "tx_error" THEN 1 ELSE 0
  /\ UNCHANGED <<begun, answered>>

Next == Begin \/ Answer \/ \E outcome \in Outcomes : Report(outcome)

Spec == Init /\ [][Next]_vars /\ WF_vars(\E outcome \in Outcomes : Report(outcome))
=============================================================================
