-------------------------- MODULE SmokeBringUpProofs --------------------------
(***************************************************************************)
(* The guard of the vendor log writes the whole log, however the bring-up  *)
(* ends (LogWritten): for any number of lines, of events of the radio's    *)
(* own, and for every size of the event queue.                             *)
(***************************************************************************)
EXTENDS SmokeBringUp, TLAPS

(***************************************************************************)
(* The inductive invariant.  LogWritten speaks of the end only, and then   *)
(* the ring must have been complete: so no line may come before the sink,  *)
(* every line must go to the ring until the flush, and the flush must be   *)
(* the step that ends the bring-up.                                        *)
(***************************************************************************)
LogTypes ==
  /\ {lines, due, kept, written} \subseteq Nat
  /\ flushed \in BOOLEAN

\* Until the sink is installed no task but main has run.
Unstarted ==
  step = "boot" => turn = "main" /\ ~flushed /\ due = 0 /\ kept = 0 /\ written = 0

\* During the bring-up the ring takes every line and nothing is written.
Collected ==
  step # "boot" /\ ~Over =>
    /\ ~flushed /\ written = 0
    /\ logging => sink = "buffered" /\ kept = due

LogInv == LogTypes /\ (Native => Unstarted /\ Collected /\ LogWritten)

\* What follows an operation goes on with the bring-up.
LEMMA GoesOn ==
  ASSUME step \in Operations
  PROVE  AfterResult \notin {"boot", "returned", "session"}
  BY DEF Operations, AfterResult

\* The initial states have an empty log.
LEMMA InitLogInv == Init => LogInv
<1>. SUFFICES ASSUME Init PROVE LogInv
  OBVIOUS
<1>1. {lines, due, kept, written} \subseteq Nat /\ step = "boot" /\ ~Over
  BY DEF Init, Over
<1>2. flushed = FALSE /\ turn = "main" /\ due = 0 /\ kept = 0 /\ written = 0
  BY DEF Init
<1>3. LogTypes /\ Unstarted
  BY <1>1, <1>2, Zenon DEF LogTypes, Unstarted
<1>. QED
  BY <1>1, <1>3 DEF LogInv, Collected, LogWritten

\* The end of the bring-up, with the flush, from any point of it.
LEMMA FlushedEnd ==
  ASSUME LogInv, Native, step # "boot", ~Over,
         Flush, step' \in {"returned", "session"}, UNCHANGED setting
  PROVE  LogInv'
<1>1. flushed' = TRUE /\ lines' = lines /\ due' = due /\ kept' = kept
  BY DEF Flush
<1>2. /\ ~flushed /\ written = 0
      /\ logging => kept = due
  BY DEF LogInv, Collected
<1>3. logging => written' = due
  BY <1>2 DEF Flush, LogInv, LogTypes
<1>4. LogTypes'
  BY <1>1 DEF Flush, LogInv, LogTypes
<1>. QED
  BY <1>1, <1>3, <1>4
     DEF LogInv, Unstarted, Collected, LogWritten, Over, Native, setting

\* A step of main that goes on with the bring-up and leaves the log alone.
LEMMA QuietStep ==
  ASSUME LogInv, step # "boot", ~Over, UNCHANGED <<setting, logVars>>,
         step' \notin {"boot", "returned", "session"}
  PROVE  LogInv'
  BY DEF LogInv, LogTypes, Unstarted, Collected, LogWritten, Over, Native, setting, logVars

\* A step that changes neither log nor program point.
LEMMA IdleStep ==
  ASSUME LogInv, step # "boot", UNCHANGED <<setting, step, logVars>>
  PROVE  LogInv'
  BY DEF LogInv, LogTypes, Unstarted, Collected, LogWritten, Over, Native, setting, logVars

\* run_wifi_smoke returns.
LEMMA ReturnStep ==
  ASSUME LogInv, step # "boot", ~Over, Return, UNCHANGED setting
  PROVE  LogInv'
<1>1. CASE Native
  BY <1>1, FlushedEnd DEF Return
<1>2. CASE ~Native
  BY <1>2 DEF Return, LogInv, LogTypes, Native, setting, logVars
<1>. QED
  BY <1>1, <1>2

\* The inductive step, one action at a time.
LEMMA StepLogInv == LogInv /\ [Next]_vars => LogInv'
<1>. SUFFICES ASSUME LogInv, [Next]_vars
              PROVE  LogInv'
  OBVIOUS
<1>1. CASE MainBoots
  BY <1>1 DEF MainBoots, At, LogInv, LogTypes, Unstarted, Collected, LogWritten, Over,
     Native, setting
<1>2. CASE MainBegins
  <2>1. step = "begin" /\ UNCHANGED setting
    BY <1>2 DEF MainBegins, At
  <2>2. CASE Return
    BY <2>1, <2>2, ReturnStep DEF Over
  <2>3. CASE UNCHANGED logVars /\ step' \in {"spawn", "initialize"}
    BY <2>1, <2>3, QuietStep DEF Over
  <2>. QED
    BY <1>2, <2>2, <2>3 DEF MainBegins
<1>3. CASE MainSpawns
  <2>1. step = "spawn" /\ UNCHANGED setting
    BY <1>3 DEF MainSpawns, At
  <2>2. CASE Return
    BY <2>1, <2>2, ReturnStep DEF Over
  <2>3. CASE UNCHANGED logVars /\ step' = "initialize"
    BY <2>1, <2>3, QuietStep DEF Over
  <2>. QED
    BY <1>3, <2>2, <2>3 DEF MainSpawns
<1>4. CASE MainWaits
  BY <1>4, IdleStep DEF MainWaits, Operations, Awaiting
<1>5. CASE OperationReturns
  <2>1. step \in Operations /\ UNCHANGED setting
    BY <1>5 DEF OperationReturns
  <2>2. step # "boot" /\ ~Over
    BY <2>1 DEF Operations, Over
  <2>3. CASE Return
    BY <2>1, <2>2, <2>3, ReturnStep
  <2>4. CASE UNCHANGED logVars /\ step' = AfterResult
    BY <2>1, <2>2, <2>4, GoesOn, QuietStep
  <2>. QED
    BY <1>5, <2>3, <2>4 DEF OperationReturns
<1>6. CASE EventTaken
  BY <1>6, QuietStep DEF EventTaken, Over
<1>7. CASE MainChooses
  <2>1. step = "choose" /\ UNCHANGED setting
    BY <1>7 DEF MainChooses, At
  <2>2. CASE Return
    BY <2>1, <2>2, ReturnStep DEF Over
  <2>3. CASE UNCHANGED logVars /\ step' = "connect"
    BY <2>1, <2>3, QuietStep DEF Over
  <2>. QED
    BY <1>7, <2>2, <2>3 DEF MainChooses
<1>8. CASE ConnectionTaken
  <2>1. step = "connected" /\ step' = "session" /\ Flush /\ UNCHANGED setting
    BY <1>8 DEF ConnectionTaken, HandOver, At
  <2>2. CASE Native
    BY <2>1, <2>2, FlushedEnd DEF Over
  <2>3. CASE ~Native
    BY <2>1, <2>3 DEF Flush, LogInv, LogTypes, Native, setting
  <2>. QED
    BY <2>2, <2>3
<1>9. CASE MainProbes
  BY <1>9, ReturnStep DEF MainProbes, At, Over
<1>10. CASE SessionSleeps
  BY <1>10, IdleStep DEF SessionSleeps, At
<1>11. CASE WorkersLog
  <2>1. /\ turn = "workers" /\ lines' = lines + 1 /\ UNCHANGED <<setting, step, flushed, written, sink>>
        /\ due' = IF Over THEN due ELSE due + 1
        /\ kept' = IF sink = "buffered" THEN kept + 1 ELSE kept
    BY <1>11 DEF WorkersLog
  <2>2. LogTypes'
    BY <2>1 DEF LogInv, LogTypes
  <2>. QED
    BY <2>1, <2>2 DEF LogInv, Unstarted, Collected, LogWritten, Over, Native, setting
<1>12. CASE WorkersBlock \/ WorkersStray \/ WorkersEnd \/ Runner
  <2>1. turn # "main" /\ UNCHANGED <<setting, step, logVars>>
    BY <1>12 DEF WorkersBlock, WorkersStray, WorkersEnd, Runner, RunnerEnds, RunnerPosts, RunnerFeeds
  <2>2. CASE Native
    BY <2>1, <2>2, IdleStep DEF LogInv, Unstarted
  <2>3. CASE ~Native
    BY <2>1, <2>3 DEF LogInv, LogTypes, Native, setting, logVars
  <2>. QED
    BY <2>2, <2>3
<1>13. CASE UNCHANGED vars
  BY <1>13 DEF vars, LogInv, LogTypes, Unstarted, Collected, LogWritten, Over, Native,
     setting, logVars
<1>. QED
  BY <1>1, <1>2, <1>3, <1>4, <1>5, <1>6, <1>7, <1>8, <1>9, <1>10, <1>11, <1>12, <1>13
     DEF Next, Main, Workers

\* On every way out of the bring-up, network_runner::run included, which never
\* returns, the vendor log has been written: each line, and none twice.
THEOREM LogIsWritten == Spec => []LogWritten
<1>1. LogInv => LogWritten
  BY DEF LogInv, LogWritten
<1>. QED
  BY <1>1, InitLogInv, StepLogInv, PTL DEF Spec
=============================================================================
