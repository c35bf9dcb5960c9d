---------------------------- MODULE SmokeBringUp ----------------------------
(***************************************************************************)
(* The bring-up of the smoke test (wifi_init_smoke/src/main.rs): main      *)
(* initializes the radio, scans and connects, and hands the link to the    *)
(* network runner, which never returns, or gives up on one of many ways.   *)
(* The guard of the vendor log must have written it out on all of them.    *)
(*                                                                         *)
(* Every task of the image is cooperative: main, the radio runner and the  *)
(* vendor's workers pass the CPU on only by their own calls.  External: the*)
(* scheduler, which gives the tasks turns whatever their priorities; what  *)
(* the radio makes of an operation, and when it ends it; the workers.      *)
(***************************************************************************)
EXTENDS Integers

CONSTANTS
  Builds,      \* the features: disabled, open, personal or upstream
  EventDepth,  \* RADIO_EVENT_DEPTH
  MaxLines,    \* bound: lines that the workers log
  MaxStrays    \* bound: events that the radio posts on its own

ASSUME BringUpAssumption ==
  /\ Builds \subseteq {"disabled", "open", "personal", "upstream"}
  /\ EventDepth \in Nat \ {0} /\ {MaxLines, MaxStrays} \subseteq Nat

VARIABLES
  build, logging,  \* the features; rf-vendor-log is one of them
  traffic,  \* external: the runner never runs out of frames
  turn,     \* the task that has the CPU
  spawned,  \* the radio runner exists
  step,     \* what main does next
  result,   \* of the operation that main waits for, or "none"
  owed,     \* external: its event is still to be posted
  events,   \* how many are in the radio's queue
  strays,   \* how many the radio posted on its own
  sink,     \* where the vendor's lines go: "none", "buffered" or "drop"
  lines,    \* how many the workers logged
  due,      \* history: how many of them before the bring-up was over
  kept,     \* how many of them went into the ring, which VendorLog is about
  flushed,  \* the guard's field
  written   \* the lines that the flushes wrote to the UART

setting == <<build, logging, traffic>>
radioVars == <<result, owed, events, strays>>
logVars == <<sink, lines, due, kept, flushed, written>>
vars == <<setting, turn, spawned, step, radioVars, logVars>>

Native == build \in {"personal", "upstream"}
Operations == {"initialize", "scan", "connect"}
Awaiting == {"initialized", "scanned", "connected"}
Over == step \in {"returned", "session"}

Init ==
  /\ build \in Builds
  /\ logging \in BOOLEAN /\ (build = "disabled" => ~logging)
  /\ traffic \in BOOLEAN
  /\ turn = "main" /\ spawned = FALSE
  /\ step = "boot"
  /\ result = "none" /\ owed = FALSE /\ events = 0 /\ strays = 0
  /\ sink = "none" /\ lines = 0 /\ due = 0 /\ kept = 0
  /\ flushed = FALSE /\ written = 0

At(s) == turn = "main" /\ step = s

\* External: the next task in turn.
Following(task) ==
  CASE task = "main" -> IF spawned THEN "runner" ELSE "workers"
    [] task = "runner" -> "workers"
    [] task = "workers" -> "main"

-----------------------------------------------------------------------------
(***************************************************************************)
(* VendorLogGuard                                                          *)
(***************************************************************************)
\* flush: once, and from then on the workers' lines are dropped.
Flush ==
  /\ flushed' = TRUE
  /\ IF logging /\ ~flushed
     THEN written' = written + kept /\ sink' = "drop"
     ELSE UNCHANGED <<written, sink>>
  /\ UNCHANGED <<lines, due, kept>>

\* run_wifi_smoke returns, and the guard, if there is one, is dropped.  main
\* then spins and keeps the CPU.
Return ==
  /\ step' = "returned"
  /\ IF Native THEN Flush ELSE UNCHANGED logVars

-----------------------------------------------------------------------------
(***************************************************************************)
(* main                                                                    *)
(***************************************************************************)
\* The sink is installed before the runtime starts.
MainBoots ==
  /\ At("boot")
  /\ step' = "begin"
  /\ sink' = IF logging THEN "buffered" ELSE "none"
  /\ UNCHANGED <<setting, turn, spawned, radioVars, lines, due, kept, flushed, written>>

\* hisi_rf::init may fail; the open build begins with the first operation.
MainBegins ==
  /\ At("begin")
  /\ \/ build # "open" /\ Return
     \/ Native /\ step' = "spawn" /\ UNCHANGED logVars
     \/ build = "open" /\ step' = "initialize" /\ UNCHANGED logVars
  /\ UNCHANGED <<setting, turn, spawned, radioVars>>

MainSpawns ==
  /\ At("spawn")
  /\ \/ spawned' = TRUE /\ step' = "initialize" /\ UNCHANGED logVars
     \/ UNCHANGED spawned /\ Return
  /\ UNCHANGED <<setting, turn, radioVars>>

\* radio_block_on, of an operation or of next_event, which has no deadline: the
\* future is polled again after every turn of the others.
MainWaits ==
  /\ turn = "main"
  /\ \/ step \in Operations /\ result = "none"
     \/ step \in Awaiting /\ events = 0
  /\ turn' = Following("main")
  /\ UNCHANGED <<setting, spawned, step, radioVars, logVars>>

\* What follows an operation that succeeded.
AfterResult ==
  IF build = "open"
  THEN CASE step = "initialize" -> "scan"
         [] step = "scan"       -> "choose"
         [] step = "connect"    -> "probe"
  ELSE CASE step = "initialize" -> "initialized"
         [] step = "scan"       -> "scanned"
         [] step = "connect"    -> "connected"

OperationReturns ==
  /\ turn = "main" /\ step \in Operations /\ result # "none"
  /\ IF result = "ok" THEN step' = AfterResult /\ UNCHANGED logVars ELSE Return
  /\ result' = "none"
  /\ UNCHANGED <<setting, turn, spawned, owed, events, strays>>

\* write_radio_event prints whatever event comes.
EventTaken ==
  /\ turn = "main" /\ step \in {"initialized", "scanned"} /\ events > 0
  /\ events' = events - 1
  /\ step' = IF step = "initialized" THEN "scan" ELSE "choose"
  /\ UNCHANGED <<setting, turn, spawned, result, owed, strays, logVars>>

\* The access point is missing, the passphrase or its security does not do.
MainChooses ==
  /\ At("choose")
  /\ \/ step' = "connect" /\ UNCHANGED logVars
     \/ Return
  /\ UNCHANGED <<setting, turn, spawned, radioVars>>

\* Variant: the guard's drop is left to write the log.
HandOverUnflushed == step' = "session" /\ UNCHANGED logVars

\* network_runner::run does not return: the guard is never dropped.
HandOver == step' = "session" /\ Flush

ConnectionTaken ==
  /\ At("connected") /\ events > 0
  /\ events' = events - 1
  /\ HandOver
  /\ UNCHANGED <<setting, turn, spawned, result, owed, strays>>

\* run_arp_probe, whose waits give the others turns: as one step.
MainProbes ==
  /\ At("probe")
  /\ Return
  /\ UNCHANGED <<setting, turn, spawned, radioVars>>

\* The network runner polls the interface and sleeps.
SessionSleeps ==
  /\ At("session")
  /\ turn' = Following("main")
  /\ UNCHANGED <<setting, spawned, step, radioVars, logVars>>

-----------------------------------------------------------------------------
(***************************************************************************)
(* radio_runner_task                                                       *)
(***************************************************************************)
\* Variant: the runner yields when it finds nothing to do.
RunnerYieldsIdle(busy) == turn' = IF busy THEN "runner" ELSE Following("runner")

\* yield_now, after every step, busy or not.
RunnerYields(busy) == turn' = Following("runner")

\* External: an event is lost if the queue is full.
Posted == IF events < EventDepth THEN events + 1 ELSE events

\* run_once ends the operation, posts its event, or does something else.
Ends == result = "none" /\ step \in Operations /\ ~owed

RunnerEnds ==
  /\ turn = "runner" /\ Ends
  /\ result' \in {"ok", "error"} /\ owed' = TRUE
  /\ UNCHANGED <<events, strays>>
  /\ RunnerYields(TRUE)
  /\ UNCHANGED <<setting, spawned, step, logVars>>

RunnerPosts ==
  /\ turn = "runner" /\ owed
  /\ events' = Posted /\ owed' = FALSE
  /\ UNCHANGED <<result, strays>>
  /\ RunnerYields(TRUE)
  /\ UNCHANGED <<setting, spawned, step, logVars>>

\* A batch of frames, or nothing.
RunnerFeeds ==
  /\ turn = "runner"
  /\ RunnerYields(traffic)
  /\ UNCHANGED radioVars
  /\ UNCHANGED <<setting, spawned, step, logVars>>

-----------------------------------------------------------------------------
(***************************************************************************)
(* External: the vendor's workers                                          *)
(***************************************************************************)
WorkersBlock ==
  /\ turn = "workers"
  /\ turn' = Following("workers")
  /\ UNCHANGED <<setting, spawned, step, radioVars, logVars>>

\* A line goes to the sink of the moment (rf_log_buffered, rf_log_drop).
WorkersLog ==
  /\ turn = "workers" /\ lines < MaxLines
  /\ lines' = lines + 1
  /\ due' = IF Over THEN due ELSE due + 1
  /\ kept' = IF sink = "buffered" THEN kept + 1 ELSE kept
  /\ UNCHANGED <<setting, turn, spawned, step, radioVars, sink, flushed, written>>

\* A connection is lost, or the radio reports a failure.
WorkersStray ==
  /\ turn = "workers" /\ spawned /\ strays < MaxStrays
  /\ strays' = strays + 1
  /\ events' = Posted
  /\ UNCHANGED <<setting, turn, spawned, step, result, owed, logVars>>

\* In the open build the call itself waits for the workers.
WorkersEnd ==
  /\ turn = "workers" /\ build = "open" /\ Ends
  /\ result' \in {"ok", "error"}
  /\ UNCHANGED <<setting, turn, spawned, step, owed, events, strays, logVars>>

-----------------------------------------------------------------------------
Main ==
  \/ MainBoots \/ MainBegins \/ MainSpawns
  \/ MainWaits \/ OperationReturns \/ EventTaken
  \/ MainChooses \/ ConnectionTaken \/ MainProbes \/ SessionSleeps
Runner == RunnerEnds \/ RunnerPosts \/ RunnerFeeds
Workers == WorkersBlock \/ WorkersLog \/ WorkersStray \/ WorkersEnd

Next == Main \/ Runner \/ Workers

\* The CPU executes the task that has it, and the workers' turns end.  The
\* radio ends what it was asked, at the latest by the operation's timeout, and
\* posts its event: if it is stepped again and again.
Fairness ==
  /\ WF_vars(Main) /\ WF_vars(Runner) /\ WF_vars(WorkersBlock)
  /\ SF_vars(RunnerEnds) /\ SF_vars(RunnerPosts) /\ SF_vars(WorkersEnd)

Spec == Init /\ [][Next]_vars /\ Fairness

-----------------------------------------------------------------------------
\* On every way out of the bring-up, the one that never returns included, the
\* guard has written the log: each line of the bring-up, and none twice.
LogWritten == Native /\ logging /\ Over => written = due

\* What Cargo.toml (lines 28-29) says of rf-vendor-log, whatever the build: the
\* diagnostics are kept, and flushed to UART0 "after the radio operation".
LogFlushed == step = "returned" => written = kept

\* The bring-up ends, though main and the runner only poll and yield; and in a
\* session the runner has its turns for ever.
BringUpServed ==
  /\ <>Over
  /\ (step = "session") ~> []<>(turn = "runner")
=============================================================================
