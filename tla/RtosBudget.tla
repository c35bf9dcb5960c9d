----------------------------- MODULE RtosBudget -----------------------------
(***************************************************************************)
(* rtos_budget_enforcement/src/main.rs: a worker of the best priority never*)
(* gives up the CPU; its budget must give it back to main, which hands it  *)
(* over again once per period and at the end looks at the kernel's counts. *)
(*                                                                         *)
(* The kernel under test refills a budget that was used up at the end of   *)
(* the period, or a period after the worker began to use it, or a period   *)
(* after it was used up.  Or it does not enforce it: it never takes the CPU*)
(* back, never refills, or refills after two periods only.                 *)
(* A tick is a millisecond, and main is at most Lag of them late.          *)
(***************************************************************************)
EXTENDS Kernel

CONSTANTS
  Budget, Period,   \* BudgetSpec::try_new(5, 20)
  Handoff,          \* the distance of main's handoffs
  Duration,         \* how long main loops
  MinExhaustions, MinReplenishments,  \* what the verdict asks for
  Lag,              \* bound: ticks between two steps of main
  MaxTime           \* bound: the clock, for a worker that never stops

\* Of the constants: RtosFixtures assumes it.
BudgetAssumption ==
  /\ {Budget, Period, Handoff, Duration, Lag, MaxTime} \subseteq Nat \ {0}
  /\ Budget < Period
  /\ {MinExhaustions, MinReplenishments} \subseteq Nat

VARIABLES
  kernel,      \* how the kernel enforces the budget
  step,        \* main's next statement
  now,         \* monotonic_ms
  used,        \* of the budget
  granted,     \* when the worker began to use it
  refill,      \* when a budget that is used up will be whole again
  exhaustions, replenishments,  \* the kernel's diagnostics
  start, nextHandoff, mainLoops, workerLoops,
  verdict,     \* the marker that main prints, or "none"
  late         \* ticks since main's last step

budgetVars == <<used, granted, refill, exhaustions, replenishments>>
mainVars == <<step, start, nextHandoff, mainLoops, verdict>>
imageVars == <<kernel, now, budgetVars, mainVars, workerLoops, late>>
vars == <<kernelVars, imageVars>>

Enforcing == {"periodic", "from grant", "from exhaustion"}
Kernels == Enforcing \union {"no exhaustion", "no refill", "two periods"}

Init ==
  /\ KernelInit
  /\ kernel \in Kernels
  /\ step = "spawn"
  /\ now = 0
  /\ used = 0 /\ granted = 0 /\ refill = 0 /\ exhaustions = 0 /\ replenishments = 0
  /\ start = 0 /\ nextHandoff = 0 /\ mainLoops = 0 /\ workerLoops = 0
  /\ verdict = "none"
  /\ late = 0

At(s) == current = "main" /\ step = s

-----------------------------------------------------------------------------
(***************************************************************************)
(* External: the budget of the worker                                      *)
(***************************************************************************)
Throttled == used = Budget

\* When a budget that is used up at time t is whole again.
RefillAt(t) ==
  CASE kernel = "periodic" -> Period * (t \div Period + 1)
    [] kernel = "from grant" -> granted + Period
    [] kernel = "two periods" -> t + 2 * Period
    [] OTHER -> t + Period

\* busy_worker runs for a tick, and keeps the CPU while there is budget.
WorkerRuns ==
  /\ current = "worker" /\ now < MaxTime
  /\ used + 1 < Budget \/ kernel = "no exhaustion"
  /\ now' = now + 1
  /\ workerLoops' = 1
  /\ used' = IF used + 1 < Budget THEN used + 1 ELSE used
  /\ UNCHANGED <<kernelVars, kernel, granted, refill, exhaustions, replenishments,
                 mainVars, late>>

\* The last tick of the budget: TIMER_INT0 takes the CPU from the worker.
WorkerThrottled ==
  /\ current = "worker"
  /\ used + 1 = Budget /\ kernel # "no exhaustion"
  /\ now' = now + 1
  /\ workerLoops' = 1
  /\ used' = Budget
  /\ exhaustions' = exhaustions + 1
  /\ refill' = RefillAt(now')
  /\ Leave
  /\ UNCHANGED <<kernel, granted, replenishments, mainVars, late>>

\* A tick while main, which is cooperative, has the CPU: a refill makes the
\* worker ready, no more.
MainRuns ==
  LET t == now + 1 IN
  /\ current = "main"
  /\ verdict = "none" /\ late < Lag
  /\ now' = t
  /\ late' = late + 1
  /\ IF Throttled /\ t >= refill /\ kernel # "no refill"
     THEN /\ used' = 0
          /\ replenishments' = replenishments + 1
          /\ ready' = Append(ready, "worker")
     ELSE UNCHANGED <<used, replenishments, ready>>
  /\ UNCHANGED <<kernel, current, priority, timer, granted, refill, exhaustions,
                 mainVars, workerLoops>>

-----------------------------------------------------------------------------
(***************************************************************************)
(* main                                                                    *)
(***************************************************************************)
MainSpawns ==
  /\ At("spawn") /\ Spawn("worker", 1)
  /\ step' = "yield" /\ late' = 0
  /\ UNCHANGED <<kernel, now, budgetVars, start, nextHandoff, mainLoops, verdict, workerLoops>>

MainYields(from, to) ==
  /\ At(from) /\ YieldNow
  /\ granted' = IF current' = "worker" THEN now ELSE granted
  /\ step' = to /\ late' = 0
  /\ UNCHANGED <<kernel, now, used, refill, exhaustions, replenishments, start, mainLoops,
                 verdict, workerLoops>>

MainYieldsOnce == MainYields("yield", "begin") /\ UNCHANGED nextHandoff

MainBegins ==
  /\ At("begin")
  /\ start' = now
  /\ nextHandoff' = now + Handoff
  /\ step' = "loop" /\ late' = 0
  /\ UNCHANGED <<kernelVars, kernel, now, budgetVars, mainLoops, verdict, workerLoops>>

\* The head of the loop, the only exit from it.
MainLoops ==
  /\ At("loop")
  /\ IF now - start < Duration
     THEN mainLoops' = 1 /\ step' = "body"
     ELSE step' = "report" /\ UNCHANGED mainLoops
  /\ late' = 0
  /\ UNCHANGED <<kernelVars, kernel, now, budgetVars, start, nextHandoff, verdict, workerLoops>>

MainGoesOn ==
  /\ At("body") /\ now < nextHandoff
  /\ step' = "loop" /\ late' = 0
  /\ UNCHANGED <<kernelVars, kernel, now, budgetVars, start, nextHandoff, mainLoops,
                 verdict, workerLoops>>

\* Variant: main hands the CPU over at every turn once a period has passed.
HandoffNotMoved == nextHandoff

NextHandoff == nextHandoff + Handoff

\* The worker runs within yield_now; main counts on when it returns.
MainHandsOff ==
  /\ now >= nextHandoff
  /\ MainYields("body", "loop")
  /\ nextHandoff' = NextHandoff

MainReports ==
  /\ At("report")
  /\ verdict' = IF /\ mainLoops # 0 /\ workerLoops # 0
                   /\ exhaustions >= MinExhaustions
                   /\ replenishments >= MinReplenishments
                THEN "ok" ELSE "fail"
  /\ step' = "reported" /\ late' = 0
  /\ UNCHANGED <<kernelVars, kernel, now, budgetVars, start, nextHandoff, mainLoops, workerLoops>>

Main ==
  \/ MainSpawns \/ MainYieldsOnce \/ MainBegins
  \/ MainLoops \/ MainGoesOn \/ MainHandsOff \/ MainReports

Next == Main \/ WorkerRuns \/ WorkerThrottled \/ MainRuns

\* The CPU executes the task that has it, and time does not stop.
Fairness == WF_vars(Next) /\ WF_vars(MainRuns)

Spec == Init /\ [][Next]_vars /\ Fairness

-----------------------------------------------------------------------------
\* The image prints OK exactly on a kernel that enforces the budget: always on
\* such a kernel, whichever way it refills, wherever its periods begin and though
\* main is up to Lag ticks late, and never on another.
VerdictRight ==
  /\ kernel \in Enforcing => <>(verdict = "ok")
  /\ [](verdict = "ok" => kernel \in Enforcing)
=============================================================================
