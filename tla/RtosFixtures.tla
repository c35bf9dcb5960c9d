---------------------------- MODULE RtosFixtures ----------------------------
(***************************************************************************)
(* The campaign of the fixtures rtos_*: one of four images is flashed, and *)
(* it runs on a kernel that may be wrong in what the image is after.  The  *)
(* state of the other images stays as it is at reset, and their kernels are*)
(* the first of their kinds.                                               *)
(***************************************************************************)
EXTENDS Integers

CONSTANTS
  Tasks, Idle,
  MutexDelay, MaxLoops,                                     \* PriorityInheritance
  Registers, LoopTicks, FirstSleep, MainSleep, MaxCount,    \* RtosPreemption
  Budget, Period, Handoff, Duration, MinExhaustions, MinReplenishments,
  Lag, MaxTime,                                             \* RtosBudget
  WaitDelay, WaitTicks, SleepTicks                          \* SchedulerStress

VARIABLES
  image,  \* the image that was flashed
  \* the scheduler
  current, ready, priority, timer,
  \* PriorityInheritance
  mutexKernel, mutexStep, owner, waiting, inheritances, lowLocked, lowReleased,
  highAcquired, mediumLoops, verdict, lost,
  \* RtosPreemption
  saved, slices, sliceStep, ft0, frame, left, spoilt, loops, failures, preemptions,
  seenLoops, seenFailures, corrupted,
  \* RtosBudget
  budgetKernel, budgetStep, now, used, granted, refill, exhaustions, replenishments,
  start, nextHandoff, mainLoops, workerLoops, late,
  \* SchedulerStress
  waitKernel, line, waitStep, handle, live, issued, count, waitsFor, outcome, mutexOwner,
  timeouts, wakes, handing, swi, handler, armed, posted, inHandler, ranInHandler,
  timeoutOk, irqWakeOk, waitStarted, waitDone, waitCancelled, missed, markers

Inheritance == INSTANCE PriorityInheritance
  WITH Delay <- MutexDelay, kernel <- mutexKernel, step <- mutexStep
Preemption == INSTANCE RtosPreemption WITH step <- sliceStep
Enforcement == INSTANCE RtosBudget WITH kernel <- budgetKernel, step <- budgetStep
Stress == INSTANCE SchedulerStress
  WITH Delay <- WaitDelay, kernel <- waitKernel, step <- waitStep, verdict <- markers

ASSUME FixturesAssumption ==
  /\ Inheritance!KernelAssumption /\ Inheritance!InheritanceAssumption
  /\ Preemption!PreemptionAssumption
  /\ Enforcement!BudgetAssumption
  /\ Stress!StressAssumption

\* What belongs to one image only.  The scheduler, `verdict` and `lost` belong
\* to the image that runs.
inheritanceOwn == <<mutexKernel, mutexStep, owner, waiting, inheritances, lowLocked,
                    lowReleased, highAcquired, mediumLoops>>
preemptionOwn == <<saved, slices, sliceStep, ft0, frame, left, spoilt, loops, failures,
                   preemptions, seenLoops, seenFailures, corrupted>>
budgetOwn == <<budgetKernel, budgetStep, now, used, granted, refill, exhaustions,
               replenishments, start, nextHandoff, mainLoops, workerLoops, late>>
stressOwn == <<waitKernel, line, waitStep, handle, live, issued, count, waitsFor, outcome,
               mutexOwner, timeouts, wakes, handing, swi, handler, armed, posted, inHandler,
               ranInHandler, timeoutOk, irqWakeOk, waitStarted, waitDone, waitCancelled,
               missed, markers>>
shared == <<current, ready, priority, timer, verdict, lost>>
vars == <<image, shared, inheritanceOwn, preemptionOwn, budgetOwn, stressOwn>>

Init ==
  /\ image \in {"inheritance", "preemption", "budget", "stress"}
  /\ Inheritance!Init /\ Preemption!Init /\ Enforcement!Init /\ Stress!Init
  /\ image # "inheritance" => mutexKernel = "conforming"
  /\ image # "preemption" => saved = Registers /\ slices
  /\ image # "budget" => budgetKernel = "periodic"
  /\ image # "stress" => waitKernel = "conforming"

InheritanceRuns ==
  /\ image = "inheritance" /\ Inheritance!Next
  /\ UNCHANGED <<image, preemptionOwn, budgetOwn, stressOwn>>

PreemptionRuns ==
  /\ image = "preemption" /\ Preemption!Next
  /\ UNCHANGED <<image, lost, inheritanceOwn, budgetOwn, stressOwn>>

BudgetRuns ==
  /\ image = "budget" /\ Enforcement!Next
  /\ UNCHANGED <<image, lost, inheritanceOwn, preemptionOwn, stressOwn>>

StressRuns ==
  /\ image = "stress" /\ Stress!Next
  /\ UNCHANGED <<image, verdict, inheritanceOwn, preemptionOwn, budgetOwn>>

Next == InheritanceRuns \/ PreemptionRuns \/ BudgetRuns \/ StressRuns

\* The fairness that each image asks for.
BudgetTicks ==
  /\ image = "budget" /\ Enforcement!MainRuns
  /\ UNCHANGED <<image, lost, inheritanceOwn, preemptionOwn, stressOwn>>

Fairness == WF_vars(Next) /\ WF_vars(BudgetTicks)

Spec == Init /\ [][Next]_vars /\ Fairness

-----------------------------------------------------------------------------
\* Each image is a right test of its kernel: what VerdictRight of its module
\* says of the markers that its main prints.
InheritanceVerdict == image = "inheritance" => Inheritance!VerdictRight
PreemptionVerdict == image = "preemption" => Preemption!VerdictRight
BudgetVerdict == image = "budget" => Enforcement!VerdictRight
StressVerdict == image = "stress" => Stress!VerdictRight
=============================================================================
