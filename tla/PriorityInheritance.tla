------------------------ MODULE PriorityInheritance ------------------------
(***************************************************************************)
(* rtos_priority_inheritance/src/main.rs: three tasks around one mutex.    *)
(* The low one sleeps while it holds it, the high one waits for it, and the*)
(* medium one keeps the CPU until the high one has it.                     *)
(*                                                                         *)
(* The kernel under test may be wrong in one way, `kernel`.  A tick is 10  *)
(* milliseconds.  A step takes no time, but up to Delay ticks may be lost  *)
(* while a task other than the busy one has the CPU.                       *)
(***************************************************************************)
EXTENDS Kernel

CONSTANTS
  Delay,    \* bound: ticks that pass in a step that is no wait
  MaxLoops  \* bound: MEDIUM_LOOPS (in the code the full range of u32)

\* Of the constants: RtosFixtures assumes it.
InheritanceAssumption ==
  /\ Delay \in Nat /\ MaxLoops \in Nat \ {0}
  /\ {"low", "medium", "high"} \subseteq Tasks

VARIABLES
  kernel,        \* what the kernel does about the mutex
  step,          \* the next statement of each task
  owner,         \* the owner of LOCK, or Idle
  waiting,       \* the tasks that wait for LOCK
  inheritances,  \* the kernel's diagnostics().priority_inheritances
  lowLocked, lowReleased, highAcquired,
  mediumLoops,
  verdict,       \* the marker that main prints, or "none"
  lost           \* ticks lost so far

lockVars == <<owner, waiting, inheritances>>
flags == <<lowLocked, lowReleased, highAcquired, mediumLoops, verdict>>
imageVars == <<kernel, step, lockVars, flags, lost>>
vars == <<kernelVars, imageVars>>

\* "conforming"; "restores late" leaves the low task its inherited priority;
\* "counts only" raises nothing, "raises only" counts nothing.
Kernels == {"conforming", "restores late", "counts only", "raises only"}

InheritancePriority == [low |-> 20, medium |-> 10, high |-> 2]

Init ==
  /\ KernelInit
  /\ kernel \in Kernels
  /\ step = [t \in {"main", "low", "medium", "high"} |-> "start"]
  /\ owner = Idle /\ waiting = {} /\ inheritances = 0
  /\ lowLocked = FALSE /\ lowReleased = FALSE /\ highAcquired = FALSE
  /\ mediumLoops = 0
  /\ verdict = "none"
  /\ lost = 0

At(t, s) == current = t /\ step[t] = s
Goto(t, s) == step' = [step EXCEPT ![t] = s]

-----------------------------------------------------------------------------
(***************************************************************************)
(* External: mutex_lock without limit and mutex_unlock                     *)
(***************************************************************************)
\* The wait of a better task raises the owner to its priority.
Inherit(t) ==
  /\ inheritances' = inheritances + (IF kernel = "raises only" THEN 0 ELSE 1)
  /\ priority' = IF kernel = "counts only" THEN priority
                 ELSE [priority EXCEPT ![owner] = priority[t]]

Lock(t) ==
  IF owner = Idle
  THEN /\ owner' = t
       /\ UNCHANGED <<kernelVars, waiting, inheritances>>
  ELSE /\ waiting' = waiting \union {t}
       /\ IF priority[t] < priority[owner] THEN Inherit(t)
          ELSE UNCHANGED <<priority, inheritances>>
       /\ UNCHANGED <<owner, timer>>
       /\ Dispatch(ready, priority')

\* The mutex passes to the waiting task; the kernel may switch to it at once.
Unlock(t) ==
  /\ priority' = IF kernel = "restores late" THEN priority
                 ELSE [priority EXCEPT ![t] = InheritancePriority[t]]
  /\ UNCHANGED <<inheritances, timer>>
  /\ \/ /\ waiting = {}
        /\ owner' = Idle
        /\ UNCHANGED <<waiting, current, ready>>
     \/ \E u \in waiting :
          /\ owner' = u
          /\ waiting' = waiting \ {u}
          /\ \/ ready' = Append(ready, u) /\ UNCHANGED current
             \/ Dispatch(ready \o <<u, t>>, priority')

-----------------------------------------------------------------------------
(***************************************************************************)
(* low_task                                                                *)
(***************************************************************************)
LowLocks ==
  /\ At("low", "start") /\ Lock("low") /\ Goto("low", "locked")
  /\ UNCHANGED <<kernel, flags, lost>>

LowSleeps ==
  /\ At("low", "locked")
  /\ lowLocked' = TRUE
  /\ Sleep(2)
  /\ Goto("low", "slept")
  /\ UNCHANGED <<kernel, lockVars, lowReleased, highAcquired, mediumLoops, verdict, lost>>

LowUnlocks ==
  /\ At("low", "slept") /\ Unlock("low") /\ Goto("low", "unlocked")
  /\ UNCHANGED <<kernel, flags, lost>>

LowReturns ==
  /\ At("low", "unlocked") /\ Leave /\ Goto("low", "returned")
  /\ lowReleased' = TRUE
  /\ UNCHANGED <<kernel, lockVars, lowLocked, highAcquired, mediumLoops, verdict, lost>>

-----------------------------------------------------------------------------
(***************************************************************************)
(* medium_task and high_task                                               *)
(***************************************************************************)
\* Variant: the medium task takes one turn only.
MediumReturnsSoon == mediumLoops > 0

MediumReturns == highAcquired

\* A turn of the loop takes a tick, so that the low task's sleep ends during it.
MediumLoops ==
  /\ At("medium", "start") /\ ~MediumReturns
  /\ mediumLoops' = IF mediumLoops < MaxLoops THEN mediumLoops + 1 ELSE mediumLoops
  /\ Tick(TRUE, FALSE)
  /\ UNCHANGED <<kernel, step, lockVars, lowLocked, lowReleased, highAcquired, verdict, lost>>

MediumEnds ==
  /\ At("medium", "start") /\ MediumReturns
  /\ Leave /\ Goto("medium", "returned")
  /\ UNCHANGED <<kernel, lockVars, flags, lost>>

HighLocks ==
  /\ At("high", "start") /\ Lock("high") /\ Goto("high", "locked")
  /\ UNCHANGED <<kernel, flags, lost>>

HighAcquires ==
  /\ At("high", "locked") /\ highAcquired' = TRUE
  /\ Goto("high", "acquired")
  /\ UNCHANGED <<kernelVars, kernel, lockVars, lowLocked, lowReleased, mediumLoops,
                 verdict, lost>>

HighUnlocks ==
  /\ At("high", "acquired") /\ Unlock("high") /\ Goto("high", "unlocked")
  /\ UNCHANGED <<kernel, flags, lost>>

HighReturns ==
  /\ At("high", "unlocked") /\ Leave /\ Goto("high", "returned")
  /\ UNCHANGED <<kernel, lockVars, flags, lost>>

-----------------------------------------------------------------------------
(***************************************************************************)
(* main                                                                    *)
(***************************************************************************)
MainSpawns(from, t, to) ==
  /\ At("main", from) /\ Spawn(t, InheritancePriority[t]) /\ Goto("main", to)
  /\ UNCHANGED <<kernel, lockVars, flags, lost>>

MainYields ==
  /\ At("main", "spawned low") /\ YieldNow /\ Goto("main", "yielded")
  /\ UNCHANGED <<kernel, lockVars, flags, lost>>

\* assert!(LOW_LOCKED)
MainAsserts ==
  /\ At("main", "yielded")
  /\ Goto("main", IF lowLocked THEN "asserted" ELSE "panicked")
  /\ UNCHANGED <<kernelVars, kernel, lockVars, flags, lost>>

\* request_reschedule does not take the CPU from main, sleep_ms does.
MainSleeps ==
  /\ At("main", "spawned both") /\ Sleep(20) /\ Goto("main", "slept")
  /\ UNCHANGED <<kernel, lockVars, flags, lost>>

MainReports ==
  /\ At("main", "slept")
  /\ verdict' = IF lowReleased /\ highAcquired /\ mediumLoops # 0 /\ inheritances # 0
                THEN "ok" ELSE "fail"
  /\ Goto("main", "reported")
  /\ UNCHANGED <<kernelVars, kernel, lockVars, lowLocked, lowReleased, highAcquired,
                 mediumLoops, lost>>

-----------------------------------------------------------------------------
Waits == current = Idle /\ \E t \in Tasks : timer[t] # 0

\* Time passes for the idle task, and now and then for another.  (With
\* Tick's interrupt_exit: TIMER_INT0.)
TimePasses ==
  /\ \/ Waits /\ UNCHANGED lost
     \/ ~Waits /\ verdict = "none" /\ lost < Delay /\ lost' = lost + 1
  /\ Tick(current # "main", FALSE)
  /\ UNCHANGED <<kernel, step, lockVars, flags>>

Low == LowLocks \/ LowSleeps \/ LowUnlocks \/ LowReturns
Medium == MediumLoops \/ MediumEnds
High == HighLocks \/ HighAcquires \/ HighUnlocks \/ HighReturns
Main ==
  \/ MainSpawns("start", "low", "spawned low")
  \/ MainYields
  \/ MainAsserts
  \/ MainSpawns("asserted", "medium", "spawned medium")
  \/ MainSpawns("spawned medium", "high", "spawned both")
  \/ MainSleeps
  \/ MainReports

Next == Low \/ Medium \/ High \/ Main \/ TimePasses

\* The CPU executes the task that has it, and time goes on.
Fairness == WF_vars(Next)

Spec == Init /\ [][Next]_vars /\ Fairness

-----------------------------------------------------------------------------
Conforming == kernel \in {"conforming", "restores late"}

\* OK is printed only on a kernel whose mutex raises its owner and says so: on
\* another the low task starves behind the medium one or nothing was counted.
OkEarned == verdict = "ok" => Conforming

\* The image prints OK exactly on such a kernel: always there, never elsewhere.
VerdictRight ==
  /\ Conforming => <>(verdict = "ok")
  /\ []OkEarned
=============================================================================
