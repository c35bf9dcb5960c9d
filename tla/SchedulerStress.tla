-------------------------- MODULE SchedulerStress --------------------------
(***************************************************************************)
(* rtos_scheduler_stress/src/main.rs: a wait that must time out, a wait    *)
(* that an interrupt handler must end, and the life of a semaphore, a task *)
(* and a mutex with the calls that a kernel must refuse.                   *)
(*                                                                         *)
(* The kernel under test may be wrong in one way, `kernel`.  A task that   *)
(* yields, waits, sleeps or returns pends the software interrupt, and the  *)
(* task that follows it is chosen at the end of SOFT_INT0.  A tick is 5    *)
(* milliseconds; up to Delay of them pass outside the idle task.           *)
(***************************************************************************)
EXTENDS Kernel, FiniteSets

CONSTANTS
  Delay,      \* bound: ticks that pass while a task has the CPU
  WaitTicks,  \* the limit of timeout_task's wait
  SleepTicks  \* main's sleep

\* Of the constants: RtosFixtures assumes it.
StressAssumption ==
  /\ Delay \in Nat
  /\ {WaitTicks, SleepTicks} \subseteq Nat \ {0}

VARIABLES
  kernel,     \* what is wrong with the kernel
  line,       \* main: the next line of Script
  step,       \* the next statement of each other task
  handle,     \* the handles that main and the tasks know, by name
  live,       \* kernel: the handles in use
  issued,     \* kernel: how many handles of each kind were issued
  count,      \* kernel: the semaphores with a token, by handle
  waitsFor,   \* kernel: the semaphore a task waits for, or NoHandle
  outcome,    \* kernel: how the last wait of a task ended, or "none"
  mutexOwner, \* kernel: the owner of the mutex, or Idle
  timeouts, wakes,  \* the kernel's diagnostics
  handing,    \* kernel: the running task gives up the CPU: "yield", "block" or "no"
  swi,        \* the software interrupt is pending
  handler,    \* where SOFT_INT0 is, or "off"
  armed, posted, inHandler, ranInHandler,           \* IRQ_WAKE_ARMED, ...
  timeoutOk, irqWakeOk, waitStarted, waitDone, waitCancelled,
  missed,     \* the lines of Script that went otherwise than expected
  verdict,    \* the two markers that main prints, each "none" at first
  lost        \* ticks lost so far

objectVars == <<handle, live, issued, count, mutexOwner>>
waitVars == <<waitsFor, outcome, timeouts, wakes>>
irqVars == <<handing, swi, handler>>
irqFlags == <<armed, posted, inHandler, ranInHandler>>
taskFlags == <<timeoutOk, irqWakeOk, waitStarted, waitDone, waitCancelled>>
imageVars == <<kernel, line, step, objectVars, waitVars, irqVars, irqFlags, taskFlags,
               missed, verdict, lost>>
vars == <<kernelVars, imageVars>>

NoHandle == <<"none", 0>>
Workers == {"timeout", "irq", "resource", "replacement"}
Semaphores == {"timeout semaphore", "irq semaphore", "semaphore", "second semaphore"}
Names == Workers \union Semaphores \union {"mutex"}

\* What the first and what the second marker is about.
WaitFaults == {"no timeout", "timeout acquires", "wake lost", "nested switch"}
LifecycleFaults == {"busy destroyed", "stale accepted", "handle reused", "no cancel",
                    "cancelled acquires"}
Kernels == {"conforming"} \union WaitFaults \union LifecycleFaults

Kind(name) == IF name \in Workers THEN "task" ELSE
              IF name \in Semaphores THEN "semaphore" ELSE "mutex"

Init ==
  /\ KernelInit
  /\ kernel \in Kernels
  /\ line = 1
  /\ step = [t \in Workers |-> "start"]
  /\ handle = [n \in Names |->
       CASE n = "timeout semaphore" -> <<"semaphore", 1>>
         [] n = "irq semaphore" -> <<"semaphore", 2>>
         [] OTHER -> NoHandle]
  /\ live = {<<"semaphore", 1>>, <<"semaphore", 2>>}
  /\ issued = [task |-> 0, semaphore |-> 2, mutex |-> 0]
  /\ count = {}
  /\ waitsFor = [t \in Workers |-> NoHandle]
  /\ outcome = [t \in Workers |-> "none"]
  /\ mutexOwner = Idle
  /\ timeouts = 0 /\ wakes = 0
  /\ handing = "no" /\ swi = FALSE /\ handler = "off"
  /\ armed = FALSE /\ posted = FALSE /\ inHandler = FALSE /\ ranInHandler = FALSE
  /\ timeoutOk = FALSE /\ irqWakeOk = FALSE
  /\ waitStarted = FALSE /\ waitDone = FALSE /\ waitCancelled = FALSE
  /\ missed = {}
  /\ verdict = [scheduler |-> "none", lifecycle |-> "none"]
  /\ lost = 0

\* A task executes: it has the CPU, no handler interrupts it, and it has not
\* asked for a switch.
Runs(t) == current = t /\ handler = "off" /\ handing = "no"
At(t, s) == Runs(t) /\ step[t] = s
Goto(t, s) == step' = [step EXCEPT ![t] = s]

\* The running task asks for a switch.
HandOff(how) == handing' = how /\ swi' = TRUE /\ UNCHANGED handler

-----------------------------------------------------------------------------
(***************************************************************************)
(* External: semaphores, handles and the mutex                             *)
(***************************************************************************)
\* A kernel without generations takes the first free slot again.
NewHandle(kind) ==
  IF kernel # "handle reused" THEN <<kind, issued[kind] + 1>>
  ELSE LET free == {n \in 1 .. issued[kind] + 1 : <<kind, n>> \notin live}
       IN  <<kind, CHOOSE n \in free : \A m \in free : n <= m>>

Issue(name) ==
  LET h == NewHandle(Kind(name)) IN
  /\ handle' = [handle EXCEPT ![name] = h]
  /\ live' = live \union {h}
  /\ issued' = [issued EXCEPT ![Kind(name)] = @ + 1]

Valid(name) == handle[name] \in live \/ kernel = "stale accepted"

Waiters(name) == {t \in Workers : waitsFor[t] = handle[name]}

Busy(name) ==
  /\ kernel # "busy destroyed"
  /\ IF name = "mutex" THEN mutexOwner # Idle ELSE Waiters(name) # {}

\* semaphore_down: it takes a token or waits, `ticks` at most, 0 for ever.
Down(t, name, ticks) ==
  IF handle[name] \in count
  THEN /\ count' = count \ {handle[name]}
       /\ outcome' = [outcome EXCEPT ![t] = "acquired"]
       /\ UNCHANGED <<kernelVars, waitsFor, irqVars>>
  ELSE /\ waitsFor' = [waitsFor EXCEPT ![t] = handle[name]]
       /\ timer' = [timer EXCEPT ![t] = IF kernel = "no timeout" THEN 0 ELSE ticks]
       /\ HandOff("block")
       /\ UNCHANGED <<current, ready, priority, count, outcome>>

\* semaphore_up: it ends the wait of a task or leaves a token.
Up(name) ==
  IF Waiters(name) = {}
  THEN count' = count \union {handle[name]} /\ UNCHANGED <<ready, waitVars>>
  ELSE \E t \in Waiters(name) :
         /\ waitsFor' = [waitsFor EXCEPT ![t] = NoHandle]
         /\ outcome' = [outcome EXCEPT ![t] = "acquired"]
         /\ wakes' = wakes + 1
         /\ ready' = Append(ready, t)
         /\ UNCHANGED <<count, timeouts>>

\* A task can be cancelled until it has seen how its wait ended.
Cancellable(t) ==
  \/ waitsFor[t] # NoHandle
  \/ outcome[t] # "none" /\ kernel # "no cancel"

-----------------------------------------------------------------------------
(***************************************************************************)
(* The spawned tasks                                                       *)
(***************************************************************************)
Waits(t, name, ticks) ==
  /\ At(t, "start")
  /\ Down(t, name, ticks)
  /\ Goto(t, "waited")
  /\ waitStarted' = (waitStarted \/ t = "resource")
  /\ UNCHANGED <<kernel, line, handle, live, issued, mutexOwner, timeouts, wakes,
                 irqFlags, timeoutOk, irqWakeOk, waitDone, waitCancelled, missed,
                 verdict, lost>>

\* The task returns: its handle is not valid any more.
Returns(t) ==
  /\ Goto(t, "returned")
  /\ live' = live \ {handle[t]}
  /\ outcome' = [outcome EXCEPT ![t] = "none"]
  /\ UNCHANGED <<kernel, line, handle, issued, count, mutexOwner, waitsFor, timeouts,
                 wakes, armed, posted, inHandler, waitStarted, missed, verdict, lost>>

TimeoutEnds ==
  /\ At("timeout", "waited")
  /\ timeoutOk' = (outcome["timeout"] = "timed out")
  /\ Returns("timeout") /\ HandOff("block")
  /\ UNCHANGED <<kernelVars, ranInHandler, irqWakeOk, waitDone, waitCancelled>>

\* irq_woken_task, on a wrong kernel from within the handler.
IrqEnds ==
  /\ step["irq"] = "waited"
  /\ ranInHandler' = (ranInHandler \/ inHandler)
  /\ irqWakeOk' = (outcome["irq"] = "acquired")
  /\ \/ Runs("irq") /\ HandOff("block") /\ UNCHANGED kernelVars
     \/ /\ kernel = "nested switch" /\ handler = "posted" /\ outcome["irq"] # "none"
        /\ ready' = Remove(ready, "irq")
        /\ UNCHANGED <<current, priority, timer, irqVars>>
  /\ Returns("irq")
  /\ UNCHANGED <<timeoutOk, waitDone, waitCancelled>>

ResourceEnds ==
  /\ At("resource", "waited")
  /\ waitCancelled' = (outcome["resource"] = "timed out")
  /\ waitDone' = TRUE
  /\ Returns("resource") /\ HandOff("block")
  /\ UNCHANGED <<kernelVars, ranInHandler, timeoutOk, irqWakeOk>>

ReplacementEnds ==
  /\ At("replacement", "start")
  /\ Returns("replacement") /\ HandOff("block")
  /\ UNCHANGED <<kernelVars, ranInHandler, timeoutOk, irqWakeOk, waitDone, waitCancelled>>

-----------------------------------------------------------------------------
(***************************************************************************)
(* The interrupt handlers                                                  *)
(***************************************************************************)
\* SOFT_INT0 begins; on_software_interrupt only counts.
SoftInterrupt ==
  /\ swi /\ handler = "off"
  /\ swi' = FALSE
  /\ handler' = "entered"
  /\ inHandler' = TRUE
  /\ UNCHANGED <<kernelVars, kernel, line, step, objectVars, waitVars, handing, armed, posted,
                 ranInHandler, taskFlags, missed, verdict, lost>>

\* Variant: the handler posts before main has armed it.
PostsUnarmed == ~posted

Posts == armed /\ ~posted

\* The one post, between a nested interrupt_enter and interrupt_exit.
HandlerPosts ==
  /\ handler = "entered"
  /\ IF Posts
     THEN /\ posted' = TRUE
          /\ handler' = "posted"
          /\ IF kernel = "wake lost" THEN UNCHANGED <<ready, count, waitVars>>
             ELSE Up("irq semaphore")
     ELSE /\ handler' = "leaving"
          /\ UNCHANGED <<posted, ready, count, waitVars>>
  /\ UNCHANGED <<current, priority, timer, kernel, line, step, handle, live, issued,
                 mutexOwner, handing, swi, armed, inHandler, ranInHandler, taskFlags,
                 missed, verdict, lost>>

\* On a wrong kernel the task that was woken runs to its end first.
NestedExit ==
  /\ handler = "posted"
  /\ kernel = "nested switch" => outcome["irq"] = "none"
  /\ handler' = "leaving"
  /\ UNCHANGED <<kernelVars, kernel, line, step, objectVars, waitVars, handing, swi, irqFlags,
                 taskFlags, missed, verdict, lost>>

\* IN_HANDLER is cleared before the outermost interrupt_exit, which switches.
HandlerLeaves ==
  /\ handler = "leaving"
  /\ inHandler' = FALSE
  /\ handler' = "off"
  /\ handing' = "no"
  /\ CASE handing = "yield" -> Dispatch(Append(ready, current), priority)
       [] handing = "block" -> Dispatch(ready, priority)
       [] OTHER -> InterruptExit(ready, current # "main", FALSE)
  /\ UNCHANGED <<priority, timer, kernel, line, step, objectVars, waitVars, swi, armed, posted,
                 ranInHandler, taskFlags, missed, verdict, lost>>

\* Time passes: for the idle task, and at most Delay ticks for another.  A tick
\* that ends a sleep or a wait is TIMER_INT0.
TimePasses ==
  LET late == {t \in Due : t # "main"} IN
  /\ handler = "off" /\ handing = "no"
  /\ \/ current = Idle /\ (\E t \in Tasks : timer[t] > 0) /\ UNCHANGED lost
     \/ current # Idle /\ lost < Delay /\ lost' = lost + 1
  /\ Tick(current # "main", FALSE)
  /\ waitsFor' = [t \in Workers |-> IF t \in late THEN NoHandle ELSE waitsFor[t]]
  /\ outcome' = [t \in Workers |->
       IF t \notin late THEN outcome[t]
       ELSE IF kernel = "timeout acquires" THEN "acquired" ELSE "timed out"]
  /\ timeouts' = timeouts + Cardinality(late)
  /\ UNCHANGED <<kernel, line, step, objectVars, wakes, irqVars, irqFlags, taskFlags, missed,
                 verdict>>

-----------------------------------------------------------------------------
(***************************************************************************)
(* main, a sequence of calls.  `must`: main panics on any other result;    *)
(* `want`: the result that counts for the second marker.                   *)
(***************************************************************************)
Must(call, on, result) == [call |-> call, on |-> on, want |-> result, must |-> TRUE]
Want(call, on, result) == [call |-> call, on |-> on, want |-> result, must |-> FALSE]

Script == <<
  Must("spawn", "timeout", "ok"), Must("yield", "main", "ok"),
  Must("spawn", "irq", "ok"), Must("yield", "main", "ok"),
  Must("arm", "main", "ok"), Must("pend", "main", "ok"), Must("sleep", "main", "ok"),
  \* lines 219-248
  Must("create", "semaphore", "ok"), Must("spawn", "resource", "ok"),
  Must("yield", "main", "ok"),
  Want("started", "resource", "ok"),
  Want("destroy", "semaphore", "invalid context"),
  Must("up", "semaphore", "ok"),          \* with the scheduler locked,
  Want("cancel", "resource", "cancelled"),  \* and so is this
  Must("yield", "main", "ok"),
  Want("done", "resource", "ok"),
  \* lines 250-278
  Want("destroy", "semaphore", "ok"), Want("destroy", "semaphore", "invalid handle"),
  Want("up", "semaphore", "invalid handle"),
  Must("create", "second semaphore", "ok"), Want("differs", "second semaphore", "ok"),
  Want("destroy", "second semaphore", "ok"),
  Want("cancel", "resource", "invalid handle"),
  Must("spawn", "replacement", "ok"), Must("yield", "main", "ok"),
  Want("differs", "replacement", "ok"), Want("cancel", "resource", "invalid handle"),
  \* lines 280-295
  Must("create", "mutex", "ok"), Want("lock", "mutex", "ok"),
  Want("destroy", "mutex", "invalid context"), Must("unlock", "mutex", "ok"),
  Want("destroy", "mutex", "ok"), Want("destroy", "mutex", "invalid handle"),
  Want("lock", "mutex", "invalid handle")
>>

PriorityOf == [timeout |-> 2, irq |-> 3, resource |-> 4, replacement |-> 4]

Truth(b) == IF b THEN "ok" ELSE "no"

\* What into_raw and task handles are compared with.
Former(name) == IF name = "replacement" THEN "resource" ELSE "semaphore"

\* External, but for "started", "done" and "differs", which main compares: the
\* result of a call.
Result(row) ==
  CASE row.call \in {"up", "unlock"} -> IF Valid(row.on) THEN "ok" ELSE "invalid handle"
    [] row.call = "lock" ->
         IF ~Valid(row.on) THEN "invalid handle" ELSE Truth(mutexOwner = Idle)
    [] row.call = "destroy" ->
         IF ~Valid(row.on) THEN "invalid handle"
         ELSE IF Busy(row.on) THEN "invalid context" ELSE "ok"
    [] row.call = "cancel" ->
         IF ~Valid(row.on) THEN "invalid handle"
         ELSE IF Cancellable(row.on) THEN "cancelled" ELSE "not waiting"
    [] row.call = "started" -> Truth(waitStarted)
    [] row.call = "done" -> Truth(waitDone /\ waitCancelled)
    [] row.call = "differs" -> Truth(handle[row.on] # handle[Former(row.on)])
    [] OTHER -> "ok"

\* External: what a call that is accepted does to the kernel's objects.
Objects(row) ==
  IF row.call \in {"create", "spawn"} THEN Issue(row.on) /\ UNCHANGED <<count, mutexOwner>>
  ELSE IF row.call = "destroy" /\ Result(row) = "ok"
  THEN /\ live' = live \ {handle[row.on]}
       /\ count' = count \ {handle[row.on]}
       /\ UNCHANGED <<handle, issued, mutexOwner>>
  ELSE IF row.call = "lock" /\ Result(row) = "ok"
  THEN mutexOwner' = "main" /\ UNCHANGED <<handle, live, issued, count>>
  ELSE IF row.call = "unlock"
  THEN mutexOwner' = Idle /\ UNCHANGED <<handle, live, issued, count>>
  ELSE UNCHANGED objectVars

\* External: the wait of a cancelled task ends, as by its time limit, and a
\* token that it was granted stays with it.
Cancel(t) ==
  IF waitsFor[t] = NoHandle
  THEN /\ outcome' = [outcome EXCEPT ![t] =
            IF kernel = "cancelled acquires" THEN @ ELSE "timed out"]
       /\ UNCHANGED <<waitsFor, timeouts, wakes, ready>>
  ELSE /\ waitsFor' = [waitsFor EXCEPT ![t] = NoHandle]
       /\ outcome' = [outcome EXCEPT ![t] = "timed out"]
       /\ ready' = Append(ready, t)
       /\ UNCHANGED <<timeouts, wakes>>

\* The queue, the waits and the handing over of the CPU.
Scheduling(row) ==
  CASE row.call = "up" /\ Result(row) = "ok" ->
         /\ Up(row.on)
         /\ UNCHANGED <<current, priority, timer, irqVars, handle, live, issued, mutexOwner>>
    [] row.call = "cancel" /\ Result(row) = "cancelled" ->
         /\ Cancel(row.on)
         /\ UNCHANGED <<current, priority, timer, irqVars, objectVars>>
    [] row.call = "spawn" ->
         Spawn(row.on, PriorityOf[row.on]) /\ Objects(row) /\ UNCHANGED <<waitVars, irqVars>>
    [] row.call = "yield" ->
         HandOff("yield") /\ UNCHANGED <<kernelVars, objectVars, waitVars>>
    [] row.call = "sleep" ->
         /\ timer' = [timer EXCEPT !["main"] = SleepTicks]
         /\ HandOff("block")
         /\ UNCHANGED <<current, ready, priority, objectVars, waitVars>>
    [] row.call = "pend" ->
         swi' = TRUE /\ UNCHANGED <<kernelVars, objectVars, waitVars, handing, handler>>
    [] OTHER -> Objects(row) /\ UNCHANGED <<kernelVars, waitVars, irqVars>>

\* The line after an unwrap that panics: main executes no other.
Panicked == Len(Script) + 2

MainCalls ==
  LET row == Script[line] IN
  /\ Runs("main") /\ line \in DOMAIN Script
  /\ Scheduling(row)
  /\ line' = IF row.must /\ Result(row) # row.want THEN Panicked ELSE line + 1
  /\ missed' = IF Result(row) = row.want THEN missed ELSE missed \union {line}
  /\ armed' = (armed \/ row.call = "arm")
  /\ UNCHANGED <<kernel, step, posted, inHandler, ranInHandler, taskFlags, verdict, lost>>

MainReports ==
  /\ Runs("main") /\ line = Len(Script) + 1 /\ verdict.scheduler = "none"
  /\ verdict' =
       [scheduler |-> IF /\ timeoutOk /\ irqWakeOk /\ ~ranInHandler /\ posted
                         /\ timeouts # 0 /\ wakes # 0
                      THEN "ok" ELSE "fail",
        lifecycle |-> IF missed = {} THEN "ok" ELSE "fail"]
  /\ UNCHANGED <<kernelVars, kernel, line, step, objectVars, waitVars, irqVars, irqFlags,
                 taskFlags, missed, lost>>

Main == MainCalls \/ MainReports
Worker ==
  \/ Waits("timeout", "timeout semaphore", WaitTicks)
  \/ Waits("irq", "irq semaphore", 0)
  \/ Waits("resource", "semaphore", 0)
  \/ TimeoutEnds \/ IrqEnds \/ ResourceEnds \/ ReplacementEnds
Interrupt == SoftInterrupt \/ HandlerPosts \/ NestedExit \/ HandlerLeaves

Next == Main \/ Worker \/ Interrupt \/ TimePasses

\* The CPU executes the task or the handler that has it, and time goes on.
Fairness == WF_vars(Next)

Spec == Init /\ [][Next]_vars /\ Fairness

-----------------------------------------------------------------------------
\* The image is a right test of the kernel.  On a conforming kernel both markers
\* say OK, wherever the interrupts fall; and no marker says OK on a kernel that
\* is wrong in what it is about: waits that end, by time or from a handler and
\* in no handler; handles, waiters and owners through the life of an object.
VerdictRight ==
  /\ kernel = "conforming" => <>(verdict = [scheduler |-> "ok", lifecycle |-> "ok"])
  /\ [](verdict.scheduler = "ok" => kernel \notin WaitFaults)
  /\ [](verdict.lifecycle = "ok" => kernel \notin LifecycleFaults)
=============================================================================
