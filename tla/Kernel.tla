------------------------------- MODULE Kernel -------------------------------
(***************************************************************************)
(* External: the scheduler under the fixtures rtos_*, as they use it       *)
(* (hisi-rtos, whose source is not in this repository).  One task has the  *)
(* CPU, the others that could run are in a queue; the best priority is the *)
(* lowest number, and tasks of equal priority take turns.  A task in       *)
(* neither place has not been spawned, is blocked, or has returned.  The   *)
(* reset code is adopted as the task "main", the last in priority and      *)
(* cooperative: only its own calls take the CPU from it.                   *)
(*                                                                         *)
(* Time is counted in ticks, of a length that the fixture chooses.  A tick *)
(* that wakes a task is the timer interrupt.                               *)
(***************************************************************************)
EXTENDS Integers, Sequences, SequencesExt

CONSTANTS
  Tasks,  \* the tasks of the image
  Idle    \* the reserved idle task

\* Of the constants: RtosFixtures assumes it.
KernelAssumption == IsFiniteSet(Tasks) /\ "main" \in Tasks /\ Idle \notin Tasks

VARIABLES
  current,   \* who has the CPU
  ready,     \* the queue of the tasks that could run
  priority,  \* the effective priorities
  timer      \* the ticks after which the timer wakes a task, or 0

kernelVars == <<current, ready, priority, timer>>

MainPriority == 31

KernelInit ==
  /\ current = "main"
  /\ ready = <<>>
  /\ priority = [t \in Tasks |-> MainPriority]
  /\ timer = [t \in Tasks |-> 0]

\* The place in queue q of the first task of those with the best priority.
Best(q, prio) ==
  CHOOSE i \in DOMAIN q : \A j \in DOMAIN q :
    prio[q[i]] < prio[q[j]] \/ (prio[q[i]] = prio[q[j]] /\ i <= j)

\* The CPU goes to the best of queue q, by the priorities prio, or to the idle
\* task.
Dispatch(q, prio) ==
  IF q = <<>>
  THEN current' = Idle /\ ready' = q
  ELSE current' = q[Best(q, prio)] /\ ready' = RemoveAt(q, Best(q, prio))

\* The calls of the running task: yield_now, sleep_ms, and a wait or a return.
YieldNow ==
  Dispatch(Append(ready, current), priority) /\ UNCHANGED <<priority, timer>>

Sleep(ticks) ==
  /\ timer' = [timer EXCEPT ![current] = ticks]
  /\ UNCHANGED priority
  /\ Dispatch(ready, priority)

Leave == Dispatch(ready, priority) /\ UNCHANGED <<priority, timer>>

\* spawn: it does not take the CPU from the caller.
Spawn(t, prio) ==
  /\ priority' = [priority EXCEPT ![t] = prio]
  /\ ready' = Append(ready, t)
  /\ UNCHANGED <<current, timer>>

\* interrupt_exit with queue q: a task that may be preempted loses the CPU to
\* a better one, and with `rotate`, its slice over, to an equal one.
InterruptExit(q, preemptible, rotate) ==
  IF current = Idle THEN Dispatch(q, priority)
  ELSE IF preemptible /\ \E t \in Range(q) :
            priority[t] < priority[current] + (IF rotate THEN 1 ELSE 0)
       THEN Dispatch(Append(q, current), priority)
       ELSE ready' = q /\ UNCHANGED current

\* The tasks that the next tick wakes.
Due == {t \in Tasks : timer[t] = 1}

\* A tick, with on_timer_interrupt and interrupt_exit where something is due.
Tick(preemptible, rotate) ==
  /\ timer' = [t \in Tasks |-> IF timer[t] > 0 THEN timer[t] - 1 ELSE 0]
  /\ UNCHANGED priority
  /\ InterruptExit(ready \o SetToSeq(Due), preemptible, rotate)
=============================================================================
