--------------------------- MODULE RtosPreemption ---------------------------
(***************************************************************************)
(* rtos_preemption/src/main.rs: two workers of equal priority keep a value *)
(* of their own in ft0 through a long loop, while the timer interrupt,     *)
(* whose handler overwrites ft0, makes them take turns; main looks at their*)
(* counters after half a second.                                           *)
(*                                                                         *)
(* The kernel under test saves the floating-point registers `saved` of the *)
(* task it interrupts, and takes the CPU from a task whose slice is over or*)
(* not.  A tick is a slice of 5 milliseconds; the loop of retain_ft0 takes *)
(* LoopTicks of them, and anything else no time.                           *)
(***************************************************************************)
EXTENDS Kernel

CONSTANTS
  Registers,     \* the floating-point registers; the one of the test is "ft0"
  LoopTicks,     \* ticks of one retain_ft0
  FirstSleep, MainSleep,  \* main's two sleeps, in ticks
  MaxCount       \* bound: LOOPS and FAILURES (in the code the range of u32)

\* Of the constants: RtosFixtures assumes it.
PreemptionAssumption ==
  /\ "ft0" \in Registers
  /\ {"worker0", "worker1"} \subseteq Tasks
  /\ {LoopTicks, FirstSleep, MainSleep, MaxCount} \subseteq Nat \ {0}

VARIABLES
  saved,     \* the registers that the kernel's trap frame holds
  slices,    \* the kernel ends slices
  step,      \* the next statement of each task
  ft0,       \* the register: the worker whose value it holds, or "none"
  frame,     \* what the trap frame of each worker holds for ft0
  left,      \* the ticks that a worker's loop has to go; -1: one passed outside
  spoilt,    \* a worker's last loop ended with a foreign value in ft0
  loops, failures,  \* LOOPS and FAILURES
  preemptions,      \* the kernel's diagnostics().time_slice_preemptions
  seenLoops, seenFailures,  \* main's copies
  verdict,   \* the marker that main prints last, or "none"
  corrupted  \* history: LOOPS counts such a loop

counters == <<loops, failures, preemptions>>
report == <<seenLoops, seenFailures, verdict>>
imageVars == <<saved, slices, step, ft0, frame, left, spoilt, counters, report, corrupted>>
vars == <<kernelVars, imageVars>>

Workers == {"worker0", "worker1"}

Init ==
  /\ KernelInit
  /\ saved \in SUBSET Registers
  /\ slices \in BOOLEAN
  /\ step = [t \in Workers \union {"main"} |-> "start"]
  /\ ft0 = "none"
  /\ frame = [w \in Workers |-> "none"]
  /\ left = [w \in Workers |-> 0]
  /\ spoilt = [w \in Workers |-> FALSE]
  /\ loops = [w \in Workers |-> 0] /\ failures = 0 /\ preemptions = 0
  /\ seenLoops = [w \in Workers |-> 0] /\ seenFailures = 0
  /\ verdict = "none"
  /\ corrupted = FALSE

At(t, s) == current = t /\ step[t] = s
Goto(t, s) == step' = [step EXCEPT ![t] = s]

\* Variant: wrapping_add.
CountWrapping(n) == (n + 1) % (MaxCount + 1)

\* saturating_add.
Count(n) == IF n < MaxCount THEN n + 1 ELSE n

-----------------------------------------------------------------------------
(***************************************************************************)
(* worker                                                                  *)
(***************************************************************************)
\* retain_ft0 loads its value ...
Loads(w) ==
  /\ At(w, "start")
  /\ ft0' = w
  /\ left' = [left EXCEPT ![w] = LoopTicks]
  /\ Goto(w, "looping")
  /\ UNCHANGED <<kernelVars, saved, slices, frame, spoilt, counters, report, corrupted>>

\* ... and compares it after the loop.
Reads(w) ==
  /\ At(w, "looping") /\ left[w] <= 0
  /\ spoilt' = [spoilt EXCEPT ![w] = ft0 # w]
  /\ Goto(w, "compared")
  /\ UNCHANGED <<kernelVars, saved, slices, ft0, frame, left, counters, report, corrupted>>

\* The two critical sections at the end of a turn.
CountsFailure(w) ==
  /\ At(w, "compared")
  /\ failures' = IF spoilt[w] THEN Count(failures) ELSE failures
  /\ Goto(w, "counting")
  /\ UNCHANGED <<kernelVars, saved, slices, ft0, frame, left, spoilt, loops, preemptions,
                 report, corrupted>>

CountsLoop(w) ==
  /\ At(w, "counting")
  /\ loops' = [loops EXCEPT ![w] = Count(@)]
  /\ corrupted' = (corrupted \/ spoilt[w])
  /\ Goto(w, "start")
  /\ UNCHANGED <<kernelVars, saved, slices, ft0, frame, left, spoilt, failures,
                 preemptions, report>>

-----------------------------------------------------------------------------
(***************************************************************************)
(* TIMER_INT0, at the end of a tick                                        *)
(***************************************************************************)
\* The trap frame takes ft0 of the interrupted worker, the handler overwrites
\* the register, and the frame of the task that goes on gives it back.
TIMER_INT0 ==
  LET interrupted == IF current \in Workers /\ "ft0" \in saved
                     THEN [frame EXCEPT ![current] = ft0] ELSE frame
  IN  /\ Tick(current # "main", slices)
      /\ frame' = interrupted
      /\ ft0' = IF current' \in Workers /\ "ft0" \in saved
                THEN interrupted[current'] ELSE "none"

\* Time passes in a worker's loop, at most one tick in the rest of its turn, or
\* while all tasks sleep.
TimePasses ==
  /\ verdict = "none"
  /\ \/ current = Idle /\ UNCHANGED left
     \/ \E w \in Workers :
          /\ current = w /\ left[w] >= 0
          /\ left' = [left EXCEPT ![w] = @ - 1]
  /\ TIMER_INT0
  /\ preemptions' = IF {current, current'} = Workers THEN Count(preemptions) ELSE preemptions
  /\ UNCHANGED <<saved, slices, step, spoilt, loops, failures, report, corrupted>>

-----------------------------------------------------------------------------
(***************************************************************************)
(* main                                                                    *)
(***************************************************************************)
MainSleeps(from, ticks, to) ==
  /\ At("main", from) /\ Sleep(ticks) /\ Goto("main", to)
  /\ UNCHANGED <<saved, slices, ft0, frame, left, spoilt, counters, report, corrupted>>

MainSpawns(from, w, to) ==
  /\ At("main", from) /\ Spawn(w, MainPriority) /\ Goto("main", to)
  /\ UNCHANGED <<saved, slices, ft0, frame, left, spoilt, counters, report, corrupted>>

MainReadsLoops ==
  /\ At("main", "slept") /\ seenLoops' = loops /\ Goto("main", "read loops")
  /\ UNCHANGED <<kernelVars, saved, slices, ft0, frame, left, spoilt, counters, seenFailures,
                 verdict, corrupted>>

MainReadsFailures ==
  /\ At("main", "read loops") /\ seenFailures' = failures
  /\ Goto("main", "read failures")
  /\ UNCHANGED <<kernelVars, saved, slices, ft0, frame, left, spoilt, counters, seenLoops,
                 verdict, corrupted>>

\* The counts of the timer's and the software interrupts are not zero once the
\* two sleeps are over.
MainReports ==
  /\ At("main", "read failures")
  /\ verdict' = IF /\ \A w \in Workers : seenLoops[w] # 0
                   /\ preemptions # 0 /\ seenFailures = 0
                THEN "ok" ELSE "fail"
  /\ Goto("main", "reported")
  /\ UNCHANGED <<kernelVars, saved, slices, ft0, frame, left, spoilt, counters, seenLoops,
                 seenFailures, corrupted>>

Worker(w) == Loads(w) \/ Reads(w) \/ CountsFailure(w) \/ CountsLoop(w)

Main ==
  \/ MainSleeps("start", FirstSleep, "woken")
  \/ MainSpawns("woken", "worker0", "spawned one")
  \/ MainSpawns("spawned one", "worker1", "spawned both")
  \/ MainSleeps("spawned both", MainSleep, "slept")
  \/ MainReadsLoops
  \/ MainReadsFailures
  \/ MainReports

Next == Main \/ TimePasses \/ \E w \in Workers : Worker(w)

\* The CPU executes the task that has it, and time goes on.
Fairness == WF_vars(Next)

Spec == Init /\ [][Next]_vars /\ Fairness

-----------------------------------------------------------------------------
Conforming == "ft0" \in saved /\ slices

\* OK is printed only on a kernel that gives the workers turns and keeps their
\* ft0, and never after the image counted a loop that ended with a foreign
\* value, wherever main interrupted the worker.
OkEarned == verdict = "ok" => Conforming /\ ~corrupted

\* The image prints OK exactly on such a kernel: always there, never elsewhere.
VerdictRight ==
  /\ Conforming => <>(verdict = "ok")
  /\ []OkEarned

\* What the file says of the verdict (lines 3-6): OK only if the trap frame
\* keeps all floating-point registers.
AllRegistersKept == verdict = "ok" => saved = Registers
=============================================================================
